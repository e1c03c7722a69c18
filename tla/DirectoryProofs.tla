-------------------------- MODULE DirectoryProofs --------------------------
(***************************************************************************)
(* As long as no connection passes from one UIN to another, an entry of    *)
(* the registry always names a connection that acts for that UIN. The      *)
(* invariant that carries the proof adds which stages of its life a        *)
(* connection can have an identity in: without it a connection could       *)
(* register with no UIN at all. That part holds whatever the clients do.   *)
(***************************************************************************)
EXTENDS Directory, TLAPS

\* A connection has an identity only while it serves or ends, and always while
\* it signs on.
Identified ==
  \A c \in Conns :
    /\ uin[c] # NoUin => life[c] \in {"up", "joining", "ending"}
    /\ life[c] = "joining" => uin[c] # NoUin

DirBase == DirTypeOK /\ Identified
DirInv == DirBase /\ EntrySound

\* The initial state satisfies the invariant.
LEMMA DirInitial == DirInit => DirInv
  BY DirectoryAssumption
  DEF DirInit, DirInv, DirBase, DirTypeOK, Identified, EntrySound, Lives

\* Every step of a connection preserves the first part,
LEMMA DirStepBase ==
  ASSUME NEW c \in Conns, DirBase, DirStep(c)
  PROVE  DirBase'
<1> USE DirectoryAssumption DEF DirBase, DirTypeOK, Identified, Lives
<1>1. CASE Register(c)  BY <1>1 DEF Register
<1>2. CASE Finish(c)  BY <1>2 DEF Finish
<1>3. CASE Unregister(c)  BY <1>3 DEF Unregister
<1>4. CASE Forget(c)  BY <1>4 DEF Forget
<1>5. CASE Leave(c)  BY <1>5 DEF Leave
<1>6. ASSUME NEW u \in Uins, Assume(c, u) PROVE DirBase'  BY <1>6 DEF Assume
<1>7. CASE Connect(c)  BY <1>7 DEF Connect
<1>8. CASE Drop(c)  BY <1>8 DEF Drop
<1>9. CASE Halt(c)  BY <1>9 DEF Halt
<1>. QED
  BY <1>1, <1>2, <1>3, <1>4, <1>5, <1>6, <1>7, <1>8, <1>9
  DEF DirStep, OwnStep, ForeignStep

LEMMA DirNextBase ==
  ASSUME DirBase, [DirNext]_dirVars
  PROVE  DirBase'
<1>1. ASSUME UNCHANGED dirVars PROVE DirBase'
  BY <1>1 DEF DirBase, DirTypeOK, Identified, dirVars
<1>. QED  BY <1>1, DirStepBase DEF DirNext

\* and the second as well, unless the connection passes on to another UIN.
LEMMA DirStepInv ==
  ASSUME NEW c \in Conns, DirInv, DirStep(c), OneUinEach
  PROVE  DirInv'
<1> USE DirectoryAssumption
    DEF DirInv, DirBase, DirTypeOK, Identified, EntrySound, Lives, OneUinEach
<1>1. CASE Register(c)  BY <1>1 DEF Register
<1>2. CASE Finish(c)  BY <1>2 DEF Finish
<1>3. CASE Unregister(c)  BY <1>3 DEF Unregister
<1>4. CASE Forget(c)  BY <1>4 DEF Forget
<1>5. CASE Leave(c)  BY <1>5 DEF Leave
<1>6. ASSUME NEW u \in Uins, Assume(c, u) PROVE DirInv'  BY <1>6 DEF Assume
<1>7. CASE Connect(c)  BY <1>7 DEF Connect
<1>8. CASE Drop(c)  BY <1>8 DEF Drop
<1>9. CASE Halt(c)  BY <1>9 DEF Halt
<1>. QED
  BY <1>1, <1>2, <1>3, <1>4, <1>5, <1>6, <1>7, <1>8, <1>9
  DEF DirStep, OwnStep, ForeignStep

LEMMA DirNextInv ==
  ASSUME DirInv, [DirNext /\ OneUinEach]_dirVars
  PROVE  DirInv'
<1>1. ASSUME UNCHANGED dirVars PROVE DirInv'
  BY <1>1 DEF DirInv, DirBase, DirTypeOK, Identified, EntrySound, dirVars
<1>. QED  BY <1>1, DirStepInv DEF DirNext

\* As long as no connection passes from one UIN to another, the registry never
\* answers a look-up with a connection that acts for another UIN or for none.
THEOREM DirectoryIsSound == DirSpec /\ [][OneUinEach]_dirVars => []EntrySound
<1>1. DirInv /\ [DirNext /\ OneUinEach]_dirVars => DirInv'  BY DirNextInv
<1>2. DirInv => EntrySound  BY DEF DirInv
<1>. QED  BY <1>1, <1>2, DirInitial, PTL DEF DirSpec

=============================================================================
