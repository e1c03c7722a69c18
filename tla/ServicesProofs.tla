--------------------------- MODULE ServicesProofs ---------------------------
(***************************************************************************)
(* Proofs about seven of the services that MCServices checks on one        *)
(* instance, for every value of their constants: the scanner of Rtf, the   *)
(* typing marks, the profile of an account, the accounts themselves, who   *)
(* is visible to whom, the search, and the items of a message.             *)
(***************************************************************************)
EXTENDS Rtf, Typing, Profiles, Accounts, Visibility, Search, Tlvs,
        SequenceTheorems, FiniteSetTheorems, WellFoundedInduction, TLAPS

----------------------------------------------------------------------------
(* The scanner, for texts of any length and groups of any depth: its two   *)
(* integers do the work of a stack.                                        *)

\* The depth is that of the stack, and skipFrom the lowest group on it that is
\* to be skipped.
StackInv ==
  /\ depth = Len(groups)
  /\ skipFrom = -1 => Shown
  /\ skipFrom # -1 =>
       /\ skipFrom \in 1 .. depth
       /\ groups[skipFrom] = "skipped"
       /\ \A i \in 1 .. skipFrom - 1 : groups[i] = "shown"

\* The inductive invariant.
RtfInv == RtfTypeOK /\ StackInv /\ NothingLeaks

LEMMA GroupsTyped ==
  ASSUME RtfTypeOK
  PROVE  /\ DOMAIN groups = 1 .. Len(groups) /\ Len(groups) \in Nat
         /\ groups = <<>> <=> Len(groups) = 0
         /\ \A i \in 1 .. Len(groups) : groups[i] \in Kinds
BY LenProperties, EmptySeq, ElementOfSeq DEF RtfTypeOK

LEMMA StackSkips ==
  ASSUME RtfTypeOK, StackInv PROVE SkipsExactly
<1>1. CASE skipFrom = -1
  BY <1>1 DEF StackInv, SkipsExactly
<1>2. CASE skipFrom # -1
  <2>1. skipFrom \in DOMAIN groups /\ groups[skipFrom] = "skipped" /\ ~(skipFrom < 0)
    BY <1>2, GroupsTyped DEF StackInv
  <2> QED
    BY <2>1 DEF Shown, SkipsExactly
<1> QED
  BY <1>1, <1>2

\* A group begins on top of the stack.
LEMMA OpenStep ==
  ASSUME RtfInv, NEW kind \in Kinds, OpenGroup(kind) PROVE RtfInv'
<1> USE DEF RtfInv
<1>1. /\ Len(groups) \in Nat /\ depth = Len(groups)
      /\ \A i \in 1 .. Len(groups) : groups[i] \in Kinds
      /\ DOMAIN groups = 1 .. Len(groups)
  BY GroupsTyped DEF StackInv
<1>2. /\ groups' \in Seq(Kinds) /\ Len(groups') = Len(groups) + 1
      /\ DOMAIN groups' = 1 .. Len(groups) + 1
      /\ \A i \in 1 .. Len(groups) : groups'[i] = groups[i]
      /\ groups'[Len(groups) + 1] = kind
  <2>1. groups \in Seq(Kinds) /\ groups' = Append(groups, kind)
    BY DEF RtfTypeOK, OpenGroup
  <2> QED
    BY <2>1, AppendProperties, LenProperties
<1>3. depth' = depth + 1 /\ skipFrom' = (IF skipFrom < 0 /\ kind = "skipped" THEN depth + 1 ELSE skipFrom)
      /\ UNCHANGED <<out, text>>
  BY DEF OpenGroup
<1>4. RtfTypeOK' /\ NothingLeaks'
  BY <1>1, <1>2, <1>3 DEF RtfTypeOK, NothingLeaks
<1>5. StackInv'
  <2>1. CASE skipFrom = -1
    <3>1. \A i \in 1 .. Len(groups) : groups'[i] = "shown"
      BY <1>1, <1>2, <2>1 DEF StackInv, Shown
    <3>2. CASE kind = "skipped"
      BY <1>1, <1>2, <1>3, <2>1, <3>1, <3>2 DEF StackInv, Shown
    <3>3. CASE kind = "shown"
      BY <1>1, <1>2, <1>3, <2>1, <3>1, <3>3 DEF StackInv, Shown
    <3> QED
      BY <3>2, <3>3 DEF Kinds
  <2>2. CASE skipFrom # -1
    <3>1. skipFrom \in 1 .. depth /\ skipFrom' = skipFrom
      BY <1>1, <1>3, <2>2 DEF StackInv
    <3> QED
      BY <1>1, <1>2, <1>3, <2>2, <3>1 DEF StackInv
  <2> QED
    BY <2>1, <2>2
<1> QED
  BY <1>4, <1>5

\* A group ends: the top of the stack goes, if there is one.
LEMMA CloseStep ==
  ASSUME RtfInv, CloseGroup PROVE RtfInv'
<1> USE DEF RtfInv
<1>1. /\ Len(groups) \in Nat /\ depth = Len(groups)
      /\ DOMAIN groups = 1 .. Len(groups)
      /\ groups = <<>> <=> Len(groups) = 0
  BY GroupsTyped DEF StackInv
<1>2. UNCHANGED <<out, text>> /\ skipFrom' = (IF skipFrom >= 0 /\ depth = skipFrom THEN -1 ELSE skipFrom)
      /\ depth' = IF depth > 0 THEN depth - 1 ELSE depth
  BY DEF CloseGroup
<1>3. CASE groups = <<>>
  <2>1. groups' = groups /\ depth = 0
    BY <1>1, <1>3 DEF CloseGroup
  <2>2. skipFrom = -1
    BY <2>1 DEF StackInv
  <2> QED
    BY <1>2, <2>1, <2>2 DEF RtfTypeOK, StackInv, Shown, NothingLeaks
<1>4. CASE groups # <<>>
  <2>1. groups' = SubSeq(groups, 1, Len(groups) - 1) /\ depth > 0 /\ depth' = depth - 1
    BY <1>1, <1>2, <1>4 DEF CloseGroup
  <2>2. /\ groups' \in Seq(Kinds) /\ Len(groups') = Len(groups) - 1
        /\ \A i \in 1 .. Len(groups) - 1 : groups'[i] = groups[i]
    <3>1. \A i \in 1 .. Len(groups) - 1 : groups[i] \in Kinds
      BY GroupsTyped, <1>1
    <3> HIDE DEF RtfInv
    <3> QED
      BY <1>1, <1>4, <2>1, <3>1, SubSeqProperties
  <2>3. DOMAIN groups' = 1 .. Len(groups) - 1
    BY <2>2, LenProperties
  <2>4. RtfTypeOK' /\ NothingLeaks'
    BY <1>1, <1>2, <2>1, <2>2 DEF RtfTypeOK, NothingLeaks
  <2>5. depth \in Nat /\ depth > 0 /\ depth' = depth - 1 /\ depth = Len(groups)
        /\ Len(groups') = depth' /\ DOMAIN groups' = 1 .. depth'
        /\ \A i \in 1 .. depth' : groups'[i] = groups[i]
    BY <1>1, <2>1, <2>2, <2>3
  <2>6. CASE skipFrom = -1
    <3>1. skipFrom' = -1
      BY <1>2, <2>6
    <3>2. \A i \in 1 .. depth' : groups[i] = "shown"
      BY <1>1, <2>5, <2>6 DEF StackInv, Shown
    <3> QED
      BY <2>4, <2>5, <3>1, <3>2 DEF StackInv, Shown
  <2>7. CASE skipFrom # -1
    <3>1. /\ skipFrom \in 1 .. depth /\ groups[skipFrom] = "skipped"
          /\ \A i \in 1 .. skipFrom - 1 : groups[i] = "shown"
      BY <2>7 DEF StackInv
    <3>2. CASE skipFrom = depth
      <4>1. skipFrom' = -1
        BY <1>2, <2>5, <3>2
      <4>2. \A i \in 1 .. depth' : groups'[i] = "shown"
        BY <2>5, <3>1, <3>2
      <4> QED
        BY <2>4, <2>5, <4>1, <4>2 DEF StackInv, Shown
    <3>3. CASE skipFrom # depth
      <4>1. skipFrom' = skipFrom /\ skipFrom \in 1 .. depth'
        BY <1>2, <2>5, <3>1, <3>3
      <4>2. \A i \in 1 .. skipFrom : i \in 1 .. depth'
        BY <2>5, <4>1
      <4> QED
        BY <2>4, <2>5, <3>1, <4>1, <4>2 DEF StackInv
    <3> QED
      BY <3>2, <3>3
  <2> QED
    BY <2>6, <2>7
<1> QED
  BY <1>3, <1>4

\* A character is written if and only if it is to be shown.
LEMMA EmitStep ==
  ASSUME RtfInv, NEW letter \in Letters, NEW b \in Letters \cup {"utf8"}, Emit(letter, b)
  PROVE  RtfInv'
<1> USE DEF RtfInv
<1>1. UNCHANGED <<depth, skipFrom, groups>>
  BY DEF Emit
<1>2. skipFrom < 0 <=> Shown
  BY StackSkips DEF SkipsExactly
<1>3. out \in Seq(Letters \cup {"utf8"}) /\ text \in Seq(Letters)
  BY DEF RtfTypeOK
<1>4. /\ out' \in Seq(Letters \cup {"utf8"}) /\ text' \in Seq(Letters)
      /\ Len(out') = Len(text')
  <2>1. CASE Shown
    <3>1. out' = Append(out, b) /\ text' = Append(text, letter)
      BY <1>2, <2>1 DEF Emit
    <3>2. /\ out' \in Seq(Letters \cup {"utf8"}) /\ text' \in Seq(Letters)
          /\ Len(out') = Len(out) + 1 /\ Len(text') = Len(text) + 1
      BY <1>3, <3>1, AppendProperties
    <3> QED
      BY <3>2 DEF NothingLeaks
  <2>2. CASE ~Shown
    BY <1>2, <1>3, <2>2 DEF Emit, NothingLeaks
  <2> QED
    BY <2>1, <2>2
<1> QED
  BY <1>1, <1>4 DEF RtfTypeOK, StackInv, Shown, NothingLeaks

LEMMA RtfInitial == RtfInit => RtfInv
BY DEF RtfInit, RtfInv, RtfTypeOK, StackInv, Shown, NothingLeaks

LEMMA RtfStep == RtfInv /\ [RtfNext]_rtfVars => RtfInv'
<1> SUFFICES ASSUME RtfInv, [RtfNext]_rtfVars PROVE RtfInv'
  OBVIOUS
<1>1. CASE Char
  BY <1>1, EmitStep DEF Char, Letters
<1>2. CASE Hex
  BY <1>2, EmitStep DEF Hex
<1>3. CASE Unicode
  BY <1>3, EmitStep DEF Unicode, Letters
<1>4. CASE UNCHANGED rtfVars
  BY <1>4 DEF rtfVars, RtfInv, RtfTypeOK, StackInv, Shown, NothingLeaks
<1> QED
  BY <1>1, <1>2, <1>3, <1>4, OpenStep, CloseStep DEF RtfNext

LEMMA RtfInvariant == RtfSpec => []RtfInv
BY RtfInitial, RtfStep, PTL DEF RtfSpec

\* The depth stays a depth, whatever braces come.
THEOREM ScannerTypes == RtfSpec => []RtfTypeOK
BY RtfInvariant, PTL DEF RtfInv

\* The scanner skips exactly where some open group is to be skipped.
THEOREM SkipsWhereDue == RtfSpec => []SkipsExactly
BY RtfInvariant, StackSkips, PTL DEF RtfInv

\* As much is written as is to be shown: nothing of a skipped group leaks, and
\* nothing outside of one is swallowed.
THEOREM NoLeak == RtfSpec => []NothingLeaks
BY RtfInvariant, PTL DEF RtfInv

----------------------------------------------------------------------------
(* Typing marks, for any writers and channels. A flag that is set, or about*)
(* to be, was asked for; a read that overlaps a write gets one of the two. *)

TypingInv ==
  /\ flags \in [Channels -> BOOLEAN] /\ value \in BOOLEAN
  /\ setting \subseteq Channels /\ writing \in Channels \cup {0}
  /\ reading \in [Writers -> Channels \cup {0}]
  /\ shown \in [Writers -> MarkKinds] /\ mark \in [Writers -> MarkKinds]
  /\ \A f \in underWay : f.from \in Writers /\ f.kind \in MarkKinds
  /\ \A h \in Channels : flags[h] => h \in asked
  /\ value => setting \subseteq asked /\ writing \in asked \cup {0}
  /\ AskedFor

LEMMA TypingInitial == TypingInit => TypingInv
BY DEF TypingInit, TypingInv, AskedFor, MarkKinds

LEMMA TypingStep == TypingInv /\ [TypingNext]_typingVars => TypingInv'
<1> SUFFICES ASSUME TypingInv, [TypingNext]_typingVars PROVE TypingInv'
  OBVIOUS
<1> USE TypingAssumption DEF TypingInv, AskedFor, MarkKinds
<1>0. 0 \notin Channels
  OBVIOUS
<1>1. ASSUME NEW hs \in SUBSET Channels, NEW b \in BOOLEAN, SetFlags(hs, b)
      PROVE  TypingInv'
  BY <1>1 DEF SetFlags, client
<1>2. ASSUME NEW h \in Channels, BeginWrite(h) PROVE TypingInv'
  BY <1>2 DEF BeginWrite, client
<1>3. CASE EndWrite
  BY <1>0, <1>3 DEF EndWrite, client
<1>4. ASSUME NEW w \in Writers, NEW h \in Channels, NEW k \in MarkKinds, BeginRead(w, h, k)
      PROVE  TypingInv'
  BY <1>4 DEF BeginRead, owner, client
<1>5. ASSUME NEW w \in Writers, EndRead(w) PROVE TypingInv'
  <2>1. PICK due \in Read(reading[w]) :
          IF due
          THEN /\ underWay' = underWay \cup
                    {[from |-> w, kind |-> mark[w], channel |-> reading[w], nr |-> count]}
               /\ UNCHANGED shown
          ELSE UNCHANGED <<underWay, shown>>
    BY <1>5 DEF EndRead, client
  <2>2. reading[w] \in Channels /\ UNCHANGED <<flags, setting, value, writing, asked, mark>>
    BY <1>5 DEF EndRead, owner
  <2>3. due => reading[w] \in asked
    BY <1>0, <2>2 DEF Read
  <2>4. reading' \in [Writers -> Channels \cup {0}]
    BY <1>5 DEF EndRead
  <2> QED
    BY <2>1, <2>2, <2>3, <2>4
<1>6. ASSUME NEW f \in underWay, DeliverMark(f) PROVE TypingInv'
  BY <1>6 DEF DeliverMark, owner
<1>7. ASSUME UNCHANGED <<owner, reading, mark, client>> PROVE TypingInv'
  BY <1>7 DEF owner, client
<1>8. CASE Restart
  BY <1>8 DEF Restart
<1>9. "finished" \in MarkKinds /\ 1 \in Channels /\ Channels \in SUBSET Channels
      /\ \A h \in Channels : {h} \in SUBSET Channels
  OBVIOUS
<1> HIDE DEF TypingInv, MarkKinds
<1> QED
  BY <1>1, <1>2, <1>3, <1>4, <1>5, <1>6, <1>7, <1>8, <1>9
  DEF TypingNext, Type, SendMessage, Fatal, typingVars

\* Nobody sends typing marks to a client on a channel it never asked for them on.
THEOREM MarksWereAskedFor == TypingSpec => []AskedFor
<1>1. TypingInv => AskedFor
  BY DEF TypingInv
<1> QED
  BY <1>1, TypingInitial, TypingStep, PTL DEF TypingSpec

----------------------------------------------------------------------------
(* The profile, for any sessions, texts and values. What a session has read*)
(* differs from the row only in texts that others have written since.      *)

Profile == [texts : [Fields -> Values], auth : BOOLEAN]

ProfilesInv ==
  /\ row \in Profile /\ wanted \in Profile
  /\ copy \in [Sessions -> Profile]
  /\ silenced \in BOOLEAN
  /\ missed \in [Sessions -> SUBSET Fields]
  /\ turn \in [Sessions -> {"read", "save"}]
  /\ \A s \in Sessions : turn[s] = "save" =>
       \A f \in Fields \ missed[s] : copy[s].texts[f] = row.texts[f]
  /\ LostToOverlapOnly /\ AuthIsLatest

LEMMA ProfilesInitial == ProfilesInit => ProfilesInv
<1> SUFFICES ASSUME ProfilesInit PROVE ProfilesInv
  OBVIOUS
<1>1. row \in Profile
  <2>1. {[f \in Fields |-> v] : v \in Values} \subseteq [Fields -> Values]
    OBVIOUS
  <2> QED
    BY <2>1 DEF ProfilesInit, Profile
<1> QED
  BY <1>1 DEF ProfilesInit, ProfilesInv, LostToOverlapOnly, AuthIsLatest

\* What a frame makes of a profile.
LEMMA FrameApplied ==
  ASSUME NEW r \in Profile, NEW f \in Frame
  PROVE  /\ Applied(r, f) \in Profile /\ DOMAIN f.texts \subseteq Fields
         /\ Applied(r, f).auth = AuthAfter(f)
         /\ \A x \in Fields : Applied(r, f).texts[x] =
              IF x \in DOMAIN f.texts THEN f.texts[x] ELSE r.texts[x]
<1>1. PICK S \in SUBSET Fields : f.texts \in [S -> Values]
  BY DEF Frame
<1>2. [x \in Fields |-> IF x \in DOMAIN f.texts THEN f.texts[x] ELSE r.texts[x]]
        \in [Fields -> Values]
  BY <1>1 DEF Profile
<1>3. AuthAfter(f) \in BOOLEAN
  BY DEF AuthAfter
<1> QED
  BY <1>1, <1>2, <1>3 DEF Applied, Profile

LEMMA ProfilesStep == ProfilesInv /\ [ProfilesNext]_profileVars => ProfilesInv'
<1> SUFFICES ASSUME ProfilesInv, [ProfilesNext]_profileVars PROVE ProfilesInv'
  OBVIOUS
<1> USE DEF ProfilesInv, LostToOverlapOnly, AuthIsLatest
<1>1. ASSUME NEW s \in Sessions, Load(s) PROVE ProfilesInv'
  BY <1>1 DEF Load
<1>2. ASSUME NEW s \in Sessions, Save(s) PROVE ProfilesInv'
  <2>1. PICK f \in Frame :
          /\ row' = Applied(copy[s], f)
          /\ wanted' = [Applied(wanted, f) EXCEPT !.auth = IF Decides(f) THEN @ ELSE wanted.auth]
          /\ silenced' = ~Decides(f)
          /\ lost' = (lost \cup missed[s]) \ DOMAIN f.texts
    BY <1>2 DEF Save, NewRow
  <2>2. /\ row' \in Profile /\ wanted' \in Profile
        /\ row'.auth = (wanted'.auth /\ ~silenced') /\ silenced' \in BOOLEAN
        /\ \A x \in Fields : row'.texts[x] =
              IF x \in DOMAIN f.texts THEN f.texts[x] ELSE copy[s].texts[x]
        /\ \A x \in Fields : wanted'.texts[x] =
              IF x \in DOMAIN f.texts THEN f.texts[x] ELSE wanted.texts[x]
    <3>1. /\ Applied(copy[s], f) \in Profile /\ Applied(wanted, f) \in Profile
          /\ Applied(copy[s], f).auth = AuthAfter(f) /\ Applied(wanted, f).auth = AuthAfter(f)
          /\ \A x \in Fields : Applied(copy[s], f).texts[x] =
               IF x \in DOMAIN f.texts THEN f.texts[x] ELSE copy[s].texts[x]
          /\ \A x \in Fields : Applied(wanted, f).texts[x] =
               IF x \in DOMAIN f.texts THEN f.texts[x] ELSE wanted.texts[x]
      BY FrameApplied
    <3>2. wanted.auth \in BOOLEAN /\ AuthAfter(f) \in BOOLEAN /\ Decides(f) \in BOOLEAN
      BY DEF Profile, AuthAfter, Decides
    <3>3. /\ wanted' \in Profile /\ wanted'.texts = Applied(wanted, f).texts
          /\ wanted'.auth = IF Decides(f) THEN AuthAfter(f) ELSE wanted.auth
      BY <2>1, <3>1, <3>2 DEF Profile
    <3>4. ~Decides(f) => ~AuthAfter(f)
      BY DEF Decides, AuthAfter
    <3> QED
      BY <2>1, <3>1, <3>2, <3>3, <3>4
  <2>3. turn[s] = "save" /\ UNCHANGED copy /\ turn' = [turn EXCEPT ![s] = "read"]
        /\ missed' = [d \in Sessions |-> IF d # s /\ turn[d] = "save"
                                        THEN missed[d] \cup Fields ELSE {}]
    BY <1>2 DEF Save, Overtake
  <2>4. LostToOverlapOnly'
    BY <2>1, <2>2, <2>3
  <2> QED
    BY <2>2, <2>3, <2>4
<1>3. ASSUME NEW s \in Sessions, SetPerms(s) PROVE ProfilesInv'
  <2>1. PICK b \in BOOLEAN : /\ row' = [row EXCEPT !.auth = b]
                            /\ wanted' = [wanted EXCEPT !.auth = b]
    BY <1>3 DEF SetPerms
  <2>2. silenced' = FALSE /\ UNCHANGED <<turn, copy, missed, lost>>
    BY <1>3 DEF SetPerms
  <2>3. /\ row' \in Profile /\ wanted' \in Profile
        /\ row'.texts = row.texts /\ wanted'.texts = wanted.texts
        /\ row'.auth = b /\ wanted'.auth = b
    BY <2>1 DEF Profile
  <2> QED
    BY <2>2, <2>3
<1>4. CASE AdminNick
  <2>1. PICK v \in Values :
          /\ row' = [row EXCEPT !.texts["nick"] = v]
          /\ wanted' = [wanted EXCEPT !.texts["nick"] = v]
    BY <1>4 DEF AdminNick
  <2>2. /\ row' \in Profile /\ wanted' \in Profile
        /\ row'.auth = row.auth /\ wanted'.auth = wanted.auth
        /\ row'.texts = [row.texts EXCEPT !["nick"] = v]
        /\ wanted'.texts = [wanted.texts EXCEPT !["nick"] = v]
    BY <2>1 DEF Profile
  <2>3. /\ lost' = lost \ {"nick"} /\ UNCHANGED <<turn, copy, silenced>>
        /\ missed' = [s \in Sessions |->
                        IF turn[s] = "save" THEN missed[s] \cup {"nick"} ELSE {}]
    BY <1>4 DEF AdminNick
  <2>4. \A x \in Fields \ {"nick"} : row'.texts[x] = row.texts[x]
                                  /\ wanted'.texts[x] = wanted.texts[x]
    BY <2>2 DEF Profile
  <2>5. row'.texts["nick"] = wanted'.texts["nick"]
    BY <2>2, ProfilesAssumption DEF Profile
  <2>6. missed' \in [Sessions -> SUBSET Fields]
    BY <2>3, ProfilesAssumption
  <2> QED
    BY <2>2, <2>3, <2>4, <2>5, <2>6
<1>5. CASE UNCHANGED profileVars
  BY <1>5 DEF profileVars
<1> QED
  BY <1>1, <1>2, <1>3, <1>4, <1>5 DEF ProfilesNext

LEMMA ProfilesInvariant == ProfilesSpec => []ProfilesInv
BY ProfilesInitial, ProfilesStep, PTL DEF ProfilesSpec

\* A change of a text is undone only by a save that had missed it.
THEOREM OnlyOverlapsLose == ProfilesSpec => []LostToOverlapOnly
BY ProfilesInvariant, PTL DEF ProfilesInv

\* auth_required is what the last request that speaks of it said, but for saves that do
\* not speak of it, which turn it off.
THEOREM AuthHasLastWord == ProfilesSpec => []AuthIsLatest
BY ProfilesInvariant, PTL DEF ProfilesInv

----------------------------------------------------------------------------
(* The accounts, for any clients, runs of adduser and widths. Whose account*)
(* is made keeps a UIN that nobody else was given.                         *)

\* The greatest member of a set of integers below a bound is one of them. (The
\* sets of what lies above each are ordered by inclusion, which is well-founded.)
LEMMA LargestIsMember ==
  ASSUME NEW T \in SUBSET Int64, T # {}
  PROVE  Largest(T) \in T
<1> DEFINE Above(u) == u + 1 .. IntMax
           D == {Above(u) : u \in T}
           R == StrictSubsetOrdering(Int)
           F == FiniteSubsetsOf(Int)
<1>0. ASSUME NEW u \in T PROVE u \in Int /\ u <= IntMax
  <2>1. u \in -IntMax - 1 .. IntMax /\ -IntMax - 1 \in Int /\ IntMax \in Int
    BY AccountsAssumption DEF Int64
  <2> QED
    BY <2>1
<1>1. D \subseteq F
  <2>1. ASSUME NEW u \in T PROVE Above(u) \in F
    <3>1. IsFiniteSet(Above(u))
      BY <1>0, AccountsAssumption, FS_Interval
    <3> QED
      BY <3>1, <1>0, AccountsAssumption DEF FiniteSubsetsOf
  <2> QED
    BY <2>1
<1>2. PICK x \in D : \A y \in D : ~(<<y, x>> \in R)
  <2>1. IsWellFoundedOn(R, F) /\ D # {}
    BY FS_StrictSubsetOrderingWellFounded
  <2> HIDE DEF D, R, F
  <2> QED
    BY <1>1, <2>1, WFMin
<1>3. PICK u \in T : x = Above(u)
  OBVIOUS
<1>4. ASSUME NEW v \in T PROVE v <= u
  <2>1. SUFFICES ASSUME u < v PROVE FALSE
    BY <1>0
  <2>2. Above(v) \subseteq Above(u) /\ v \in Above(u) /\ v \notin Above(v)
    BY <1>0, <2>1, AccountsAssumption
  <2>3. <<Above(v), x>> \in R
    BY <1>0, <1>3, <2>2, AccountsAssumption DEF StrictSubsetOrdering
  <2> QED
    BY <1>2, <2>3
<1> QED
  BY <1>4 DEF Largest

\* A new UIN is an int64.
LEMMA NewUinType == NewUin(Taken) \in Int64
<1>1. /\ IntMax \in Nat /\ NewUinFloor \in Nat /\ 2 * NewUinFloor <= IntMax
      /\ Int64 = -IntMax - 1 .. IntMax
  BY AccountsAssumption DEF Int64
<1> DEFINE next == IF Taken = {} THEN 1 ELSE Wrap(Largest(Taken) + 1)
<1>2. next \in Int64
  <2>1. CASE Taken = {}
    BY <1>1, <2>1, AccountsAssumption
  <2>2. CASE Taken # {}
    <3>1. Largest(Taken) \in Int64
      BY <2>2, LargestIsMember DEF Taken
    <3> QED
      BY <1>1, <2>2, <3>1 DEF Wrap
  <2> QED
    BY <2>1, <2>2
<1>3. NewUin(Taken) = IF next < NewUinFloor THEN next + NewUinFloor ELSE next
  BY DEF NewUin
<1> HIDE DEF next
<1> QED
  BY <1>1, <1>2, <1>3

Made(a) == progress[a] \in {"profile", "answered", "added"}

AccountsInv ==
  /\ users \in [Int64 -> Actors \cup {Factory, NoOne}]
  /\ target \in [Actors -> Int64]
  /\ progress \in [Actors -> {"start", "insert", "profile", "answered", "refused", "lost",
                              "add", "exists", "added", "forced", "failed"}]
  /\ told \in [Clients -> Int64 \cup {NoOne}]
  /\ \A a \in Actors : Made(a) =>
       /\ users[target[a]] # NoOne
       /\ target[a] \notin renewed => users[target[a]] = a
  /\ \A a, b \in Actors : Made(a) /\ Made(b) /\ a # b => target[a] # target[b]
  /\ \A a \in Actors : progress[a] = "exists" => users[target[a]] # NoOne
  /\ \A u \in Defaults :
       /\ users[u] # NoOne
       /\ u \notin renewed => users[u] = Factory
  /\ \A c \in Clients : told[c] # NoOne => progress[c] = "answered" /\ told[c] = OnWire(target[c])
  /\ HalfMadeOnlyWhenBroken

\* The constants that the steps below tell apart.
LEMMA AccountsConstants ==
  /\ Chosen \subseteq Int64 /\ Defaults \subseteq Int64 /\ 0 \in Int64
  /\ \A a \in Actors : a # NoOne
  /\ Factory # NoOne /\ NoOne \notin Int64
  /\ \A u \in Int64 : OnWire(u) \in Int64 /\ (u \in 0 .. WireMax => OnWire(u) = u)
<1>1. IntMax \in Nat /\ WireMax \in Nat /\ WireMax < IntMax /\ Int64 = -IntMax - 1 .. IntMax
  BY AccountsAssumption DEF Int64
<1>2. 0 .. IntMax \subseteq Int64
  BY <1>1
<1>3. \A u \in Int64 : OnWire(u) \in Int64 /\ (u \in 0 .. WireMax => OnWire(u) = u)
  BY <1>1 DEF OnWire
<1> QED
  BY <1>1, <1>2, <1>3, AccountsAssumption DEF Actors

\* What WithDefaults puts in place of no account.
LEMMA DefaultsPut ==
  ASSUME users \in [Int64 -> Actors \cup {Factory, NoOne}]
  PROVE  /\ WithDefaults(users) \in [Int64 -> Actors \cup {Factory, NoOne}]
         /\ \A u \in Int64 : WithDefaults(users)[u] =
              IF u \in Defaults /\ users[u] = NoOne THEN Factory ELSE users[u]
BY DEF WithDefaults

LEMMA AccountsInitial == AccountsInit => AccountsInv
<1> SUFFICES ASSUME AccountsInit PROVE AccountsInv
  OBVIOUS
<1>1. /\ users \in [Int64 -> Actors \cup {Factory, NoOne}]
      /\ \A u \in Int64 : users[u] = IF u \in Defaults THEN Factory ELSE NoOne
  BY DEF AccountsInit, WithDefaults
<1>2. Taken \ profiles = {}
  BY <1>1 DEF AccountsInit, Taken
<1> QED
  BY <1>1, <1>2, AccountsConstants
  DEF AccountsInit, AccountsInv, Made, HalfMadeOnlyWhenBroken, Actors

\* Those who made no account move, and the tables stay as they are.
LEMMA TablesStay ==
  ASSUME AccountsInv, UNCHANGED <<users, profiles, told>>,
         renewed \subseteq renewed', broken \subseteq broken',
         progress' \in [Actors -> {"start", "insert", "profile", "answered", "refused", "lost",
                                  "add", "exists", "added", "forced", "failed"}],
         target' \in [Actors -> Int64],
         \A a \in Actors : Made(a)' => Made(a) /\ target'[a] = target[a],
         \A a \in Actors : progress'[a] = "exists" => users[target'[a]] # NoOne,
         \A c \in Clients : progress[c] \in {"profile", "answered"} =>
           progress'[c] = progress[c] /\ target'[c] = target[c]
  PROVE  AccountsInv'
BY DEF AccountsInv, HalfMadeOnlyWhenBroken, Taken, OnWire, Made, Actors

LEMMA AccountsStep == AccountsInv /\ [AccountsNext]_accountVars => AccountsInv'
<1> SUFFICES ASSUME AccountsInv, [AccountsNext]_accountVars PROVE AccountsInv'
  OBVIOUS
<1>0. Clients \subseteq Actors /\ Admins \subseteq Actors
  BY DEF Actors
<1>1. ASSUME NEW c \in Clients, SelectMax(c) PROVE AccountsInv'
  <2>1. /\ progress' = [progress EXCEPT ![c] = "insert"]
        /\ target' = [target EXCEPT ![c] = NewUin(Taken)]
        /\ progress[c] = "start" /\ UNCHANGED <<users, profiles, told, renewed, broken>>
    BY <1>1 DEF SelectMax, GoTo, tables
  <2> QED
    BY <1>0, <2>1, NewUinType, TablesStay DEF AccountsInv, Made
<1>2. ASSUME NEW c \in Clients, InsertUser(c) PROVE AccountsInv'
  <2>1. CASE users' = users
    <3>1. /\ progress' = [progress EXCEPT ![c] = "refused"] \/ users[target[c]] = c
          /\ progress[c] = "insert" /\ UNCHANGED <<profiles, target, told, renewed, broken>>
      BY <1>0, <1>2, <2>1, AccountsConstants DEF InsertUser, GoTo, AccountsInv
    <3>2. progress' = [progress EXCEPT ![c] = "refused"]
      BY <1>0, <1>2, <2>1, <3>1, AccountsConstants DEF InsertUser, GoTo, AccountsInv
    <3> QED
      BY <1>0, <2>1, <3>1, <3>2, TablesStay DEF AccountsInv, Made
  <2>2. CASE users' # users
    <3>1. /\ users[target[c]] = NoOne /\ users' = [users EXCEPT ![target[c]] = c]
          /\ progress' = [progress EXCEPT ![c] = "profile"] /\ progress[c] = "insert"
          /\ UNCHANGED <<profiles, target, told, renewed, broken>>
      BY <1>2, <2>2 DEF InsertUser, GoTo
    <3>2. target[c] \in Int64 /\ \A u \in Int64 \ {target[c]} : users'[u] = users[u]
      BY <1>0, <3>1 DEF AccountsInv
    <3>3. users'[target[c]] = c /\ c # NoOne
      BY <1>0, <3>1, <3>2, AccountsConstants DEF AccountsInv
    <3>4. users' \in [Int64 -> Actors \cup {Factory, NoOne}]
      BY <1>0, <3>1 DEF AccountsInv
    <3>5. \A a \in Actors \ {c} : Made(a)' <=> Made(a)
      BY <3>1 DEF AccountsInv, Made
    <3>6. \A a \in Actors \ {c} : Made(a) => target[a] # target[c]
      BY <3>1 DEF AccountsInv
    <3>7. HalfMadeOnlyWhenBroken'
      BY <1>0, <3>1, <3>2 DEF AccountsInv, HalfMadeOnlyWhenBroken, Taken
    <3>8. \A a \in Actors : Made(a)' =>
            /\ users'[target'[a]] # NoOne
            /\ target'[a] \notin renewed' => users'[target'[a]] = a
      BY <1>0, <3>1, <3>2, <3>3, <3>5, <3>6 DEF AccountsInv
    <3>9. \A a, b \in Actors : Made(a)' /\ Made(b)' /\ a # b => target'[a] # target'[b]
      BY <1>0, <3>1, <3>5, <3>6 DEF AccountsInv
    <3>10. \A u \in Defaults :
             users'[u] # NoOne /\ (u \notin renewed' => users'[u] = Factory)
      BY <3>1, <3>2, AccountsConstants DEF AccountsInv
    <3> QED
      BY <1>0, <3>1, <3>4, <3>7, <3>8, <3>9, <3>10 DEF AccountsInv, OnWire
  <2> QED
    BY <2>1, <2>2
<1>3. ASSUME NEW c \in Clients, InsertProfile(c) PROVE AccountsInv'
  <2>1. /\ progress' = [progress EXCEPT ![c] = "answered"] /\ progress[c] = "profile"
        /\ told' = [told EXCEPT ![c] = OnWire(target[c])]
        /\ UNCHANGED <<users, target, renewed>>
        /\ profiles \subseteq profiles' /\ broken \subseteq broken'
        /\ target[c] \in profiles' \cup broken'
    BY <1>3 DEF InsertProfile, GoTo
  <2>2. \A a \in Actors : Made(a)' <=> Made(a)
    BY <1>0, <2>1 DEF Made, AccountsInv
  <2>3. told' \in [Clients -> Int64 \cup {NoOne}]
    BY <1>0, <2>1, AccountsConstants DEF AccountsInv
  <2>4. HalfMadeOnlyWhenBroken'
    BY <1>0, <2>1 DEF AccountsInv, HalfMadeOnlyWhenBroken, Taken
  <2> QED
    BY <1>0, <2>1, <2>2, <2>3, <2>4 DEF AccountsInv, OnWire
<1>4. ASSUME NEW u \in Taken, SetPassword(u) PROVE AccountsInv'
  BY <1>4, TablesStay DEF SetPassword, tables, AccountsInv, Made
<1>5. ASSUME NEW a \in Admins, AdminLook(a) PROVE AccountsInv'
  <2>1. PICK u \in Chosen :
          /\ target' = [target EXCEPT ![a] = u]
          /\ progress' = [progress EXCEPT ![a] = IF users[u] = NoOne THEN "add" ELSE "exists"]
    BY <1>5 DEF AdminLook, GoTo
  <2>2. progress[a] = "start" /\ UNCHANGED <<users, profiles, told, renewed, broken>>
    BY <1>5 DEF AdminLook, tables
  <2> QED
    BY <1>0, <2>1, <2>2, AccountsConstants, TablesStay DEF AccountsInv, Made
<1>6. ASSUME NEW a \in Admins, AdminInsert(a) PROVE AccountsInv'
  <2>1. progress[a] = "add" /\ UNCHANGED <<target, told, renewed, broken>>
    BY <1>6 DEF AdminInsert
  <2>2. CASE users[target[a]] # NoOne
    <3>1. progress' = [progress EXCEPT ![a] = "failed"] /\ UNCHANGED <<users, profiles>>
      BY <1>6, <2>2 DEF AdminInsert, GoTo, tables
    <3> QED
      BY <1>0, <2>1, <3>1, TablesStay DEF AccountsInv, Made
  <2>3. CASE users[target[a]] = NoOne
    <3>1. /\ users' = [users EXCEPT ![target[a]] = a]
          /\ profiles' = profiles \cup {target[a]}
          /\ progress' = [progress EXCEPT ![a] = "added"]
      BY <1>6, <2>3 DEF AdminInsert, GoTo
    <3>2. target[a] \in Int64 /\ \A u \in Int64 \ {target[a]} : users'[u] = users[u]
      BY <1>0, <3>1 DEF AccountsInv
    <3>3. users'[target[a]] = a /\ a # NoOne
      BY <1>0, <3>1, <3>2, AccountsConstants DEF AccountsInv
    <3>4. users' \in [Int64 -> Actors \cup {Factory, NoOne}]
      BY <1>0, <3>1 DEF AccountsInv
    <3>5. \A b \in Actors \ {a} : Made(b)' <=> Made(b)
      BY <3>1 DEF AccountsInv, Made
    <3>6. \A b \in Actors \ {a} : Made(b) => target[b] # target[a]
      BY <2>3 DEF AccountsInv
    <3>7. HalfMadeOnlyWhenBroken'
      BY <1>0, <2>1, <3>1, <3>2 DEF AccountsInv, HalfMadeOnlyWhenBroken, Taken
    <3>8. \A b \in Actors : Made(b)' =>
            /\ users'[target'[b]] # NoOne
            /\ target'[b] \notin renewed' => users'[target'[b]] = b
      BY <1>0, <2>1, <3>2, <3>3, <3>5, <3>6 DEF AccountsInv
    <3>9. \A b, d \in Actors : Made(b)' /\ Made(d)' /\ b # d => target'[b] # target'[d]
      BY <1>0, <2>1, <3>5, <3>6 DEF AccountsInv
    <3>10. \A u \in Defaults :
             users'[u] # NoOne /\ (u \notin renewed' => users'[u] = Factory)
      BY <2>1, <2>3, <3>2, AccountsConstants DEF AccountsInv
    <3>11. \A b \in Actors : progress'[b] = "exists" => users'[target'[b]] # NoOne
      <4> SUFFICES ASSUME NEW b \in Actors, progress'[b] = "exists"
                   PROVE  users'[target[b]] # NoOne
        BY <2>1
      <4>1. progress[b] = "exists"
        BY <1>0, <3>1 DEF AccountsInv
      <4>2. users[target[b]] # NoOne /\ target[b] \in Int64
        BY <4>1 DEF AccountsInv
      <4> QED
        BY <2>3, <3>2, <4>2
    <3> QED
      BY <1>0, <2>1, <3>1, <3>4, <3>7, <3>8, <3>9, <3>10, <3>11 DEF AccountsInv, OnWire
  <2> QED
    BY <2>2, <2>3
<1>7. ASSUME NEW a \in Admins, AdminForce(a) PROVE AccountsInv'
  <2>1. progress[a] = "exists" /\ UNCHANGED <<profiles, target, told, broken>>
        /\ users[target[a]] # NoOne
    BY <1>0, <1>7 DEF AdminForce, AccountsInv
  <2>2. CASE UNCHANGED <<users, renewed>> /\ progress' = [progress EXCEPT ![a] = "failed"]
    BY <1>0, <2>1, <2>2, TablesStay DEF AccountsInv, Made
  <2>3. CASE /\ users' = [users EXCEPT ![target[a]] = a]
             /\ renewed' = renewed \cup {target[a]}
             /\ progress' = [progress EXCEPT ![a] = "forced"]
    <3>1. target[a] \in Int64 /\ \A u \in Int64 \ {target[a]} : users'[u] = users[u]
      BY <1>0, <2>3 DEF AccountsInv
    <3>2. users'[target[a]] = a /\ a # NoOne
      BY <1>0, <2>3, <3>1, AccountsConstants DEF AccountsInv
    <3>3. users' \in [Int64 -> Actors \cup {Factory, NoOne}]
      BY <1>0, <2>3 DEF AccountsInv
    <3>4. \A b \in Actors : Made(b)' => Made(b)
      BY <1>0, <2>3 DEF AccountsInv, Made
    <3>5. HalfMadeOnlyWhenBroken'
      BY <1>0, <2>1, <2>3, <3>1 DEF AccountsInv, HalfMadeOnlyWhenBroken, Taken
    <3> QED
      BY <1>0, <2>1, <2>3, <3>1, <3>2, <3>3, <3>4, <3>5, AccountsConstants
      DEF AccountsInv, OnWire
  <2> QED
    BY <1>7, <2>2, <2>3 DEF AdminForce, GoTo
<1>8. CASE Crash
  <2>1. /\ UNCHANGED <<target, told, renewed>> /\ users' = WithDefaults(users)
        /\ profiles' = profiles \cup Defaults
        /\ broken' = (broken \cup {target[c] : c \in {d \in Clients : progress[d] = "profile"}})
                     \ Defaults
        /\ progress' = [a \in Actors |->
                         IF a \in Clients /\ progress[a] \in {"insert", "profile"}
                         THEN "lost" ELSE progress[a]]
    BY <1>8 DEF Crash
  <2>2. \A a \in Actors : Made(a)' => Made(a)
    BY <2>1 DEF Made
  <2>3. /\ users' \in [Int64 -> Actors \cup {Factory, NoOne}]
        /\ \A u \in Int64 : users'[u] =
             IF u \in Defaults /\ users[u] = NoOne THEN Factory ELSE users[u]
    BY <2>1, DefaultsPut DEF AccountsInv
  <2>4. \A u \in Int64 : users[u] # NoOne => users'[u] = users[u]
    BY <2>3
  <2>5. HalfMadeOnlyWhenBroken'
    <3> SUFFICES ASSUME NEW u \in Int64, users'[u] # NoOne, u \notin profiles'
                 PROVE  u \in broken'
      BY DEF HalfMadeOnlyWhenBroken, Taken
    <3>1. u \notin Defaults /\ u \notin profiles
      BY <2>1
    <3>2. u \in Taken \ profiles
      BY <2>3, <3>1 DEF Taken
    <3>3. u \in broken \/ \E c \in Clients : progress[c] = "profile" /\ target[c] = u
      BY <3>2 DEF AccountsInv, HalfMadeOnlyWhenBroken
    <3> QED
      BY <2>1, <3>1, <3>3
  <2>6. progress' \in [Actors -> {"start", "insert", "profile", "answered", "refused", "lost",
                                 "add", "exists", "added", "forced", "failed"}]
    BY <2>1 DEF AccountsInv
  <2>7. \A c \in Clients : told'[c] # NoOne =>
          progress'[c] = "answered" /\ told'[c] = OnWire(target'[c])
    BY <1>0, <2>1 DEF AccountsInv
  <2>8. \A u \in Defaults : users'[u] # NoOne /\ (u \notin renewed' => users'[u] = Factory)
    BY <2>1, <2>4, AccountsConstants DEF AccountsInv
  <2>9. \A a \in Actors : Made(a)' =>
          /\ users'[target'[a]] # NoOne
          /\ target'[a] \notin renewed' => users'[target'[a]] = a
    BY <2>1, <2>2, <2>4 DEF AccountsInv
  <2>10. \A a, b \in Actors : Made(a)' /\ Made(b)' /\ a # b => target'[a] # target'[b]
    BY <2>1, <2>2 DEF AccountsInv
  <2> QED
    BY <2>1, <2>3, <2>5, <2>6, <2>7, <2>8, <2>9, <2>10 DEF AccountsInv, OnWire
<1>9. CASE UNCHANGED accountVars
  BY <1>9, TablesStay DEF accountVars, tables, AccountsInv, Made
<1> QED
  BY <1>1, <1>2, <1>3, <1>4, <1>5, <1>6, <1>7, <1>8, <1>9 DEF AccountsNext, Rest

LEMMA AccountsInvariant == AccountsSpec => []AccountsInv
BY AccountsInitial, AccountsStep, PTL DEF AccountsSpec

\* Who made an account keeps it, until its password is changed by those who may.
THEOREM NobodyTakesAnAccount == AccountsSpec => []CreatorsKeepAccount
<1>1. AccountsInv => CreatorsKeepAccount
  BY DEF AccountsInv, CreatorsKeepAccount, Made, Actors
<1> QED
  BY <1>1, AccountsInvariant, PTL

\* A client is told the UIN it was given, and no other client is, as far as the
\* UINs fit the answer.
THEOREM ClientsToldTheirOwn == AccountsSpec => []ToldItsOwn
<1>1. AccountsInv => ToldItsOwn
  <2> SUFFICES ASSUME AccountsInv, NEW c \in Clients, told[c] # NoOne,
                      target[c] \in 0 .. WireMax
               PROVE  /\ told[c] = target[c]
                      /\ \A d \in Clients \ {c} :
                           target[d] \in 0 .. WireMax => told[d] # told[c]
    BY DEF ToldItsOwn
  <2>1. Clients \subseteq Actors
    BY DEF Actors
  <2>2. \A d \in Clients : target[d] \in Int64
    BY <2>1 DEF AccountsInv
  <2>3. told[c] = target[c]
    BY <2>2, AccountsConstants DEF AccountsInv
  <2>4. ASSUME NEW d \in Clients \ {c}, target[d] \in 0 .. WireMax, told[d] # NoOne
        PROVE  told[d] # told[c]
    <3>1. told[d] = target[d]
      BY <2>2, <2>4, AccountsConstants DEF AccountsInv
    <3>2. Made(c) /\ Made(d)
      BY <2>4 DEF AccountsInv, Made
    <3> QED
      BY <2>1, <2>3, <3>1, <3>2 DEF AccountsInv
  <2> QED
    BY <2>3, <2>4
<1> QED
  BY <1>1, AccountsInvariant, PTL

\* An account lacks its profile only while its registration is under way, or
\* where a write or the process failed.
THEOREM AccountsAreWhole == AccountsSpec => []HalfMadeOnlyWhenBroken
BY AccountsInvariant, PTL DEF AccountsInv

----------------------------------------------------------------------------
(* Visibility, for any set of modes and any number of goroutines in flight:*)
(* what is said of an owner rests on a permission that was there at some   *)
(* time, however old the look at it is.                                    *)

\* Whatever a handler, or a goroutine in flight, is about to say was allowed
\* by settings that were the owner's.
ShownInv ==
  /\ Visible(privacy, TRUE) \/ Visible(loaded, TRUE) => everShown
  /\ vJob = "push" \/ oJob = "say" => everShown
  /\ \A i \in 1..MaxFlying : flying[i] = "on" => everShown
  /\ HiddenSeeNothing

\* It was also allowed by a contact that was open, or by a grant.
OpenInv ==
  /\ contact = "open" => everOpen
  /\ vJob \in {"look", "judge", "peek", "push"} => everOpen
  /\ oJob = "say" => everOpen
  /\ oJob = "judge" => granted
  /\ \A i \in 1..MaxFlying : flying[i] = "on" => everOpen \/ granted
  /\ PendingSeeNothing

\* The inductive invariant.
VisibilityInv == TypeOK /\ ShownInv /\ OpenInv

----------------------------------------------------------------------------
\* Who is visible as no buddy is visible as one.
LEMMA BuddiesSeeMore ==
  ASSUME NEW p \in Settings, NEW b \in BOOLEAN, Visible(p, b) PROVE Visible(p, TRUE)
BY DEF Visible

\* A goroutine more says what it was made to say.
LEMMA Spawned ==
  ASSUME TypeOK, NEW what \in {"on", "off"}, Spawn(what)
  PROVE  /\ flying' \in [1..MaxFlying -> {"nothing", "on", "off"}]
         /\ \A i \in 1..MaxFlying : flying'[i] = "on" => flying[i] = "on" \/ what = "on"
BY DEF Spawn, TypeOK

\* The viewer's handler.
LEMMA ViewerStep ==
  ASSUME VisibilityInv, ViewerNext PROVE VisibilityInv'
<1> USE DEF VisibilityInv
<1>1. CASE AddPending
  <2>1. TypeOK'
    BY <1>1 DEF AddPending, Viewer, Put, Tell, TypeOK
  <2>2. ShownInv'
    BY <1>1 DEF AddPending, Viewer, Put, Tell, ShownInv, HiddenSeeNothing
  <2>3. OpenInv'
    BY <1>1 DEF AddPending, Viewer, Put, Tell, OpenInv, PendingSeeNothing
  <2> QED
    BY <2>1, <2>2, <2>3
<1>2. CASE AddAsk
  <2>1. TypeOK'
    BY <1>2 DEF AddAsk, Viewer, Tell, stored, history, TypeOK
  <2>2. ShownInv'
    BY <1>2 DEF AddAsk, Viewer, Tell, stored, history, ShownInv, HiddenSeeNothing
  <2>3. OpenInv'
    BY <1>2 DEF AddAsk, Viewer, Tell, stored, history, OpenInv, PendingSeeNothing
  <2> QED
    BY <2>1, <2>2, <2>3
<1>3. CASE AddRefused
  <2>1. TypeOK'
    BY <1>3 DEF AddRefused, Viewer, Put, TypeOK
  <2>2. ShownInv'
    BY <1>3 DEF AddRefused, Viewer, Put, ShownInv, HiddenSeeNothing
  <2>3. OpenInv'
    BY <1>3 DEF AddRefused, Viewer, Put, OpenInv, PendingSeeNothing
  <2> QED
    BY <2>1, <2>2, <2>3
<1>4. CASE AddOpen
  <2>1. TypeOK'
    BY <1>4 DEF AddOpen, Viewer, Put, TypeOK
  <2>2. ShownInv'
    BY <1>4 DEF AddOpen, Viewer, Put, ShownInv, HiddenSeeNothing
  <2>3. OpenInv'
    BY <1>4 DEF AddOpen, Viewer, Put, OpenInv, PendingSeeNothing
  <2> QED
    BY <2>1, <2>2, <2>3
<1>5. CASE AddLook
  <2>1. TypeOK'
    BY <1>5 DEF AddLook, Viewer, stored, history, TypeOK
  <2>2. ShownInv'
    BY <1>5 DEF AddLook, Viewer, stored, history, ShownInv, HiddenSeeNothing
  <2>3. OpenInv'
    BY <1>5 DEF AddLook, Viewer, stored, history, OpenInv, PendingSeeNothing
  <2> QED
    BY <2>1, <2>2, <2>3
<1>6. CASE AddJudge
  <2>1. TypeOK'
    BY <1>6 DEF AddJudge, Viewer, stored, history, TypeOK
  <2>2. ShownInv'
    <3>1. Visible(privacy, listed) => everShown
      BY BuddiesSeeMore DEF TypeOK, ShownInv
    <3> QED
      BY <1>6, <3>1 DEF AddJudge, Viewer, stored, history, ShownInv, HiddenSeeNothing
  <2>3. OpenInv'
    BY <1>6 DEF AddJudge, Viewer, stored, history, OpenInv, PendingSeeNothing
  <2> QED
    BY <2>1, <2>2, <2>3
<1>7. CASE Push
  <2>1. TypeOK'
    BY <1>7 DEF Push, Viewer, Tell, stored, history, TypeOK
  <2>2. ShownInv'
    BY <1>7 DEF Push, Viewer, Tell, stored, history, ShownInv, HiddenSeeNothing
  <2>3. OpenInv'
    BY <1>7 DEF Push, Viewer, Tell, stored, history, OpenInv, PendingSeeNothing
  <2> QED
    BY <2>1, <2>2, <2>3
<1>8. CASE PushOff
  <2>1. TypeOK'
    BY <1>8 DEF PushOff, Viewer, Tell, stored, history, TypeOK
  <2>2. ShownInv'
    BY <1>8 DEF PushOff, Viewer, Tell, stored, history, ShownInv, HiddenSeeNothing
  <2>3. OpenInv'
    BY <1>8 DEF PushOff, Viewer, Tell, stored, history, OpenInv, PendingSeeNothing
  <2> QED
    BY <2>1, <2>2, <2>3
<1>9. ASSUME NEW state \in {"pending", "open"}, Update(state) PROVE VisibilityInv'
  <2>1. TypeOK'
    BY <1>9 DEF Update, Viewer, Put, TypeOK
  <2>2. ShownInv'
    BY <1>9 DEF Update, Viewer, Put, ShownInv, HiddenSeeNothing
  <2>3. OpenInv'
    BY <1>9 DEF Update, Viewer, Put, OpenInv, PendingSeeNothing
  <2> QED
    BY <2>1, <2>2, <2>3
<1>10. CASE Delete
  <2>1. TypeOK'
    BY <1>10 DEF Delete, Viewer, Put, TypeOK
  <2>2. ShownInv'
    BY <1>10 DEF Delete, Viewer, Put, ShownInv, HiddenSeeNothing
  <2>3. OpenInv'
    BY <1>10 DEF Delete, Viewer, Put, OpenInv, PendingSeeNothing
  <2> QED
    BY <2>1, <2>2, <2>3
<1>11. CASE Activate
  <2>1. TypeOK'
    BY <1>11 DEF Activate, Viewer, stored, history, TypeOK
  <2>2. ShownInv'
    BY <1>11 DEF Activate, Viewer, stored, history, ShownInv, HiddenSeeNothing
  <2>3. OpenInv'
    BY <1>11 DEF Activate, Viewer, stored, history, OpenInv, PendingSeeNothing
  <2> QED
    BY <2>1, <2>2, <2>3
<1>12. CASE Peek
  <2>1. TypeOK'
    BY <1>12 DEF Peek, Viewer, stored, history, TypeOK
  <2>2. ShownInv'
    BY <1>12 DEF Peek, Viewer, stored, history, ShownInv, HiddenSeeNothing
  <2>3. OpenInv'
    BY <1>12 DEF Peek, Viewer, stored, history, OpenInv, PendingSeeNothing
  <2> QED
    BY <2>1, <2>2, <2>3
<1> QED
  BY <1>1, <1>2, <1>3, <1>4, <1>5, <1>6, <1>7, <1>8, <1>9, <1>10, <1>11, <1>12 DEF ViewerNext

\* The owner's handlers.
LEMMA OwnerStep ==
  ASSUME VisibilityInv, OwnerNext PROVE VisibilityInv'
<1> USE DEF VisibilityInv
<1>1. CASE SignOn
  <2>1. TypeOK'
    BY <1>1 DEF SignOn, history, TypeOK
  <2>2. ShownInv'
    BY <1>1 DEF SignOn, history, ShownInv, HiddenSeeNothing
  <2>3. OpenInv'
    BY <1>1 DEF SignOn, history, OpenInv, PendingSeeNothing
  <2> QED
    BY <2>1, <2>2, <2>3
<1>2. ASSUME NEW p \in Settings, SetPrivacy(p) PROVE VisibilityInv'
  <2>1. TypeOK'
    BY <1>2 DEF SetPrivacy, Owner, TypeOK
  <2>2. ShownInv'
    BY <1>2 DEF SetPrivacy, Owner, ShownInv, HiddenSeeNothing
  <2>3. OpenInv'
    BY <1>2 DEF SetPrivacy, Owner, OpenInv, PendingSeeNothing
  <2> QED
    BY <2>1, <2>2, <2>3
<1>3. CASE LoadOwn("applyLoad", "apply")
  <2>1. TypeOK'
    BY <1>3 DEF LoadOwn, Owner, stored, history, TypeOK
  <2>2. ShownInv'
    BY <1>3 DEF LoadOwn, Owner, stored, history, ShownInv, HiddenSeeNothing
  <2>3. OpenInv'
    BY <1>3 DEF LoadOwn, Owner, stored, history, OpenInv, PendingSeeNothing
  <2> QED
    BY <2>1, <2>2, <2>3
<1>4. CASE LoadOwn("ready", "notify") \/ LoadOwn("idle", "notify")
  <2>1. TypeOK'
    BY <1>4 DEF LoadOwn, Owner, stored, history, TypeOK
  <2>2. ShownInv'
    BY <1>4 DEF LoadOwn, Owner, stored, history, ShownInv, HiddenSeeNothing
  <2>3. OpenInv'
    BY <1>4 DEF LoadOwn, Owner, stored, history, OpenInv, PendingSeeNothing
  <2> QED
    BY <2>1, <2>2, <2>3
<1>5. CASE Apply
  <2> DEFINE shows == Visible(loaded, TRUE) /\ contact = "open"
  <2>1. /\ UNCHANGED <<stored, vJob, loaded, view, history>> /\ oJob' = "idle"
        /\ \/ flying' = flying
           \/ Spawn("off")
           \/ shows /\ Spawn("on")
    BY <1>5 DEF Apply, Owner, TypeOK
  <2>2. /\ flying' \in [1..MaxFlying -> {"nothing", "on", "off"}]
        /\ \A i \in 1..MaxFlying : flying'[i] = "on" =>
             flying[i] = "on" \/ shows
    <3> HIDE DEF shows
    <3>1. CASE flying' = flying
      BY <3>1 DEF TypeOK
    <3>2. CASE Spawn("off")
      BY <3>2, Spawned
    <3>3. CASE shows /\ Spawn("on")
      BY <3>3, Spawned
    <3> QED
      BY <2>1, <3>1, <3>2, <3>3
  <2>3. TypeOK'
    BY <2>1, <2>2 DEF stored, history, TypeOK
  <2>4. ShownInv'
    BY <2>1, <2>2 DEF stored, history, ShownInv, HiddenSeeNothing
  <2>5. OpenInv'
    BY <2>1, <2>2 DEF stored, history, OpenInv, PendingSeeNothing
  <2> QED
    BY <2>3, <2>4, <2>5
<1>6. CASE Notify
  <2>1. TypeOK'
    BY <1>6 DEF Notify, Owner, stored, history, TypeOK
  <2>2. ShownInv'
    BY <1>6 DEF Notify, Owner, stored, history, ShownInv, HiddenSeeNothing
  <2>3. OpenInv'
    BY <1>6 DEF Notify, Owner, stored, history, OpenInv, PendingSeeNothing
  <2> QED
    BY <2>1, <2>2, <2>3
<1>7. CASE Say
  <2>1. TypeOK'
    BY <1>7 DEF Say, Owner, Tell, stored, history, TypeOK
  <2>2. ShownInv'
    BY <1>7 DEF Say, Owner, Tell, stored, history, ShownInv, HiddenSeeNothing
  <2>3. OpenInv'
    BY <1>7 DEF Say, Owner, Tell, stored, history, OpenInv, PendingSeeNothing
  <2> QED
    BY <2>1, <2>2, <2>3
<1>8. CASE Grant
  <2>1. TypeOK'
    BY <1>8 DEF Grant, Owner, TypeOK
  <2>2. ShownInv'
    BY <1>8 DEF Grant, Owner, ShownInv, HiddenSeeNothing
  <2>3. OpenInv'
    BY <1>8 DEF Grant, Owner, OpenInv, PendingSeeNothing
  <2> QED
    BY <2>1, <2>2, <2>3
<1>9. CASE GrantJudge
  <2>1. /\ UNCHANGED <<stored, vJob, loaded, view, history>> /\ oJob = "judge" /\ oJob' = "idle"
        /\ flying' = flying \/ (Visible(privacy, TRUE) /\ Spawn("on"))
    BY <1>9 DEF GrantJudge, Owner
  <2>2. /\ flying' \in [1..MaxFlying -> {"nothing", "on", "off"}]
        /\ \A i \in 1..MaxFlying : flying'[i] = "on" => flying[i] = "on" \/ Visible(privacy, TRUE)
    BY <2>1, Spawned DEF TypeOK
  <2>3. TypeOK'
    BY <2>1, <2>2 DEF stored, history, TypeOK
  <2>4. ShownInv'
    BY <2>1, <2>2 DEF stored, history, ShownInv, HiddenSeeNothing
  <2>5. OpenInv'
    BY <2>1, <2>2 DEF stored, history, OpenInv, PendingSeeNothing
  <2> QED
    BY <2>3, <2>4, <2>5
<1>10. CASE Leave
  <2>1. TypeOK'
    BY <1>10 DEF Leave, Owner, stored, history, TypeOK
  <2>2. ShownInv'
    BY <1>10 DEF Leave, Owner, stored, history, ShownInv, HiddenSeeNothing
  <2>3. OpenInv'
    BY <1>10 DEF Leave, Owner, stored, history, OpenInv, PendingSeeNothing
  <2> QED
    BY <2>1, <2>2, <2>3
<1>11. ASSUME NEW had \in BOOLEAN, Drop(had) PROVE VisibilityInv'
  <2>1. /\ Put("none") /\ UNCHANGED <<vJob, loaded, view>> /\ oJob' = "idle"
        /\ flying' = flying \/ Spawn("off")
    BY <1>11 DEF Drop, Owner
  <2>2. /\ flying' \in [1..MaxFlying -> {"nothing", "on", "off"}]
        /\ \A i \in 1..MaxFlying : flying'[i] = "on" => flying[i] = "on"
    BY <2>1, Spawned DEF TypeOK
  <2>3. TypeOK'
    BY <2>1, <2>2 DEF Put, TypeOK
  <2>4. ShownInv'
    BY <2>1, <2>2 DEF Put, ShownInv, HiddenSeeNothing
  <2>5. OpenInv'
    BY <2>1, <2>2 DEF Put, OpenInv, PendingSeeNothing
  <2> QED
    BY <2>3, <2>4, <2>5
<1>12. CASE SetListed
  <2>1. TypeOK'
    BY <1>12 DEF SetListed, Owner, TypeOK
  <2>2. ShownInv'
    BY <1>12 DEF SetListed, Owner, ShownInv, HiddenSeeNothing
  <2>3. OpenInv'
    BY <1>12 DEF SetListed, Owner, OpenInv, PendingSeeNothing
  <2> QED
    BY <2>1, <2>2, <2>3
<1>13. CASE SetAuthRequired
  <2>1. TypeOK'
    BY <1>13 DEF SetAuthRequired, Owner, history, TypeOK
  <2>2. ShownInv'
    BY <1>13 DEF SetAuthRequired, Owner, history, ShownInv, HiddenSeeNothing
  <2>3. OpenInv'
    BY <1>13 DEF SetAuthRequired, Owner, history, OpenInv, PendingSeeNothing
  <2> QED
    BY <2>1, <2>2, <2>3
<1> QED
  BY <1>1, <1>2, <1>3, <1>4, <1>5, <1>6, <1>7, <1>8, <1>9, <1>10, <1>11, <1>12, <1>13 DEF OwnerNext

\* A goroutine says what it was made to say.
LEMMA DeliverStep ==
  ASSUME VisibilityInv, NEW i \in 1..MaxFlying, Deliver(i) PROVE VisibilityInv'
<1> USE DEF VisibilityInv
<1>1. /\ flying[i] \in {"on", "off"} /\ view' = flying[i]
      /\ flying' = [flying EXCEPT ![i] = "nothing"]
      /\ UNCHANGED <<stored, oJob, vJob, loaded, history>>
  BY DEF Deliver, Tell, TypeOK
<1>2. /\ flying' \in [1..MaxFlying -> {"nothing", "on", "off"}]
      /\ \A j \in 1..MaxFlying : flying'[j] = "on" => flying[j] = "on"
  BY <1>1 DEF TypeOK
<1>3. TypeOK'
  BY <1>1, <1>2 DEF stored, history, TypeOK
<1>4. ShownInv'
  BY <1>1, <1>2 DEF stored, history, ShownInv, HiddenSeeNothing
<1>5. OpenInv'
  BY <1>1, <1>2 DEF stored, history, OpenInv, PendingSeeNothing
<1> QED
  BY <1>3, <1>4, <1>5

LEMMA VisibilityInitial == Init => VisibilityInv
<1> SUFFICES ASSUME Init PROVE VisibilityInv
  OBVIOUS
<1>1. TypeOK
  <2>1. everOpen \in BOOLEAN
    BY Zenon DEF Init
  <2>2. everShown \in BOOLEAN /\ everBuddy \in BOOLEAN
    <3>1. \A p : \A b : Visible(p, b) \in BOOLEAN
      BY Zenon DEF Visible
    <3> QED
      BY <3>1, Zenon DEF Init
  <2> QED
    BY <2>1, <2>2 DEF Init, TypeOK
<1>2. ShownInv
  BY DEF Init, ShownInv, HiddenSeeNothing
<1>3. OpenInv
  BY DEF Init, OpenInv, PendingSeeNothing
<1> QED
  BY <1>1, <1>2, <1>3 DEF VisibilityInv

LEMMA VisibilityNextInv == VisibilityInv /\ [Next]_vars => VisibilityInv'
<1> SUFFICES ASSUME VisibilityInv, [Next]_vars PROVE VisibilityInv'
  OBVIOUS
<1>1. CASE UNCHANGED vars
  <2>1. TypeOK'
    BY <1>1 DEF vars, stored, history, VisibilityInv, TypeOK
  <2>2. ShownInv'
    BY <1>1 DEF vars, stored, history, VisibilityInv, ShownInv, HiddenSeeNothing
  <2>3. OpenInv'
    BY <1>1 DEF vars, stored, history, VisibilityInv, OpenInv, PendingSeeNothing
  <2> QED
    BY <2>1, <2>2, <2>3 DEF VisibilityInv
<1> QED
  BY <1>1, ViewerStep, OwnerStep, DeliverStep DEF Next

LEMMA VisibilityInvariant == Spec => []VisibilityInv
BY VisibilityInitial, VisibilityNextInv, PTL DEF Spec

\* The state stays of the kinds declared.
THEOREM VisibilityTypeCorrect == Spec => []TypeOK
BY VisibilityInvariant, PTL DEF VisibilityInv

\* Who was hidden from all along, by mode or item, is never shown the owner.
THEOREM HiddenStayHidden == Spec => []HiddenSeeNothing
BY VisibilityInvariant, PTL DEF VisibilityInv, ShownInv

\* Who was pending all along is never shown the owner without a grant.
THEOREM PendingStayOut == Spec => []PendingSeeNothing
BY VisibilityInvariant, PTL DEF VisibilityInv, OpenInv

----------------------------------------------------------------------------
(* The search, for any UINs, nicknames, limits and requests: the snapshot  *)
(* of those online and the rows of the query disagree about nobody who     *)
(* stayed as he was, and a query that fits is not cut.                     *)

AnswerRight(a) ==
  \A u \in kept[a] :
    LET fits == Fits(wish[a], u) /\ Wanted(a, u) IN
    /\ u \in result[a] => fits
    /\ fits /\ a \in few /\ GoLower(nick[u]) = SqlLower(nick[u]) => u \in result[a]

SearchInv ==
  /\ nick \in [Uins -> Nicks \cup {NoAccount}]
  /\ online \in SUBSET Uins
  /\ asking \in [Askers -> {"new", "query", "done"}]
  /\ wish \in [Askers -> Wishes \cup {NoWish}]
  /\ seenOn \in [Askers -> SUBSET Uins]
  /\ kept \in [Askers -> SUBSET Uins]
  /\ DOMAIN result = Askers
  /\ IsFiniteSet(Registered)
  /\ \A a \in few : asking[a] = "done"
  /\ \A a \in Askers : asking[a] # "new" => wish[a] \in Wishes
  /\ \A a \in Askers : asking[a] = "query" =>
       \A u \in kept[a] : u \in Registered /\ (u \in seenOn[a] <=> u \in online)
  /\ AnswerIsRight

\* Lower case keeps the length, and what it leaves small it does in either way.
LEMMA LowerCase ==
  ASSUME NEW t \in Nicks
  PROVE  /\ Len(GoLower(t)) = Len(t) /\ Len(SqlLower(t)) = Len(t) /\ Len(t) \in Nat
         /\ DOMAIN GoLower(t) = 1 .. Len(t)
         /\ \A i \in 1 .. Len(t) : GoLower(t)[i].upper = FALSE
         /\ \A i \in 1 .. Len(t) : SqlLower(t)[i].upper = FALSE => SqlLower(t)[i] = GoLower(t)[i]
<1>. DEFINE L == [script : {"latin", "cyrillic"}, upper : BOOLEAN]
            small(x) == [x EXCEPT !.upper = FALSE]
            ascii(x) == IF x.script = "latin" THEN small(x) ELSE x
<1>1. \A x \in L : /\ small(x) \in L /\ ascii(x) \in L
                   /\ small(x).upper = FALSE
                   /\ ascii(x).upper = FALSE => ascii(x) = small(x)
  OBVIOUS
<1>2. t \in Seq(L)
  <2>1. t \in Seq(Alphabet) /\ Alphabet \subseteq L  BY SearchAssumption
  <2>. DEFINE n == Len(t)
  <2>2. n \in Nat /\ t \in [1 .. n -> Alphabet]  BY <2>1
  <2>. HIDE DEF n, L
  <2>3. t \in [1 .. n -> L]  BY <2>1, <2>2
  <2>. QED  BY <2>2, <2>3, SeqDef
<1>3. /\ GoLower(t) = [i \in DOMAIN t |-> small(t[i])]
      /\ SqlLower(t) = [i \in DOMAIN t |-> ascii(t[i])]
  BY DEF GoLower, SqlLower
<1>. HIDE DEF L, small, ascii
<1>4. Len(t) \in Nat /\ DOMAIN t = 1 .. Len(t) /\ \A i \in 1 .. Len(t) : t[i] \in L
  BY <1>2
<1>5. /\ GoLower(t) \in [1 .. Len(t) -> L] /\ SqlLower(t) \in [1 .. Len(t) -> L]
      /\ \A i \in 1 .. Len(t) : /\ GoLower(t)[i].upper = FALSE
                                /\ SqlLower(t)[i].upper = FALSE => SqlLower(t)[i] = GoLower(t)[i]
  BY <1>1, <1>3, <1>4
<1>6. ASSUME NEW f \in [1 .. Len(t) -> L] PROVE Len(f) = Len(t) /\ DOMAIN f = 1 .. Len(t)
  <2>1. f \in Seq(L)  BY <1>4, SeqDef
  <2>2. DOMAIN f = 1 .. Len(f) /\ Len(f) \in Nat  BY <2>1
  <2>3. 1 .. Len(f) = 1 .. Len(t)  BY <2>2
  <2>. QED  BY <1>4, <2>2, <2>3
<1>. QED  BY <1>4, <1>5, <1>6

\* What SQLite finds of a nickname, a reader finds in it too.
LEMMA FoundFits ==
  ASSUME NEW q \in Wishes, NEW u \in Uins, nick[u] \in Nicks, Matches(q, u),
         q.by = "uin" => u = q.text
  PROVE  Fits(q, u)
<1>1. q \in ByUin \/ q \in ByNick  BY DEF Wishes
<1>2. CASE q \in ByUin  BY <1>2 DEF ByUin, Fits
<1>3. CASE q \in ByNick
  <2>1. q.by = "nick" /\ q.text \in Nicks  BY <1>3 DEF ByNick
  <2>. DEFINE part == GoLower(q.text)
              t == nick[u]
  <2>2. Inside(part, SqlLower(t))  BY <2>1 DEF Matches
  <2>3. /\ Len(GoLower(t)) = Len(t) /\ Len(SqlLower(t)) = Len(t) /\ Len(t) \in Nat
        /\ \A k \in 1 .. Len(t) : SqlLower(t)[k].upper = FALSE => SqlLower(t)[k] = GoLower(t)[k]
    BY LowerCase
  <2>4. /\ DOMAIN part = 1 .. Len(part) /\ Len(part) \in Nat
        /\ \A j \in 1 .. Len(part) : part[j].upper = FALSE
    BY <2>1, LowerCase
  <2>. HIDE DEF part, t
  <2>5. PICK i \in 0 .. Len(t) - Len(part) : \A j \in DOMAIN part : SqlLower(t)[i + j] = part[j]
    BY <2>2, <2>3 DEF Inside
  <2>6. ASSUME NEW j \in DOMAIN part PROVE GoLower(t)[i + j] = part[j]
    <3>1. SqlLower(t)[i + j] = part[j] /\ part[j].upper = FALSE  BY <2>4, <2>5
    <3>2. i + j \in 1 .. Len(t)  BY <2>3, <2>4, <2>5
    <3>. QED  BY <2>3, <3>1, <3>2
  <2>7. Inside(part, GoLower(t))  BY <2>3, <2>5, <2>6 DEF Inside
  <2>. QED  BY <2>1, <2>7 DEF Fits, part, t
<1>. QED  BY <1>1, <1>2, <1>3

\* A UIN holds itself.
LEMMA OwnUin ==
  ASSUME NEW u \in Uins
  PROVE  Inside(u, u)
<1>. DEFINE D == 0 .. 9
<1>1. u \in Seq(D)  BY SearchAssumption
<1>. HIDE DEF D
<1>2. Len(u) \in Nat /\ DOMAIN u = 1 .. Len(u)  BY <1>1
<1>3. 0 \in 0 .. Len(u) - Len(u)  BY <1>2
<1>4. \A j \in DOMAIN u : u[0 + j] = u[j]  BY <1>2
<1>. QED  BY <1>3, <1>4 DEF Inside

\* A set that fits is not cut.
LEMMA NotCut ==
  ASSUME NEW S, IsFiniteSet(S), NEW n \in Nat, Cardinality(S) <= n, NEW T \in Within(S, n)
  PROVE  T = S
<1>1. Cardinality(S) \in Nat  BY FS_CardinalityType
<1>2. T \subseteq S /\ Cardinality(T) = Cardinality(S)  BY <1>1 DEF Within
<1>. QED  BY <1>2, FS_Subset

\* The answer to a query: no more than fits, and all of it where it was not cut.
LEMMA QueryAnswers ==
  ASSUME SearchInv, NEW a \in Askers, Query(a)
  PROVE  AnswerRight(a)'
<1>. DEFINE q == wish[a]
            candidates == {u \in Registered : Matches(q, u)}
<1>1. /\ asking[a] = "query" /\ q \in Wishes
      /\ \A u \in kept[a] : u \in Registered /\ (u \in seenOn[a] <=> u \in online)
      /\ nick \in [Uins -> Nicks \cup {NoAccount}] /\ DOMAIN result = Askers
      /\ IsFiniteSet(Registered) /\ kept[a] \subseteq Uins
  BY DEF SearchInv, Query
<1>2. /\ \A u \in Registered : u \in Uins /\ nick[u] \in Nicks
      /\ candidates \subseteq Registered
  BY <1>1 DEF Registered
<1>3. IsFiniteSet(candidates) /\ Cardinality(candidates) \in Nat
  BY <1>1, <1>2, FS_Subset, FS_CardinalityType
<1>4. PICK rows \in Within(candidates, Limit) :
        \E found \in Within(Passing(q, seenOn[a], rows), Cap) :
          result' = [result EXCEPT ![a] = Exact(q, found)]
  BY DEF Query
<1>5. PICK found \in Within(Passing(q, seenOn[a], rows), Cap) :
        result' = [result EXCEPT ![a] = Exact(q, found)]
  BY <1>4
<1>6. /\ UNCHANGED <<nick, online, wish, seenOn, kept>>
      /\ few' = IF Cardinality(candidates) <= Cap THEN few \cup {a} ELSE few
      /\ result'[a] = Exact(q, found)
  BY <1>1, <1>5 DEF Query
<1>7. rows \subseteq candidates  BY DEF Within
<1>8. found \subseteq Passing(q, seenOn[a], rows)  BY DEF Within
<1>9. q.by \in {"uin", "nick"} /\ q.onlyOnline \in BOOLEAN
  BY <1>1 DEF Wishes, ByUin, ByNick
<1>. HIDE DEF q
<1>10. \A u \in candidates : Matches(q, u)  OBVIOUS
<1>11. \A u \in Registered : Matches(q, u) => u \in candidates  OBVIOUS
<1>. HIDE DEF candidates
<1>12. ASSUME NEW u \in kept[a], u \in result'[a]
       PROVE  Fits(q, u) /\ (q.onlyOnline => u \in online)
  <2>1. u \in found /\ (q.by = "uin" => u = q.text)  BY <1>6, <1>12 DEF Exact
  <2>2. u \in rows /\ (q.onlyOnline => u \in seenOn[a])  BY <1>8, <2>1 DEF Passing
  <2>3. Matches(q, u)  BY <1>7, <1>10, <2>2
  <2>. QED  BY <1>1, <1>2, <1>7, <2>1, <2>2, <2>3, FoundFits DEF q
<1>13. ASSUME NEW u \in kept[a], Fits(q, u), q.onlyOnline => u \in online, a \in few',
              GoLower(nick[u]) = SqlLower(nick[u])
       PROVE  u \in result'[a]
  <2>0. Cardinality(candidates) <= Cap
    <3>1. a \notin few  BY <1>1 DEF SearchInv
    <3>. QED  BY <1>6, <1>13, <3>1
  <2>1. u \in Registered /\ u \in Uins  BY <1>1, <1>2
  <2>2. Matches(q, u)
    <3>1. CASE q.by = "uin"  BY <1>13, <2>1, <3>1, OwnUin DEF Fits, Matches
    <3>2. CASE q.by = "nick"  BY <1>13, <3>2 DEF Fits, Matches
    <3>. QED  BY <1>9, <3>1, <3>2
  <2>3. u \in candidates  BY <1>11, <2>1, <2>2
  <2>4. rows = candidates
    <3>1. Cardinality(candidates) <= Limit /\ Limit \in Nat
      BY <1>3, <2>0, SearchAssumption
    <3>. QED  BY <1>3, <2>0, <3>1, NotCut
  <2>5. u \in Passing(q, seenOn[a], rows)
    BY <1>1, <1>13, <2>3, <2>4 DEF Passing
  <2>6. found = Passing(q, seenOn[a], rows)
    <3>. DEFINE P == Passing(q, seenOn[a], rows)
    <3>1. P \subseteq candidates  BY <2>4 DEF Passing
    <3>2. IsFiniteSet(P) /\ Cardinality(P) <= Cardinality(candidates) /\ Cardinality(P) \in Nat
      BY <1>3, <3>1, FS_Subset, FS_CardinalityType
    <3>3. Cap \in Nat  BY SearchAssumption
    <3>4. Cardinality(P) <= Cap  BY <1>3, <2>0, <3>2, <3>3
    <3>. HIDE DEF P
    <3>5. found \in Within(P, Cap)  BY DEF P
    <3>6. found = P  BY <3>2, <3>3, <3>4, <3>5, NotCut
    <3>. QED  BY <3>6 DEF P
  <2>7. q.by = "uin" => u = q.text  BY <1>13 DEF Fits
  <2>. QED  BY <1>6, <2>5, <2>6, <2>7 DEF Exact
<1>. QED
  <2>1. kept' = kept /\ \A u : Fits(wish[a], u)' = Fits(q, u)  BY <1>6 DEF Fits, q
  <2>2. \A u : Wanted(a, u)' <=> (q.onlyOnline => u \in online)  BY <1>6 DEF Wanted, q
  <2>3. \A u : nick'[u] = nick[u]  BY <1>6
  <2>. QED  BY <1>12, <1>13, <2>1, <2>2, <2>3 DEF AnswerRight

\* Who comes, goes or changes is no longer among those the answer is held to.
LEMMA Disturbed ==
  ASSUME SearchInv, NEW v \in Uins, Disturb(v),
         UNCHANGED <<asking, wish, seenOn, result, few>>,
         \/ online' = online /\ \E n \in Nicks : nick' = [nick EXCEPT ![v] = n]
         \/ nick' = nick /\ v \in Registered /\ online' \in {online \cup {v}, online \ {v}}
         \/ nick' = nick /\ online' = online \ {v}
  PROVE  SearchInv'
<1>1. /\ nick \in [Uins -> Nicks \cup {NoAccount}] /\ online \in SUBSET Uins
      /\ kept \in [Askers -> SUBSET Uins] /\ IsFiniteSet(Registered)
  BY DEF SearchInv
<1>2. /\ nick' \in [Uins -> Nicks \cup {NoAccount}] /\ online' \in SUBSET Uins
      /\ kept' \in [Askers -> SUBSET Uins]
      /\ \A a \in Askers : kept'[a] = kept[a] \ {v}
      /\ \A u \in Uins \ {v} : nick'[u] = nick[u] /\ (u \in online' <=> u \in online)
  BY <1>1 DEF Disturb
<1>3. Registered' \in {Registered, Registered \cup {v}} /\ \A u \in Registered \ {v} : u \in Registered'
  BY <1>1, <1>2, SearchAssumption DEF Registered
<1>4. IsFiniteSet(Registered')  BY <1>1, <1>3, FS_AddElement
<1>5. ASSUME NEW a \in Askers, asking[a] = "query", NEW u \in kept'[a]
      PROVE  u \in Registered' /\ (u \in seenOn[a] <=> u \in online')
  <2>1. u \in kept[a] /\ u # v /\ u \in Uins  BY <1>1, <1>2
  <2>2. u \in Registered /\ (u \in seenOn[a] <=> u \in online)  BY <1>5, <2>1 DEF SearchInv
  <2>. QED  BY <1>2, <1>3, <2>1, <2>2
<1>6. ASSUME NEW a \in Askers, asking[a] = "done" PROVE AnswerRight(a)'
  <2>. SUFFICES ASSUME NEW u \in kept'[a]
                PROVE  LET fits == Fits(wish[a], u)' /\ Wanted(a, u)' IN
                       /\ u \in result[a] => fits
                       /\ fits /\ a \in few /\ GoLower(nick'[u]) = SqlLower(nick'[u])
                            => u \in result[a]
    BY DEF AnswerRight
  <2>1. u \in kept[a] /\ u # v /\ u \in Uins  BY <1>1, <1>2
  <2>2. nick'[u] = nick[u] /\ (u \in online' <=> u \in online)  BY <1>2, <2>1
  <2>3. Fits(wish[a], u)' = Fits(wish[a], u)  BY <2>2 DEF Fits
  <2>4. Wanted(a, u)' <=> Wanted(a, u)  BY <2>2 DEF Wanted
  <2>5. /\ u \in result[a] => Fits(wish[a], u) /\ Wanted(a, u)
        /\ Fits(wish[a], u) /\ Wanted(a, u) /\ a \in few /\ GoLower(nick[u]) = SqlLower(nick[u])
             => u \in result[a]
    BY <1>6, <2>1 DEF SearchInv, AnswerIsRight
  <2>. QED  BY <2>2, <2>3, <2>4, <2>5
<1>7. AnswerIsRight'
  BY <1>6 DEF AnswerIsRight, AnswerRight
<1>. QED  BY <1>2, <1>4, <1>5, <1>7 DEF SearchInv

LEMMA SearchStep == SearchInv /\ [SearchNext]_searchVars => SearchInv'
<1>. SUFFICES ASSUME SearchInv, [SearchNext]_searchVars PROVE SearchInv'
  OBVIOUS
<1>1. /\ nick \in [Uins -> Nicks \cup {NoAccount}] /\ online \in SUBSET Uins
      /\ asking \in [Askers -> {"new", "query", "done"}]
      /\ wish \in [Askers -> Wishes \cup {NoWish}]
      /\ seenOn \in [Askers -> SUBSET Uins] /\ kept \in [Askers -> SUBSET Uins]
      /\ DOMAIN result = Askers /\ IsFiniteSet(Registered)
  BY DEF SearchInv
<1>2. ASSUME NEW u \in Uins, NEW n \in Nicks, SetNick(u, n) PROVE SearchInv'
  BY <1>2, Disturbed DEF SetNick
<1>3. ASSUME NEW u \in Uins, ComeOnline(u) PROVE SearchInv'
  BY <1>3, Disturbed DEF ComeOnline
<1>4. ASSUME NEW u \in Uins, GoOffline(u) PROVE SearchInv'
  BY <1>4, Disturbed DEF GoOffline
<1>5. ASSUME NEW a \in Askers, TakeOnline(a) PROVE SearchInv'
  <2>1. PICK q \in Wishes : wish' = [wish EXCEPT ![a] = q]  BY <1>5 DEF TakeOnline
  <2>2. /\ asking[a] = "new" /\ asking' = [asking EXCEPT ![a] = "query"]
        /\ seenOn' = [seenOn EXCEPT ![a] = online] /\ kept' = [kept EXCEPT ![a] = Registered]
        /\ UNCHANGED <<nick, online, result, few>>
    BY <1>5 DEF TakeOnline
  <2>3. Registered \subseteq Uins /\ Registered' = Registered  BY <2>2 DEF Registered
  <2>4. /\ asking' \in [Askers -> {"new", "query", "done"}]
        /\ wish' \in [Askers -> Wishes \cup {NoWish}]
        /\ seenOn' \in [Askers -> SUBSET Uins] /\ kept' \in [Askers -> SUBSET Uins]
    BY <1>1, <2>1, <2>2, <2>3
  <2>5. \A b \in few : asking'[b] = "done"  BY <1>1, <2>2 DEF SearchInv
  <2>6. \A b \in Askers : asking'[b] # "new" => wish'[b] \in Wishes
    BY <1>1, <2>1, <2>2 DEF SearchInv
  <2>7. \A b \in Askers : asking'[b] = "query" =>
          \A u \in kept'[b] : u \in Registered /\ (u \in seenOn'[b] <=> u \in online)
    BY <1>1, <2>2 DEF SearchInv
  <2>8. ASSUME NEW b \in Askers, asking'[b] = "done" PROVE AnswerRight(b)'
    <3>1. b # a /\ asking[b] = "done" /\ wish'[b] = wish[b] /\ kept'[b] = kept[b]
      BY <1>1, <2>1, <2>2, <2>8
    <3>2. AnswerRight(b)  BY <3>1 DEF SearchInv, AnswerIsRight, AnswerRight
    <3>3. \A u : Fits(wish[b], u)' = Fits(wish[b], u) /\ (Wanted(b, u)' <=> Wanted(b, u))
      BY <2>2, <3>1 DEF Fits, Wanted
    <3>. QED  BY <2>2, <3>1, <3>2, <3>3 DEF AnswerRight
  <2>9. AnswerIsRight'  BY <2>8 DEF AnswerIsRight, AnswerRight
  <2>. QED  BY <1>1, <2>2, <2>3, <2>4, <2>5, <2>6, <2>7, <2>9 DEF SearchInv
<1>6. ASSUME NEW a \in Askers, Query(a) PROVE SearchInv'
  <2>1. /\ asking[a] = "query" /\ asking' = [asking EXCEPT ![a] = "done"]
        /\ few \subseteq few' /\ few' \subseteq few \cup {a}
        /\ UNCHANGED <<nick, online, wish, seenOn, kept>>
    BY <1>6 DEF Query
  <2>2. \E r : result' = [result EXCEPT ![a] = r]  BY <1>6 DEF Query
  <2>3. Registered' = Registered  BY <2>1 DEF Registered
  <2>4. /\ asking' \in [Askers -> {"new", "query", "done"}] /\ DOMAIN result' = Askers
        /\ \A b \in Askers \ {a} : asking'[b] = asking[b] /\ result'[b] = result[b]
    BY <1>1, <2>1, <2>2
  <2>5. \A b \in few' : asking'[b] = "done"  BY <1>1, <2>1 DEF SearchInv
  <2>6. \A b \in Askers : asking'[b] # "new" => wish'[b] \in Wishes
    BY <1>1, <2>1 DEF SearchInv
  <2>7. \A b \in Askers : asking'[b] = "query" =>
          \A u \in kept[b] : u \in Registered /\ (u \in seenOn[b] <=> u \in online)
    BY <1>1, <2>1 DEF SearchInv
  <2>8. ASSUME NEW b \in Askers, asking'[b] = "done" PROVE AnswerRight(b)'
    <3>1. CASE b = a  BY <1>6, <3>1, QueryAnswers
    <3>2. CASE b # a
      <4>1. asking[b] = "done" /\ result'[b] = result[b] /\ (b \in few' <=> b \in few)
        BY <2>1, <2>4, <2>8, <3>2
      <4>2. AnswerRight(b)  BY <4>1 DEF SearchInv, AnswerIsRight, AnswerRight
      <4>3. \A u : Fits(wish[b], u)' = Fits(wish[b], u) /\ (Wanted(b, u)' <=> Wanted(b, u))
        BY <2>1 DEF Fits, Wanted
      <4>. QED  BY <2>1, <4>1, <4>2, <4>3 DEF AnswerRight
    <3>. QED  BY <3>1, <3>2
  <2>9. AnswerIsRight'  BY <2>8 DEF AnswerIsRight, AnswerRight
  <2>. QED  BY <1>1, <2>1, <2>3, <2>4, <2>5, <2>6, <2>7, <2>9 DEF SearchInv
<1>7. CASE UNCHANGED searchVars
  <2>1. UNCHANGED <<nick, online, asking, wish, seenOn, result, kept, few>>
    BY <1>7 DEF searchVars
  <2>2. Registered' = Registered  BY <2>1 DEF Registered
  <2>3. \A b, u : Fits(wish[b], u)' = Fits(wish[b], u) /\ (Wanted(b, u)' <=> Wanted(b, u))
    BY <2>1 DEF Fits, Wanted
  <2>4. AnswerIsRight' <=> AnswerIsRight  BY <2>1, <2>3 DEF AnswerIsRight
  <2>. QED  BY <2>1, <2>2, <2>4 DEF SearchInv
<1>. QED  BY <1>2, <1>3, <1>4, <1>5, <1>6, <1>7 DEF SearchNext

\* Of those whom nothing changed while it ran, a search answers with none who does
\* not fit, or is not online where only those were wanted, and leaves out none who
\* fits where the query fitted and the nickname has no capital unknown to LOWER.
THEOREM SearchAnswersRight == SearchSpec => []AnswerIsRight
<1>1. SearchInit => SearchInv
  <2>. SUFFICES ASSUME SearchInit PROVE SearchInv  OBVIOUS
  <2>1. Registered = {}  BY DEF SearchInit, Registered
  <2>2. IsFiniteSet(Registered)  BY <2>1, FS_EmptySet
  <2>3. \A a \in Askers : asking[a] = "new"  BY DEF SearchInit
  <2>. QED  BY <2>2, <2>3 DEF SearchInit, SearchInv, AnswerIsRight
<1>2. SearchInv => AnswerIsRight  BY DEF SearchInv
<1>. QED  BY <1>1, <1>2, SearchStep, PTL DEF SearchSpec

----------------------------------------------------------------------------
(* The items of a message, for lists of every length and cells of every    *)
(* value: whatever is put into a block, the text in it reads as before.    *)
(* What the recursive definitions compute is shown by an induction over    *)
(* the items of a list. An induction is over a set here, that of the lists *)
(* with the property: if it holds every list that is cut short, and every  *)
(* one whose rest it holds, it holds all (ItemByItem).                     *)

LEMMA ListFacts ==
  ASSUME NEW d \in Lists
  PROVE  Len(d) \in Nat /\ \A i \in 1 .. Len(d) : d[i] \in Nat
BY LenProperties, ElementOfSeq DEF Lists

LEMMA Joined ==
  ASSUME NEW s \in Lists, NEW t \in Lists
  PROVE  /\ s \o t \in Lists /\ Len(s \o t) = Len(s) + Len(t)
         /\ \A i \in 1 .. Len(s) + Len(t) :
              (s \o t)[i] = IF i <= Len(s) THEN s[i] ELSE t[i - Len(s)]
BY ConcatProperties DEF Lists

LEMMA Cutting ==
  ASSUME NEW d \in Lists, NEW m \in Nat \ {0}, NEW n \in Nat, n <= Len(d)
  PROVE  /\ SubSeq(d, m, n) \in Lists
         /\ Len(SubSeq(d, m, n)) = IF m <= n THEN n - m + 1 ELSE 0
         /\ \A i \in 1 .. n - m + 1 : SubSeq(d, m, n)[i] = d[m + i - 1]
<1>1. \A i \in m .. n : d[i] \in Nat  BY ListFacts
<1>. QED  BY <1>1, SubSeqProperties DEF Lists

\* The front item of a list, and what is left behind it.
LEMMA FrontItem ==
  ASSUME NEW d \in Lists, ~Cut(d)
  PROVE  /\ d[1] \in Nat /\ Value(d) \in Lists /\ Behind(d) \in Lists
         /\ Len(Behind(d)) \in Nat /\ Len(d) \in Nat /\ Len(Behind(d)) < Len(d)
<1>1. Len(d) \in Nat /\ Len(d) >= 2 /\ \A i \in 1 .. Len(d) : d[i] \in Nat
  BY ListFacts DEF Cut
<1>2. d[2] \in Nat /\ 2 + d[2] <= Len(d)  BY <1>1 DEF Cut
<1>3. Value(d) \in Lists  BY <1>1, <1>2, Cutting DEF Value
<1>4. Behind(d) \in Lists /\ Len(Behind(d)) < Len(d)
  BY <1>1, <1>2, Cutting DEF Behind
<1>5. Len(Behind(d)) \in Nat  BY <1>4, ListFacts
<1>. QED  BY <1>1, <1>3, <1>4, <1>5

\* An item that was made is read as it was made, whatever comes behind it.
LEMMA ItemMade ==
  ASSUME NEW t \in Nat, NEW v \in Lists, NEW r \in Lists
  PROVE  LET d == Make(t, v) \o r
         IN  d \in Lists /\ ~Cut(d) /\ d[1] = t /\ Value(d) = v /\ Behind(d) = r
<1>. DEFINE h == <<t, Len(v)>>
            m == h \o v
            d == m \o r
<1>1. Len(v) \in Nat /\ Len(r) \in Nat  BY LenProperties DEF Lists
<1>2. h \in Lists /\ Len(h) = 2 /\ h[1] = t /\ h[2] = Len(v)  BY <1>1 DEF Lists
<1>. HIDE DEF h
<1>3. /\ m \in Lists /\ Len(m) = 2 + Len(v) /\ m[1] = t /\ m[2] = Len(v)
      /\ \A i \in 3 .. 2 + Len(v) : m[i] = v[i - 2]
  <2>1. /\ m \in Lists /\ Len(m) = Len(h) + Len(v)
        /\ \A i \in 1 .. Len(h) + Len(v) : m[i] = IF i <= Len(h) THEN h[i] ELSE v[i - Len(h)]
    BY <1>2, Joined
  <2>. QED  BY <1>1, <1>2, <2>1
<1>. HIDE DEF m
<1>4. /\ d \in Lists /\ Len(d) = 2 + Len(v) + Len(r)
      /\ \A i \in 1 .. Len(d) : d[i] = IF i <= Len(m) THEN m[i] ELSE r[i - Len(m)]
  <2>1. /\ d \in Lists /\ Len(d) = Len(m) + Len(r)
        /\ \A i \in 1 .. Len(m) + Len(r) : d[i] = IF i <= Len(m) THEN m[i] ELSE r[i - Len(m)]
    BY <1>3, Joined
  <2>. QED  BY <1>1, <1>3, <2>1
<1>. HIDE DEF d
<1>5. d[1] = t /\ d[2] = Len(v) /\ ~Cut(d)  BY <1>1, <1>3, <1>4 DEF Cut
<1>7. Value(d) = v
  <2>1. /\ Value(d) \in Lists /\ Len(Value(d)) = Len(v)
        /\ \A i \in 1 .. Len(v) : Value(d)[i] = d[3 + i - 1]
    <3>1. 2 + Len(v) <= Len(d) /\ 2 + Len(v) \in Nat  BY <1>1, <1>4
    <3>2. Value(d) = SubSeq(d, 3, 2 + Len(v))  BY <1>5 DEF Value
    <3>3. /\ SubSeq(d, 3, 2 + Len(v)) \in Lists
          /\ Len(SubSeq(d, 3, 2 + Len(v))) = IF 3 <= 2 + Len(v) THEN 2 + Len(v) - 3 + 1 ELSE 0
          /\ \A i \in 1 .. 2 + Len(v) - 3 + 1 : SubSeq(d, 3, 2 + Len(v))[i] = d[3 + i - 1]
      BY <1>4, <3>1, Cutting
    <3>. QED  BY <1>1, <3>2, <3>3
  <2>2. \A i \in 1 .. Len(v) : d[3 + i - 1] = v[i]
    <3>. SUFFICES ASSUME NEW i \in 1 .. Len(v) PROVE d[3 + i - 1] = v[i]  OBVIOUS
    <3>1. 3 + i - 1 \in 3 .. 2 + Len(v) /\ (3 + i - 1) - 2 = i  BY <1>1
    <3>. QED  BY <1>1, <1>3, <1>4, <3>1
  <2>. QED  BY <2>1, <2>2, SeqEqual DEF Lists
<1>8. Behind(d) = r
  <2>1. /\ Behind(d) \in Lists /\ Len(Behind(d)) = Len(r)
        /\ \A i \in 1 .. Len(r) : Behind(d)[i] = d[3 + Len(v) + i - 1]
    BY <1>1, <1>4, <1>5, Cutting DEF Behind
  <2>2. \A i \in 1 .. Len(r) : d[3 + Len(v) + i - 1] = r[i]
    <3>. SUFFICES ASSUME NEW i \in 1 .. Len(r) PROVE d[3 + Len(v) + i - 1] = r[i]  OBVIOUS
    <3>1. /\ 3 + Len(v) + i - 1 \in 1 .. Len(d) /\ ~(3 + Len(v) + i - 1 <= Len(m))
          /\ 3 + Len(v) + i - 1 - Len(m) = i
      BY <1>1, <1>3, <1>4
    <3>. QED  BY <1>4, <3>1
  <2>. QED  BY <2>1, <2>2, SeqEqual DEF Lists
<1>. QED  BY <1>4, <1>5, <1>7, <1>8 DEF Make, m, d, h

\* A set of naturals that is not empty has a least element.
LEMMA LeastNat ==
  ASSUME NEW S \in SUBSET Nat, S # {}
  PROVE  \E x \in S : \A y \in S : x <= y
<1>. DEFINE R == OpToRel(<, Nat)
<1>1. IsWellFoundedOn(R, Nat)  BY NatLessThanWellFounded
<1>2. \A x, y \in Nat : <<x, y>> \in R <=> x < y  BY DEF OpToRel
<1>. HIDE DEF R
<1>3. PICK x \in S : \A y \in S : ~(<<y, x>> \in R)
  BY <1>1, WFMin
<1>4. ASSUME NEW y \in S PROVE x <= y
  <2>1. ~(y < x)  BY <1>2, <1>3
  <2>. QED  BY <2>1
<1>. QED  BY <1>4

\* Induction over a list, item by item: what holds of a list that is cut short, and
\* of one whose rest it holds of, holds of all. (P is the set of those it holds of.)
LEMMA ItemByItem ==
  ASSUME NEW P, \A d \in Lists : (~Cut(d) => Behind(d) \in P) => d \in P
  PROVE  \A d \in Lists : d \in P
<1>. SUFFICES ASSUME Lists \ P # {} PROVE FALSE  OBVIOUS
<1>. DEFINE S == {Len(d) : d \in Lists \ P}
<1>1. S \in SUBSET Nat /\ S # {}  BY ListFacts
<1>2. PICK n \in S : \A m \in S : n <= m  BY <1>1, LeastNat
<1>3. PICK d \in Lists \ P : n = Len(d)  BY <1>2
<1>4. ~Cut(d) /\ Behind(d) \notin P  BY <1>3
<1>5. Behind(d) \in Lists /\ Len(Behind(d)) < Len(d) /\ Len(Behind(d)) \in Nat /\ Len(d) \in Nat
  BY <1>3, <1>4, FrontItem, ListFacts
<1>6. Len(Behind(d)) \in S  BY <1>4, <1>5
<1>. QED  BY <1>2, <1>3, <1>5, <1>6

\* Induction over the naturals, in the same form.
LEMMA OneByOne ==
  ASSUME NEW P, 0 \in P, \A n \in Nat : n \in P => n + 1 \in P
  PROVE  \A n \in Nat : n \in P
<1>. SUFFICES ASSUME Nat \ P # {} PROVE FALSE  OBVIOUS
<1>1. PICK n \in Nat \ P : \A m \in Nat \ P : n <= m  BY LeastNat
<1>2. n # 0  OBVIOUS
<1>3. n - 1 \in Nat /\ (n - 1) + 1 = n  BY <1>2
<1>4. n - 1 \in P  BY <1>1, <1>3
<1>. QED  BY <1>3, <1>4

\* f is defined by recursion over the items of a list.
Follows(f, base, step) ==
  \A d \in Lists : f[d] = IF Cut(d) THEN base[d] ELSE step[<<d, f[Behind(d)]>>]

\* Such a definition defines a function.
LEMMA Recursion ==
  ASSUME NEW X, NEW base \in [Lists -> X], NEW step \in [Lists \X X -> X]
  PROVE  \E f \in [Lists -> X] : Follows(f, base, step)
<1>. DEFINE UpTo(n) == {d \in Lists : Len(d) <= n}
            By(g, d) == IF Cut(d) THEN base[d] ELSE step[<<d, g[Behind(d)]>>]
            Good(n) == {g \in [UpTo(n) -> X] : \A d \in UpTo(n) : g[d] = By(g, d)}
<1>1. \A n \in Nat : Good(n) # {}
  <2>. DEFINE P == {n \in Nat : Good(n) # {}}
  <2>1. 0 \in P
    <3>1. \A d \in UpTo(0) : Cut(d)  BY LenProperties DEF Cut, Lists
    <3>2. [d \in UpTo(0) |-> base[d]] \in Good(0)  BY <3>1
    <3>. QED  BY <3>2
  <2>2. ASSUME NEW n \in Nat, n \in P PROVE n + 1 \in P
    <3>1. PICK g \in Good(n) : TRUE  BY <2>2
    <3>. DEFINE h == [d \in UpTo(n + 1) |-> By(g, d)]
    <3>2. \A d \in UpTo(n + 1) : ~Cut(d) => Behind(d) \in UpTo(n) /\ Behind(d) \in UpTo(n + 1)
      <4>. SUFFICES ASSUME NEW d \in Lists, Len(d) <= n + 1, ~Cut(d)
                    PROVE  Behind(d) \in Lists /\ Len(Behind(d)) <= n /\ Len(Behind(d)) <= n + 1
        OBVIOUS
      <4>1. Behind(d) \in Lists /\ Len(Behind(d)) \in Nat /\ Len(d) \in Nat /\ Len(Behind(d)) < Len(d)
        BY FrontItem
      <4>. QED  BY <4>1
    <3>3. \A d \in UpTo(n) : g[d] \in X /\ g[d] = By(g, d) /\ d \in UpTo(n + 1)
      BY LenProperties DEF Lists
    <3>4. \A d \in UpTo(n + 1) : h[d] = By(g, d) /\ By(g, d) \in X
      BY <3>2, <3>3
    <3>5. \A d \in UpTo(n + 1) : ~Cut(d) => h[Behind(d)] = g[Behind(d)]
      BY <3>2, <3>3, <3>4
    <3>6. \A d \in UpTo(n + 1) : h[d] = By(h, d)  BY <3>4, <3>5
    <3>7. h \in [UpTo(n + 1) -> X]  BY <3>4
    <3>8. h \in Good(n + 1)
      <4>. HIDE DEF UpTo, h
      <4>. QED  BY <3>6, <3>7
    <3>. HIDE DEF Good, h
    <3>. QED  BY <3>8
  <2>. HIDE DEF P
  <2>3. \A n \in Nat : n \in P  BY <2>1, <2>2, OneByOne
  <2>. QED  BY <2>3 DEF P
<1>2. \A d \in Lists : \A n, m \in Nat :
        d \in UpTo(n) /\ d \in UpTo(m) => \A g \in Good(n), h \in Good(m) : g[d] = h[d]
  <2>. DEFINE P == {d \in Lists : \A n, m \in Nat : d \in UpTo(n) /\ d \in UpTo(m) =>
                     \A g \in Good(n), h \in Good(m) : g[d] = h[d]}
  <2>1. ASSUME NEW d \in Lists, ~Cut(d) => Behind(d) \in P PROVE d \in P
    <3>. SUFFICES ASSUME NEW n \in Nat, NEW m \in Nat, d \in UpTo(n), d \in UpTo(m),
                         NEW g \in Good(n), NEW h \in Good(m)
                  PROVE  g[d] = h[d]
      OBVIOUS
    <3>1. g[d] = By(g, d) /\ h[d] = By(h, d)  OBVIOUS
    <3>2. CASE Cut(d)  BY <3>1, <3>2
    <3>3. CASE ~Cut(d)
      <4>1. /\ Behind(d) \in Lists /\ Len(Behind(d)) \in Nat /\ Len(d) \in Nat
            /\ Len(Behind(d)) < Len(d) /\ Len(d) <= n /\ Len(d) <= m
        BY <3>3, FrontItem
      <4>3. Behind(d) \in UpTo(n) /\ Behind(d) \in UpTo(m)  BY <4>1
      <4>2. g[Behind(d)] = h[Behind(d)]
        <5>1. Behind(d) \in P  BY <2>1, <3>3
        <5>. HIDE DEF UpTo, Good
        <5>. QED  BY <4>3, <5>1
      <4>. QED  BY <3>1, <4>2
    <3>. QED  BY <3>2, <3>3
  <2>. HIDE DEF P
  <2>2. \A d \in Lists : d \in P  BY <2>1, ItemByItem
  <2>. QED  BY <2>2 DEF P
<1>. DEFINE G(n) == CHOOSE g : g \in Good(n)
            f == [d \in Lists |-> G(Len(d))[d]]
<1>3. \A n \in Nat : G(n) \in Good(n)
  <2>. SUFFICES ASSUME NEW n \in Nat PROVE G(n) \in Good(n)  OBVIOUS
  <2>. HIDE DEF Good
  <2>. QED  BY <1>1
<1>. HIDE DEF G
<1>4. ASSUME NEW d \in Lists
      PROVE  f[d] \in X /\ f[d] = IF Cut(d) THEN base[d] ELSE step[<<d, f[Behind(d)]>>]
  <2>1. Len(d) \in Nat /\ d \in UpTo(Len(d))  BY LenProperties DEF Lists
  <2>2. G(Len(d)) \in Good(Len(d))  BY <1>3, <2>1
  <2>3. f[d] \in X /\ f[d] = By(G(Len(d)), d)  BY <2>1, <2>2
  <2>4. CASE Cut(d)  BY <2>3, <2>4
  <2>5. CASE ~Cut(d)
    <3>1. /\ Behind(d) \in Lists /\ Len(Behind(d)) \in Nat /\ Behind(d) \in UpTo(Len(d))
          /\ Behind(d) \in UpTo(Len(Behind(d)))
      <4>1. /\ Behind(d) \in Lists /\ Len(Behind(d)) \in Nat /\ Len(d) \in Nat
            /\ Len(Behind(d)) < Len(d)
        BY <2>5, FrontItem
      <4>. QED  BY <4>1
    <3>2. G(Len(Behind(d))) \in Good(Len(Behind(d)))  BY <1>3, <3>1
    <3>. HIDE DEF Good, UpTo
    <3>3. G(Len(d))[Behind(d)] = G(Len(Behind(d)))[Behind(d)]
      BY <1>2, <2>1, <2>2, <3>1, <3>2
    <3>4. f[Behind(d)] = G(Len(d))[Behind(d)]  BY <3>1, <3>3
    <3>. QED  BY <2>3, <2>5, <3>4
  <2>. QED  BY <2>4, <2>5
<1>. HIDE DEF Good, UpTo
<1>5. f \in [Lists -> X]  BY <1>4
<1>6. \A d \in Lists : f[d] = IF Cut(d) THEN base[d] ELSE step[<<d, f[Behind(d)]>>]
  BY <1>4
<1>. QED  BY <1>5, <1>6 DEF Follows

Maps == [Types -> Seq(Lists)]
NoItems == [type \in Types |-> Missing]
\* The map of a list, given that of its rest.
Above(d, later) ==
  [type \in Types |-> IF type = d[1] /\ later[type] = Missing THEN <<Value(d)>> ELSE later[type]]

LEMMA Parsing ==
  /\ parseTLVs \in [Lists -> Maps]
  /\ \A d \in Lists : parseTLVs[d] = IF Cut(d) THEN NoItems ELSE Above(d, parseTLVs[Behind(d)])
<1>. DEFINE base == [d \in Lists |-> NoItems]
            step == [p \in Lists \X Maps |-> IF Cut(p[1]) THEN NoItems ELSE Above(p[1], p[2])]
            body(f) == [d \in Lists |-> IF Cut(d) THEN NoItems ELSE Above(d, f[Behind(d)])]
<1>1. NoItems \in Maps  BY EmptySeq DEF NoItems, Maps, Missing
<1>2. base \in [Lists -> Maps]  BY <1>1
<1>3. step \in [Lists \X Maps -> Maps]
  <2>. SUFFICES ASSUME NEW d \in Lists, NEW later \in Maps, ~Cut(d)
                PROVE  Above(d, later) \in Maps
    BY <1>1
  <2>1. Value(d) \in Lists  BY FrontItem
  <2>2. <<Value(d)>> \in Seq(Lists)  BY <2>1
  <2>. QED  BY <2>2 DEF Above, Maps
<1>4. PICK f \in [Lists -> Maps] : Follows(f, base, step)
  <2>. HIDE DEF base, step
  <2>. QED  BY <1>2, <1>3, Recursion
<1>5. \A d \in Lists : f[d] = IF Cut(d) THEN NoItems ELSE Above(d, f[Behind(d)])
  <2>. SUFFICES ASSUME NEW d \in Lists, ~Cut(d) PROVE f[d] = Above(d, f[Behind(d)])
    BY <1>4 DEF Follows
  <2>1. Behind(d) \in Lists  BY FrontItem
  <2>. QED  BY <1>4, <2>1 DEF Follows
<1>6. f = body(f)  BY <1>5
<1>7. parseTLVs = CHOOSE g : g = body(g)  BY DEF parseTLVs, NoItems, Above
<1>. HIDE DEF body
<1>8. parseTLVs = body(parseTLVs)  BY <1>6, <1>7
<1>. USE DEF body
<1>9. \A d \in Lists : parseTLVs[d] = IF Cut(d) THEN NoItems ELSE Above(d, parseTLVs[Behind(d)])
  BY <1>8
<1>10. \A d \in Lists : parseTLVs[d] = f[d]
  <2>. DEFINE P == {d \in Lists : parseTLVs[d] = f[d]}
  <2>1. \A d \in Lists : (~Cut(d) => Behind(d) \in P) => d \in P  BY <1>5, <1>9
  <2>. HIDE DEF P
  <2>2. \A d \in Lists : d \in P  BY <2>1, ItemByItem
  <2>. QED  BY <2>2 DEF P
<1>11. parseTLVs = [d \in Lists |-> parseTLVs[d]]  BY <1>8
<1>. QED  BY <1>9, <1>10, <1>11

\* The features put in front of a list, and what reading makes of them.
LEMMA FeaturesFirst ==
  ASSUME NEW b \in Lists
  PROVE  /\ FeaturesItem \o b \in Lists
         /\ parseTLVs[FeaturesItem \o b][Text] = parseTLVs[b][Text]
<1>1. Features \in Nat /\ <<0>> \in Lists  BY DEF Features, Lists
<1>2. /\ FeaturesItem \o b \in Lists /\ ~Cut(FeaturesItem \o b)
      /\ (FeaturesItem \o b)[1] = Features /\ Behind(FeaturesItem \o b) = b
  BY <1>1, ItemMade DEF FeaturesItem
<1>3. parseTLVs[FeaturesItem \o b] = Above(FeaturesItem \o b, parseTLVs[b])
  BY <1>2, Parsing
<1>4. Text \in Types /\ Text # Features  BY DEF Types, Text, Features
<1>5. parseTLVs[FeaturesItem \o b][Text] = parseTLVs[b][Text]
  BY <1>2, <1>3, <1>4 DEF Above
<1>. QED  BY <1>2, <1>5

LEMMA Inserting ==
  /\ BeforeText \in [Lists -> Lists]
  /\ \A b \in Lists : BeforeText[b] = IF Cut(b) \/ b[1] = Text THEN FeaturesItem \o b
                                      ELSE Make(b[1], Value(b)) \o BeforeText[Behind(b)]
<1>. DEFINE With(b, r) == IF Cut(b) \/ b[1] = Text THEN FeaturesItem \o b
                                                   ELSE Make(b[1], Value(b)) \o r
            base == [b \in Lists |-> FeaturesItem \o b]
            step == [p \in Lists \X Lists |-> With(p[1], p[2])]
            body(f) == [b \in Lists |-> With(b, f[Behind(b)])]
<1>1. \A b \in Lists : FeaturesItem \o b \in Lists  BY FeaturesFirst
<1>2. base \in [Lists -> Lists]  BY <1>1
<1>3. step \in [Lists \X Lists -> Lists]
  <2>. SUFFICES ASSUME NEW b \in Lists, NEW r \in Lists PROVE With(b, r) \in Lists
    OBVIOUS
  <2>1. CASE Cut(b) \/ b[1] = Text  BY <1>1, <2>1
  <2>2. CASE ~(Cut(b) \/ b[1] = Text)
    <3>1. b[1] \in Nat /\ Value(b) \in Lists  BY <2>2, FrontItem
    <3>. QED  BY <2>2, <3>1, ItemMade
  <2>. QED  BY <2>1, <2>2
<1>4. PICK f \in [Lists -> Lists] : Follows(f, base, step)
  <2>. HIDE DEF base, step
  <2>. QED  BY <1>2, <1>3, Recursion
<1>5. \A b \in Lists : f[b] = With(b, f[Behind(b)])
  <2>. SUFFICES ASSUME NEW b \in Lists PROVE f[b] = With(b, f[Behind(b)])  OBVIOUS
  <2>1. CASE Cut(b)  BY <1>4, <2>1 DEF Follows
  <2>2. CASE ~Cut(b)
    <3>1. Behind(b) \in Lists  BY <2>2, FrontItem
    <3>2. f[b] = step[<<b, f[Behind(b)]>>] /\ f[Behind(b)] \in Lists  BY <1>4, <2>2, <3>1 DEF Follows
    <3>. HIDE DEF With
    <3>. QED  BY <3>2
  <2>. QED  BY <2>1, <2>2
<1>6. f = body(f)  BY <1>5
<1>7. BeforeText = CHOOSE g : g = body(g)  BY DEF BeforeText
<1>. HIDE DEF body
<1>8. BeforeText = body(BeforeText)  BY <1>6, <1>7
<1>. USE DEF body
<1>9. \A b \in Lists : BeforeText[b] = With(b, BeforeText[Behind(b)])
  BY <1>8
<1>10. \A b \in Lists : BeforeText[b] = f[b]
  <2>. DEFINE P == {b \in Lists : BeforeText[b] = f[b]}
  <2>1. \A b \in Lists : (~Cut(b) => Behind(b) \in P) => b \in P  BY <1>5, <1>9
  <2>. HIDE DEF P
  <2>2. \A b \in Lists : b \in P  BY <2>1, ItemByItem
  <2>. QED  BY <2>2 DEF P
<1>11. BeforeText = [b \in Lists |-> BeforeText[b]]  BY <1>8
<1>. QED  BY <1>9, <1>10, <1>11

\* Where the features come before the first text, the text read stays the same.
LEMMA TextStays ==
  ASSUME NEW b \in Lists
  PROVE  parseTLVs[BeforeText[b]][Text] = parseTLVs[b][Text]
<1>. DEFINE P == {d \in Lists : parseTLVs[BeforeText[d]][Text] = parseTLVs[d][Text]}
<1>1. ASSUME NEW d \in Lists, ~Cut(d) => Behind(d) \in P PROVE d \in P
  <2>1. CASE Cut(d) \/ d[1] = Text  BY <2>1, Inserting, FeaturesFirst
  <2>2. CASE ~(Cut(d) \/ d[1] = Text)
    <3>. DEFINE r == BeforeText[Behind(d)]
                e == Make(d[1], Value(d)) \o r
    <3>1. d[1] \in Nat /\ Value(d) \in Lists /\ Behind(d) \in Lists  BY <2>2, FrontItem
    <3>2. r \in Lists /\ BeforeText[d] = e  BY <2>2, <3>1, Inserting
    <3>. HIDE DEF r
    <3>3. e \in Lists /\ ~Cut(e) /\ e[1] = d[1] /\ Value(e) = Value(d) /\ Behind(e) = r
      BY <3>1, <3>2, ItemMade
    <3>. HIDE DEF e
    <3>4. parseTLVs[e] = Above(e, parseTLVs[r])  BY <3>3, Parsing
    <3>5. parseTLVs[d] = Above(d, parseTLVs[Behind(d)])  BY <2>2, Parsing
    <3>6. parseTLVs[r][Text] = parseTLVs[Behind(d)][Text]  BY <1>1, <2>2 DEF r
    <3>7. Text \in Types  BY DEF Types
    <3>8. parseTLVs[e][Text] = parseTLVs[d][Text]
      BY <3>3, <3>4, <3>5, <3>6, <3>7 DEF Above
    <3>. QED  BY <3>2, <3>8
  <2>. QED  BY <2>1, <2>2
<1>. HIDE DEF P
<1>2. \A d \in Lists : d \in P  BY <1>1, ItemByItem
<1>. QED  BY <1>2 DEF P

\* A block that was completed has the text it had, or none as before.
LEMMA CompletedReads ==
  ASSUME NEW b \in Lists
  PROVE  Completed(b) \in Lists /\ parseTLVs[Completed(b)][Text] = parseTLVs[b][Text]
BY FeaturesFirst, TextStays, Inserting DEF Completed

\* What becomes of the value of an item.
Ensured(t, v) == IF t = Message THEN Completed(v) ELSE v

LEMMA Ensuring ==
  /\ ensureMsgFeaturesTLV \in [Lists -> Lists]
  /\ \A d \in Lists : ensureMsgFeaturesTLV[d] =
       IF Cut(d) THEN d
       ELSE Make(d[1], Ensured(d[1], Value(d))) \o ensureMsgFeaturesTLV[Behind(d)]
<1>. DEFINE With(d, r) == IF Cut(d) THEN d ELSE Make(d[1], Ensured(d[1], Value(d))) \o r
            base == [d \in Lists |-> d]
            step == [p \in Lists \X Lists |-> With(p[1], p[2])]
            body(f) == [d \in Lists |-> With(d, f[Behind(d)])]
<1>1. base \in [Lists -> Lists]  OBVIOUS
<1>2. step \in [Lists \X Lists -> Lists]
  <2>. SUFFICES ASSUME NEW d \in Lists, NEW r \in Lists, ~Cut(d)
                PROVE  Make(d[1], Ensured(d[1], Value(d))) \o r \in Lists
    OBVIOUS
  <2>1. d[1] \in Nat /\ Value(d) \in Lists  BY FrontItem
  <2>2. Ensured(d[1], Value(d)) \in Lists  BY <2>1, CompletedReads DEF Ensured
  <2>. QED  BY <2>1, <2>2, ItemMade
<1>3. PICK f \in [Lists -> Lists] : Follows(f, base, step)
  <2>. HIDE DEF base, step
  <2>. QED  BY <1>1, <1>2, Recursion
<1>4. \A d \in Lists : f[d] = With(d, f[Behind(d)])
  <2>. SUFFICES ASSUME NEW d \in Lists PROVE f[d] = With(d, f[Behind(d)])  OBVIOUS
  <2>1. CASE Cut(d)  BY <1>3, <2>1 DEF Follows
  <2>2. CASE ~Cut(d)
    <3>1. Behind(d) \in Lists  BY <2>2, FrontItem
    <3>2. f[d] = step[<<d, f[Behind(d)]>>] /\ f[Behind(d)] \in Lists  BY <1>3, <2>2, <3>1 DEF Follows
    <3>. HIDE DEF With
    <3>. QED  BY <3>2
  <2>. QED  BY <2>1, <2>2
<1>5. f = body(f)  BY <1>4
<1>6. ensureMsgFeaturesTLV = CHOOSE g : g = body(g)  BY DEF ensureMsgFeaturesTLV, Ensured
<1>. HIDE DEF body
<1>7. ensureMsgFeaturesTLV = body(ensureMsgFeaturesTLV)  BY <1>5, <1>6
<1>. USE DEF body
<1>8. \A d \in Lists : ensureMsgFeaturesTLV[d] = With(d, ensureMsgFeaturesTLV[Behind(d)])
  BY <1>7
<1>9. \A d \in Lists : ensureMsgFeaturesTLV[d] = f[d]
  <2>. DEFINE P == {d \in Lists : ensureMsgFeaturesTLV[d] = f[d]}
  <2>1. \A d \in Lists : (~Cut(d) => Behind(d) \in P) => d \in P  BY <1>4, <1>8
  <2>. HIDE DEF P
  <2>2. \A d \in Lists : d \in P  BY <2>1, ItemByItem
  <2>. QED  BY <2>2 DEF P
<1>10. ensureMsgFeaturesTLV = [d \in Lists |-> ensureMsgFeaturesTLV[d]]  BY <1>7
<1>. QED  BY <1>8, <1>9, <1>10

\* The recipient reads the block that was sent, completed.
LEMMA BlockCompleted ==
  ASSUME NEW d \in Lists
  PROVE  parseTLVs[ensureMsgFeaturesTLV[d]][Message] =
           IF parseTLVs[d][Message] = Missing THEN Missing
           ELSE <<Completed(parseTLVs[d][Message][1])>>
<1>. DEFINE Same(c) == parseTLVs[ensureMsgFeaturesTLV[c]][Message] =
                         IF parseTLVs[c][Message] = Missing THEN Missing
                         ELSE <<Completed(parseTLVs[c][Message][1])>>
            P == {c \in Lists : Same(c)}
<1>1. ASSUME NEW c \in Lists, ~Cut(c) => Behind(c) \in P PROVE c \in P
  <2>0. Message \in Types  BY DEF Types
  <2>1. CASE Cut(c)
    <3>1. ensureMsgFeaturesTLV[c] = c /\ parseTLVs[c] = NoItems  BY <2>1, Ensuring, Parsing
    <3>. QED  BY <2>0, <3>1 DEF NoItems
  <2>2. CASE ~Cut(c)
    <3>. DEFINE r == ensureMsgFeaturesTLV[Behind(c)]
                v == Ensured(c[1], Value(c))
                e == Make(c[1], v) \o r
    <3>1. c[1] \in Nat /\ Value(c) \in Lists /\ Behind(c) \in Lists  BY <2>2, FrontItem
    <3>2. r \in Lists /\ ensureMsgFeaturesTLV[c] = e  BY <2>2, <3>1, Ensuring
    <3>3. v \in Lists  BY <3>1, CompletedReads DEF Ensured
    <3>4. c[1] = Message => v = Completed(Value(c))  BY DEF Ensured
    <3>5. Same(Behind(c))  BY <1>1, <2>2
    <3>6. parseTLVs[r][Message] = IF parseTLVs[Behind(c)][Message] = Missing THEN Missing
                                  ELSE <<Completed(parseTLVs[Behind(c)][Message][1])>>
      BY <3>5
    <3>. HIDE DEF r, v
    <3>7. e \in Lists /\ ~Cut(e) /\ e[1] = c[1] /\ Value(e) = v /\ Behind(e) = r
      BY <3>1, <3>2, <3>3, ItemMade
    <3>. HIDE DEF e
    <3>8. parseTLVs[e] = Above(e, parseTLVs[r])  BY <3>7, Parsing
    <3>9. parseTLVs[c] = Above(c, parseTLVs[Behind(c)])  BY <2>2, Parsing
    <3>10. parseTLVs[e][Message] = IF Message = c[1] /\ parseTLVs[r][Message] = Missing
                                     THEN <<v>> ELSE parseTLVs[r][Message]
      BY <2>0, <3>7, <3>8 DEF Above
    <3>11. parseTLVs[c][Message] = IF Message = c[1] /\ parseTLVs[Behind(c)][Message] = Missing
                                     THEN <<Value(c)>> ELSE parseTLVs[Behind(c)][Message]
      BY <2>0, <3>9 DEF Above
    <3>12. Same(c)
      <4>1. \A x : <<x>> # Missing /\ <<x>>[1] = x  BY DEF Missing
      <4>2. CASE Message = c[1] /\ parseTLVs[Behind(c)][Message] = Missing
        <5>1. parseTLVs[e][Message] = <<v>> /\ parseTLVs[c][Message] = <<Value(c)>>
          BY <3>6, <3>10, <3>11, <4>2
        <5>. QED  BY <3>2, <3>4, <4>1, <4>2, <5>1
      <4>3. CASE ~(Message = c[1] /\ parseTLVs[Behind(c)][Message] = Missing)
        <5>1. parseTLVs[c][Message] = parseTLVs[Behind(c)][Message]  BY <3>11, <4>3
        <5>2. parseTLVs[e][Message] = parseTLVs[r][Message]
          BY <3>6, <3>10, <4>1, <4>3
        <5>. QED  BY <3>2, <3>6, <5>1, <5>2
      <4>. QED  BY <4>2, <4>3
    <3>. QED  BY <3>12
  <2>. QED  BY <2>1, <2>2
<1>. HIDE DEF P
<1>2. \A c \in Lists : c \in P  BY <1>1, ItemByItem
<1>. QED  BY <1>2 DEF P

\* For every list, whatever its lengths say.
LEMMA SameText ==
  ASSUME NEW d \in Lists
  PROVE  Extract(ensureMsgFeaturesTLV[d]) = Extract(d)
<1>. DEFINE block == parseTLVs[d][Message]
            sent == parseTLVs[ensureMsgFeaturesTLV[d]][Message]
<1>1. block \in Seq(Lists)  BY Parsing DEF Maps, Types
<1>2. sent = IF block = Missing THEN Missing ELSE <<Completed(block[1])>>  BY BlockCompleted
<1>3. CASE block = Missing  BY <1>2, <1>3 DEF Extract
<1>4. CASE block # Missing
  <2>1. block[1] \in Lists
    <3>1. Len(block) \in Nat \ {0}  BY <1>1, <1>4, EmptySeq DEF Missing
    <3>. QED  BY <1>1, <3>1, ElementOfSeq
  <2>2. sent # Missing /\ sent[1] = Completed(block[1])  BY <1>2, <1>4 DEF Missing
  <2>3. parseTLVs[sent[1]][Text] = parseTLVs[block[1]][Text]  BY <2>1, <2>2, CompletedReads
  <2>. HIDE DEF block, sent
  <2>4. Extract(d) = LET fragment == parseTLVs[block[1]][Text]
                     IN  IF fragment \in {Missing, << <<>> >>} THEN <<>> ELSE Tail(fragment[1])
    BY <1>4 DEF Extract, block
  <2>5. Extract(ensureMsgFeaturesTLV[d]) =
          LET fragment == parseTLVs[sent[1]][Text]
          IN  IF fragment \in {Missing, << <<>> >>} THEN <<>> ELSE Tail(fragment[1])
    BY <2>2 DEF Extract, sent
  <2>. QED  BY <2>3, <2>4, <2>5
<1>. QED  BY <1>3, <1>4

TlvInv == tlvs \in Lists

\* Whatever list of items comes from a client, whole, cut short or with lengths that
\* lie: completing it for the recipient leaves the text it carries as it would be
\* stored, for lists of every length.
THEOREM TextSurvives == TlvSpec => []SameTextLiveAndStored
<1>1. TlvInit => TlvInv  BY EmptySeq DEF TlvInit, TlvInv, Lists
<1>2. TlvInv /\ [TlvNext]_tlvs => TlvInv'
  <2>. SUFFICES ASSUME TlvInv, NEW cell \in Cells, Receive(cell) PROVE TlvInv'
    BY DEF TlvNext, TlvInv
  <2>1. cell \in Nat  BY TlvsAssumption
  <2>. QED  BY <2>1, AppendProperties DEF Receive, TlvInv, Lists
<1>3. TlvInv => SameTextLiveAndStored  BY SameText DEF SameTextLiveAndStored, TlvInv
<1>. QED  BY <1>1, <1>2, <1>3, PTL DEF TlvSpec

=============================================================================
