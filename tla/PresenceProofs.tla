--------------------------- MODULE PresenceProofs ---------------------------
(***************************************************************************)
(* Safety of the presence broadcasts, for any connections, UINs, contacts  *)
(* and privacy settings. The broadcasts walk a copy of the registry while  *)
(* sessions come and go, so the invariant says what such a copy is worth:  *)
(*   WalkInv     types, and what a handler holds while it walks;           *)
(*   KnownInv    whom a copy, a closure or a client's view is about stays  *)
(*               the same UIN's session until it is none's;                *)
(*   AllowedInv  what is about to be shown was allowed when it was read;   *)
(*   HiddenInv   the denials that a loop works with were its account's;    *)
(*   MeetInv     of two registered sessions, one of them tells or told     *)
(*               the viewer, once the owner's walk has begun;              *)
(*   GoneInv     who is seen online is registered, or its farewell walk    *)
(*               has yet to come to the viewer.                            *)
(***************************************************************************)
EXTENDS Presence, DirectoryProofs, SequenceTheorems

\* The loops a handler may have before it.
Shapes == {<<>>, <<"notify">>, <<"full">>, <<"notify", "full">>, <<"farewell">>, <<"privacy">>}

\* Is the handler of c in its loop l, with the registry copied?
Walking(c, l) == loops[c] # <<>> /\ Head(loops[c]) = l /\ copied[c]

PresenceTypeOK ==
  /\ status \in [Conns -> Shown]
  /\ ssiActive \in [Conns -> BOOLEAN]
  /\ loops \in [Conns -> Shapes]
  /\ copied \in [Conns -> BOOLEAN]
  /\ todo \in [Conns -> SUBSET (Uins \X Conns)]
  /\ hidden \in [Conns -> SUBSET Uins]
  /\ peeked \in [Conns -> SUBSET (Uins \X Shown \X Conns)]
  /\ flying \subseteq [by : Conns, to : Conns, on : BOOLEAN, of : Uins \cup {NoUin},
                      what : Shown \cup {"untold"}]
  /\ deny \subseteq Pairs
  /\ view \in [Conns -> [Uins -> Shown \cup {"untold"}]]
  /\ done \in [Conns -> SUBSET Announcing]
  /\ everDenied \subseteq Pairs /\ everAllowed \subseteq Pairs
  /\ late \subseteq Conns \X Uins
  /\ lost \subseteq Conns

\* A handler that walks has an identity, and keeps one presence in hand at most.
HandlerInv ==
  /\ \A c \in Conns : loops[c] # <<>> => uin[c] \in Uins /\ life[c] \in {"up", "ending"}
  /\ \A c \in Conns : peeked[c] # {} => Walking(c, "full")
  /\ \A c \in Conns : \A p, q \in peeked[c] : p = q
  /\ \A f \in flying : f.what # "untold" => f.of \in Uins

WalkInv == PresenceTypeOK /\ HandlerInv
TypeInv == DirInv /\ WalkInv

----------------------------------------------------------------------------
(* Lemmas about the operators.                                             *)

\* The loops before a handler, when it ends one of them.
LEMMA ShapeFacts ==
  ASSUME NEW l \in Shapes
  PROVE  /\ l \in Seq(Loops)
         /\ l # <<>> => /\ Head(l) \in Loops
                        /\ Tail(l) \in Shapes
                        /\ Tail(l) \in {<<>>, <<"full">>}
                        /\ Tail(l) # <<>> => Head(l) = "notify" /\ Head(Tail(l)) = "full"
<1>1. \A a \in Loops : /\ <<a>> \in Seq(Loops) /\ <<a>> # <<>>
                       /\ Head(<<a>>) = a /\ Tail(<<a>>) = <<>>
  OBVIOUS
<1>2. \A a, b \in Loops : /\ <<a, b>> \in Seq(Loops) /\ <<a, b>> # <<>>
                          /\ Head(<<a, b>>) = a /\ Tail(<<a, b>>) = <<b>>
  OBVIOUS
<1>3. /\ Head(<<"notify">>) = "notify" /\ Tail(<<"notify">>) = <<>>
      /\ Head(<<"full">>) = "full" /\ Tail(<<"full">>) = <<>>
      /\ Head(<<"farewell">>) = "farewell" /\ Tail(<<"farewell">>) = <<>>
      /\ Head(<<"privacy">>) = "privacy" /\ Tail(<<"privacy">>) = <<>>
      /\ Head(<<"notify", "full">>) = "notify" /\ Tail(<<"notify", "full">>) = <<"full">>
  BY <1>1, <1>2 DEF Loops
<1>4. <<"full">> \in Shapes /\ <<>> \in Shapes  BY DEF Shapes
<1>5. CASE l = <<>>  BY <1>5
<1>6. CASE l = <<"notify", "full">>
  <2>1. l \in Seq(Loops) /\ Head(l) \in Loops /\ Tail(l) \in Shapes /\ Tail(l) = <<"full">>
    BY <1>2, <1>3, <1>4, <1>6 DEF Loops
  <2>2. Head(l) = "notify" /\ Head(Tail(l)) = "full"  BY <1>3, <1>6
  <2>. QED  BY <2>1, <2>2
<1>7. ASSUME NEW a \in Loops, l = <<a>>
      PROVE  l \in Seq(Loops) /\ Head(l) \in Loops /\ Tail(l) = <<>>
  BY <1>1, <1>7
<1>8. l = <<>> \/ l = <<"notify", "full">> \/ \E a \in Loops : l = <<a>>
  BY DEF Shapes, Loops
<1>. QED  BY <1>4, <1>5, <1>6, <1>7, <1>8

\* A contact and its owner are registered UINs, and two.
LEMMA BuddyFacts ==
  ASSUME NEW v, NEW o, <<v, o>> \in Buddies
  PROVE  v \in Uins /\ o \in Uins /\ v # o /\ <<o, v>> \in Pairs
<1>1. <<v, o>>[1] = v /\ <<v, o>>[2] = o  OBVIOUS
<1>2. <<v, o>> \in Uins \X Uins /\ v # o  BY <1>1, PresenceAssumption
<1>3. <<o, v>> \in Pairs  BY <1>1 DEF Pairs
<1>. QED  BY <1>2, <1>3

\* What Show does to the clients' views: one entry, if anything.
LEMMA Told ==
  ASSUME PresenceTypeOK, NEW c \in Conns, NEW u \in Uins, NEW what \in Shown,
         NEW subject \in Conns, Show(c, u, what, subject)
  PROVE  /\ view' \in [Conns -> [Uins -> Shown \cup {"untold"}]]
         /\ late' \subseteq Conns \X Uins /\ late \subseteq late'
         /\ \A d \in Conns, w \in Uins : d # c \/ w # u => view'[d][w] = view[d][w]
         /\ \/ running[c] /\ uin[c] # NoUin /\ open[c]
               /\ view'[c][u] = what
               /\ (what \in Statuses /\ sessions[u] # subject => <<c, u>> \in late')
            \/ ~(running[c] /\ uin[c] # NoUin /\ open[c]) /\ view'[c][u] = view[c][u]
<1>1. view \in [Conns -> [Uins -> Shown \cup {"untold"}]] /\ late \subseteq Conns \X Uins
  BY DEF PresenceTypeOK
<1>2. CASE running[c] /\ uin[c] # NoUin /\ open[c]
  <2>1. view' = [view EXCEPT ![c][u] = what]  BY <1>2 DEF Show
  <2>2. late' = IF what \in Statuses /\ sessions[u] # subject
                  THEN late \cup {<<c, u>>} ELSE late
    BY <1>2 DEF Show
  <2>. QED  BY <1>1, <1>2, <2>1, <2>2
<1>3. CASE ~(running[c] /\ uin[c] # NoUin /\ open[c])
  <2>1. UNCHANGED <<view, late>>  BY <1>3 DEF Show
  <2>. QED  BY <1>1, <1>3, <2>1
<1>. QED  BY <1>2, <1>3

----------------------------------------------------------------------------
(* Types, and the state of a walk.                                         *)

\* Broadcasts and the goroutines they spawn leave the directory alone.
LEMMA HabitKept == [Next]_vars => [DirNext /\ OneUinEach]_dirVars
<1>. SUFFICES ASSUME [Next]_vars PROVE (DirNext /\ OneUinEach) \/ UNCHANGED dirVars
  OBVIOUS
<1>1. ASSUME NEW c \in Conns, SessionStep(c) PROVE DirNext /\ OneUinEach
  BY <1>1
  DEF SessionStep, SignOn, SignOff, TakeIdentity, OwnMove, ForeignMove, DirStep, OwnStep, DirNext
<1>2. ASSUME NEW c \in Conns, Handle(c) PROVE UNCHANGED dirVars
  BY <1>2 DEF Handle, ClientReady, SsiActivate, SetStatus, SetPrivacy
<1>3. ASSUME NEW c \in Conns, Walk(c) PROVE UNCHANGED dirVars
  BY <1>3 DEF Walk, Copy, Say, Next_Loop, Notify, Peek, Farewell, Privacy, Visit
<1>4. ASSUME NEW f \in flying, Read(f) \/ Deliver(f) PROVE UNCHANGED dirVars
  BY <1>4 DEF Read, Deliver
<1>5. CASE UNCHANGED vars \/ AllGone  BY <1>5 DEF vars, AllGone
<1>. QED  BY <1>1, <1>2, <1>3, <1>4, <1>5 DEF Next

\* The sessions underneath the broadcasts are the Directory's, that is, what Sessions
\* implements, although sign-on and cleanup are steps of this module: they broadcast
\* on the way.
THEOREM SessionsUnderneath == Spec => DirSpec
<1>1. Init => DirInit  BY DEF Init
<1>2. [Next]_vars => [DirNext]_dirVars  BY HabitKept
<1>. QED  BY <1>1, <1>2, PTL DEF Spec, DirSpec

LEMMA DirectoryKept ==
  ASSUME DirInv, [Next]_vars
  PROVE  DirInv'
<1>1. [DirNext /\ OneUinEach]_dirVars  BY HabitKept
<1>. QED  BY <1>1, DirNextInv

\* The walk of a connection holds its goroutine: the session layer moves it
\* between two handlers only.
LEMMA OwnStepsWait ==
  ASSUME TypeInv, NEW c \in Conns, SessionStep(c), NEW d \in Conns, loops[d] # <<>>
  PROVE  uin'[d] = uin[d] /\ life'[d] = life[d]
<1>1. uin \in [Conns -> Uins \cup {NoUin}] /\ life \in [Conns -> Lives]
      /\ life[d] \in {"up", "ending"}
  BY DEF TypeInv, DirInv, DirBase, DirTypeOK, WalkInv, HandlerInv
<1>2. CASE loops[c] = <<>>
  <2>1. c # d  BY <1>2
  <2>. QED
    BY <1>1, <2>1
    DEF SessionStep, SignOn, SignOff, TakeIdentity, OwnMove, ForeignMove, ForeignStep,
        Register, Unregister, Assume, Finish, Forget, Leave, Connect, Drop, Halt
<1>3. CASE loops[c] # <<>>
  <2>1. ForeignStep(c)  BY <1>3 DEF SessionStep, OwnMove, ForeignMove
  <2>2. life[c] \in {"up", "ending"}
    BY <1>3 DEF TypeInv, WalkInv, HandlerInv
  <2>. QED  BY <1>1, <2>1, <2>2 DEF ForeignStep, Connect, Drop, Halt
<1>. QED  BY <1>2, <1>3

\* What a step of the session layer does to the broadcasts: a sign-off starts one.
LEMMA SessionMoves ==
  ASSUME TypeInv, NEW c \in Conns, SessionStep(c)
  PROVE  /\ UNCHANGED <<ssiActive, todo, peeked, flying, deny, view, everDenied, everAllowed,
                        late>>
         /\ \/ loops[c] = <<>> /\ SignOff(c)
            \/ /\ UNCHANGED <<loops, copied, hidden>>
               /\ \/ loops[c] = <<>> /\ SignOn(c)
                  \/ loops[c] = <<>> /\ \E u \in Uins : TakeIdentity(c, u)
                  \/ UNCHANGED <<status, done, lost>> /\ sessions' = sessions
<1>1. CASE loops[c] = <<>> /\ SignOff(c)
  BY <1>1 DEF SignOff, Begin
<1>2. CASE loops[c] = <<>> /\ SignOn(c)
  BY <1>2 DEF SignOn, walk
<1>3. ASSUME loops[c] = <<>>, NEW u \in Uins, TakeIdentity(c, u)
      PROVE  UNCHANGED <<walk, flying, deny, view, history>>
  BY <1>3 DEF TakeIdentity
<1>4. CASE loops[c] = <<>> /\ \E u \in Uins : TakeIdentity(c, u)
  BY <1>3, <1>4 DEF walk, history
<1>5. CASE OwnMove(c) \/ ForeignMove(c)
  BY <1>5
  DEF OwnMove, ForeignMove, ForeignStep, Finish, Forget, Leave, Connect, Drop, Halt,
      presenceVars, walk, history
<1>. QED  BY <1>1, <1>2, <1>4, <1>5 DEF SessionStep

LEMMA WalkSession ==
  ASSUME TypeInv, NEW c \in Conns, SessionStep(c)
  PROVE  WalkInv'
<1>1. PresenceTypeOK /\ HandlerInv /\ DirTypeOK /\ Identified
  BY DEF TypeInv, WalkInv, DirInv, DirBase
<1>2. <<"farewell">> \in Shapes /\ <<"farewell">> # <<>> /\ "offline" \in Shown
      /\ Online \in Shown
  BY PresenceAssumption DEF Shapes, Shown
<1>3. UNCHANGED <<ssiActive, todo, peeked, flying, deny, view, everDenied, everAllowed, late>>
  BY SessionMoves
<1>4. \A d \in Conns : loops[d] # <<>> => uin'[d] = uin[d] /\ life'[d] = life[d]
  BY OwnStepsWait
<1>5. Ousted(c) \subseteq Conns \/ uin[c] = NoUin  BY <1>1 DEF Ousted, DirTypeOK
<1>6. CASE loops[c] = <<>> /\ SignOff(c)
  <2>1. /\ loops' = [loops EXCEPT ![c] = <<"farewell">>]
        /\ hidden' = [hidden EXCEPT ![c] = DeniedBy(uin[c])]
        /\ copied' = [copied EXCEPT ![c] = FALSE]
        /\ status' = [status EXCEPT ![c] = "offline"]
        /\ done' = [done EXCEPT ![c] = {}]
        /\ lost' = lost \cup Ousted(c)
        /\ UNCHANGED <<uin, life>> /\ life[c] = "ending" /\ uin[c] \in Uins
    BY <1>1, <1>6 DEF SignOff, Begin, Unregister, DirTypeOK
  <2>2. Ousted(c) \subseteq Conns  BY <1>5, <2>1, DirectoryAssumption
  <2>3. DeniedBy(uin[c]) \subseteq Uins  BY DEF DeniedBy
  <2>4. /\ status' \in [Conns -> Shown] /\ loops' \in [Conns -> Shapes]
        /\ copied' \in [Conns -> BOOLEAN] /\ hidden' \in [Conns -> SUBSET Uins]
        /\ done' \in [Conns -> SUBSET Announcing] /\ lost' \subseteq Conns
    BY <1>1, <1>2, <2>1, <2>2, <2>3 DEF PresenceTypeOK
  <2>5. PresenceTypeOK'  BY <1>1, <1>3, <2>4 DEF PresenceTypeOK
  <2>6. \A d \in Conns : peeked[d] # {} => Walking(d, "full")'
    <3>. SUFFICES ASSUME NEW d \in Conns, peeked[d] # {} PROVE Walking(d, "full")'
      OBVIOUS
    <3>1. Walking(d, "full")  BY <1>1 DEF HandlerInv
    <3>2. d # c  BY <1>6, <3>1 DEF Walking
    <3>. QED  BY <1>1, <2>1, <3>1, <3>2 DEF Walking, PresenceTypeOK
  <2>7. \A d \in Conns : loops'[d] # <<>> => uin'[d] \in Uins /\ life'[d] \in {"up", "ending"}
    <3>. SUFFICES ASSUME NEW d \in Conns, loops'[d] # <<>>
                  PROVE  uin'[d] \in Uins /\ life'[d] \in {"up", "ending"}
      OBVIOUS
    <3>1. CASE d = c  BY <2>1, <3>1
    <3>2. CASE d # c  BY <1>1, <2>1, <3>2 DEF HandlerInv, PresenceTypeOK
    <3>. QED  BY <3>1, <3>2
  <2>. QED  BY <1>1, <1>3, <2>5, <2>6, <2>7 DEF WalkInv, HandlerInv
<1>7. CASE UNCHANGED <<loops, copied, hidden>>
  <2>1. status' \in [Conns -> Shown] /\ done' \in [Conns -> SUBSET Announcing]
        /\ lost' \subseteq Conns
    <3>1. CASE loops[c] = <<>> /\ SignOff(c)
      <4>1. loops'[c] = <<"farewell">>
        BY <1>1, <3>1 DEF SignOff, Begin, PresenceTypeOK
      <4>. QED  BY <1>2, <1>7, <3>1, <4>1
    <3>2. CASE SignOn(c)
      <4>1. uin[c] # NoUin  BY <1>1, <3>2 DEF SignOn, Register, Identified
      <4>. QED  BY <1>1, <1>5, <3>2, <4>1 DEF SignOn, PresenceTypeOK
    <3>3. CASE \E u \in Uins : TakeIdentity(c, u)
      BY <1>1, <1>2, <3>3 DEF TakeIdentity, history, PresenceTypeOK
    <3>. QED  BY <1>1, <3>1, <3>2, <3>3, SessionMoves DEF PresenceTypeOK
  <2>2. PresenceTypeOK'  BY <1>1, <1>3, <1>7, <2>1 DEF PresenceTypeOK
  <2>. QED  BY <1>1, <1>3, <1>4, <1>7, <2>2 DEF WalkInv, HandlerInv, Walking
<1>. QED  BY <1>6, <1>7, SessionMoves

\* What every handler does when it starts: it walks nothing yet, and has an
\* identity if it will.
Started(c) ==
  /\ UNCHANGED <<dirVars, flying, view, done, late, lost, todo, peeked>>
  /\ life[c] = "up" /\ loops[c] = <<>>
  /\ status' \in [Conns -> Shown] /\ (\A d \in Conns \ {c} : status'[d] = status[d])
  /\ ssiActive' \in [Conns -> BOOLEAN]
  /\ deny' \subseteq Pairs
  /\ \/ UNCHANGED <<deny, everDenied, everAllowed>>
     \/ /\ everDenied' = everDenied \cup deny'
        /\ everAllowed' = everAllowed \cup (Pairs \ deny')
  /\ \E l \in Shapes \ {<<"farewell">>}, denied \in SUBSET Uins :
       /\ loops' = [loops EXCEPT ![c] = l]
       /\ hidden' = [hidden EXCEPT ![c] = denied]
       /\ copied' = [copied EXCEPT ![c] = FALSE]
       /\ l # <<>> => uin[c] \in Uins
       /\ l # <<>> /\ l # <<"full">> => \A v \in Uins \ denied : <<uin[c], v>> \notin deny'
       /\ \A v \in denied : <<uin[c], v>> \in deny'

LEMMA HandleStarts ==
  ASSUME TypeInv, NEW c \in Conns, Handle(c)
  PROVE  Started(c)
<1>1. PresenceTypeOK /\ DirTypeOK /\ (uin[c] # NoUin => uin[c] \in Uins)
  BY DEF TypeInv, WalkInv, DirInv, DirBase, DirTypeOK
<1>2. /\ \A a, b \in Loops : <<a>> # <<>> /\ <<a, b>> # <<>> /\ <<a, b>> # <<b>>
      /\ \A a, b \in Loops : <<a>> = <<b>> => a = b
      /\ \A a, b, d \in Loops : <<a, b>> # <<d>>
  OBVIOUS
<1>3. /\ \A l \in {<<"notify">>, <<"full">>, <<"notify", "full">>, <<"privacy">>, <<>>} :
           l \in Shapes \ {<<"farewell">>}
      /\ <<"notify">> # <<"full">> /\ <<"notify", "full">> # <<"full">>
      /\ <<"privacy">> # <<"full">> /\ <<"full">> # <<>>
      /\ Statuses \subseteq Shown
  BY <1>2 DEF Shapes, Shown, Loops
<1>4. /\ DeniedBy(uin[c]) \subseteq Uins
      /\ \A v \in Uins \ DeniedBy(uin[c]) : <<uin[c], v>> \notin deny
      /\ \A v \in DeniedBy(uin[c]) : <<uin[c], v>> \in deny
  BY DEF DeniedBy
<1>5. CASE ClientReady(c)
  <2>1. /\ UNCHANGED <<dirVars, flying, view, done, late, lost, todo, peeked, status,
                       ssiActive, deny, everDenied, everAllowed>>
        /\ life[c] = "up" /\ loops[c] = <<>> /\ uin[c] \in Uins
        /\ hidden' = [hidden EXCEPT ![c] = DeniedBy(uin[c])]
        /\ copied' = [copied EXCEPT ![c] = FALSE]
    BY <1>1, <1>5 DEF ClientReady, Serving, Begin, history
  <2>2. \E l \in Shapes \ {<<"farewell">>} : loops' = [loops EXCEPT ![c] = l]
    BY <1>3, <1>5 DEF ClientReady, Begin
  <2>. QED  BY <1>1, <1>4, <2>1, <2>2 DEF Started, PresenceTypeOK
<1>6. CASE SsiActivate(c)
  <2>1. /\ UNCHANGED <<dirVars, flying, view, done, late, lost, todo, peeked, status,
                       deny, everDenied, everAllowed>>
        /\ life[c] = "up" /\ loops[c] = <<>>
        /\ ssiActive' = [ssiActive EXCEPT ![c] = TRUE]
        /\ hidden' = [hidden EXCEPT ![c] = {}]
        /\ copied' = [copied EXCEPT ![c] = FALSE]
    BY <1>6 DEF SsiActivate, Begin, history
  <2>2. \E l \in {<<>>, <<"full">>} : /\ loops' = [loops EXCEPT ![c] = l]
                                      /\ l # <<>> => uin[c] \in Uins
    BY <1>1, <1>6 DEF SsiActivate, Begin
  <2>3. PICK l \in {<<>>, <<"full">>} : /\ loops' = [loops EXCEPT ![c] = l]
                                        /\ l # <<>> => uin[c] \in Uins
    BY <2>2
  <2>4. l \in Shapes \ {<<"farewell">>} /\ (l = <<>> \/ l = <<"full">>)  BY <1>3, <2>3
  <2>5. \E k \in Shapes \ {<<"farewell">>}, denied \in SUBSET Uins :
          /\ loops' = [loops EXCEPT ![c] = k]
          /\ hidden' = [hidden EXCEPT ![c] = denied]
          /\ copied' = [copied EXCEPT ![c] = FALSE]
          /\ k # <<>> => uin[c] \in Uins
          /\ k # <<>> /\ k # <<"full">> => \A v \in Uins \ denied : <<uin[c], v>> \notin deny'
          /\ \A v \in denied : <<uin[c], v>> \in deny'
    <3>1. {} \in SUBSET Uins  OBVIOUS
    <3>. QED  BY <2>1, <2>3, <2>4, <3>1
  <2>6. ssiActive' \in [Conns -> BOOLEAN]  BY <1>1, <2>1 DEF PresenceTypeOK
  <2>. QED  BY <1>1, <2>1, <2>5, <2>6 DEF Started, PresenceTypeOK
<1>7. ASSUME NEW s \in Statuses, SetStatus(c, s)
      PROVE  Started(c)
  <2>1. /\ UNCHANGED <<dirVars, flying, view, done, late, lost, todo, peeked,
                       ssiActive, deny, everDenied, everAllowed>>
        /\ life[c] = "up" /\ loops[c] = <<>> /\ uin[c] \in Uins
        /\ status' = [status EXCEPT ![c] = s]
        /\ loops' = [loops EXCEPT ![c] = <<"notify">>]
        /\ hidden' = [hidden EXCEPT ![c] = DeniedBy(uin[c])]
        /\ copied' = [copied EXCEPT ![c] = FALSE]
    BY <1>1, <1>7 DEF SetStatus, Serving, Begin, history
  <2>2. /\ status' \in [Conns -> Shown] /\ (\A d \in Conns \ {c} : status'[d] = status[d])
    BY <1>1, <1>3, <2>1 DEF PresenceTypeOK
  <2>. QED  BY <1>1, <1>3, <1>4, <2>1, <2>2 DEF Started, PresenceTypeOK
<1>8. ASSUME NEW v \in Uins, SetPrivacy(c, v)
      PROVE  Started(c)
  <2>1. /\ UNCHANGED <<dirVars, flying, view, done, late, lost, todo, peeked, status,
                       ssiActive>>
        /\ life[c] = "up" /\ loops[c] = <<>> /\ uin[c] \in Uins
        /\ <<uin[c], v>> \in Pairs
        /\ deny' \in {deny \ {<<uin[c], v>>}, deny \cup {<<uin[c], v>>}}
        /\ loops' = [loops EXCEPT ![c] = <<"privacy">>]
        /\ hidden' = [hidden EXCEPT ![c] = {w \in Uins : <<uin[c], w>> \in deny'}]
        /\ copied' = [copied EXCEPT ![c] = FALSE]
        /\ everDenied' = everDenied \cup deny'
        /\ everAllowed' = everAllowed \cup (Pairs \ deny')
    BY <1>1, <1>8 DEF SetPrivacy, Serving, Begin
  <2>2. deny' \subseteq Pairs  BY <1>1, <2>1 DEF PresenceTypeOK
  <2>3. PICK denied \in SUBSET Uins : denied = {w \in Uins : <<uin[c], w>> \in deny'}
    OBVIOUS
  <2>4. /\ \A w \in Uins \ denied : <<uin[c], w>> \notin deny'
        /\ \A w \in denied : <<uin[c], w>> \in deny'
    BY <2>3
  <2>5. <<"privacy">> \in Shapes \ {<<"farewell">>}  BY <1>3
  <2>6. \E l \in Shapes \ {<<"farewell">>}, h \in SUBSET Uins :
          /\ loops' = [loops EXCEPT ![c] = l]
          /\ hidden' = [hidden EXCEPT ![c] = h]
          /\ copied' = [copied EXCEPT ![c] = FALSE]
          /\ l # <<>> => uin[c] \in Uins
          /\ l # <<>> /\ l # <<"full">> => \A w \in Uins \ h : <<uin[c], w>> \notin deny'
          /\ \A w \in h : <<uin[c], w>> \in deny'
    BY <2>1, <2>3, <2>4, <2>5
  <2>. QED  BY <1>1, <2>1, <2>2, <2>6 DEF Started, PresenceTypeOK
<1>. QED  BY <1>5, <1>6, <1>7, <1>8 DEF Handle

LEMMA WalkHandle ==
  ASSUME TypeInv, NEW c \in Conns, Handle(c)
  PROVE  WalkInv'
<1>1. PresenceTypeOK /\ HandlerInv /\ Started(c)
  BY HandleStarts DEF TypeInv, WalkInv
<1>2. PICK l \in Shapes \ {<<"farewell">>}, denied \in SUBSET Uins :
        /\ loops' = [loops EXCEPT ![c] = l]
        /\ hidden' = [hidden EXCEPT ![c] = denied]
        /\ copied' = [copied EXCEPT ![c] = FALSE]
        /\ l # <<>> => uin[c] \in Uins
  BY <1>1 DEF Started
<1>3. /\ UNCHANGED <<uin, life, flying, view, done, late, lost, todo, peeked>>
      /\ life[c] = "up" /\ loops[c] = <<>>
  BY <1>1 DEF Started, dirVars
<1>4. everDenied' \subseteq Pairs /\ everAllowed' \subseteq Pairs
  BY <1>1 DEF Started, PresenceTypeOK
<1>5. PresenceTypeOK'
  BY <1>1, <1>2, <1>3, <1>4 DEF Started, PresenceTypeOK
<1>6. \A d \in Conns : loops'[d] # <<>> => uin'[d] \in Uins /\ life'[d] \in {"up", "ending"}
  BY <1>1, <1>2, <1>3 DEF HandlerInv, PresenceTypeOK
<1>7. \A d \in Conns : peeked[d] # {} => Walking(d, "full")'
  <2>. SUFFICES ASSUME NEW d \in Conns, peeked[d] # {} PROVE Walking(d, "full")'
    OBVIOUS
  <2>1. Walking(d, "full")  BY <1>1 DEF HandlerInv
  <2>2. d # c  BY <1>3, <2>1 DEF Walking
  <2>. QED  BY <1>1, <1>2, <2>1, <2>2 DEF Walking, PresenceTypeOK
<1>. QED  BY <1>1, <1>3, <1>5, <1>6, <1>7 DEF WalkInv, HandlerInv

\* A visit moves on with the copy, and with nothing else of the walk.
LEMMA Visits ==
  ASSUME TypeInv, NEW c \in Conns, NEW l \in Loops, NEW e \in todo[c], Visit(c, l, e)
  PROVE  /\ UNCHANGED <<dirVars, status, ssiActive, loops, copied, hidden, deny>>
         /\ Walking(c, l) /\ peeked[c] = {} /\ uin[c] \in Uins
         /\ todo' = [todo EXCEPT ![c] = @ \ {e}]
         /\ todo' \in [Conns -> SUBSET (Uins \X Conns)]
         /\ e \in Uins \X Conns /\ e = <<e[1], e[2]>> /\ e[1] \in Uins /\ e[2] \in Conns
  BY DEF TypeInv, WalkInv, HandlerInv, PresenceTypeOK, Visit, Walking

\* The steps of a walk that tell nobody anything, and those that tell one client.
LEMMA WalkWalk ==
  ASSUME TypeInv, NEW c \in Conns, Walk(c)
  PROVE  WalkInv'
<1>1. PresenceTypeOK /\ HandlerInv /\ DirTypeOK
  BY DEF TypeInv, WalkInv, DirInv, DirBase
<1>2. \A d \in Conns : status[d] \in Shown /\ "offline" \in Shown
  BY <1>1 DEF PresenceTypeOK, Shown
<1>3. CASE Copy(c)
  <2>1. Snapshot(c) \in SUBSET (Uins \X Conns)
    BY <1>1 DEF Snapshot, DirTypeOK
  <2>2. /\ UNCHANGED <<uin, life, status, ssiActive, loops, hidden, peeked, flying, deny,
                       view, done, everDenied, everAllowed, late, lost>>
        /\ copied' = [copied EXCEPT ![c] = TRUE]
        /\ todo' = [todo EXCEPT ![c] = Snapshot(c)]
        /\ ~copied[c]
    BY <1>3 DEF Copy, dirVars, history
  <2>3. PresenceTypeOK'  BY <1>1, <2>1, <2>2 DEF PresenceTypeOK
  <2>. QED  BY <1>1, <2>2, <2>3 DEF WalkInv, HandlerInv, Walking, PresenceTypeOK
<1>4. CASE Say(c)
  <2>1. PICK p \in peeked[c] : Show(c, p[1], p[2], p[3])
    BY <1>4 DEF Say
  <2>2. p[1] \in Uins /\ p[2] \in Shown /\ p[3] \in Conns
    BY <1>1 DEF PresenceTypeOK
  <2>3. view' \in [Conns -> [Uins -> Shown \cup {"untold"}]] /\ late' \subseteq Conns \X Uins
    BY <1>1, <2>1, <2>2, Told
  <2>4. /\ UNCHANGED <<uin, life, status, ssiActive, loops, copied, todo, hidden, flying,
                       deny, done, everDenied, everAllowed, lost>>
        /\ peeked' = [peeked EXCEPT ![c] = {}]
    BY <1>4 DEF Say, dirVars
  <2>5. PresenceTypeOK'  BY <1>1, <2>3, <2>4 DEF PresenceTypeOK
  <2>. QED  BY <1>1, <2>4, <2>5 DEF WalkInv, HandlerInv, Walking, PresenceTypeOK
<1>5. CASE Next_Loop(c)
  <2>1. /\ UNCHANGED <<uin, life, status, ssiActive, todo, peeked, flying, deny, view,
                       everDenied, everAllowed, late, lost>>
        /\ loops[c] # <<>> /\ peeked[c] = {}
        /\ loops' = [loops EXCEPT ![c] = Tail(@)]
        /\ copied' = [copied EXCEPT ![c] = FALSE]
        /\ hidden' = [hidden EXCEPT ![c] = {}]
        /\ done' = [done EXCEPT ![c] = @ \cup ({Head(loops[c])} \cap Announcing)]
    BY <1>5 DEF Next_Loop, dirVars
  <2>2. Tail(loops[c]) \in Shapes
    BY <1>1, <2>1, ShapeFacts DEF PresenceTypeOK
  <2>3. loops' \in [Conns -> Shapes] /\ done' \in [Conns -> SUBSET Announcing]
    BY <1>1, <2>1, <2>2 DEF PresenceTypeOK
  <2>4. PresenceTypeOK'  BY <1>1, <2>1, <2>3 DEF PresenceTypeOK
  <2>. QED  BY <1>1, <2>1, <2>4 DEF WalkInv, HandlerInv, Walking, PresenceTypeOK
<1>6. ASSUME NEW e \in todo[c], Notify(c, e) \/ Farewell(c, e)
      PROVE  WalkInv'
  <2>1. PICK l \in Loops : Visit(c, l, e)
    BY <1>6 DEF Notify, Farewell, Loops
  <2>2. /\ UNCHANGED <<uin, life, status, ssiActive, loops, copied, hidden, deny, peeked,
                       flying, done, everDenied, everAllowed, lost>>
        /\ uin[c] \in Uins /\ e[2] \in Conns
        /\ todo' \in [Conns -> SUBSET (Uins \X Conns)]
    BY <1>6, <2>1, Visits DEF dirVars, Notify, Farewell
  <2>3. \/ \E what \in Shown : Show(e[2], uin[c], what, c)
        \/ UNCHANGED <<view, late>>
    BY <1>2, <1>6 DEF Notify, Farewell
  <2>4. view' \in [Conns -> [Uins -> Shown \cup {"untold"}]] /\ late' \subseteq Conns \X Uins
    BY <1>1, <2>2, <2>3, Told DEF PresenceTypeOK
  <2>5. PresenceTypeOK'  BY <1>1, <2>2, <2>4 DEF PresenceTypeOK
  <2>. QED  BY <1>1, <2>2, <2>5 DEF WalkInv, HandlerInv, Walking
<1>7. ASSUME NEW e \in todo[c], Peek(c, e)
      PROVE  WalkInv'
  <2>1. Visit(c, "full", e) /\ "full" \in Loops  BY <1>7 DEF Peek, Loops
  <2>2. /\ UNCHANGED <<uin, life, status, ssiActive, loops, copied, hidden, deny,
                       flying, view, done, everDenied, everAllowed, late, lost>>
        /\ Walking(c, "full") /\ e[1] \in Uins /\ e[2] \in Conns
        /\ todo' \in [Conns -> SUBSET (Uins \X Conns)]
    BY <1>7, <2>1, Visits DEF dirVars, Peek, history
  <2>3. PICK ps : /\ peeked' = [peeked EXCEPT ![c] = ps]
                  /\ ps = {<<e[1], status[e[2]], e[2]>>} \/ ps = {}
    BY <1>7 DEF Peek
  <2>4. ps \in SUBSET (Uins \X Shown \X Conns) /\ \A p, q \in ps : p = q
    BY <1>2, <2>2, <2>3
  <2>5. PresenceTypeOK'  BY <1>1, <2>2, <2>3, <2>4 DEF PresenceTypeOK
  <2>. QED
    BY <1>1, <2>2, <2>3, <2>4, <2>5 DEF WalkInv, HandlerInv, Walking, PresenceTypeOK
<1>8. ASSUME NEW e \in todo[c], Privacy(c, e)
      PROVE  WalkInv'
  <2>1. Visit(c, "privacy", e) /\ "privacy" \in Loops  BY <1>8 DEF Privacy, Loops
  <2>2. /\ UNCHANGED <<uin, life, status, ssiActive, loops, copied, hidden, deny, peeked,
                       view, done, everDenied, everAllowed, late, lost>>
        /\ e[2] \in Conns
        /\ todo' \in [Conns -> SUBSET (Uins \X Conns)]
    BY <1>8, <2>1, Visits DEF dirVars, Privacy, history
  <2>3. VisibleTo(c, e[1]) \in BOOLEAN  BY DEF VisibleTo
  <2>4. flying' = flying \/ flying' = flying \cup {Spawned(c, e[2], VisibleTo(c, e[1]))}
    BY <1>8 DEF Privacy
  <2>5. \A f \in flying' : f \in flying \/ (f.what = "untold" /\
          f \in [by : Conns, to : Conns, on : BOOLEAN, of : Uins \cup {NoUin},
                 what : Shown \cup {"untold"}])
    BY <2>2, <2>3, <2>4 DEF Spawned
  <2>6. PresenceTypeOK'
    <3>1. flying' \subseteq [by : Conns, to : Conns, on : BOOLEAN, of : Uins \cup {NoUin},
                             what : Shown \cup {"untold"}]
      BY <1>1, <2>5 DEF PresenceTypeOK
    <3>. QED  BY <1>1, <2>2, <3>1 DEF PresenceTypeOK
  <2>. QED  BY <1>1, <2>2, <2>5, <2>6 DEF WalkInv, HandlerInv, Walking
<1>. QED  BY <1>3, <1>4, <1>5, <1>6, <1>7, <1>8 DEF Walk

\* The spawned presence keeps its types, and has a UIN once it is read.
LEMMA WalkSpawned ==
  ASSUME TypeInv, NEW f \in flying, Read(f) \/ Deliver(f)
  PROVE  WalkInv'
<1>1. PresenceTypeOK /\ HandlerInv /\ DirTypeOK
  BY DEF TypeInv, WalkInv, DirInv, DirBase
<1>2. /\ f.by \in Conns /\ f.to \in Conns /\ f.what \in Shown \cup {"untold"}
      /\ f \in [by : Conns, to : Conns, on : BOOLEAN, of : Uins \cup {NoUin},
                what : Shown \cup {"untold"}]
  BY <1>1 DEF PresenceTypeOK
<1>3. CASE Read(f)
  <2>1. /\ UNCHANGED <<uin, life, status, ssiActive, loops, copied, todo, hidden, peeked,
                       deny, view, done, everDenied, everAllowed, late, lost>>
        /\ flying' = (flying \ {f}) \cup
             IF uin[f.by] = NoUin THEN {}
             ELSE {[f EXCEPT !.of = uin[f.by],
                             !.what = IF f.on THEN status[f.by] ELSE "offline"]}
    BY <1>3 DEF Read, walk, history, dirVars
  <2>2. status[f.by] \in Shown /\ "offline" \in Shown /\ uin[f.by] \in Uins \cup {NoUin}
    BY <1>1, <1>2 DEF PresenceTypeOK, Shown, DirTypeOK
  <2>3. \A g \in flying' : g \in flying \/ (g.of \in Uins /\
          g \in [by : Conns, to : Conns, on : BOOLEAN, of : Uins \cup {NoUin},
                 what : Shown \cup {"untold"}])
    BY <1>2, <2>1, <2>2
  <2>4. PresenceTypeOK'
    <3>1. flying' \subseteq [by : Conns, to : Conns, on : BOOLEAN, of : Uins \cup {NoUin},
                             what : Shown \cup {"untold"}]
      BY <1>1, <2>3 DEF PresenceTypeOK
    <3>. QED  BY <1>1, <2>1, <3>1 DEF PresenceTypeOK
  <2>. QED  BY <1>1, <2>1, <2>3, <2>4 DEF WalkInv, HandlerInv, Walking
<1>4. CASE Deliver(f)
  <2>1. /\ UNCHANGED <<uin, life, status, ssiActive, loops, copied, todo, hidden, peeked,
                       deny, done, everDenied, everAllowed, lost>>
        /\ flying' \subseteq flying
        /\ f.what \in Shown /\ f.of \in Uins /\ Show(f.to, f.of, f.what, f.by)
    BY <1>1, <1>2, <1>4 DEF Deliver, walk, dirVars, HandlerInv
  <2>2. view' \in [Conns -> [Uins -> Shown \cup {"untold"}]] /\ late' \subseteq Conns \X Uins
    BY <1>1, <1>2, <2>1, Told
  <2>3. PresenceTypeOK'  BY <1>1, <2>1, <2>2 DEF PresenceTypeOK
  <2>. QED  BY <1>1, <2>1, <2>3 DEF WalkInv, HandlerInv, Walking
<1>. QED  BY <1>3, <1>4

LEMMA TypeInitial == Init => TypeInv
<1>. SUFFICES ASSUME Init PROVE TypeInv  OBVIOUS
<1>1. DirInv  BY DirInitial DEF Init
<1>2. <<>> \in Shapes /\ "offline" \in Shown  BY DEF Shapes, Shown
<1>3. PresenceTypeOK
  BY <1>2 DEF Init, PresenceTypeOK
<1>4. HandlerInv  BY DEF Init, HandlerInv
<1>. QED  BY <1>1, <1>3, <1>4 DEF TypeInv, WalkInv

LEMMA TypeNext ==
  ASSUME TypeInv, [Next]_vars
  PROVE  TypeInv'
<1>1. DirInv'  BY DirectoryKept DEF TypeInv
<1>2. CASE UNCHANGED vars \/ AllGone
  <2>1. UNCHANGED <<uin, life, status, ssiActive, loops, copied, todo, hidden, peeked, flying,
                    deny, view, done, everDenied, everAllowed, late, lost>>
    BY <1>2 DEF vars, AllGone, presenceVars, walk, history, dirVars
  <2>2. PresenceTypeOK'  BY <2>1 DEF PresenceTypeOK, TypeInv, WalkInv
  <2>3. HandlerInv'  BY <2>1 DEF HandlerInv, Walking, TypeInv, WalkInv
  <2>. QED  BY <1>1, <2>2, <2>3 DEF TypeInv, WalkInv
<1>3. CASE Next /\ ~AllGone
  <2>1. WalkInv'
    BY <1>3, WalkSession, WalkHandle, WalkWalk, WalkSpawned DEF Next
  <2>. QED  BY <1>1, <2>1 DEF TypeInv
<1>. QED  BY <1>1, <1>2, <1>3 DEF TypeInv

\* Every reachable state of the broadcasts has the types TypeOK gives it,
\* whatever the handlers' loops and the sessions that come and go under them.
THEOREM TypeCorrect == Spec => []TypeOK
<1>1. TypeInv => TypeOK
  <2>1. Shapes \subseteq Seq(Loops)  BY ShapeFacts
  <2>. QED  BY <2>1 DEF TypeInv, DirInv, DirBase, WalkInv, PresenceTypeOK, TypeOK
<1>2. TypeInv /\ [Next]_vars => TypeInv'  BY TypeNext
<1>. QED  BY <1>1, <1>2, TypeInitial, PTL DEF Spec

----------------------------------------------------------------------------
(* What one step can add to the state of the broadcasts.                   *)

\* Only the session layer moves the directory, and cuts sessions off it; and the
\* histories only grow.
LEMMA Quiet ==
  ASSUME TypeInv, [Next]_vars
  PROVE  /\ (\E c \in Conns : SessionStep(c)) \/ UNCHANGED <<dirVars, lost>>
         /\ everAllowed \subseteq everAllowed' /\ everDenied \subseteq everDenied'
         /\ late \subseteq late' /\ lost \subseteq lost'
<1>1. PresenceTypeOK /\ HandlerInv  BY DEF TypeInv, WalkInv
<1>2. ASSUME NEW c \in Conns, SessionStep(c)
      PROVE  UNCHANGED <<everAllowed, everDenied, late>> /\ lost \subseteq lost'
  BY <1>2, SessionMoves DEF SignOn, SignOff, TakeIdentity, history
<1>3. ASSUME NEW c \in Conns, Handle(c)
      PROVE  /\ UNCHANGED <<dirVars, late, lost>>
             /\ everAllowed \subseteq everAllowed' /\ everDenied \subseteq everDenied'
  BY <1>3, HandleStarts DEF Started
<1>4. ASSUME NEW c \in Conns, Copy(c) \/ Next_Loop(c)
      PROVE  UNCHANGED <<dirVars, late, lost, everAllowed, everDenied>>
  BY <1>4 DEF Copy, Next_Loop, history
<1>5. ASSUME NEW c \in Conns, NEW u \in Uins, NEW what \in Shown, NEW subject \in Conns,
             Show(c, u, what, subject)
      PROVE  late \subseteq late'
  BY <1>1, <1>5, Told
<1>6. ASSUME NEW c \in Conns, Say(c)
      PROVE  UNCHANGED <<dirVars, lost, everAllowed, everDenied>> /\ late \subseteq late'
  <2>1. \A p \in peeked[c] : p[1] \in Uins /\ p[2] \in Shown /\ p[3] \in Conns
    BY <1>1 DEF PresenceTypeOK
  <2>. QED  BY <1>5, <1>6, <2>1 DEF Say
<1>7. ASSUME NEW c \in Conns, NEW e \in todo[c], Notify(c, e) \/ Farewell(c, e)
      PROVE  UNCHANGED <<dirVars, lost, everAllowed, everDenied>> /\ late \subseteq late'
  <2>1. /\ e[2] \in Conns /\ uin[c] \in Uins /\ UNCHANGED dirVars
        /\ status[c] \in Shown /\ "offline" \in Shown
    BY <1>1, <1>7, Visits DEF Notify, Farewell, Loops, PresenceTypeOK, Shown
  <2>. QED  BY <1>5, <1>7, <2>1 DEF Notify, Farewell
<1>8. ASSUME NEW c \in Conns, NEW e \in todo[c], Peek(c, e) \/ Privacy(c, e)
      PROVE  UNCHANGED <<dirVars, late, lost, everAllowed, everDenied>>
  BY <1>8 DEF Peek, Privacy, Visit, history
<1>9. ASSUME NEW f \in flying, Read(f)
      PROVE  UNCHANGED <<dirVars, late, lost, everAllowed, everDenied>>
  BY <1>9 DEF Read, history
<1>10. ASSUME NEW f \in flying, Deliver(f)
       PROVE  UNCHANGED <<dirVars, lost, everAllowed, everDenied>> /\ late \subseteq late'
  <2>1. f.to \in Conns /\ f.by \in Conns /\ f.what \in Shown /\ f.of \in Uins
    BY <1>1, <1>10 DEF Deliver, PresenceTypeOK, HandlerInv
  <2>. QED  BY <1>5, <1>10, <2>1 DEF Deliver
<1>11. CASE UNCHANGED vars \/ AllGone
  BY <1>11 DEF vars, AllGone, presenceVars, history
<1>. QED
  BY <1>2, <1>3, <1>4, <1>6, <1>7, <1>8, <1>9, <1>10, <1>11 DEF Next, Walk

\* A copy of the registry only shrinks, but for the step that makes it.
LEMMA CopyGrows ==
  ASSUME TypeInv, [Next]_vars, NEW d \in Conns, NEW e \in todo'[d]
  PROVE  e \in todo[d] \/ (e \in Snapshot(d) /\ UNCHANGED dirVars)
<1>1. todo \in [Conns -> SUBSET (Uins \X Conns)]  BY DEF TypeInv, WalkInv, PresenceTypeOK
<1>2. ASSUME NEW c \in Conns, SessionStep(c) PROVE UNCHANGED todo
  BY <1>2, SessionMoves
<1>3. ASSUME NEW c \in Conns, Handle(c) PROVE UNCHANGED todo
  BY <1>3, HandleStarts DEF Started
<1>4. ASSUME NEW c \in Conns, Say(c) \/ Next_Loop(c) PROVE UNCHANGED todo
  BY <1>4 DEF Say, Next_Loop
<1>5. ASSUME NEW c \in Conns, Copy(c)
      PROVE  UNCHANGED dirVars /\ todo' = [todo EXCEPT ![c] = Snapshot(c)]
  BY <1>5 DEF Copy
<1>6. ASSUME NEW c \in Conns, NEW g \in todo[c],
             Notify(c, g) \/ Peek(c, g) \/ Farewell(c, g) \/ Privacy(c, g)
      PROVE  todo' = [todo EXCEPT ![c] = @ \ {g}]
  BY <1>6 DEF Notify, Peek, Farewell, Privacy, Visit
<1>7. ASSUME NEW f \in flying, Read(f) \/ Deliver(f) PROVE UNCHANGED todo
  BY <1>7 DEF Read, Deliver, walk
<1>8. CASE UNCHANGED vars \/ AllGone
  BY <1>8 DEF vars, AllGone, presenceVars, walk
<1>. QED  BY <1>1, <1>2, <1>3, <1>4, <1>5, <1>6, <1>7, <1>8 DEF Next, Walk

\* A presence in hand was allowed when it was read.
LEMMA PeekedGrows ==
  ASSUME TypeInv, [Next]_vars, NEW d \in Conns, NEW p \in peeked'[d]
  PROVE  \/ p \in peeked[d] /\ loops[d] # <<>>
         \/ <<p[1], uin[d]>> \in Pairs \ deny /\ UNCHANGED <<dirVars, deny, everAllowed>>
<1>1. PresenceTypeOK /\ HandlerInv  BY DEF TypeInv, WalkInv
<1>2. \A c \in Conns : peeked[c] # {} => loops[c] # <<>>
  BY <1>1 DEF HandlerInv, Walking
<1>3. ASSUME NEW c \in Conns, SessionStep(c) PROVE UNCHANGED peeked
  BY <1>3, SessionMoves
<1>4. ASSUME NEW c \in Conns, Handle(c) PROVE UNCHANGED peeked
  BY <1>4, HandleStarts DEF Started
<1>5. ASSUME NEW c \in Conns, Copy(c) \/ Next_Loop(c) PROVE UNCHANGED peeked
  BY <1>5 DEF Copy, Next_Loop
<1>6. ASSUME NEW c \in Conns, Say(c) PROVE peeked' = [peeked EXCEPT ![c] = {}]
  BY <1>6 DEF Say
<1>7. ASSUME NEW c \in Conns, NEW g \in todo[c],
             Notify(c, g) \/ Farewell(c, g) \/ Privacy(c, g)
      PROVE  UNCHANGED peeked
  BY <1>7 DEF Notify, Farewell, Privacy
<1>8. ASSUME NEW c \in Conns, NEW e \in todo[c], Peek(c, e)
      PROVE  \/ peeked' = [peeked EXCEPT ![c] = {}]
             \/ /\ peeked' = [peeked EXCEPT ![c] = {<<e[1], status[e[2]], e[2]>>}]
                /\ <<e[1], uin[c]>> \in Pairs \ deny
                /\ UNCHANGED <<dirVars, deny, everAllowed>>
  <2>1. CASE <<uin[c], e[1]>> \in Buddies /\ <<e[1], uin[c]>> \notin deny
    BY <1>8, <2>1, BuddyFacts DEF Peek, Visit, history
  <2>2. CASE ~(<<uin[c], e[1]>> \in Buddies /\ <<e[1], uin[c]>> \notin deny)
    BY <1>8, <2>2 DEF Peek
  <2>. QED  BY <2>1, <2>2
<1>9. ASSUME NEW f \in flying, Read(f) \/ Deliver(f) PROVE UNCHANGED peeked
  BY <1>9 DEF Read, Deliver, walk
<1>10. ASSUME UNCHANGED vars \/ AllGone PROVE UNCHANGED peeked
  BY <1>10 DEF vars, AllGone, presenceVars, walk
<1>11. peeked \in [Conns -> SUBSET (Uins \X Shown \X Conns)]  BY <1>1 DEF PresenceTypeOK
<1>12. UNCHANGED peeked => p \in peeked[d] /\ loops[d] # <<>>  BY <1>2
<1>13. ASSUME NEW c \in Conns, peeked' = [peeked EXCEPT ![c] = {}]
       PROVE  p \in peeked[d] /\ loops[d] # <<>>
  BY <1>2, <1>11, <1>13
<1>14. ASSUME NEW c \in Conns, NEW e \in todo[c], Peek(c, e)
       PROVE  \/ p \in peeked[d] /\ loops[d] # <<>>
              \/ <<p[1], uin[d]>> \in Pairs \ deny /\ UNCHANGED <<dirVars, deny, everAllowed>>
  <2>1. CASE d # c  BY <1>2, <1>8, <1>11, <1>14, <2>1
  <2>2. CASE d = c /\ peeked' = [peeked EXCEPT ![c] = {<<e[1], status[e[2]], e[2]>>}]
             /\ <<e[1], uin[c]>> \in Pairs \ deny /\ UNCHANGED <<dirVars, deny, everAllowed>>
    <3>1. p = <<e[1], status[e[2]], e[2]>>  BY <1>11, <2>2
    <3>2. p[1] = e[1]  BY <3>1
    <3>. QED  BY <2>2, <3>2
  <2>. QED  BY <1>8, <1>13, <1>14, <2>1, <2>2
<1>. QED
  BY <1>3, <1>4, <1>5, <1>6, <1>7, <1>9, <1>10, <1>12, <1>13, <1>14 DEF Next, Walk

\* Presence is spawned by a privacy loop, and read once.
LEMMA FlyingGrows ==
  ASSUME TypeInv, [Next]_vars, NEW f \in flying'
  PROVE  \/ f \in flying
         \/ /\ UNCHANGED dirVars
            /\ \E c \in Conns : \E e \in todo[c] :
                 /\ Walking(c, "privacy") /\ f.by = c /\ f.to = e[2]
                 /\ f.what = "untold" /\ f.on = VisibleTo(c, e[1])
         \/ /\ UNCHANGED dirVars
            /\ \E g \in flying : /\ g.what = "untold" /\ f.by = g.by /\ f.to = g.to
                                 /\ f.of = uin[g.by] /\ uin[g.by] # NoUin
                                 /\ f.what # "untold"
                                 /\ f.what \in Statuses => g.on
<1>1. PresenceTypeOK /\ HandlerInv  BY DEF TypeInv, WalkInv
<1>2. ASSUME NEW c \in Conns, SessionStep(c) PROVE UNCHANGED flying
  BY <1>2, SessionMoves
<1>3. ASSUME NEW c \in Conns, Handle(c) PROVE UNCHANGED flying
  BY <1>3, HandleStarts DEF Started
<1>4. ASSUME NEW c \in Conns, Copy(c) \/ Say(c) \/ Next_Loop(c) PROVE UNCHANGED flying
  BY <1>4 DEF Copy, Say, Next_Loop
<1>5. ASSUME NEW c \in Conns, NEW e \in todo[c], Notify(c, e) \/ Peek(c, e) \/ Farewell(c, e)
      PROVE  UNCHANGED flying
  BY <1>5 DEF Notify, Peek, Farewell
<1>6. ASSUME NEW c \in Conns, NEW e \in todo[c], Privacy(c, e)
      PROVE  /\ UNCHANGED dirVars /\ Walking(c, "privacy")
             /\ \/ flying' = flying
                \/ flying' = flying \cup {Spawned(c, e[2], VisibleTo(c, e[1]))}
  <2>1. UNCHANGED dirVars /\ Walking(c, "privacy")  BY <1>6, Visits DEF Privacy, Loops
  <2>. QED  BY <1>6, <2>1 DEF Privacy
<1>7. \A c, t, on : /\ Spawned(c, t, on).by = c /\ Spawned(c, t, on).to = t
                    /\ Spawned(c, t, on).on = on /\ Spawned(c, t, on).what = "untold"
  BY DEF Spawned
<1>8. ASSUME NEW g \in flying, Read(g), f \notin flying
      PROVE  /\ UNCHANGED dirVars /\ g.what = "untold" /\ f.by = g.by /\ f.to = g.to
             /\ f.of = uin[g.by] /\ uin[g.by] # NoUin
             /\ f.what # "untold" /\ (f.what \in Statuses => g.on)
  <2>1. /\ UNCHANGED dirVars /\ g.what = "untold" /\ uin[g.by] # NoUin
        /\ f = [g EXCEPT !.of = uin[g.by],
                         !.what = IF g.on THEN status[g.by] ELSE "offline"]
    BY <1>8 DEF Read
  <2>2. /\ g \in [by : Conns, to : Conns, on : BOOLEAN, of : Uins \cup {NoUin},
                  what : Shown \cup {"untold"}]
        /\ status[g.by] \in Shown /\ "offline" \in Shown
        /\ "untold" \notin Shown /\ "offline" \notin Statuses
    BY <1>1, PresenceAssumption DEF PresenceTypeOK, Shown
  <2>. QED  BY <2>1, <2>2
<1>9. ASSUME NEW g \in flying, Deliver(g) PROVE f \in flying
  BY <1>9 DEF Deliver
<1>10. ASSUME UNCHANGED vars \/ AllGone PROVE UNCHANGED flying
  BY <1>10 DEF vars, AllGone, presenceVars
<1>11. ASSUME NEW c \in Conns, NEW e \in todo[c], Privacy(c, e), f \notin flying
       PROVE  /\ UNCHANGED dirVars /\ Walking(c, "privacy") /\ f.by = c /\ f.to = e[2]
              /\ f.what = "untold" /\ f.on = VisibleTo(c, e[1])
  BY <1>6, <1>7, <1>11
<1>12. UNCHANGED flying => f \in flying  OBVIOUS
<1>. QED
  BY <1>2, <1>3, <1>4, <1>5, <1>8, <1>9, <1>10, <1>11, <1>12 DEF Next, Walk

\* What a step tells a client: by whom, and out of what.
Telling(c, u, what) ==
  /\ UNCHANGED <<dirVars, everAllowed>>
  /\ running[c] /\ uin[c] # NoUin /\ open[c] /\ what \in Shown
  /\ \E subject \in Conns :
       /\ what \in Statuses /\ sessions[u] # subject => <<c, u>> \in late'
       /\ \/ \E e \in todo[subject] :
               /\ e[2] = c /\ u = uin[subject]
               /\ (Walking(subject, "notify") /\ VisibleTo(subject, e[1])) \/ what = "offline"
          \/ <<u, what, subject>> \in peeked[c] /\ loops[c] # <<>>
          \/ \E f \in flying : f.by = subject /\ f.to = c /\ f.of = u /\ f.what = what

LEMMA ViewChanges ==
  ASSUME TypeInv, [Next]_vars, NEW c \in Conns, NEW u \in Uins, view'[c][u] # view[c][u]
  PROVE  Telling(c, u, view'[c][u])
<1>1. PresenceTypeOK /\ HandlerInv  BY DEF TypeInv, WalkInv
<1>2. ASSUME NEW d \in Conns, SessionStep(d) PROVE UNCHANGED view
  BY <1>2, SessionMoves
<1>3. ASSUME NEW d \in Conns, Handle(d) PROVE UNCHANGED view
  BY <1>3, HandleStarts DEF Started
<1>4. ASSUME NEW d \in Conns, Copy(d) \/ Next_Loop(d) PROVE UNCHANGED view
  BY <1>4 DEF Copy, Next_Loop, history
<1>5. ASSUME NEW d \in Conns, NEW e \in todo[d], Peek(d, e) \/ Privacy(d, e)
      PROVE  UNCHANGED view
  BY <1>5 DEF Peek, Privacy
<1>6. ASSUME NEW f \in flying, Read(f) PROVE UNCHANGED view
  BY <1>6 DEF Read
<1>7. ASSUME UNCHANGED vars \/ AllGone PROVE UNCHANGED view
  BY <1>7 DEF vars, AllGone, presenceVars
<1>8. ASSUME NEW d \in Conns, NEW w \in Uins, NEW what \in Shown, NEW subject \in Conns,
             Show(d, w, what, subject)
      PROVE  /\ d = c /\ w = u /\ view'[c][u] = what
             /\ running[c] /\ uin[c] # NoUin /\ open[c]
             /\ what \in Statuses /\ sessions[u] # subject => <<c, u>> \in late'
  <2>1. \A x \in Conns, y \in Uins : x # d \/ y # w => view'[x][y] = view[x][y]
    BY <1>1, <1>8, Told
  <2>2. c = d /\ u = w  BY <2>1
  <2>. QED  BY <1>1, <1>8, <2>2, Told
<1>9. ASSUME NEW d \in Conns, Say(d) PROVE Telling(c, u, view'[c][u])
  <2>1. PICK p \in peeked[d] : Show(d, p[1], p[2], p[3])
    BY <1>9 DEF Say
  <2>2. p[1] \in Uins /\ p[2] \in Shown /\ p[3] \in Conns /\ p = <<p[1], p[2], p[3]>>
        /\ loops[d] # <<>>
    BY <1>1 DEF PresenceTypeOK, HandlerInv, Walking
  <2>3. /\ d = c /\ p[1] = u /\ view'[c][u] = p[2]
        /\ running[c] /\ uin[c] # NoUin /\ open[c]
        /\ p[2] \in Statuses /\ sessions[u] # p[3] => <<c, u>> \in late'
    BY <1>8, <2>1, <2>2
  <2>4. UNCHANGED <<dirVars, everAllowed>>  BY <1>9 DEF Say
  <2>. QED  BY <2>1, <2>2, <2>3, <2>4 DEF Telling
<1>10. ASSUME NEW d \in Conns, NEW e \in todo[d], Notify(d, e) \/ Farewell(d, e)
       PROVE  Telling(c, u, view'[c][u])
  <2>1. PICK l \in {"notify", "farewell"} : Visit(d, l, e)
    BY <1>10 DEF Notify, Farewell
  <2>2. /\ e[2] \in Conns /\ uin[d] \in Uins /\ UNCHANGED dirVars /\ Walking(d, l)
        /\ status[d] \in Shown /\ "offline" \in Shown
    BY <1>1, <2>1, Visits DEF Loops, PresenceTypeOK, Shown
  <2>3. UNCHANGED everAllowed  BY <1>10 DEF Notify, Farewell
  <2>4. PICK what \in Shown :
          /\ Show(e[2], uin[d], what, d)
          /\ (Walking(d, "notify") /\ VisibleTo(d, e[1])) \/ what = "offline"
    <3>1. CASE Notify(d, e)
      <4>1. Visit(d, "notify", e)  BY <3>1 DEF Notify
      <4>2. Walking(d, "notify")  BY <4>1 DEF Visit, Walking
      <4>. QED  BY <2>2, <3>1, <4>2 DEF Notify
    <3>2. CASE Farewell(d, e)  BY <2>2, <3>2 DEF Farewell
    <3>. QED  BY <1>10, <3>1, <3>2
  <2>5. /\ e[2] = c /\ uin[d] = u /\ view'[c][u] = what
        /\ running[c] /\ uin[c] # NoUin /\ open[c]
        /\ what \in Statuses /\ sessions[u] # d => <<c, u>> \in late'
    BY <1>8, <2>2, <2>4
  <2>. QED  BY <2>2, <2>3, <2>4, <2>5 DEF Telling
<1>11. ASSUME NEW f \in flying, Deliver(f) PROVE Telling(c, u, view'[c][u])
  <2>1. /\ f.to \in Conns /\ f.by \in Conns /\ f.what \in Shown /\ f.of \in Uins
        /\ UNCHANGED <<dirVars, everAllowed>> /\ Show(f.to, f.of, f.what, f.by)
    BY <1>1, <1>11 DEF Deliver, PresenceTypeOK, HandlerInv
  <2>2. /\ f.to = c /\ f.of = u /\ view'[c][u] = f.what
        /\ running[c] /\ uin[c] # NoUin /\ open[c]
        /\ f.what \in Statuses /\ sessions[u] # f.by => <<c, u>> \in late'
    BY <1>8, <2>1
  <2>. QED  BY <2>1, <2>2 DEF Telling
<1>. QED
  BY <1>2, <1>3, <1>4, <1>5, <1>6, <1>7, <1>9, <1>10, <1>11 DEF Next, Walk

\* A handler keeps the loops before it and the denials it works with until it
\* ends a loop; it starts with what the store says.
LEMMA LoopsChange ==
  ASSUME TypeInv, [Next]_vars, NEW c \in Conns
  PROVE  \/ loops'[c] = loops[c] /\ hidden'[c] = hidden[c]
         \/ loops'[c] \in {<<>>, <<"full">>} /\ hidden'[c] = {}
         \/ loops'[c] = <<"farewell">> /\ loops[c] = <<>> /\ hidden'[c] = DeniedBy(uin[c])
            /\ UNCHANGED <<deny, uin>>
         \/ Started(c)
<1>1. PresenceTypeOK /\ HandlerInv  BY DEF TypeInv, WalkInv
<1>2. ASSUME UNCHANGED <<loops, hidden>> PROVE loops'[c] = loops[c] /\ hidden'[c] = hidden[c]
  BY <1>2
<1>3. ASSUME NEW d \in Conns, SessionStep(d)
      PROVE  \/ loops'[c] = loops[c] /\ hidden'[c] = hidden[c]
             \/ loops'[c] = <<"farewell">> /\ loops[c] = <<>> /\ hidden'[c] = DeniedBy(uin[c])
                /\ UNCHANGED <<deny, uin>>
  <2>1. CASE UNCHANGED <<loops, hidden>>  BY <2>1
  <2>2. CASE loops[d] = <<>> /\ SignOff(d)
    <3>1. /\ loops' = [loops EXCEPT ![d] = <<"farewell">>]
          /\ hidden' = [hidden EXCEPT ![d] = DeniedBy(uin[d])]
          /\ UNCHANGED <<deny, uin>>
      BY <2>2 DEF SignOff, Begin, Unregister
    <3>2. CASE c = d  BY <1>1, <2>2, <3>1, <3>2 DEF PresenceTypeOK
    <3>3. CASE c # d  BY <1>1, <3>1, <3>3 DEF PresenceTypeOK
    <3>. QED  BY <3>2, <3>3
  <2>. QED  BY <1>3, <2>1, <2>2, SessionMoves
<1>4. ASSUME NEW d \in Conns, Handle(d)
      PROVE  Started(c) \/ (loops'[c] = loops[c] /\ hidden'[c] = hidden[c])
  <2>1. Started(d)  BY <1>4, HandleStarts
  <2>2. \E l, denied : /\ loops' = [loops EXCEPT ![d] = l]
                       /\ hidden' = [hidden EXCEPT ![d] = denied]
    BY <2>1 DEF Started
  <2>. QED  BY <1>1, <2>1, <2>2 DEF PresenceTypeOK
<1>5. ASSUME NEW d \in Conns, Copy(d) \/ Say(d) PROVE UNCHANGED <<loops, hidden>>
  BY <1>5 DEF Copy, Say
<1>6. ASSUME NEW d \in Conns, NEW e \in todo[d],
             Notify(d, e) \/ Peek(d, e) \/ Farewell(d, e) \/ Privacy(d, e)
      PROVE  UNCHANGED <<loops, hidden>>
  BY <1>6 DEF Notify, Peek, Farewell, Privacy, Visit
<1>7. ASSUME NEW d \in Conns, Next_Loop(d)
      PROVE  \/ loops'[c] = loops[c] /\ hidden'[c] = hidden[c]
             \/ loops'[c] \in {<<>>, <<"full">>} /\ hidden'[c] = {}
  <2>1. /\ loops' = [loops EXCEPT ![d] = Tail(@)] /\ hidden' = [hidden EXCEPT ![d] = {}]
        /\ loops[d] # <<>>
    BY <1>7 DEF Next_Loop
  <2>2. Tail(loops[d]) \in {<<>>, <<"full">>}
    BY <1>1, <2>1, ShapeFacts DEF PresenceTypeOK
  <2>. QED  BY <1>1, <2>1, <2>2 DEF PresenceTypeOK
<1>8. ASSUME NEW f \in flying, Read(f) \/ Deliver(f) PROVE UNCHANGED <<loops, hidden>>
  BY <1>8 DEF Read, Deliver, walk
<1>9. ASSUME UNCHANGED vars \/ AllGone PROVE UNCHANGED <<loops, hidden>>
  BY <1>9 DEF vars, AllGone, presenceVars, walk
<1>. QED
  BY <1>2, <1>3, <1>4, <1>5, <1>6, <1>7, <1>8, <1>9 DEF Next, Walk

----------------------------------------------------------------------------
(* A session that was registered is its UIN's, or nobody's, for good: a     *)
(* copy of the registry may be stale, but never names another UIN's.       *)

\* Registered once: still registered, cut off the registry, or about to go.
Known(c) ==
  \/ life[c] \in {"ending", "gone"}
  \/ uin[c] # NoUin /\ (c \in lost \/ sessions[uin[c]] = c)

KnownInv ==
  /\ \A c \in Conns : life[c] = "up" /\ uin[c] # NoUin => Known(c)
  /\ \A d \in Conns : \A e \in todo[d] : Known(e[2]) /\ uin[e[2]] \in {e[1], NoUin}
  /\ \A f \in flying : Known(f.to) /\ Known(f.by)
  /\ \A c \in Conns, u \in Uins : view[c][u] # "untold" => Known(c)

\* What the session layer does to the directory and to lost, step by step.
LEMMA SessionEffects ==
  ASSUME TypeInv, NEW c \in Conns, SessionStep(c)
  PROVE  /\ \/ Register(c) /\ lost' = lost \cup Ousted(c)
            \/ Unregister(c) /\ lost' = lost \cup Ousted(c)
            \/ /\ \/ \E u \in Uins : Assume(c, u)
                  \/ Finish(c) \/ Forget(c) \/ Leave(c) \/ ForeignStep(c)
               /\ lost' = lost
         /\ OneUinEach
  BY DEF SessionStep, SignOn, SignOff, TakeIdentity, OwnMove, ForeignMove, presenceVars, history

LEMMA KnownStays ==
  ASSUME TypeInv, [Next]_vars, NEW c \in Conns, Known(c)
  PROVE  Known(c)' /\ uin'[c] \in {uin[c], NoUin}
<1>1. DirTypeOK /\ Identified /\ EntrySound  BY DEF TypeInv, DirInv, DirBase
<1>2. ASSUME NEW d \in Conns, SessionStep(d) PROVE Known(c)' /\ uin'[c] \in {uin[c], NoUin}
  <2>1. CASE Register(d) /\ lost' = lost \cup Ousted(d)
    <3>1. uin[d] \in Uins  BY <1>1, <2>1 DEF Register, Identified, DirTypeOK
    <3>2. CASE life[c] \in {"ending", "gone"}
      BY <1>1, <2>1, <3>2 DEF Register, Known, DirTypeOK
    <3>3. CASE uin[c] # NoUin /\ c \in lost
      BY <1>1, <2>1, <3>3 DEF Register, Known, DirTypeOK
    <3>4. CASE uin[c] # NoUin /\ sessions[uin[c]] = c
      BY <1>1, <2>1, <3>1, <3>4, DirectoryAssumption DEF Register, Known, DirTypeOK, Ousted
    <3>. QED  BY <3>2, <3>3, <3>4 DEF Known
  <2>2. CASE Unregister(d) /\ lost' = lost \cup Ousted(d)
    <3>1. uin[d] \in Uins /\ life[d] = "ending"  BY <1>1, <2>2 DEF Unregister, DirTypeOK
    <3>2. CASE life[c] \in {"ending", "gone"}
      BY <1>1, <2>2, <3>2 DEF Unregister, Known, DirTypeOK
    <3>3. CASE uin[c] # NoUin /\ c \in lost
      BY <1>1, <2>2, <3>3 DEF Unregister, Known, DirTypeOK
    <3>4. CASE uin[c] # NoUin /\ sessions[uin[c]] = c /\ life[c] \notin {"ending", "gone"}
      BY <1>1, <2>2, <3>1, <3>4, DirectoryAssumption DEF Unregister, Known, DirTypeOK, Ousted
    <3>. QED  BY <3>2, <3>3, <3>4 DEF Known
  <2>3. ASSUME lost' = lost, NEW u \in Uins, Assume(d, u), OneUinEach
        PROVE  Known(c)' /\ uin'[c] \in {uin[c], NoUin}
    <3>1. \A e \in Conns \ {d} : uin'[e] = uin[e] /\ life'[e] = life[e]
      BY <1>1, <2>3 DEF Assume, DirTypeOK
    <3>2. CASE c # d  BY <2>3, <3>1, <3>2 DEF Assume, Known
    <3>3. CASE c = d
      <4>1. uin[c] # NoUin /\ life[c] = "up"  BY <2>3, <3>3 DEF Assume, Known
      <4>2. uin'[c] = u /\ u # NoUin  BY <1>1, <2>3, <3>3, DirectoryAssumption DEF Assume, DirTypeOK
      <4>3. uin'[c] = uin[c]  BY <2>3, <4>1, <4>2 DEF OneUinEach
      <4>. QED  BY <2>3, <4>1, <4>3 DEF Assume, Known
    <3>. QED  BY <3>2, <3>3
  <2>4. CASE lost' = lost /\ Finish(d)  BY <1>1, <2>4 DEF Finish, Known, DirTypeOK
  <2>5. CASE lost' = lost /\ Forget(d)  BY <1>1, <2>5 DEF Forget, Known, DirTypeOK
  <2>6. CASE lost' = lost /\ Leave(d)  BY <1>1, <2>6 DEF Leave, Known, DirTypeOK
  <2>7. CASE lost' = lost /\ Connect(d)
    <3>1. uin[d] = NoUin  BY <1>1, <2>7 DEF Connect, Identified
    <3>. QED  BY <1>1, <2>7, <3>1 DEF Connect, Known, DirTypeOK
  <2>8. CASE lost' = lost /\ (Drop(d) \/ Halt(d))
    BY <1>1, <2>8 DEF Drop, Halt, Known, DirTypeOK
  <2>. QED
    BY <1>2, <2>1, <2>2, <2>3, <2>4, <2>5, <2>6, <2>7, <2>8, SessionEffects DEF ForeignStep
<1>3. CASE UNCHANGED <<dirVars, lost>>  BY <1>3 DEF dirVars, Known
<1>. QED  BY <1>2, <1>3, Quiet

LEMMA KnownInitial == Init => KnownInv
  BY DEF Init, DirInit, KnownInv

LEMMA KnownNext ==
  ASSUME TypeInv, KnownInv, [Next]_vars
  PROVE  KnownInv'
<1>1. /\ DirTypeOK /\ Identified /\ EntrySound /\ PresenceTypeOK /\ HandlerInv
  BY DEF TypeInv, DirInv, DirBase, WalkInv
<1>2. \A c \in Conns : Known(c) => Known(c)' /\ uin'[c] \in {uin[c], NoUin}
  BY KnownStays
<1>3. PresenceTypeOK'  BY TypeNext DEF TypeInv, WalkInv
<1>4. \A c \in Conns : loops[c] # <<>> => Known(c)
  BY <1>1, DirectoryAssumption DEF HandlerInv, KnownInv, Known
<1>5. ASSUME NEW c \in Conns, life'[c] = "up", uin'[c] # NoUin PROVE Known(c)'
  <2>1. ASSUME NEW d \in Conns, SessionStep(d) PROVE Known(c)'
    <3>1. CASE life[c] = "up" /\ uin[c] # NoUin  BY <1>2, <3>1 DEF KnownInv
    <3>2. CASE Register(d) /\ d = c
      BY <1>1, <1>5, <3>2 DEF Register, Known, DirTypeOK, Identified
    <3>3. CASE ~(Register(d) /\ d = c) /\ ~(life[c] = "up" /\ uin[c] # NoUin)
      BY <1>1, <1>5, <2>1, <3>3, SessionEffects
      DEF Register, Unregister, Assume, Finish, Forget, Leave, ForeignStep, Connect, Drop,
          Halt, DirTypeOK, Identified
    <3>. QED  BY <3>1, <3>2, <3>3
  <2>2. CASE UNCHANGED <<dirVars, lost>>
    BY <1>2, <1>5, <2>2 DEF KnownInv, dirVars
  <2>. QED  BY <2>1, <2>2, Quiet
<1>6. ASSUME NEW d \in Conns, NEW e \in todo'[d]
      PROVE  Known(e[2])' /\ uin'[e[2]] \in {e[1], NoUin}
  <2>1. e[2] \in Conns  BY <1>3 DEF PresenceTypeOK
  <2>2. CASE e \in todo[d]  BY <1>2, <2>1, <2>2 DEF KnownInv
  <2>3. CASE e \in Snapshot(d)
    <3>1. e[1] \in Uins /\ sessions[e[1]] = e[2] /\ e[2] # NoConn
      BY <2>3 DEF Snapshot
    <3>2. uin[e[2]] = e[1]  BY <1>1, <3>1 DEF EntrySound
    <3>3. Known(e[2])  BY <3>1, <3>2, DirectoryAssumption DEF Known
    <3>. QED  BY <1>2, <2>1, <3>2, <3>3
  <2>. QED  BY <2>2, <2>3, CopyGrows
<1>7. ASSUME NEW f \in flying' PROVE Known(f.to)' /\ Known(f.by)'
  <2>1. f.to \in Conns /\ f.by \in Conns  BY <1>3 DEF PresenceTypeOK
  <2>2. CASE \E g \in flying : f.by = g.by /\ f.to = g.to
    BY <1>2, <2>1, <2>2 DEF KnownInv
  <2>3. CASE \E c \in Conns : \E e \in todo[c] : Walking(c, "privacy") /\ f.by = c /\ f.to = e[2]
    BY <1>2, <1>4, <2>1, <2>3 DEF KnownInv, Walking
  <2>. QED  BY <2>2, <2>3, FlyingGrows
<1>8. ASSUME NEW c \in Conns, NEW u \in Uins, view'[c][u] # "untold" PROVE Known(c)'
  <2>1. CASE view'[c][u] = view[c][u]  BY <1>2, <1>8, <2>1 DEF KnownInv
  <2>2. CASE view'[c][u] # view[c][u]
    <3>1. Telling(c, u, view'[c][u])  BY <2>2, ViewChanges
    <3>2. Known(c)  BY <1>1, <1>4, <3>1 DEF Telling, KnownInv
    <3>. QED  BY <1>2, <3>2
  <2>. QED  BY <2>1, <2>2
<1>. QED  BY <1>5, <1>6, <1>7, <1>8 DEF KnownInv

----------------------------------------------------------------------------
(* Whoever was denied all the time.                                        *)

\* What is shown was allowed: when the loop began, when the peek was made, or
\* when the closure was spawned, and whoever's session it is by then.
AllowedInv ==
  /\ deny \subseteq everDenied /\ Pairs \ deny \subseteq everAllowed
  /\ \A c \in Conns, w \in Uins :
       loops[c] # <<>> /\ Head(loops[c]) \in {"notify", "privacy"} /\ VisibleTo(c, w)
         => <<uin[c], w>> \in everAllowed
  /\ \A c \in Conns : \A p \in peeked[c] : <<p[1], uin[c]>> \in everAllowed
  /\ \A f \in flying :
       uin[f.to] # NoUin =>
         /\ f.what = "untold" /\ f.on /\ uin[f.by] # NoUin
              => <<uin[f.by], uin[f.to]>> \in everAllowed
         /\ f.what \in Statuses => <<f.of, uin[f.to]>> \in everAllowed
  /\ DeniedSeeNothing

LEMMA AllowedInitial == Init => AllowedInv
<1>. SUFFICES ASSUME Init PROVE AllowedInv  OBVIOUS
<1>1. \A c \in Conns : loops[c] = <<>> /\ peeked[c] = {}  BY DEF Init
<1>2. DeniedSeeNothing  BY PresenceAssumption DEF Init, DeniedSeeNothing
<1>. QED  BY <1>1, <1>2 DEF Init, AllowedInv

\* The privacy settings and their history.
LEMMA DeniedGrows ==
  ASSUME TypeInv, deny \subseteq everDenied, Pairs \ deny \subseteq everAllowed, [Next]_vars
  PROVE  deny' \subseteq everDenied' /\ Pairs \ deny' \subseteq everAllowed'
<1>1. ASSUME UNCHANGED <<deny, everDenied, everAllowed>>
      PROVE  deny' \subseteq everDenied' /\ Pairs \ deny' \subseteq everAllowed'
  BY <1>1
<1>2. ASSUME NEW c \in Conns, SessionStep(c) PROVE UNCHANGED <<deny, everDenied, everAllowed>>
  BY <1>2, SessionMoves
<1>3. ASSUME NEW c \in Conns, Handle(c)
      PROVE  deny' \subseteq everDenied' /\ Pairs \ deny' \subseteq everAllowed'
  BY <1>1, <1>3, HandleStarts DEF Started
<1>4. ASSUME NEW c \in Conns, Walk(c) PROVE UNCHANGED <<deny, everDenied, everAllowed>>
  BY <1>4 DEF Walk, Copy, Say, Next_Loop, Notify, Peek, Farewell, Privacy, Visit, history
<1>5. ASSUME NEW f \in flying, Read(f) \/ Deliver(f)
      PROVE  UNCHANGED <<deny, everDenied, everAllowed>>
  BY <1>5 DEF Read, Deliver, history
<1>6. ASSUME UNCHANGED vars \/ AllGone PROVE UNCHANGED <<deny, everDenied, everAllowed>>
  BY <1>6 DEF vars, AllGone, presenceVars, history
<1>. QED  BY <1>1, <1>2, <1>3, <1>4, <1>5, <1>6 DEF Next

LEMMA AllowedNext ==
  ASSUME TypeInv, KnownInv, AllowedInv, [Next]_vars
  PROVE  AllowedInv'
<1>1. /\ DirTypeOK /\ PresenceTypeOK /\ HandlerInv
  BY DEF TypeInv, DirInv, DirBase, WalkInv
<1>2. \A c \in Conns : Known(c) => uin'[c] \in {uin[c], NoUin}
  BY KnownStays
<1>3. PresenceTypeOK' /\ HandlerInv' /\ DirTypeOK'
  BY TypeNext DEF TypeInv, WalkInv, DirInv, DirBase
<1>4. \A c \in Conns : loops[c] # <<>> => uin'[c] = uin[c]
  <2>1. CASE UNCHANGED <<dirVars, lost>>  BY <2>1 DEF dirVars
  <2>. QED  BY <2>1, OwnStepsWait, Quiet
<1>5. everAllowed \subseteq everAllowed'  BY Quiet
<1>6. deny' \subseteq everDenied' /\ Pairs \ deny' \subseteq everAllowed'
  BY DeniedGrows DEF AllowedInv
<1>7. ASSUME NEW c \in Conns, NEW w \in Uins, loops'[c] # <<>>,
             Head(loops'[c]) \in {"notify", "privacy"}, VisibleTo(c, w)'
      PROVE  <<uin'[c], w>> \in everAllowed'
  <2>0. /\ \A l : Head(<<l>>) = l
        /\ <<w, uin'[c]>> \in Buddies /\ w \notin hidden'[c]
    BY <1>7 DEF VisibleTo
  <2>1. CASE loops'[c] = loops[c] /\ hidden'[c] = hidden[c]
    <3>1. loops[c] # <<>> /\ Head(loops[c]) \in {"notify", "privacy"}  BY <1>7, <2>1
    <3>2. uin'[c] = uin[c]  BY <1>4, <3>1
    <3>3. VisibleTo(c, w)  BY <2>0, <2>1, <3>2 DEF VisibleTo
    <3>. QED  BY <1>5, <3>1, <3>2, <3>3 DEF AllowedInv
  <2>2. CASE loops'[c] \in {<<>>, <<"full">>, <<"farewell">>}
    BY <1>7, <2>0, <2>2
  <2>3. CASE Started(c)
    <3>1. PICK l \in Shapes, denied \in SUBSET Uins :
            /\ loops' = [loops EXCEPT ![c] = l] /\ hidden' = [hidden EXCEPT ![c] = denied]
            /\ l # <<>> /\ l # <<"full">> => \A v \in Uins \ denied : <<uin[c], v>> \notin deny'
      BY <2>3 DEF Started
    <3>2. loops'[c] = l /\ hidden'[c] = denied /\ uin'[c] = uin[c]
      BY <1>1, <2>3, <3>1 DEF PresenceTypeOK, Started, dirVars
    <3>3. <<uin'[c], w>> \notin deny'  BY <1>7, <2>0, <3>1, <3>2
    <3>4. <<uin'[c], w>> \in Pairs  BY <2>0, BuddyFacts
    <3>. QED  BY <1>6, <3>3, <3>4
  <2>. QED  BY <2>1, <2>2, <2>3, LoopsChange
<1>8. ASSUME NEW c \in Conns, NEW p \in peeked'[c]
      PROVE  <<p[1], uin'[c]>> \in everAllowed'
  <2>1. CASE p \in peeked[c] /\ loops[c] # <<>>  BY <1>4, <1>5, <2>1 DEF AllowedInv
  <2>2. CASE <<p[1], uin[c]>> \in Pairs \ deny /\ UNCHANGED <<dirVars, deny, everAllowed>>
    BY <2>2 DEF AllowedInv, dirVars
  <2>. QED  BY <2>1, <2>2, PeekedGrows
<1>9. ASSUME NEW f \in flying', uin'[f.to] # NoUin
      PROVE  /\ f.what = "untold" /\ f.on /\ uin'[f.by] # NoUin
                  => <<uin'[f.by], uin'[f.to]>> \in everAllowed'
             /\ f.what \in Statuses => <<f.of, uin'[f.to]>> \in everAllowed'
  <2>1. f.to \in Conns /\ f.by \in Conns  BY <1>3 DEF PresenceTypeOK
  <2>2. CASE f \in flying
    <3>1. uin'[f.to] = uin[f.to] /\ uin'[f.by] \in {uin[f.by], NoUin}
      BY <1>2, <1>9, <2>1, <2>2 DEF KnownInv
    <3>. QED  BY <1>5, <1>9, <2>2, <3>1 DEF AllowedInv
  <2>3. ASSUME UNCHANGED dirVars, NEW c \in Conns, NEW e \in todo[c], Walking(c, "privacy"),
               f.by = c, f.to = e[2], f.what = "untold", f.on = VisibleTo(c, e[1])
        PROVE  /\ f.what = "untold" /\ f.on /\ uin'[f.by] # NoUin
                    => <<uin'[f.by], uin'[f.to]>> \in everAllowed'
               /\ f.what \in Statuses => <<f.of, uin'[f.to]>> \in everAllowed'
    <3>1. uin'[c] = uin[c] /\ uin'[e[2]] = e[1] /\ e[1] \in Uins
      BY <1>1, <1>9, <2>3 DEF KnownInv, dirVars, PresenceTypeOK
    <3>2. VisibleTo(c, e[1]) => <<uin[c], e[1]>> \in everAllowed
      BY <2>3, <3>1 DEF AllowedInv, Walking
    <3>3. "untold" \notin Statuses  BY PresenceAssumption
    <3>. QED  BY <1>5, <2>3, <3>1, <3>2, <3>3
  <2>4. ASSUME UNCHANGED dirVars, NEW g \in flying, g.what = "untold", f.by = g.by,
               f.to = g.to, f.of = uin[g.by], uin[g.by] # NoUin, f.what # "untold",
               f.what \in Statuses => g.on
        PROVE  /\ f.what = "untold" /\ f.on /\ uin'[f.by] # NoUin
                    => <<uin'[f.by], uin'[f.to]>> \in everAllowed'
               /\ f.what \in Statuses => <<f.of, uin'[f.to]>> \in everAllowed'
    BY <1>5, <1>9, <2>4 DEF AllowedInv, dirVars
  <2>. QED  BY <2>2, <2>3, <2>4, FlyingGrows
<1>10. ASSUME NEW c \in Conns, NEW u \in Uins, view'[c][u] \in Statuses, uin'[c] # NoUin
       PROVE  <<u, uin'[c]>> \in everAllowed'
  <2>1. CASE view'[c][u] = view[c][u]
    <3>1. view[c][u] # "untold"  BY <1>10, <2>1, PresenceAssumption
    <3>2. uin'[c] = uin[c]  BY <1>2, <1>10, <3>1 DEF KnownInv
    <3>. QED  BY <1>5, <1>10, <2>1, <3>2 DEF AllowedInv, DeniedSeeNothing
  <2>2. CASE view'[c][u] # view[c][u]
    <3>1. Telling(c, u, view'[c][u]) /\ view'[c][u] # "offline"
      BY <1>10, <2>2, ViewChanges, PresenceAssumption
    <3>2. uin'[c] = uin[c]  BY <3>1 DEF Telling, dirVars
    <3>3. ASSUME NEW d \in Conns, NEW e \in todo[d], e[2] = c, u = uin[d],
                 Walking(d, "notify"), VisibleTo(d, e[1])
          PROVE  <<u, uin[c]>> \in everAllowed
      <4>1. uin[c] = e[1] /\ e[1] \in Uins
        BY <1>1, <1>10, <3>2, <3>3 DEF KnownInv, PresenceTypeOK
      <4>. QED  BY <3>3, <4>1 DEF AllowedInv, Walking
    <3>4. ASSUME NEW d \in Conns, <<u, view'[c][u], d>> \in peeked[c]
          PROVE  <<u, uin[c]>> \in everAllowed
      <4>1. \A p \in peeked[c] : <<p[1], uin[c]>> \in everAllowed  BY DEF AllowedInv
      <4>. QED  BY <3>4, <4>1
    <3>5. ASSUME NEW f \in flying, f.to = c, f.of = u, f.what = view'[c][u]
          PROVE  <<u, uin[c]>> \in everAllowed
      BY <1>10, <3>2, <3>5 DEF AllowedInv
    <3>6. <<u, uin[c]>> \in everAllowed  BY <3>1, <3>3, <3>4, <3>5 DEF Telling
    <3>. QED  BY <1>5, <3>2, <3>6
  <2>. QED  BY <2>1, <2>2
<1>11. DeniedSeeNothing'  BY <1>10 DEF DeniedSeeNothing
<1>. QED  BY <1>6, <1>7, <1>8, <1>9, <1>11 DEF AllowedInv

----------------------------------------------------------------------------
(* Of two that sign on at the same time.                                   *)

\* The denials a loop works with were settings of its account.
HiddenInv ==
  \A c \in Conns : loops[c] # <<>> => \A w \in hidden[c] : <<uin[c], w>> \in everDenied

\* The owner has begun to announce itself with a copy of the registry.
Announced(c) == "notify" \in done[c] \/ Walking(c, "notify")

\* The viewer v was told of o; or is still before o's first announcement; or still
\* has o before it in its own first walk.
Meet(v, o) ==
  \/ view[sessions[v]][o] # "untold"
  \/ "notify" \notin done[sessions[o]] /\ <<v, sessions[v]>> \in todo[sessions[o]]
  \/ /\ "full" \notin done[sessions[v]]
     /\ Walking(sessions[v], "full") =>
          \/ <<o, sessions[o]>> \in todo[sessions[v]]
          \/ \E p \in peeked[sessions[v]] : p[1] = o

MeetInv ==
  \A b \in Buddies :
    /\ Reachable(b[1]) /\ sessions[b[2]] # NoConn /\ Announced(sessions[b[2]])
    /\ <<b[2], b[1]>> \notin everDenied
    => Meet(b[1], b[2])

LEMMA HiddenNext ==
  ASSUME TypeInv, AllowedInv, HiddenInv, [Next]_vars
  PROVE  HiddenInv'
<1>1. /\ PresenceTypeOK /\ deny' \subseteq everDenied' /\ deny \subseteq everDenied
      /\ everDenied \subseteq everDenied'
  BY DeniedGrows, Quiet DEF TypeInv, WalkInv, AllowedInv
<1>2. \A c \in Conns : loops[c] # <<>> => uin'[c] = uin[c]
  <2>1. CASE UNCHANGED <<dirVars, lost>>  BY <2>1 DEF dirVars
  <2>. QED  BY <2>1, OwnStepsWait, Quiet
<1>. SUFFICES ASSUME NEW c \in Conns, loops'[c] # <<>>, NEW w \in hidden'[c]
              PROVE  <<uin'[c], w>> \in everDenied'
  BY DEF HiddenInv
<1>3. CASE loops'[c] = loops[c] /\ hidden'[c] = hidden[c]
  BY <1>1, <1>2, <1>3 DEF HiddenInv
<1>4. CASE hidden'[c] = DeniedBy(uin[c]) /\ UNCHANGED <<deny, uin>>
  BY <1>1, <1>4 DEF DeniedBy
<1>5. CASE Started(c)
  <2>1. PICK denied \in SUBSET Uins :
          /\ hidden' = [hidden EXCEPT ![c] = denied]
          /\ \A v \in denied : <<uin[c], v>> \in deny'
    BY <1>5 DEF Started
  <2>2. hidden'[c] = denied /\ uin'[c] = uin[c]
    BY <1>1, <1>5, <2>1 DEF PresenceTypeOK, Started, dirVars
  <2>. QED  BY <1>1, <2>1, <2>2
<1>. QED  BY <1>3, <1>4, <1>5, LoopsChange

\* Of the walks, a step that is not the session layer's moves one.
LEMMA OneWalks ==
  ASSUME TypeInv, [Next]_vars, ~ \E c \in Conns : SessionStep(c), NEW d \in Conns
  PROVE  \/ /\ loops'[d] = loops[d] /\ copied'[d] = copied[d] /\ todo'[d] = todo[d]
            /\ peeked'[d] = peeked[d] /\ done'[d] = done[d]
         \/ Started(d) \/ Copy(d) \/ Say(d) \/ Next_Loop(d)
         \/ \E e \in todo[d] : Notify(d, e) \/ Peek(d, e) \/ Farewell(d, e) \/ Privacy(d, e)
<1>1. PresenceTypeOK  BY DEF TypeInv, WalkInv
<1>. DEFINE Same == /\ loops'[d] = loops[d] /\ copied'[d] = copied[d] /\ todo'[d] = todo[d]
                    /\ peeked'[d] = peeked[d] /\ done'[d] = done[d]
<1>2. ASSUME NEW c \in Conns, Handle(c), c # d PROVE Same
  <2>1. Started(c)  BY <1>2, HandleStarts
  <2>2. UNCHANGED <<todo, peeked, done>>
    BY <2>1 DEF Started
  <2>3. \E l, denied : /\ loops' = [loops EXCEPT ![c] = l]
                       /\ copied' = [copied EXCEPT ![c] = FALSE]
    BY <2>1 DEF Started
  <2>. QED  BY <1>1, <1>2, <2>2, <2>3 DEF PresenceTypeOK
<1>3. ASSUME NEW c \in Conns, Copy(c), c # d PROVE Same
  BY <1>1, <1>3 DEF Copy, history, PresenceTypeOK
<1>4. ASSUME NEW c \in Conns, Say(c), c # d PROVE Same
  BY <1>1, <1>4 DEF Say, PresenceTypeOK
<1>5. ASSUME NEW c \in Conns, Next_Loop(c), c # d PROVE Same
  BY <1>1, <1>5 DEF Next_Loop, PresenceTypeOK
<1>6. ASSUME NEW c \in Conns, NEW e \in todo[c], c # d,
             Notify(c, e) \/ Peek(c, e) \/ Farewell(c, e) \/ Privacy(c, e)
      PROVE  Same
  <2>1. UNCHANGED <<loops, copied>> /\ todo' = [todo EXCEPT ![c] = @ \ {e}]
    BY <1>6 DEF Notify, Peek, Farewell, Privacy, Visit
  <2>2. UNCHANGED done  BY <1>6 DEF Notify, Peek, Farewell, Privacy, history
  <2>3. \/ UNCHANGED peeked
        \/ \E x : peeked' = [peeked EXCEPT ![c] = x]
    BY <1>6 DEF Notify, Peek, Farewell, Privacy
  <2>. QED  BY <1>1, <1>6, <2>1, <2>2, <2>3 DEF PresenceTypeOK
<1>7. ASSUME NEW f \in flying, Read(f) \/ Deliver(f) PROVE Same
  BY <1>7 DEF Read, Deliver, walk, history
<1>8. ASSUME UNCHANGED vars \/ AllGone PROVE Same
  BY <1>8 DEF vars, AllGone, presenceVars, walk, history
<1>9. Handle(d) => Started(d)  BY HandleStarts
<1>. QED  BY <1>2, <1>3, <1>4, <1>5, <1>6, <1>7, <1>8, <1>9 DEF Next, Walk

\* What a client was told of stays told.
LEMMA ToldStays ==
  ASSUME TypeInv, [Next]_vars, NEW c \in Conns, NEW u \in Uins, view[c][u] # "untold"
  PROVE  view'[c][u] # "untold"
<1>1. "untold" \notin Shown  BY PresenceAssumption DEF Shown
<1>2. view'[c][u] = view[c][u] \/ Telling(c, u, view'[c][u])  BY ViewChanges
<1>3. Telling(c, u, view'[c][u]) => view'[c][u] \in Shown  BY DEF Telling
<1>. QED  BY <1>1, <1>2, <1>3

\* A registered session acts for its UIN.
LEMMA Entry ==
  ASSUME TypeInv, NEW u \in Uins, sessions[u] # NoConn
  PROVE  sessions[u] \in Conns /\ uin[sessions[u]] = u /\ life[sessions[u]] # "idle"
  BY DEF TypeInv, DirInv, DirBase, DirTypeOK, EntrySound

\* The walk of the owner comes to the viewer, or goes on without it.
LEMMA OwnerWalks ==
  ASSUME TypeInv, HiddenInv, [Next]_vars, ~ \E c \in Conns : SessionStep(c),
         NEW v \in Uins, NEW o \in Uins, <<v, o>> \in Buddies,
         Reachable(v), sessions[o] # NoConn, Walking(sessions[o], "notify"),
         <<o, v>> \notin everDenied,
         "notify" \notin done[sessions[o]], <<v, sessions[v]>> \in todo[sessions[o]]
  PROVE  \/ view'[sessions[v]][o] # "untold"
         \/ "notify" \notin done'[sessions[o]] /\ <<v, sessions[v]>> \in todo'[sessions[o]]
<1>. DEFINE V == sessions[v]
            O == sessions[o]
<1>1. PresenceTypeOK  BY DEF TypeInv, WalkInv
<1>2. V \in Conns /\ O \in Conns /\ uin[V] = v /\ uin[O] = o
  BY Entry DEF Reachable
<1>3. ASSUME done'[O] = done[O], todo'[O] = todo[O]
      PROVE  "notify" \notin done'[O] /\ <<v, V>> \in todo'[O]
  BY <1>3
<1>4. ASSUME Started(O) \/ Say(O)
      PROVE  "notify" \notin done'[O] /\ <<v, V>> \in todo'[O]
  BY <1>4 DEF Started, Say
<1>5. ~Copy(O) /\ ~Next_Loop(O)  BY DEF Walking, Copy, Next_Loop
<1>6. ASSUME NEW e \in todo[O], Peek(O, e) \/ Farewell(O, e) \/ Privacy(O, e)
      PROVE  FALSE
  BY <1>6 DEF Walking, Peek, Farewell, Privacy, Visit
<1>7. ASSUME NEW e \in todo[O], Notify(O, e), e # <<v, V>>
      PROVE  "notify" \notin done'[O] /\ <<v, V>> \in todo'[O]
  BY <1>1, <1>2, <1>7 DEF Notify, Visit, PresenceTypeOK
<1>8. ASSUME Notify(O, <<v, V>>)
      PROVE  view'[V][o] # "untold"
  <2>1. v \notin hidden[O]  BY <1>2 DEF HiddenInv, Walking
  <2>2. VisibleTo(O, v)  BY <1>2, <2>1 DEF VisibleTo
  <2>3. <<v, V>>[1] = v /\ <<v, V>>[2] = V  OBVIOUS
  <2>4. Show(V, o, status[O], O)  BY <1>2, <1>8, <2>2, <2>3 DEF Notify
  <2>5. status[O] \in Shown /\ "untold" \notin Shown
    BY <1>1, <1>2, PresenceAssumption DEF PresenceTypeOK, Shown
  <2>6. running[V] /\ open[V] /\ uin[V] # NoUin
    BY <1>2, DirectoryAssumption DEF Reachable
  <2>7. view'[V][o] = status[O]
    <3>1. view' = [view EXCEPT ![V][o] = status[O]]  BY <2>4, <2>6 DEF Show
    <3>. QED  BY <1>1, <1>2, <3>1 DEF PresenceTypeOK
  <2>. QED  BY <2>5, <2>7
<1>. QED  BY <1>2, <1>3, <1>4, <1>5, <1>6, <1>7, <1>8, OneWalks

\* The viewer's own walk comes to the owner, or goes on without it.
LEMMA ViewerWalks ==
  ASSUME TypeInv, AllowedInv, [Next]_vars, ~ \E c \in Conns : SessionStep(c),
         NEW v \in Uins, NEW o \in Uins, <<v, o>> \in Buddies,
         Reachable(v), sessions[o] # NoConn, <<o, v>> \notin everDenied,
         "full" \notin done[sessions[v]],
         Walking(sessions[v], "full") =>
           \/ <<o, sessions[o]>> \in todo[sessions[v]]
           \/ \E p \in peeked[sessions[v]] : p[1] = o
  PROVE  \/ view'[sessions[v]][o] # "untold"
         \/ /\ "full" \notin done'[sessions[v]]
            /\ Walking(sessions[v], "full")' =>
                 \/ <<o, sessions[o]>> \in todo'[sessions[v]]
                 \/ \E p \in peeked'[sessions[v]] : p[1] = o
<1>. DEFINE V == sessions[v]
            O == sessions[o]
<1>1. PresenceTypeOK /\ HandlerInv  BY DEF TypeInv, WalkInv
<1>2. V \in Conns /\ O \in Conns /\ uin[V] = v /\ uin[O] = o /\ v # o /\ sessions' = sessions
  BY Entry, Quiet, BuddyFacts DEF Reachable, dirVars
<1>. DEFINE Goal == /\ "full" \notin done'[V]
                    /\ (loops'[V] # <<>> /\ Head(loops'[V]) = "full" /\ copied'[V]) =>
                         \/ <<o, O>> \in todo'[V]
                         \/ \E p \in peeked'[V] : p[1] = o
<1>3. ASSUME loops'[V] = loops[V], copied'[V] = copied[V], todo'[V] = todo[V],
             peeked'[V] = peeked[V], done'[V] = done[V]
      PROVE  Goal
  BY <1>3 DEF Walking
<1>4. ASSUME Started(V) PROVE Goal
  <2>1. done' = done /\ copied' = [copied EXCEPT ![V] = FALSE]
    BY <1>4 DEF Started
  <2>. QED  BY <1>1, <1>2, <2>1 DEF PresenceTypeOK
<1>5. ASSUME Copy(V) PROVE Goal
  <2>1. done' = done /\ todo' = [todo EXCEPT ![V] = Snapshot(V)]
    BY <1>5 DEF Copy, history
  <2>2. <<o, O>> \in Snapshot(V)  BY <1>2 DEF Snapshot
  <2>. QED  BY <1>1, <1>2, <2>1, <2>2 DEF PresenceTypeOK
<1>6. ASSUME Say(V) PROVE view'[V][o] # "untold" \/ Goal
  <2>1. /\ UNCHANGED <<loops, copied, todo, done>>
        /\ peeked' = [peeked EXCEPT ![V] = {}]
    BY <1>6 DEF Say
  <2>2. PICK p \in peeked[V] : Show(V, p[1], p[2], p[3])  BY <1>6 DEF Say
  <2>3. CASE p[1] = o
    <3>1. p[2] \in Shown /\ p[3] \in Conns /\ "untold" \notin Shown
      BY <1>1, <1>2, PresenceAssumption DEF PresenceTypeOK, Shown
    <3>2. running[V] /\ open[V] /\ uin[V] # NoUin
      BY <1>2, DirectoryAssumption DEF Reachable
    <3>3. view'[V][o] = p[2]
      <4>1. view' = [view EXCEPT ![V][o] = p[2]]  BY <2>2, <2>3, <3>2 DEF Show
      <4>. QED  BY <1>1, <1>2, <4>1 DEF PresenceTypeOK
    <3>. QED  BY <3>1, <3>3
  <2>4. CASE p[1] # o
    <3>1. \A q \in peeked[V] : q = p  BY <1>1, <1>2, <2>2 DEF HandlerInv
    <3>2. ~ \E q \in peeked[V] : q[1] = o  BY <2>4, <3>1
    <3>. QED  BY <2>1, <3>2 DEF Walking
  <2>. QED  BY <2>3, <2>4
<1>7. ASSUME Next_Loop(V) PROVE Goal
  <2>1. /\ loops[V] # <<>> /\ copied[V] /\ todo[V] = {} /\ peeked[V] = {}
        /\ done' = [done EXCEPT ![V] = @ \cup ({Head(loops[V])} \cap Announcing)]
        /\ copied' = [copied EXCEPT ![V] = FALSE]
    BY <1>7 DEF Next_Loop
  <2>2. Head(loops[V]) # "full"  BY <2>1 DEF Walking
  <2>. QED  BY <1>1, <1>2, <2>1, <2>2 DEF PresenceTypeOK
<1>8. ASSUME NEW e \in todo[V], Notify(V, e) \/ Farewell(V, e) \/ Privacy(V, e)
      PROVE  Goal
  <2>1. UNCHANGED <<loops, done>>
    BY <1>8 DEF Notify, Farewell, Privacy, Visit, history
  <2>2. Head(loops[V]) # "full"
    BY <1>8 DEF Notify, Farewell, Privacy, Visit
  <2>. QED  BY <2>1, <2>2
<1>9. ASSUME NEW e \in todo[V], Peek(V, e), e # <<o, O>>
      PROVE  Goal
  <2>1. /\ UNCHANGED <<loops, copied, done>> /\ Walking(V, "full") /\ peeked[V] = {}
        /\ todo' = [todo EXCEPT ![V] = @ \ {e}]
    BY <1>9 DEF Peek, Visit, history, Walking
  <2>. QED  BY <1>1, <1>2, <1>9, <2>1 DEF PresenceTypeOK
<1>10. ASSUME Peek(V, <<o, O>>)
       PROVE  Goal
  <2>1. <<o, O>>[1] = o /\ <<o, O>>[2] = O  OBVIOUS
  <2>2. <<o, v>> \notin deny  BY DEF AllowedInv
  <2>3. /\ UNCHANGED done
        /\ peeked' = [peeked EXCEPT ![V] = {<<o, status[O], O>>}]
    BY <1>2, <1>10, <2>1, <2>2 DEF Peek, history
  <2>4. peeked'[V] = {<<o, status[O], O>>}  BY <1>1, <1>2, <2>3 DEF PresenceTypeOK
  <2>5. <<o, status[O], O>>[1] = o  OBVIOUS
  <2>. QED  BY <2>3, <2>4, <2>5
<1>11. view'[V][o] # "untold" \/ Goal
  BY <1>2, <1>3, <1>4, <1>5, <1>6, <1>7, <1>8, <1>9, <1>10, OneWalks
<1>12. Walking(V, "full")' => loops'[V] # <<>> /\ Head(loops'[V]) = "full" /\ copied'[V]
  BY <1>2 DEF Walking
<1>. QED  BY <1>11, <1>12

\* What a step of the session layer leaves of a registered session: its entry goes,
\* or another takes it, or it stays as it was.
LEMMA EntryAfter ==
  ASSUME TypeInv, NEW c \in Conns, SessionStep(c), NEW u \in Uins
  PROVE  \/ sessions'[u] = NoConn
         \/ /\ sessions'[u] = c /\ uin[c] = u /\ life[c] = "joining" /\ loops[c] = <<>>
            /\ done'[c] = {} /\ SignOn(c)
         \/ /\ sessions'[u] = sessions[u] /\ sessions[u] # NoConn
            /\ done'[sessions[u]] = done[sessions[u]] /\ loops'[sessions[u]] = loops[sessions[u]]
            /\ copied'[sessions[u]] = copied[sessions[u]]
            /\ Reachable(u)' => Reachable(u)
<1>1. DirTypeOK /\ Identified /\ EntrySound /\ PresenceTypeOK
  BY DEF TypeInv, DirInv, DirBase, WalkInv
<1>2. CASE loops[c] = <<>> /\ SignOn(c)
  <2>1. /\ life[c] = "joining" /\ sessions' = [sessions EXCEPT ![uin[c]] = c]
        /\ uin[c] \in Uins /\ UNCHANGED <<running, open, loops, copied>>
        /\ done' = [done EXCEPT ![c] = {}]
    BY <1>1, <1>2 DEF SignOn, Register, DirTypeOK, Identified, walk
  <2>2. CASE uin[c] = u  BY <1>1, <1>2, <2>1, <2>2 DEF DirTypeOK, PresenceTypeOK
  <2>3. CASE uin[c] # u /\ sessions[u] # NoConn
    <3>1. sessions'[u] = sessions[u]  BY <1>1, <2>1, <2>3 DEF DirTypeOK
    <3>2. c # sessions[u] /\ sessions[u] \in Conns  BY <2>3, Entry
    <3>. QED  BY <1>1, <2>1, <2>3, <3>1, <3>2 DEF Reachable, PresenceTypeOK
  <2>4. CASE uin[c] # u /\ sessions[u] = NoConn
    BY <1>1, <2>1, <2>4 DEF DirTypeOK
  <2>. QED  BY <2>2, <2>3, <2>4
<1>3. CASE loops[c] = <<>> /\ SignOff(c)
  <2>1. /\ sessions' = [sessions EXCEPT ![uin[c]] = NoConn]
        /\ uin[c] \in Uins /\ UNCHANGED <<running, open>>
        /\ done' = [done EXCEPT ![c] = {}]
        /\ loops' = [loops EXCEPT ![c] = <<"farewell">>]
        /\ copied' = [copied EXCEPT ![c] = FALSE]
    BY <1>1, <1>3 DEF SignOff, Unregister, DirTypeOK, Begin
  <2>2. CASE uin[c] = u  BY <1>1, <2>1, <2>2 DEF DirTypeOK
  <2>3. CASE uin[c] # u /\ sessions[u] # NoConn
    <3>1. sessions'[u] = sessions[u]  BY <1>1, <2>1, <2>3 DEF DirTypeOK
    <3>2. c # sessions[u] /\ sessions[u] \in Conns  BY <2>3, Entry
    <3>. QED  BY <1>1, <2>1, <2>3, <3>1, <3>2 DEF Reachable, PresenceTypeOK
  <2>4. CASE uin[c] # u /\ sessions[u] = NoConn
    BY <1>1, <2>1, <2>4 DEF DirTypeOK
  <2>. QED  BY <2>2, <2>3, <2>4
<1>4. CASE UNCHANGED <<loops, copied, done>> /\ sessions' = sessions /\ sessions[u] # NoConn
  <2>1. sessions[u] \in Conns /\ life[sessions[u]] # "idle"  BY <1>4, Entry
  <2>2. \/ c # sessions[u]
        \/ \E w \in Uins : Assume(c, w)
        \/ Finish(c) \/ Forget(c) \/ Leave(c) \/ Drop(c) \/ Halt(c)
        \/ Register(c) \/ Unregister(c)
    BY <2>1, SessionEffects DEF ForeignStep, Connect
  <2>3. /\ running'[sessions[u]] => running[sessions[u]]
        /\ open'[sessions[u]] => open[sessions[u]]
    <3>1. CASE c # sessions[u]
      BY <1>1, <2>1, <3>1, SessionEffects
      DEF ForeignStep, Assume, Finish, Forget, Leave, Connect, Drop, Halt, Register,
          Unregister, DirTypeOK
    <3>2. CASE c = sessions[u]
      BY <1>1, <2>1, <2>2, <3>2
      DEF Assume, Finish, Forget, Leave, Drop, Halt, Register, Unregister, DirTypeOK
    <3>. QED  BY <3>1, <3>2
  <2>. QED  BY <1>4, <2>3 DEF Reachable
<1>5. CASE sessions' = sessions /\ sessions[u] = NoConn  BY <1>5
<1>6. ASSUME UNCHANGED <<loops, copied, hidden>>, \E w \in Uins : TakeIdentity(c, w)
      PROVE  UNCHANGED <<loops, copied, done>> /\ sessions' = sessions
  BY <1>6 DEF TakeIdentity, Assume, history
<1>. QED  BY <1>2, <1>3, <1>4, <1>5, <1>6, SessionMoves

LEMMA MeetNext ==
  ASSUME TypeInv, AllowedInv, HiddenInv, MeetInv, [Next]_vars
  PROVE  MeetInv'
<1>. SUFFICES ASSUME NEW b \in Buddies,
                     (Reachable(b[1]) /\ sessions[b[2]] # NoConn
                      /\ Announced(sessions[b[2]]) /\ <<b[2], b[1]>> \notin everDenied)'
              PROVE  Meet(b[1], b[2])'
  BY DEF MeetInv
<1>. DEFINE v == b[1]
            o == b[2]
<1>1. b = <<v, o>> /\ <<v, o>> \in Buddies  BY PresenceAssumption
<1>2. v \in Uins /\ o \in Uins /\ v # o /\ <<o, v>> \in Pairs  BY <1>1, BuddyFacts
<1>3. <<o, v>> \notin everDenied  BY Quiet
<1>4. PresenceTypeOK  BY DEF TypeInv, WalkInv
<1>. HIDE DEF v, o
<1>5. /\ (Reachable(v) /\ sessions[o] # NoConn /\ Announced(sessions[o]))'
      /\ Reachable(v) /\ sessions[o] # NoConn /\ Announced(sessions[o]) => Meet(v, o)
  <2>1. v = b[1] /\ o = b[2]  BY DEF v, o
  <2>2. Reachable(b[1]) /\ sessions[b[2]] # NoConn /\ Announced(sessions[b[2]])
        => Meet(b[1], b[2])
    BY <1>3, <2>1 DEF MeetInv
  <2>. QED  BY <2>1, <2>2
<1>6. SUFFICES Meet(v, o)'  BY DEF v, o
<1>7. sessions'[v] # NoConn /\ sessions'[o] # NoConn  BY <1>5 DEF Reachable
<1>8. ASSUME NEW c \in Conns, SessionStep(c) PROVE Meet(v, o)'
  <2>1. UNCHANGED <<todo, peeked, view>>  BY <1>8, SessionMoves
  <2>2. CASE sessions'[v] = c /\ loops[c] = <<>> /\ done'[c] = {} /\ SignOn(c)
    <3>1. loops'[c] = <<>>  BY <2>2 DEF SignOn, walk
    <3>. QED  BY <2>2, <3>1 DEF Meet, Walking
  <2>3. CASE sessions'[o] = c /\ loops[c] = <<>> /\ done'[c] = {} /\ SignOn(c)
    <3>1. loops'[c] = <<>>  BY <2>3 DEF SignOn, walk
    <3>. QED  BY <1>5, <2>3, <3>1 DEF Announced, Walking
  <2>4. CASE /\ sessions'[v] = sessions[v] /\ sessions[v] # NoConn
             /\ done'[sessions[v]] = done[sessions[v]]
             /\ loops'[sessions[v]] = loops[sessions[v]]
             /\ copied'[sessions[v]] = copied[sessions[v]]
             /\ Reachable(v)' => Reachable(v)
             /\ sessions'[o] = sessions[o] /\ sessions[o] # NoConn
             /\ done'[sessions[o]] = done[sessions[o]]
             /\ loops'[sessions[o]] = loops[sessions[o]]
             /\ copied'[sessions[o]] = copied[sessions[o]]
    <3>1. Announced(sessions[o])  BY <1>5, <2>4 DEF Announced, Walking
    <3>2. Meet(v, o)  BY <1>5, <2>4, <3>1
    <3>. QED  BY <2>1, <2>4, <3>2 DEF Meet, Walking
  <2>. QED  BY <1>2, <1>7, <1>8, <2>2, <2>3, <2>4, EntryAfter
<1>9. CASE ~ \E c \in Conns : SessionStep(c)
  <2>1. UNCHANGED <<sessions, uin, running, open>>  BY <1>9, Quiet DEF dirVars
  <2>2. Reachable(v) /\ sessions[o] # NoConn  BY <1>5, <2>1 DEF Reachable
  <2>3. /\ sessions[o] \in Conns /\ uin[sessions[o]] = o
        /\ sessions[v] \in Conns /\ uin[sessions[v]] = v
    BY <1>2, <2>2, Entry DEF Reachable
  <2>4. CASE Announced(sessions[o])
    <3>1. Meet(v, o)  BY <1>5, <2>2, <2>4
    <3>2. CASE view[sessions[v]][o] # "untold"
      <4>1. view'[sessions[v]][o] # "untold"  BY <1>2, <2>3, <3>2, ToldStays
      <4>. QED  BY <2>1, <4>1 DEF Meet
    <3>3. CASE "notify" \notin done[sessions[o]] /\ <<v, sessions[v]>> \in todo[sessions[o]]
      <4>1. Walking(sessions[o], "notify")  BY <2>4, <3>3 DEF Announced
      <4>2. \/ view'[sessions[v]][o] # "untold"
            \/ "notify" \notin done'[sessions[o]] /\ <<v, sessions[v]>> \in todo'[sessions[o]]
        BY <1>1, <1>2, <1>3, <1>9, <2>2, <3>3, <4>1, OwnerWalks
      <4>. QED  BY <2>1, <4>2 DEF Meet
    <3>4. CASE /\ "full" \notin done[sessions[v]]
               /\ Walking(sessions[v], "full") =>
                    \/ <<o, sessions[o]>> \in todo[sessions[v]]
                    \/ \E p \in peeked[sessions[v]] : p[1] = o
      <4>1. \/ view'[sessions[v]][o] # "untold"
            \/ /\ "full" \notin done'[sessions[v]]
               /\ Walking(sessions[v], "full")' =>
                    \/ <<o, sessions[o]>> \in todo'[sessions[v]]
                    \/ \E p \in peeked'[sessions[v]] : p[1] = o
        BY <1>1, <1>2, <1>3, <1>9, <2>2, <3>4, ViewerWalks
      <4>. QED  BY <2>1, <4>1 DEF Meet, Walking
    <3>. QED  BY <3>1, <3>2, <3>3, <3>4 DEF Meet
  <2>5. CASE ~Announced(sessions[o])
    <3>. DEFINE O == sessions[o]
    <3>1. Announced(O)'  BY <1>5, <2>1
    <3>2. Copy(O)
      <4>1. ~Started(O)
        <5>1. Started(O) => done'[O] = done[O] /\ copied'[O] = FALSE
          BY <1>4, <2>3 DEF Started, PresenceTypeOK
        <5>. QED  BY <2>1, <2>5, <3>1, <5>1 DEF Announced, Walking
      <4>2. ~Next_Loop(O)
        <5>1. Next_Loop(O) =>
                /\ copied'[O] = FALSE /\ loops[O] # <<>> /\ copied[O]
                /\ done'[O] = done[O] \cup ({Head(loops[O])} \cap Announcing)
          BY <1>4, <2>3 DEF Next_Loop, PresenceTypeOK
        <5>. QED  BY <2>1, <2>5, <3>1, <5>1 DEF Announced, Walking
      <4>3. ~(loops'[O] = loops[O] /\ copied'[O] = copied[O] /\ done'[O] = done[O])
        BY <2>1, <2>5, <3>1 DEF Announced, Walking
      <4>4. Say(O) => loops'[O] = loops[O] /\ copied'[O] = copied[O] /\ done'[O] = done[O]
        BY DEF Say
      <4>5. \A e \in todo[O] : Notify(O, e) \/ Peek(O, e) \/ Farewell(O, e) \/ Privacy(O, e)
              => loops'[O] = loops[O] /\ copied'[O] = copied[O] /\ done'[O] = done[O]
        BY DEF Notify, Peek, Farewell, Privacy, Visit, history
      <4>. QED  BY <1>9, <2>3, <4>1, <4>2, <4>3, <4>4, <4>5, OneWalks
    <3>3. <<v, sessions[v]>> \in Snapshot(O)
      BY <1>2, <2>2, <2>3 DEF Snapshot, Reachable
    <3>4. todo'[O] = Snapshot(O) /\ done'[O] = done[O]
      BY <1>4, <2>3, <3>2 DEF Copy, PresenceTypeOK, history
    <3>. QED  BY <2>1, <2>5, <3>3, <3>4 DEF Meet, Announced
  <2>. QED  BY <2>4, <2>5
<1>. QED  BY <1>8, <1>9

----------------------------------------------------------------------------
(* Who has gone.                                                           *)

\* A clean-up of u whose offline broadcast has yet to come to the session V of v.
Leaving(u, v, V) ==
  \E d \in Conns : /\ uin[d] = u /\ loops[d] # <<>> /\ Head(loops[d]) = "farewell"
                   /\ copied[d] => <<v, V>> \in todo[d]

GoneInv ==
  \A b \in Buddies :
    /\ Reachable(b[1]) /\ view[sessions[b[1]]][b[2]] \in Statuses
    /\ <<sessions[b[1]], b[2]>> \notin late /\ sessions[b[1]] \notin lost
    => sessions[b[2]] # NoConn \/ Leaving(b[2], b[1], sessions[b[1]])

\* Nobody is shown online but by the session that is registered, if not late.
LEMMA ShownIsRegistered ==
  ASSUME NEW c \in Conns, NEW u \in Uins, NEW what \in Statuses, Telling(c, u, what),
         <<c, u>> \notin late'
  PROVE  sessions'[u] # NoConn
  BY DirectoryAssumption DEF Telling, dirVars

\* The clean-up of the owner comes to the viewer, or goes on without it.
LEMMA LeavingWalks ==
  ASSUME TypeInv, [Next]_vars, ~ \E c \in Conns : SessionStep(c),
         NEW v \in Uins, NEW o \in Uins, <<v, o>> \in Buddies,
         Reachable(v), Leaving(o, v, sessions[v])
  PROVE  view'[sessions[v]][o] \notin Statuses \/ Leaving(o, v, sessions[v])'
<1>. DEFINE V == sessions[v]
<1>1. PresenceTypeOK  BY DEF TypeInv, WalkInv
<1>2. V \in Conns /\ uin[V] = v /\ v # o /\ UNCHANGED <<sessions, uin>> /\ V # NoConn
  BY Entry, Quiet, BuddyFacts DEF Reachable, dirVars
<1>3. PICK d \in Conns : /\ uin[d] = o /\ loops[d] # <<>> /\ Head(loops[d]) = "farewell"
                         /\ copied[d] => <<v, V>> \in todo[d]
  BY DEF Leaving
<1>4. ASSUME loops'[d] = loops[d], copied'[d] = copied[d], todo'[d] = todo[d]
      PROVE  Leaving(o, v, V)'
  BY <1>2, <1>3, <1>4 DEF Leaving
<1>5. ~Started(d) /\ ~Next_Loop(d)
  BY <1>3 DEF Started, Next_Loop
<1>6. ASSUME Say(d) PROVE Leaving(o, v, V)'
  BY <1>4, <1>6 DEF Say
<1>7. ASSUME Copy(d) PROVE Leaving(o, v, V)'
  <2>1. <<v, V>> \in Snapshot(d)  BY <1>2, <1>3 DEF Snapshot
  <2>2. todo'[d] = Snapshot(d) /\ loops' = loops
    BY <1>1, <1>7 DEF Copy, PresenceTypeOK
  <2>. QED  BY <1>2, <1>3, <2>1, <2>2 DEF Leaving
<1>8. ASSUME NEW e \in todo[d], Notify(d, e) \/ Peek(d, e) \/ Privacy(d, e) PROVE FALSE
  BY <1>3, <1>8 DEF Notify, Peek, Privacy, Visit
<1>9. ASSUME NEW e \in todo[d], Farewell(d, e), e # <<v, V>> PROVE Leaving(o, v, V)'
  <2>1. loops' = loops /\ copied' = copied /\ todo' = [todo EXCEPT ![d] = @ \ {e}]
    BY <1>9 DEF Farewell, Visit
  <2>. QED  BY <1>1, <1>2, <1>3, <1>9, <2>1 DEF Leaving, PresenceTypeOK
<1>10. ASSUME Farewell(d, <<v, V>>) PROVE view'[V][o] \notin Statuses
  <2>1. <<v, V>>[1] = v /\ <<v, V>>[2] = V  OBVIOUS
  <2>2. Show(V, o, "offline", d)  BY <1>3, <1>10, <2>1 DEF Farewell
  <2>3. running[V] /\ open[V] /\ uin[V] # NoUin
    BY <1>2, DirectoryAssumption DEF Reachable
  <2>4. view' = [view EXCEPT ![V][o] = "offline"]  BY <2>2, <2>3 DEF Show
  <2>. QED  BY <1>1, <1>2, <2>4, PresenceAssumption DEF PresenceTypeOK
<1>11. view'[V][o] \notin Statuses \/ Leaving(o, v, V)'
  BY <1>4, <1>5, <1>6, <1>7, <1>8, <1>9, <1>10, OneWalks
<1>. QED  BY <1>2, <1>11 DEF Leaving

LEMMA GoneNext ==
  ASSUME TypeInv, KnownInv, GoneInv, [Next]_vars
  PROVE  GoneInv'
<1>. SUFFICES ASSUME NEW b \in Buddies,
                     (/\ Reachable(b[1]) /\ view[sessions[b[1]]][b[2]] \in Statuses
                      /\ <<sessions[b[1]], b[2]>> \notin late
                      /\ sessions[b[1]] \notin lost)'
              PROVE  (sessions[b[2]] # NoConn \/ Leaving(b[2], b[1], sessions[b[1]]))'
  BY DEF GoneInv
<1>. DEFINE v == b[1]
            o == b[2]
<1>1. b = <<v, o>> /\ <<v, o>> \in Buddies  BY PresenceAssumption
<1>2. v \in Uins /\ o \in Uins /\ v # o  BY <1>1, BuddyFacts
<1>3. PresenceTypeOK /\ DirTypeOK /\ Identified  BY DEF TypeInv, WalkInv, DirInv, DirBase
<1>4. late \subseteq late' /\ lost \subseteq lost'  BY Quiet
<1>. HIDE DEF v, o
<1>5. /\ (Reachable(v) /\ view[sessions[v]][o] \in Statuses)'
      /\ <<sessions'[v], o>> \notin late' /\ sessions'[v] \notin lost'
      /\ Reachable(v) /\ view[sessions[v]][o] \in Statuses
         /\ <<sessions[v], o>> \notin late /\ sessions[v] \notin lost
           => sessions[o] # NoConn \/ Leaving(o, v, sessions[v])
  BY DEF v, o, GoneInv
<1>6. SUFFICES (sessions[o] # NoConn \/ Leaving(o, v, sessions[v]))'  BY DEF v, o
<1>7. sessions'[v] # NoConn  BY <1>5 DEF Reachable
<1>8. ASSUME NEW c \in Conns, SessionStep(c)
      PROVE  (sessions[o] # NoConn \/ Leaving(o, v, sessions[v]))'
  <2>1. UNCHANGED <<todo, view>>  BY <1>8, SessionMoves
  <2>2. sessions'[v] = sessions[v] /\ (Reachable(v)' => Reachable(v)) /\ sessions[v] # NoConn
    <3>1. CASE sessions'[v] = c /\ uin[c] = v /\ life[c] = "joining" /\ SignOn(c)
      <4>1. view[c][o] # "untold"
        BY <1>5, <2>1, <3>1, PresenceAssumption
      <4>2. Known(c)  BY <1>2, <4>1 DEF KnownInv
      <4>3. sessions[v] = c  BY <1>4, <1>5, <3>1, <4>2 DEF Known
      <4>. QED  BY <3>1, <4>3, <1>7, <1>5 DEF SignOn, Register, Reachable
    <3>. QED  BY <1>2, <1>7, <1>8, <3>1, EntryAfter
  <2>3. sessions[o] # NoConn \/ Leaving(o, v, sessions[v])
    BY <1>4, <1>5, <2>1, <2>2
  <2>4. CASE Leaving(o, v, sessions[v])
    <3>1. PICK d \in Conns : /\ uin[d] = o /\ loops[d] # <<>> /\ Head(loops[d]) = "farewell"
                             /\ copied[d] => <<v, sessions[v]>> \in todo[d]
      BY <2>4 DEF Leaving
    <3>2. uin'[d] = uin[d]  BY <1>8, <3>1, OwnStepsWait
    <3>3. loops'[d] = loops[d] /\ copied'[d] = copied[d]
      <4>1. CASE loops[c] = <<>> /\ SignOff(c)
        <5>1. /\ loops' = [loops EXCEPT ![c] = <<"farewell">>] /\ c # d
              /\ copied' = [copied EXCEPT ![c] = FALSE]
          BY <3>1, <4>1 DEF SignOff, Begin
        <5>. QED  BY <1>3, <5>1 DEF PresenceTypeOK
      <4>. QED  BY <1>8, <4>1, SessionMoves
    <3>. QED  BY <2>1, <2>2, <3>1, <3>2, <3>3 DEF Leaving
  <2>5. CASE sessions[o] # NoConn /\ sessions'[o] = NoConn
    <3>1. CASE loops[c] = <<>> /\ SignOff(c)
      <4>1. /\ loops' = [loops EXCEPT ![c] = <<"farewell">>]
            /\ copied' = [copied EXCEPT ![c] = FALSE]
            /\ sessions' = [sessions EXCEPT ![uin[c]] = NoConn] /\ uin' = uin
        BY <3>1 DEF SignOff, Begin, Unregister
      <4>2. uin[c] = o  BY <1>2, <1>3, <2>5, <4>1 DEF DirTypeOK
      <4>3. loops'[c] = <<"farewell">> /\ ~copied'[c]
        BY <1>3, <4>1 DEF PresenceTypeOK
      <4>4. <<"farewell">> # <<>> /\ Head(<<"farewell">>) = "farewell"  OBVIOUS
      <4>. QED  BY <4>1, <4>2, <4>3, <4>4 DEF Leaving
    <3>2. CASE loops[c] = <<>> /\ SignOn(c)
      BY <1>2, <1>3, <2>5, <3>2, DirectoryAssumption
      DEF SignOn, Register, DirTypeOK, Identified
    <3>3. CASE \E u \in Uins : TakeIdentity(c, u)
      BY <2>5, <3>3 DEF TakeIdentity, Assume
    <3>. QED  BY <1>8, <2>5, <3>1, <3>2, <3>3, SessionMoves
  <2>. QED  BY <2>3, <2>4, <2>5
<1>9. CASE ~ \E c \in Conns : SessionStep(c)
  <2>1. UNCHANGED <<sessions, uin, running, open, lost>>  BY <1>9, Quiet DEF dirVars
  <2>2. Reachable(v) /\ sessions[v] \in Conns
    BY <1>2, <1>5, <2>1, Entry DEF Reachable
  <2>3. CASE view'[sessions[v]][o] = view[sessions[v]][o]
    <3>1. sessions[o] # NoConn \/ Leaving(o, v, sessions[v])
      BY <1>4, <1>5, <2>1, <2>2, <2>3
    <3>. QED  BY <1>1, <1>2, <1>5, <1>9, <2>1, <2>2, <3>1, LeavingWalks
  <2>4. CASE view'[sessions[v]][o] # view[sessions[v]][o]
    <3>1. Telling(sessions[v], o, view'[sessions[v]][o])
      BY <1>2, <2>2, <2>4, ViewChanges
    <3>. QED  BY <1>2, <1>5, <2>1, <2>2, <3>1, ShownIsRegistered
  <2>. QED  BY <2>3, <2>4
<1>. QED  BY <1>8, <1>9

----------------------------------------------------------------------------
(* The theorems.                                                           *)

IInv == TypeInv /\ KnownInv /\ AllowedInv /\ HiddenInv /\ MeetInv /\ GoneInv

LEMMA IInitial == Init => IInv
<1>. SUFFICES ASSUME Init PROVE IInv  OBVIOUS
<1>1. /\ \A u \in Uins : sessions[u] = NoConn
      /\ \A c \in Conns : loops[c] = <<>>
  BY DEF Init, DirInit
<1>2. \A b \in Buddies : b[1] \in Uins /\ b[2] \in Uins  BY PresenceAssumption
<1>3. HiddenInv /\ MeetInv /\ GoneInv
  BY <1>1, <1>2 DEF HiddenInv, MeetInv, GoneInv, Reachable
<1>. QED  BY <1>3, TypeInitial, KnownInitial, AllowedInitial DEF IInv

LEMMA INext == IInv /\ [Next]_vars => IInv'
  BY TypeNext, KnownNext, AllowedNext, HiddenNext, MeetNext, GoneNext DEF IInv

\* Of two that sign on at the same time, the viewer is told of the owner once both
\* have announced themselves, whichever of them came to copy the registry first, and
\* whoever else signs on, goes or is replaced meanwhile.
THEOREM TwoMeet == Spec => []NobodyOverlooked
<1>1. IInv => NobodyOverlooked
  <2>. SUFFICES ASSUME IInv, NEW b \in Buddies, Reachable(b[1]), sessions[b[2]] # NoConn,
                       "full" \in done[sessions[b[1]]], "notify" \in done[sessions[b[2]]],
                       <<b[2], b[1]>> \notin everDenied
                PROVE  view[sessions[b[1]]][b[2]] # "untold"
    BY DEF NobodyOverlooked
  <2>. QED  BY DEF IInv, MeetInv, Meet, Announced
<1>. QED  BY <1>1, IInitial, INext, PTL DEF Spec

\* Whoever was denied all the time never sees the owner online, although what is
\* shown was allowed at an earlier moment than the one it is sent at, and is sent to
\* a session that may have been replaced since.
THEOREM DeniedAlways == Spec => []DeniedSeeNothing
<1>1. IInv => DeniedSeeNothing  BY DEF IInv, AllowedInv
<1>. QED  BY <1>1, IInitial, INext, PTL DEF Spec

\* A UIN that has gone is seen online by no contact once its offline broadcast is
\* over, but for the presence that was sent late and the viewers that were cut off
\* the registry.
THEOREM GoneSeenOffline == Spec => []GoneIsSeen
<1>1. IInv => GoneIsSeen
  <2>. SUFFICES ASSUME IInv, NEW b \in Buddies, Reachable(b[1]),
                       \A d \in Conns : uin[d] # b[2],
                       view[sessions[b[1]]][b[2]] \in Statuses,
                       <<sessions[b[1]], b[2]>> \notin late, sessions[b[1]] \notin lost
                PROVE  FALSE
    BY DEF GoneIsSeen
  <2>1. b[2] \in Uins  BY PresenceAssumption
  <2>2. sessions[b[2]] = NoConn  BY <2>1, Entry DEF IInv
  <2>. QED  BY <2>2 DEF IInv, GoneInv, Leaving
<1>. QED  BY <1>1, IInitial, INext, PTL DEF Spec

=============================================================================
