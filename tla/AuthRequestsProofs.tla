------------------------- MODULE AuthRequestsProofs -------------------------
(***************************************************************************)
(* Safety of the authorisation requests, for any connections, UINs and     *)
(* pairs. The invariant says of everything under way what the property     *)
(* says of its result: of a handler between two calls (WorkInv), a frame   *)
(* not yet sent (FlyingInv), a sweep (SweepInv, SweptInv) and the copy a   *)
(* client holds (CopyInv).                                                 *)
(***************************************************************************)
EXTENDS AuthRequests, DirectoryProofs

\* The viewer v may have the owner o as an open contact, or one of its own clients
\* presumed so.
May(v, o) == <<o, v>> \in granted \/ o \in everFree \/ <<o, v>> \in presumed

\* Who does not ask to be asked is in everFree, and what is stored was asked.
StoreInv ==
  /\ Uins \ guarded \subseteq everFree
  /\ requests \subseteq everAsked

\* A handler works for the UIN it began for, which has reasons for its next
\* call.
Works(c) ==
  LET h == handler[c] IN
  /\ h # Idle => life[c] = "up" /\ h.op # "none"
  /\ h.op = "put" => <<uin[c], h.of>> \in Pairs /\ (h.flag \/ May(uin[c], h.of))
  /\ h.op = "store" => h.of \in Uins /\ <<h.of, uin[c]>> \in everAsked
  /\ h.op = "answer" => <<h.of, uin[c]>> \in Pairs /\ (h.flag => May(h.of, uin[c]))
  /\ h.op \in {"sweep", "clear"} => uin[c] \in Uins
WorkInv == \A c \in Conns : Works(c)

\* A frame on its way is for the UIN its connection acts for, as long as it does.
Due(f) ==
  uin[f.to] # NoUin =>
    /\ f.kind = "yes" => May(uin[f.to], f.from)
    /\ f.kind = "ask" => <<uin[f.to], f.from>> \in everAsked
FlyingInv == \A f \in flying : Due(f)

\* A batch belongs to a sweep, and holds requests to the UIN that sweeps.
Sweeps(c) ==
  /\ handler[c].op # "sweep" => batch[c] = {}
  /\ \A r \in batch[c] : r[1] = uin[c] /\ r \in everAsked
SweepInv == \A c \in Conns : Sweeps(c)

\* What a client takes for open may be, and what it was shown was asked.
Knows(c) ==
  uin[c] # NoUin =>
    /\ \A o \in trusts[c] : May(uin[c], o)
    /\ \A v \in asked[c] : <<uin[c], v>> \in everAsked
CopyInv == \A c \in Conns : Knows(c)

\* A connection that has not signed on yet holds nothing of an earlier UIN.
Fresh(c) == uin[c] = NoUin /\ life[c] \in {"idle", "up"}
FreshInv ==
  \A c \in Conns : Fresh(c) =>
    /\ trusts[c] = {} /\ asked[c] = {}
    /\ \A f \in flying : f.to # c

AuthInv ==
  /\ TypeOK /\ Identified /\ EntrySound
  /\ StoreInv /\ WorkInv /\ FlyingInv /\ SweepInv /\ CopyInv /\ FreshInv
  /\ UngrantedStayPending

\* While c sweeps, every request to its UIN was shown, is yet to be, or came
\* meanwhile; or the socket is closed.
SweptInv ==
  \A c \in Conns : handler[c].op \in {"sweep", "clear"} =>
    \A r \in RequestsTo(uin[c]) :
      r \in overtaken \/ r \in batch[c] \/ r[2] \in asked[c] \/ ~open[c]

----------------------------------------------------------------------------
(* Types.                                                                  *)

\* Handlers and deliveries leave the sessions alone.
LEMMA HandlersLeaveSessions ==
  ASSUME NEW c \in Conns, Handle(c)
  PROVE  UNCHANGED dirVars
BY DEF Handle, PutContact, SendRoster, SetAuthRequired, StoreRequest, BeginSweep,
       ClearRequests, SendReply, SendRequest, BeginAdd, BeginUpdate, Ask, Reply

\* What was asked for, granted or free stays in the history.
LEMMA HistoryGrows ==
  ASSUME TypeOK, [Next]_vars
  PROVE  everAsked \subseteq everAsked' /\ granted \subseteq granted'
         /\ everFree \subseteq everFree' /\ overtaken \subseteq overtaken'
         /\ presumed \subseteq presumed'
<1>1. ASSUME NEW c \in Conns, Handle(c)
      PROVE  everAsked \subseteq everAsked' /\ granted \subseteq granted'
             /\ everFree \subseteq everFree' /\ overtaken \subseteq overtaken'
             /\ presumed \subseteq presumed'
  BY <1>1 DEF Handle, PutContact, SendRoster, SetAuthRequired, StoreRequest, BeginSweep,
       ClearRequests, SendReply, SendRequest, BeginAdd, BeginUpdate, Ask, Reply, history
<1>2. ASSUME NEW c \in Conns, SessionStep(c) PROVE UNCHANGED history
  BY <1>2 DEF SessionStep, authVars
<1>3. ASSUME NEW b \in Pairs, DropContact(b) PROVE UNCHANGED history
  BY <1>3 DEF DropContact
<1>4. ASSUME NEW f \in flying, Deliver(f) PROVE UNCHANGED history
  BY <1>4 DEF Deliver
<1>5. CASE UNCHANGED vars \/ AllGone  BY <1>5 DEF AllGone, vars, authVars, history
<1>. QED  BY <1>1, <1>2, <1>3, <1>4, <1>5 DEF Next, history

LEMMA HabitKept == [Next]_vars => [DirNext /\ OneUinEach]_dirVars
<1>. SUFFICES ASSUME [Next]_vars PROVE (DirNext /\ OneUinEach) \/ UNCHANGED dirVars
  OBVIOUS
<1>1. ASSUME NEW c \in Conns, SessionStep(c) PROVE DirNext /\ OneUinEach
  BY <1>1 DEF SessionStep, DirStep, DirNext
<1>2. ASSUME NEW b \in Pairs, DropContact(b) PROVE UNCHANGED dirVars
  BY <1>2 DEF DropContact
<1>3. ASSUME NEW f \in flying, Deliver(f) PROVE UNCHANGED dirVars  BY <1>3 DEF Deliver
<1>4. CASE UNCHANGED vars \/ AllGone  BY <1>4 DEF AllGone, vars
<1>. QED  BY <1>1, <1>2, <1>3, <1>4, HandlersLeaveSessions DEF Next

\* The sessions underneath the requests are the Directory's, that is, what Sessions
\* implements: no request, reply or sweep registers, renames or ends one.
THEOREM SessionsUnderneath == Spec => DirSpec
<1>1. Init => DirInit  BY DEF Init
<1>2. [Next]_vars => [DirNext]_dirVars  BY HabitKept
<1>. QED  BY <1>1, <1>2, PTL DEF Spec, DirSpec

LEMMA DirectoryKept ==
  ASSUME TypeOK, Identified, EntrySound, [Next]_vars
  PROVE  DirInv'
<1>1. DirInv  BY DEF TypeOK, DirInv, DirBase
<1>2. [DirNext /\ OneUinEach]_dirVars  BY HabitKept
<1>. QED  BY <1>1, <1>2, DirNextInv

Frames == [kind : {"ask", "yes", "no"}, from : Uins, to : Conns]

\* The part of TypeOK that is not the directory's.
AuthTypeOK ==
  /\ guarded \subseteq Uins
  /\ contact \in [Pairs -> {"none", "pending", "open"}]
  /\ requests \subseteq Requests
  /\ handler \in [Conns -> Jobs]
  /\ batch \in [Conns -> SUBSET Requests]
  /\ flying \subseteq Frames
  /\ asked \in [Conns -> SUBSET Senders]
  /\ trusts \in [Conns -> SUBSET Uins]
  /\ everAsked \subseteq Requests /\ overtaken \subseteq Requests
  /\ granted \subseteq Uins \X Uins
  /\ everFree \subseteq Uins
  /\ presumed \subseteq Uins \X Uins

LEMMA Types == TypeOK <=> DirTypeOK /\ AuthTypeOK
BY DEF TypeOK, AuthTypeOK, Frames

LEMMA JobType ==
  ASSUME NEW op \in {"none", "put", "store", "sweep", "clear", "answer"},
         NEW of \in Senders, NEW flag \in BOOLEAN
  PROVE  Do(op, of, flag) \in Jobs
BY DEF Do, Jobs, Senders

LEMMA IdleType == Idle \in Jobs
BY DEF Idle, Jobs, Senders

LEMMA SpawnType ==
  ASSUME DirTypeOK, flying \subseteq Frames,
         NEW c \in Conns, NEW kind \in {"ask", "yes", "no"}, NEW target \in Conns,
         Spawn(c, kind, target)
  PROVE  flying' \subseteq Frames
BY DEF Spawn, Frames, DirTypeOK

\* Each step of a handler keeps the types.
LEMMA HandleTypes ==
  ASSUME DirTypeOK, AuthTypeOK, WorkInv, NEW c \in Conns, Handle(c)
  PROVE  AuthTypeOK'
<1> USE DEF AuthTypeOK, DirTypeOK
<1>0. /\ Pairs \subseteq Uins \X Uins
      /\ Senders = Uins \cup {NoUin} /\ Requests = Uins \X Senders
      /\ Idle \in Jobs
  BY PairsAssumption, IdleType DEF Senders, Requests
<1>1. CASE PutContact(c)
  <2>1. <<uin[c], handler[c].of>> \in Pairs \/ contact' = contact
    BY <1>1 DEF PutContact
  <2>. QED  BY <1>1, <1>0, <2>1, JobType DEF PutContact, Then, history, client
<1>2. CASE SendRoster(c)
  BY <1>2, <1>0 DEF SendRoster, history
<1>3. CASE SetAuthRequired(c)
  BY <1>3, <1>0 DEF SetAuthRequired, client
<1>4. CASE StoreRequest(c)
  <2>1. handler[c].of \in Uins  BY <1>4 DEF StoreRequest, WorkInv, Works
  <2>. QED  BY <1>4, <1>0, <2>1, JobType DEF StoreRequest, Then, client
<1>5. CASE BeginSweep(c)
  <2>1. Do("sweep", uin[c], FALSE) \in Jobs  BY <1>0, JobType
  <2>2. RequestsTo(uin[c]) \in SUBSET Requests  BY DEF RequestsTo
  <2>. QED  BY <1>5, <2>1, <2>2 DEF BeginSweep, Then, client, history
<1>6. CASE ClearRequests(c)
  BY <1>6, <1>0, JobType DEF ClearRequests, Then, client, history, RequestsTo
<1>7. CASE SendReply(c)
  <2>1. handler[c].of \in Uins  BY <1>0, <1>7 DEF SendReply, WorkInv, Works
  <2>2. flying' \subseteq Frames  BY <1>7, <2>1, SpawnType DEF SendReply
  <2>. QED  BY <1>7, <1>0, <2>2 DEF SendReply, Then, client, history
<1>8. ASSUME NEW r \in batch[c], SendRequest(c, r) PROVE AuthTypeOK'
  <2>1. r \in Requests /\ r[2] \in Senders  BY <1>0
  <2>2. asked' \in [Conns -> SUBSET Senders]  BY <1>8, <2>1 DEF SendRequest, Show
  <2>3. Do("clear", uin[c], FALSE) \in Jobs  BY <1>0, JobType
  <2>4. handler' \in [Conns -> Jobs]  BY <1>8, <2>3 DEF SendRequest, Then
  <2>. QED  BY <1>8, <2>2, <2>4 DEF SendRequest, history
<1>9. ASSUME NEW o \in Uins, BeginAdd(c, o) PROVE AuthTypeOK'
  <2>1. PICK own \in BOOLEAN : Then(c, Do("put", o, own \/ o \in guarded))
    BY <1>9 DEF BeginAdd
  <2>2. (own \/ o \in guarded) \in BOOLEAN  OBVIOUS
  <2>3. Do("put", o, own \/ o \in guarded) \in Jobs  BY <1>0, <2>2, JobType
  <2>. QED  BY <1>9, <2>1, <2>3 DEF BeginAdd, Then, client, history
<1>10. ASSUME NEW o \in Uins, BeginUpdate(c, o) PROVE AuthTypeOK'
  <2>1. PICK own \in BOOLEAN :
          /\ Then(c, Do("put", o, own))
          /\ presumed' = IF own \/ o \in trusts[c] THEN presumed
                         ELSE presumed \cup {<<o, uin[c]>>}
    BY <1>10 DEF BeginUpdate
  <2>2. Do("put", o, own) \in Jobs  BY <1>0, JobType
  <2>3. uin[c] \in Uins  BY <1>0, <1>10 DEF BeginUpdate
  <2>4. presumed' \subseteq Uins \X Uins  BY <2>1, <2>3
  <2>. QED  BY <1>10, <2>1, <2>2, <2>4 DEF BeginUpdate, Then, client
<1>11. ASSUME NEW o \in Uins, Ask(c, o) PROVE AuthTypeOK'
  <2>1. <<o, uin[c]>> \in Requests  BY <1>0
  <2>2. flying' \subseteq Frames  BY <1>11, SpawnType DEF Ask
  <2>3. Do("store", o, FALSE) \in Jobs  BY <1>0, JobType
  <2>. QED  BY <1>11, <2>1, <2>2, <2>3 DEF Ask, Then, client
<1>12. ASSUME NEW v \in Uins, NEW yes \in BOOLEAN, Reply(c, v, yes) PROVE AuthTypeOK'
  BY <1>12, <1>0, JobType DEF Reply, Then, client
<1>. QED
  BY <1>1, <1>2, <1>3, <1>4, <1>5, <1>6, <1>7, <1>8, <1>9, <1>10, <1>11, <1>12 DEF Handle

\* Every step keeps the types.
LEMMA TypesKept ==
  ASSUME TypeOK, Identified, EntrySound, WorkInv, [Next]_vars
  PROVE  TypeOK'
<1>1. DirTypeOK'  BY DirectoryKept DEF DirInv, DirBase
<1>2. DirTypeOK /\ AuthTypeOK  BY Types
<1>3. ASSUME NEW c \in Conns, SessionStep(c) PROVE AuthTypeOK'
  BY <1>2, <1>3 DEF SessionStep, authVars, AuthTypeOK, client, history
<1>4. ASSUME NEW b \in Pairs, DropContact(b) PROVE AuthTypeOK'
  BY <1>2, <1>4 DEF DropContact, AuthTypeOK, client, history
<1>5. ASSUME NEW f \in flying, Deliver(f) PROVE AuthTypeOK'
  <2>1. f.from \in Uins /\ f.from \in Senders /\ f.to \in Conns
    BY <1>2 DEF AuthTypeOK, Frames, Senders
  <2>2. asked' \in [Conns -> SUBSET Senders] /\ trusts' \in [Conns -> SUBSET Uins]
    BY <1>2, <1>5, <2>1 DEF Deliver, AuthTypeOK, Show
  <2>. QED  BY <1>2, <1>5, <2>2 DEF Deliver, AuthTypeOK, history
<1>6. ASSUME UNCHANGED vars \/ AllGone PROVE AuthTypeOK'
  BY <1>2, <1>6 DEF AllGone, vars, authVars, AuthTypeOK, client, history
<1>7. AuthTypeOK'  BY <1>2, <1>3, <1>4, <1>5, <1>6, HandleTypes DEF Next
<1>. QED  BY <1>1, <1>7 DEF TypeOK, AuthTypeOK, Frames

----------------------------------------------------------------------------
(* What a step of a session does to identities.                            *)

\* A connection gets an identity only where it has none, before it is up, and
\* loses it only for good; a handler keeps its own.
LEMMA IdentitySteps ==
  ASSUME DirInv, WorkInv, NEW d \in Conns, SessionStep(d), NEW c \in Conns
  PROVE  /\ handler[c] # Idle => uin'[c] = uin[c] /\ life'[c] = life[c]
         /\ \/ uin'[c] = uin[c]
            \/ uin'[c] = NoUin
            \/ uin[c] = NoUin /\ life[c] = "up"
         /\ uin'[c] = NoUin /\ life'[c] \in {"idle", "up"}
              => uin[c] = NoUin /\ life[c] \in {"idle", "up"}
         /\ open'[c] /\ life[c] = "up" => open[c]
<1> USE DirectoryAssumption
    DEF DirInv, DirBase, DirTypeOK, Identified, EntrySound, WorkInv, Works, Lives
<1> HIDE DEF Works
<1>0. handler[c] # Idle => life[c] = "up"  BY DEF Works
<1>1. CASE Register(d) /\ handler[d] = Idle  BY <1>0, <1>1 DEF Register
<1>2. CASE Finish(d) /\ handler[d] = Idle  BY <1>0, <1>2 DEF Finish
<1>3. CASE Unregister(d) /\ handler[d] = Idle  BY <1>0, <1>3 DEF Unregister
<1>4. CASE Forget(d) /\ handler[d] = Idle  BY <1>0, <1>4 DEF Forget
<1>5. CASE Leave(d) /\ handler[d] = Idle  BY <1>0, <1>5 DEF Leave
<1>6. CASE Connect(d)  BY <1>0, <1>6 DEF Connect
<1>7. CASE Drop(d)  BY <1>0, <1>7 DEF Drop
<1>8. CASE Halt(d)  BY <1>0, <1>8 DEF Halt
<1>9. ASSUME NEW u \in Uins, Assume(d, u), OneUinEach, handler[d] = Idle
      PROVE  /\ handler[c] # Idle => uin'[c] = uin[c] /\ life'[c] = life[c]
             /\ \/ uin'[c] = uin[c]
                \/ uin'[c] = NoUin
                \/ uin[c] = NoUin /\ life[c] = "up"
             /\ uin'[c] = NoUin /\ life'[c] \in {"idle", "up"}
                  => uin[c] = NoUin /\ life[c] \in {"idle", "up"}
             /\ open'[c] /\ life[c] = "up" => open[c]
  BY <1>0, <1>9 DEF Assume, OneUinEach
<1>. QED
  BY <1>1, <1>2, <1>3, <1>4, <1>5, <1>6, <1>7, <1>8, <1>9
  DEF SessionStep, OwnStep, ForeignStep

LEMMA MayStay ==
  ASSUME TypeOK, [Next]_vars, NEW v, NEW o, May(v, o)
  PROVE  May(v, o)'
BY HistoryGrows DEF May

\* A handler that does not move keeps its reasons.
LEMMA WorkStays ==
  ASSUME AuthInv, [Next]_vars, NEW c \in Conns, handler'[c] = handler[c],
         handler[c] # Idle => uin'[c] = uin[c] /\ life'[c] = life[c]
  PROVE  Works(c)'
<1>1. Works(c)  BY DEF AuthInv, WorkInv
<1>2. CASE handler[c] = Idle
  BY <1>2 DEF Works, Idle
<1>3. CASE handler[c] # Idle
  <2>1. uin'[c] = uin[c] /\ life'[c] = life[c] /\ handler'[c] = handler[c]  BY <1>3
  <2>2. \A v, o : May(v, o) => May(v, o)'  BY MayStay DEF AuthInv
  <2>3. everAsked \subseteq everAsked'  BY HistoryGrows DEF AuthInv
  <2>. QED  BY <1>1, <2>1, <2>2, <2>3 DEF Works
<1>. QED  BY <1>2, <1>3

\* A handler that takes a step goes on to one it has reasons for.
LEMMA WorkKept ==
  ASSUME AuthInv, [Next]_vars
  PROVE  WorkInv'
<1>0. TypeOK /\ WorkInv /\ DirTypeOK /\ PairsAssumption
  BY PairsAssumption DEF AuthInv, TypeOK
<1>1. ASSUME NEW d \in Conns, Handle(d), NEW c \in Conns PROVE Works(c)'
  <2>1. UNCHANGED dirVars  BY <1>1, HandlersLeaveSessions
  <2>2. uin'[c] = uin[c] /\ life'[c] = life[c]  BY <2>1 DEF dirVars
  <2>3. CASE handler'[c] = handler[c]  BY <2>2, <2>3, WorkStays
  <2>4. CASE handler'[c] # handler[c]
    <3>1. c = d
      BY <2>4, <1>0, <1>1
      DEF Handle, PutContact, SendRoster, SetAuthRequired, StoreRequest, BeginSweep,
          ClearRequests, SendReply, SendRequest, BeginAdd, BeginUpdate, Ask, Reply, Then,
          TypeOK
    <3>2. CASE PutContact(c) \/ StoreRequest(c) \/ ClearRequests(c) \/ SendReply(c)
      <4>1. handler'[c] = Idle
        BY <1>0, <3>2
        DEF PutContact, StoreRequest, ClearRequests, SendReply, Then, TypeOK
      <4>. QED  BY <4>1 DEF Works, Idle
    <3>3. CASE BeginSweep(c)
      <4>1. handler'[c] = Do("sweep", uin[c], FALSE) /\ life[c] = "up"
        BY <1>0, <3>3 DEF BeginSweep, Then, TypeOK, Serving
      <4>2. uin[c] \in Uins
        BY <1>0, <3>3 DEF BeginSweep, RequestsTo, TypeOK, Requests
      <4>. QED  BY <2>2, <4>1, <4>2 DEF Works, Do, Idle
    <3>4. ASSUME NEW r \in batch[c], SendRequest(c, r) PROVE Works(c)'
      <4>1. handler'[c] = Do("clear", uin[c], FALSE) /\ handler[c].op = "sweep"
        BY <1>0, <2>4, <3>4 DEF SendRequest, Then, TypeOK
      <4>3. handler[c] # Idle /\ Works(c)  BY <1>0, <4>1 DEF Idle, WorkInv
      <4>2. uin[c] \in Uins /\ life[c] = "up"  BY <4>1, <4>3 DEF Works
      <4>. QED  BY <2>2, <4>1, <4>2 DEF Works, Do, Idle
    <3>5. ASSUME NEW o \in Uins, BeginAdd(c, o) PROVE Works(c)'
      <4>1. PICK own \in BOOLEAN : handler'[c] = Do("put", o, own \/ o \in guarded)
        BY <1>0, <3>5 DEF BeginAdd, Then, TypeOK
      <4>2. <<uin[c], o>> \in Pairs /\ life[c] = "up"  BY <3>5 DEF BeginAdd, Serving
      <4>3. o \in guarded \/ o \in everFree  BY DEF AuthInv, StoreInv
      <4>4. everFree' = everFree  BY <3>5 DEF BeginAdd, history
      <4>. DEFINE flag == own \/ o \in guarded
      <4>5. handler'[c] = [op |-> "put", of |-> o, flag |-> flag]  BY <4>1 DEF Do
      <4>6. flag \/ May(uin[c], o)'  BY <2>2, <4>3, <4>4 DEF May
      <4>. HIDE DEF flag
      <4>7. handler'[c].op = "put" /\ handler'[c].of = o /\ handler'[c].flag = flag
        BY <4>5
      <4>. QED  BY <2>2, <4>2, <4>6, <4>7 DEF Works
    <3>6. ASSUME NEW o \in Uins, BeginUpdate(c, o) PROVE Works(c)'
      <4>0. PICK own \in BOOLEAN :
              /\ handler'[c] = Do("put", o, own)
              /\ own \/ o \in trusts[c] \/ <<o, uin[c]>> \in presumed'
        BY <1>0, <3>6 DEF BeginUpdate, Then, TypeOK
      <4>1. handler'[c] = Do("put", o, own)  BY <4>0
      <4>2. <<uin[c], o>> \in Pairs /\ life[c] = "up"  BY <3>6 DEF BeginUpdate, Serving
      <4>3. uin[c] \in Uins  BY <1>0, <4>2 DEF PairsAssumption
      <4>4. o \in trusts[c] => May(uin[c], o)
        BY <4>3, DirectoryAssumption DEF AuthInv, CopyInv, Knows
      <4>5. granted' = granted /\ everFree' = everFree /\ presumed \subseteq presumed'
        BY <3>6 DEF BeginUpdate
      <4>6. handler'[c] = [op |-> "put", of |-> o, flag |-> own]  BY <4>1 DEF Do
      <4>7. own \/ May(uin[c], o)'  BY <2>2, <4>0, <4>4, <4>5 DEF May
      <4>8. handler'[c].op = "put" /\ handler'[c].of = o /\ handler'[c].flag = own
        BY <4>6
      <4>. QED  BY <2>2, <4>2, <4>7, <4>8 DEF Works
    <3>7. ASSUME NEW o \in Uins, Ask(c, o) PROVE Works(c)'
      <4>1. handler'[c] = Do("store", o, FALSE) /\ life[c] = "up"
        BY <1>0, <2>4, <3>7 DEF Ask, Then, TypeOK, Serving
      <4>2. <<o, uin[c]>> \in everAsked'  BY <3>7 DEF Ask
      <4>. QED  BY <2>2, <4>1, <4>2 DEF Works, Do, Idle
    <3>8. ASSUME NEW v \in Uins, NEW yes \in BOOLEAN, Reply(c, v, yes) PROVE Works(c)'
      <4>1. handler'[c] = Do("answer", v, yes) /\ life[c] = "up"
        BY <1>0, <3>8 DEF Reply, Then, TypeOK, Serving
      <4>2. <<v, uin[c]>> \in Pairs /\ (yes => <<uin[c], v>> \in granted')
        BY <3>8 DEF Reply
      <4>. QED  BY <2>2, <4>1, <4>2 DEF Works, Do, Idle, May
    <3>9. ~SendRoster(c) /\ ~SetAuthRequired(c)
      BY <2>4 DEF SendRoster, SetAuthRequired
    <3>. QED
      BY <1>1, <3>1, <3>2, <3>3, <3>4, <3>5, <3>6, <3>7, <3>8, <3>9 DEF Handle
  <2>. QED  BY <2>3, <2>4
<1>2. ASSUME NEW d \in Conns, SessionStep(d), NEW c \in Conns PROVE Works(c)'
  <2>1. handler'[c] = handler[c]  BY <1>2 DEF SessionStep, authVars
  <2>2. DirInv  BY DEF AuthInv, DirInv, DirBase, TypeOK
  <2>. QED  BY <1>0, <1>2, <2>1, <2>2, IdentitySteps, WorkStays
<1>3. ASSUME NEW c \in Conns, UNCHANGED <<dirVars, handler>> PROVE Works(c)'
  BY <1>3, WorkStays DEF dirVars
<1>4. ASSUME NEW b \in Pairs, DropContact(b) PROVE UNCHANGED <<dirVars, handler>>
  BY <1>4 DEF DropContact
<1>5. ASSUME NEW f \in flying, Deliver(f) PROVE UNCHANGED <<dirVars, handler>>
  BY <1>5 DEF Deliver
<1>6. ASSUME UNCHANGED vars \/ AllGone PROVE UNCHANGED <<dirVars, handler>>
  BY <1>6 DEF AllGone, vars, authVars
<1>. QED  BY <1>1, <1>2, <1>3, <1>4, <1>5, <1>6 DEF Next, WorkInv

----------------------------------------------------------------------------
(* The other parts of the invariant.                                       *)

\* Which variables the steps that are no handler's leave alone.
LEMMA OtherSteps ==
  ASSUME [Next]_vars
  PROVE  \/ \E c \in Conns : Handle(c)
         \/ (\E c \in Conns : SessionStep(c)) /\ UNCHANGED authVars
         \/ (\E b \in Pairs : DropContact(b)) /\ UNCHANGED dirVars
         \/ (\E f \in flying : Deliver(f)) /\ UNCHANGED dirVars
         \/ UNCHANGED vars
BY DEF Next, SessionStep, DropContact, Deliver, AllGone

LEMMA StoreKept ==
  ASSUME AuthInv, [Next]_vars
  PROVE  StoreInv'
<1> USE DEF AuthInv, StoreInv
<1>1. ASSUME NEW c \in Conns, StoreRequest(c) PROVE StoreInv'
  <2>1. <<handler[c].of, uin[c]>> \in everAsked
    BY <1>1 DEF StoreRequest, WorkInv, Works
  <2>. QED  BY <1>1, <2>1 DEF StoreRequest, client
<1>2. ASSUME NEW c \in Conns, Handle(c), ~StoreRequest(c) PROVE StoreInv'
  BY <1>2 DEF Handle, PutContact, SendRoster, SetAuthRequired, BeginSweep, ClearRequests,
      SendReply, SendRequest, BeginAdd, BeginUpdate, Ask, Reply, client, history
<1>3. CASE UNCHANGED authVars  BY <1>3 DEF authVars, history
<1>4. ASSUME NEW b \in Pairs, DropContact(b) PROVE StoreInv'
  BY <1>4 DEF DropContact, history
<1>5. ASSUME NEW f \in flying, Deliver(f) PROVE StoreInv'  BY <1>5 DEF Deliver, history
<1>. QED  BY <1>1, <1>2, <1>3, <1>4, <1>5, OtherSteps DEF vars

\* Handlers add to what is under way only what Spawn adds.
LEMMA FlyingStays ==
  ASSUME NEW c \in Conns, Handle(c)
  PROVE  \/ flying' = flying
         \/ SendReply(c)
         \/ \E o \in Uins : Ask(c, o)
BY DEF Handle, PutContact, SendRoster, SetAuthRequired, StoreRequest, BeginSweep,
       ClearRequests, SendRequest, BeginAdd, BeginUpdate, Reply

\* A spawned frame goes to the session registered for a UIN.
LEMMA Spawned ==
  ASSUME AuthInv, NEW c \in Conns, NEW kind, NEW u \in Uins, sessions[u] # NoConn,
         Spawn(c, kind, sessions[u]), NEW f \in flying' \ flying
  PROVE  /\ f.kind = kind /\ f.from = uin[c] /\ f.to = sessions[u]
         /\ uin[f.to] = u /\ f.to \in Conns
BY DirectoryAssumption DEF Spawn, AuthInv, EntrySound, TypeOK, DirTypeOK

LEMMA FlyingKept ==
  ASSUME AuthInv, [Next]_vars
  PROVE  FlyingInv'
<1>0. TypeOK /\ everAsked \subseteq everAsked' /\ \A v, o : May(v, o) => May(v, o)'
  BY HistoryGrows, MayStay DEF AuthInv
<1>1. ASSUME NEW f \in flying, uin'[f.to] = uin[f.to] \/ uin'[f.to] = NoUin
      PROVE  Due(f)'
  BY <1>0, <1>1 DEF AuthInv, FlyingInv, Due
<1>2. ASSUME NEW d \in Conns, SessionStep(d) PROVE FlyingInv'
  <2>1. flying' = flying  BY <1>2 DEF SessionStep, authVars
  <2>2. ASSUME NEW f \in flying PROVE Due(f)'
    <3>1. f.to \in Conns  BY <1>0 DEF TypeOK
    <3>2. ~Fresh(f.to)  BY <3>1 DEF AuthInv, FreshInv
    <3>3. DirInv  BY DEF AuthInv, DirInv, DirBase, TypeOK
    <3>. QED  BY <1>1, <1>2, <3>1, <3>2, <3>3, IdentitySteps DEF AuthInv, Fresh
  <2>. QED  BY <2>1, <2>2 DEF FlyingInv
<1>3. ASSUME UNCHANGED dirVars, flying' \subseteq flying PROVE FlyingInv'
  BY <1>1, <1>3 DEF FlyingInv, dirVars
<1>4. ASSUME NEW c \in Conns, SendReply(c) PROVE FlyingInv'
  <2>1. UNCHANGED dirVars  BY <1>4 DEF SendReply
  <2>2. ASSUME NEW f \in flying' \ flying PROVE Due(f)'
    <3>. DEFINE u == handler[c].of
                kind == IF handler[c].flag THEN "yes" ELSE "no"
    <3>1. sessions[u] # NoConn /\ Spawn(c, kind, sessions[u])  BY <1>4, <2>2 DEF SendReply
    <3>2. u \in Uins /\ (handler[c].flag => May(u, uin[c]))
      BY <1>4, PairsAssumption DEF SendReply, AuthInv, WorkInv, Works
    <3>3. f.kind = kind /\ f.from = uin[c] /\ uin[f.to] = u
      BY <3>1, <3>2, <2>2, Spawned
    <3>. QED  BY <2>1, <3>2, <3>3, <1>0 DEF Due, dirVars
  <2>. QED  BY <1>1, <2>1, <2>2 DEF FlyingInv, dirVars
<1>5. ASSUME NEW c \in Conns, NEW o \in Uins, Ask(c, o) PROVE FlyingInv'
  <2>1. UNCHANGED dirVars  BY <1>5 DEF Ask
  <2>2. ASSUME NEW f \in flying' \ flying PROVE Due(f)'
    <3>1. sessions[o] # NoConn /\ Spawn(c, "ask", sessions[o])  BY <1>5, <2>2 DEF Ask
    <3>2. f.kind = "ask" /\ f.from = uin[c] /\ uin[f.to] = o
      BY <3>1, <2>2, Spawned
    <3>3. <<o, uin[c]>> \in everAsked'  BY <1>5 DEF Ask
    <3>. QED  BY <2>1, <3>2, <3>3 DEF Due, dirVars
  <2>. QED  BY <1>1, <2>1, <2>2 DEF FlyingInv, dirVars
<1>6. ASSUME NEW c \in Conns, Handle(c) PROVE FlyingInv'
  BY <1>3, <1>4, <1>5, <1>6, FlyingStays, HandlersLeaveSessions
<1>7. ASSUME NEW b \in Pairs, DropContact(b) PROVE FlyingInv'
  BY <1>3, <1>7 DEF DropContact
<1>8. ASSUME NEW f \in flying, Deliver(f) PROVE FlyingInv'
  BY <1>3, <1>8 DEF Deliver
<1>9. CASE UNCHANGED vars  BY <1>3, <1>9 DEF vars, authVars
<1>. QED  BY <1>2, <1>6, <1>7, <1>8, <1>9, OtherSteps

LEMMA SweepKept ==
  ASSUME AuthInv, [Next]_vars
  PROVE  SweepInv'
<1>0. TypeOK /\ everAsked \subseteq everAsked' /\ SweepInv /\ DirInv /\ WorkInv
  BY HistoryGrows DEF AuthInv, DirInv, DirBase, TypeOK
<1>1. ASSUME NEW c \in Conns, handler'[c] = handler[c], batch'[c] = batch[c],
             handler[c] # Idle => uin'[c] = uin[c]
      PROVE  Sweeps(c)'
  BY <1>0, <1>1 DEF SweepInv, Sweeps, Idle
<1>2. ASSUME NEW d \in Conns, SessionStep(d), UNCHANGED authVars PROVE SweepInv'
  BY <1>0, <1>1, <1>2, IdentitySteps DEF authVars, SweepInv
<1>3. ASSUME UNCHANGED dirVars, UNCHANGED <<handler, batch>> PROVE SweepInv'
  BY <1>1, <1>3 DEF dirVars, SweepInv
<1>4. ASSUME NEW d \in Conns, Handle(d), NEW c \in Conns PROVE Sweeps(c)'
  <2>1. uin' = uin  BY <1>4, HandlersLeaveSessions DEF dirVars
  <2>2. CASE handler'[c] = handler[c] /\ batch'[c] = batch[c]
    BY <1>1, <2>1, <2>2
  <2>3. CASE ~(handler'[c] = handler[c] /\ batch'[c] = batch[c])
    <3>1. c = d
      BY <2>3, <1>0, <1>4
      DEF Handle, PutContact, SendRoster, SetAuthRequired, StoreRequest, BeginSweep,
          ClearRequests, SendReply, SendRequest, BeginAdd, BeginUpdate, Ask, Reply, Then,
          TypeOK
    <3>2. CASE BeginSweep(c)
      BY <1>0, <2>1, <3>2
      DEF BeginSweep, Then, TypeOK, RequestsTo, Sweeps, AuthInv, StoreInv, Do
    <3>3. ASSUME NEW r \in batch[c], SendRequest(c, r) PROVE Sweeps(c)'
      <4>1. batch'[c] = batch[c] \ {r} /\ handler[c].op = "sweep"
        BY <1>0, <3>3 DEF SendRequest, TypeOK
      <4>2. batch'[c] = {} => handler'[c].op = "clear"
        BY <1>0, <3>3 DEF SendRequest, Then, TypeOK, Do
      <4>3. batch'[c] # {} => handler'[c] = handler[c]
        BY <1>0, <3>3 DEF SendRequest, Then, TypeOK
      <4>. QED  BY <1>0, <2>1, <4>1, <4>2, <4>3 DEF SweepInv, Sweeps
    <3>4. CASE batch'[c] = batch[c] /\ handler[c].op # "sweep" /\ handler'[c].op # "sweep"
      BY <1>0, <2>1, <3>4 DEF SweepInv, Sweeps
    <3>5. CASE PutContact(c) \/ StoreRequest(c) \/ ClearRequests(c) \/ SendReply(c)
      BY <1>0, <3>4, <3>5
      DEF PutContact, StoreRequest, ClearRequests, SendReply, Then, TypeOK, Idle
    <3>6. ASSUME NEW u \in Uins, NEW yes \in BOOLEAN,
                 BeginAdd(c, u) \/ BeginUpdate(c, u) \/ Ask(c, u) \/ Reply(c, u, yes)
          PROVE  Sweeps(c)'
      <4>1. handler[c] = Idle /\ batch' = batch
        BY <3>6 DEF BeginAdd, BeginUpdate, Ask, Reply, Serving
      <4>2. handler'[c] = handler[c] \/ handler'[c].op # "sweep"
        BY <1>0, <3>6 DEF BeginAdd, BeginUpdate, Ask, Reply, Then, Do, TypeOK
      <4>. QED  BY <2>2, <3>4, <4>1, <4>2 DEF Idle
    <3>7. ~SendRoster(c) /\ ~SetAuthRequired(c)
      BY <2>3 DEF SendRoster, SetAuthRequired
    <3>. QED  BY <1>4, <3>1, <3>2, <3>3, <3>5, <3>6, <3>7 DEF Handle
  <2>. QED  BY <2>2, <2>3
<1>5. ASSUME NEW b \in Pairs, DropContact(b) PROVE SweepInv'
  BY <1>3, <1>5 DEF DropContact
<1>6. ASSUME NEW f \in flying, Deliver(f) PROVE SweepInv'  BY <1>3, <1>6 DEF Deliver
<1>7. CASE UNCHANGED vars  BY <1>3, <1>7 DEF vars, authVars
<1>. QED  BY <1>2, <1>4, <1>5, <1>6, <1>7, OtherSteps DEF SweepInv

LEMMA CopyKept ==
  ASSUME AuthInv, [Next]_vars
  PROVE  CopyInv'
<1>0. /\ TypeOK /\ everAsked \subseteq everAsked' /\ \A v, o : May(v, o) => May(v, o)'
      /\ DirInv /\ WorkInv
  BY HistoryGrows, MayStay DEF AuthInv, DirInv, DirBase, TypeOK
<1>1. ASSUME NEW c \in Conns, trusts'[c] = trusts[c], asked'[c] = asked[c],
             uin'[c] \in {uin[c], NoUin} \/ Fresh(c)
      PROVE  Knows(c)'
  BY <1>0, <1>1 DEF AuthInv, CopyInv, FreshInv, Knows
<1>2. ASSUME NEW d \in Conns, SessionStep(d), UNCHANGED authVars PROVE CopyInv'
  BY <1>0, <1>1, <1>2, IdentitySteps DEF authVars, client, CopyInv, Fresh
<1>3. ASSUME UNCHANGED dirVars, UNCHANGED client PROVE CopyInv'
  BY <1>1, <1>3 DEF dirVars, client, CopyInv
<1>4. ASSUME NEW d \in Conns, SendRoster(d) PROVE CopyInv'
  <2>1. uin' = uin /\ asked' = asked  BY <1>4 DEF SendRoster, dirVars
  <2>2. \A c \in Conns \ {d} : trusts'[c] = trusts[c]  BY <1>0, <1>4 DEF SendRoster, TypeOK
  <2>3. ASSUME NEW o \in trusts'[d] PROVE May(uin[d], o)'
    <3>1. PICK b \in Pairs : b[1] = uin[d] /\ b[2] = o /\ contact[b] = "open"
      BY <1>0, <1>4 DEF SendRoster, TypeOK
    <3>2. May(uin[d], o)  BY <3>1 DEF AuthInv, UngrantedStayPending, May
    <3>. QED  BY <1>0, <2>1, <3>2
  <2>4. Knows(d)'  BY <1>0, <2>1, <2>3 DEF AuthInv, CopyInv, Knows
  <2>. QED  BY <1>1, <2>1, <2>2, <2>4 DEF CopyInv
<1>5. ASSUME NEW d \in Conns, NEW r \in batch[d], SendRequest(d, r) PROVE CopyInv'
  <2>1. uin' = uin /\ trusts' = trusts  BY <1>5 DEF SendRequest, dirVars
  <2>2. /\ \A c \in Conns \ {d} : asked'[c] = asked[c]
        /\ asked'[d] \subseteq asked[d] \cup {r[2]}
    BY <1>0, <1>5 DEF SendRequest, Show, TypeOK
  <2>3. r \in everAsked /\ r = <<uin[d], r[2]>>
    BY <1>0 DEF AuthInv, SweepInv, Sweeps, TypeOK, Requests
  <2>4. Knows(d)'  BY <1>0, <2>1, <2>2, <2>3 DEF AuthInv, CopyInv, Knows
  <2>. QED  BY <1>1, <2>1, <2>2, <2>4 DEF CopyInv
<1>6. ASSUME NEW c \in Conns, Handle(c), ~SendRoster(c),
             \A r \in batch[c] : ~SendRequest(c, r)
      PROVE  UNCHANGED client
  BY <1>6 DEF Handle, PutContact, SetAuthRequired, StoreRequest, BeginSweep, ClearRequests,
       SendReply, BeginAdd, BeginUpdate, Ask, Reply
<1>7. ASSUME NEW c \in Conns, Handle(c) PROVE CopyInv'
  BY <1>3, <1>4, <1>5, <1>6, <1>7, HandlersLeaveSessions
<1>8. ASSUME NEW b \in Pairs, DropContact(b) PROVE CopyInv'
  BY <1>3, <1>8 DEF DropContact
<1>9. ASSUME NEW f \in flying, Deliver(f) PROVE CopyInv'
  <2>1. uin' = uin /\ f.to \in Conns  BY <1>0, <1>9 DEF Deliver, dirVars, TypeOK
  <2>2. \A c \in Conns \ {f.to} : asked'[c] = asked[c] /\ trusts'[c] = trusts[c]
    BY <1>0, <1>9, <2>1 DEF Deliver, Show, TypeOK
  <2>3. /\ asked'[f.to] \subseteq asked[f.to] \cup {f.from}
        /\ f.kind # "ask" => asked'[f.to] = asked[f.to]
        /\ trusts'[f.to] \subseteq trusts[f.to] \cup {f.from}
        /\ f.kind # "yes" => trusts'[f.to] = trusts[f.to]
    BY <1>0, <1>9, <2>1 DEF Deliver, Show, TypeOK
  <2>4. Due(f)  BY DEF AuthInv, FlyingInv
  <2>5. Knows(f.to)'  BY <1>0, <2>1, <2>3, <2>4 DEF AuthInv, CopyInv, Knows, Due
  <2>. QED  BY <1>1, <2>1, <2>2, <2>5 DEF CopyInv
<1>10. CASE UNCHANGED vars  BY <1>3, <1>10 DEF vars, authVars
<1>. QED  BY <1>2, <1>7, <1>8, <1>9, <1>10, OtherSteps

LEMMA FreshKept ==
  ASSUME AuthInv, [Next]_vars
  PROVE  FreshInv'
<1>0. TypeOK /\ DirInv /\ WorkInv /\ FreshInv  BY DEF AuthInv, DirInv, DirBase, TypeOK
<1>1. ASSUME NEW d \in Conns, SessionStep(d), UNCHANGED authVars PROVE FreshInv'
  BY <1>0, <1>1, IdentitySteps DEF authVars, client, FreshInv, Fresh
<1>2. ASSUME UNCHANGED dirVars, UNCHANGED client, flying' \subseteq flying PROVE FreshInv'
  BY <1>0, <1>2 DEF dirVars, client, FreshInv, Fresh
<1>3. ASSUME NEW d \in Conns, SendRoster(d) PROVE FreshInv'
  <2>1. UNCHANGED dirVars /\ asked' = asked /\ flying' = flying  BY <1>3 DEF SendRoster
  <2>2. \A c \in Conns \ {d} : trusts'[c] = trusts[c]  BY <1>0, <1>3 DEF SendRoster, TypeOK
  <2>3. uin[d] = NoUin => trusts'[d] = {}
    BY <1>0, <1>3, PairsAssumption, DirectoryAssumption DEF SendRoster, TypeOK
  <2>. QED  BY <1>0, <2>1, <2>2, <2>3 DEF FreshInv, Fresh, dirVars
<1>4. ASSUME NEW d \in Conns, NEW r \in batch[d], SendRequest(d, r) PROVE FreshInv'
  <2>1. UNCHANGED dirVars /\ trusts' = trusts /\ flying' = flying  BY <1>4 DEF SendRequest
  <2>2. \A c \in Conns \ {d} : asked'[c] = asked[c]  BY <1>0, <1>4 DEF SendRequest, Show, TypeOK
  <2>3. uin[d] # NoUin
    BY <1>0, <1>4, DirectoryAssumption DEF SendRequest, WorkInv, Works
  <2>. QED  BY <1>0, <2>1, <2>2, <2>3 DEF FreshInv, Fresh, dirVars
<1>5. ASSUME NEW c \in Conns, NEW kind, NEW u \in Uins, sessions[u] # NoConn,
             Spawn(c, kind, sessions[u]), UNCHANGED dirVars, UNCHANGED client
      PROVE  FreshInv'
  <2>1. \A f \in flying' \ flying : uin[f.to] # NoUin
    BY <1>5, Spawned, DirectoryAssumption
  <2>. QED  BY <1>0, <1>5, <2>1 DEF FreshInv, Fresh, dirVars, client
<1>6. ASSUME NEW c \in Conns, SendReply(c) PROVE FreshInv'
  <2>1. handler[c].of \in Uins
    BY <1>0, <1>6, PairsAssumption DEF SendReply, WorkInv, Works
  <2>. QED  BY <1>2, <1>5, <1>6, <2>1 DEF SendReply
<1>7. ASSUME NEW c \in Conns, NEW o \in Uins, Ask(c, o) PROVE FreshInv'
  BY <1>2, <1>5, <1>7 DEF Ask
<1>8. ASSUME NEW c \in Conns, Handle(c), ~SendRoster(c), ~SendReply(c),
             \A r \in batch[c] : ~SendRequest(c, r), \A o \in Uins : ~Ask(c, o)
      PROVE  UNCHANGED client /\ flying' = flying
  BY <1>8 DEF Handle, PutContact, SetAuthRequired, StoreRequest, BeginSweep, ClearRequests,
       BeginAdd, BeginUpdate, Reply
<1>9. ASSUME NEW c \in Conns, Handle(c) PROVE FreshInv'
  BY <1>2, <1>3, <1>4, <1>6, <1>7, <1>8, <1>9, HandlersLeaveSessions
<1>10. ASSUME NEW b \in Pairs, DropContact(b) PROVE FreshInv'
  BY <1>2, <1>10 DEF DropContact
<1>11. ASSUME NEW f \in flying, Deliver(f) PROVE FreshInv'
  <2>1. UNCHANGED dirVars /\ f.to \in Conns  BY <1>0, <1>11 DEF Deliver, TypeOK
  <2>2. \A c \in Conns \ {f.to} : asked'[c] = asked[c] /\ trusts'[c] = trusts[c]
    BY <1>0, <1>11, <2>1 DEF Deliver, Show, TypeOK
  <2>3. ~Fresh(f.to) /\ flying' \subseteq flying  BY <1>0, <1>11, <2>1 DEF FreshInv, Deliver
  <2>. QED  BY <1>0, <2>1, <2>2, <2>3 DEF FreshInv, Fresh, dirVars
<1>12. CASE UNCHANGED vars  BY <1>2, <1>12 DEF vars, authVars
<1>. QED  BY <1>1, <1>9, <1>10, <1>11, <1>12, OtherSteps

\* A contact is opened by a handler that has reasons, or by a grant.
LEMMA UngrantedKept ==
  ASSUME AuthInv, [Next]_vars
  PROVE  UngrantedStayPending'
<1>0. TypeOK /\ UngrantedStayPending /\ \A v, o : May(v, o) => May(v, o)'
  BY MayStay DEF AuthInv
<1>1. ASSUME \A b \in Pairs : contact'[b] \in {contact[b], "none"}
      PROVE  UngrantedStayPending'
  BY <1>0, <1>1 DEF UngrantedStayPending, May
<1>2. ASSUME NEW c \in Conns, PutContact(c) PROVE UngrantedStayPending'
  <2>. DEFINE p == <<uin[c], handler[c].of>>
  <2>1. p \in Pairs /\ (handler[c].flag \/ May(uin[c], handler[c].of))
    BY <1>2 DEF PutContact, AuthInv, WorkInv, Works
  <2>2. /\ \A b \in Pairs \ {p} : contact'[b] = contact[b]
        /\ contact'[p] = IF handler[c].flag THEN "pending" ELSE "open"
    BY <1>0, <1>2, <2>1 DEF PutContact, TypeOK
  <2>3. UNCHANGED <<granted, everFree, presumed>>  BY <1>2 DEF PutContact, history
  <2>4. contact'[p] = "open" => May(p[1], p[2])  BY <1>0, <2>1, <2>2 DEF May
  <2>5. ASSUME NEW b \in Pairs, contact'[b] = "open" PROVE May(b[1], b[2])
    BY <1>0, <2>2, <2>4, <2>5 DEF UngrantedStayPending, May
  <2>. QED  BY <2>3, <2>5 DEF UngrantedStayPending, May
<1>3. ASSUME NEW c \in Conns, NEW v \in Uins, NEW yes \in BOOLEAN, Reply(c, v, yes)
      PROVE  UngrantedStayPending'
  <2>1. \A b \in Pairs \ {<<v, uin[c]>>} : contact'[b] = contact[b]
    BY <1>0, <1>3 DEF Reply, TypeOK
  <2>2. contact' # contact => <<uin[c], v>> \in granted'  BY <1>3 DEF Reply
  <2>. QED  BY <1>0, <2>1, <2>2 DEF UngrantedStayPending, May
<1>4. ASSUME NEW c \in Conns, Handle(c), ~PutContact(c),
             \A v \in Uins, yes \in BOOLEAN : ~Reply(c, v, yes)
      PROVE  contact' = contact
  BY <1>4 DEF Handle, SendRoster, SetAuthRequired, StoreRequest, BeginSweep, ClearRequests,
       SendReply, SendRequest, BeginAdd, BeginUpdate, Ask
<1>5. ASSUME NEW c \in Conns, Handle(c) PROVE UngrantedStayPending'
  BY <1>1, <1>2, <1>3, <1>4, <1>5
<1>6. ASSUME NEW b \in Pairs, DropContact(b) PROVE UngrantedStayPending'
  BY <1>0, <1>1, <1>6 DEF DropContact, TypeOK
<1>7. ASSUME NEW f \in flying, Deliver(f) PROVE UngrantedStayPending'
  BY <1>1, <1>7 DEF Deliver
<1>8. CASE UNCHANGED authVars  BY <1>1, <1>8 DEF authVars
<1>. QED  BY <1>5, <1>6, <1>7, <1>8, OtherSteps DEF vars

\* The whole invariant.
LEMMA AuthInitial == Init => AuthInv
<1>. SUFFICES ASSUME Init PROVE AuthInv
  OBVIOUS
<1>1. DirInv  BY DirInitial DEF Init
<1>2. guarded \subseteq Uins  BY PairsAssumption DEF Init
<1>3. TypeOK
  BY <1>1, <1>2, IdleType DEF Init, TypeOK, DirInv, DirBase
<1>4. WorkInv  BY DEF Init, WorkInv, Works, Idle
<1>5. StoreInv /\ FlyingInv /\ FreshInv /\ UngrantedStayPending
  BY DEF Init, StoreInv, FlyingInv, FreshInv, UngrantedStayPending
<1>6. SweepInv /\ CopyInv  BY DEF Init, SweepInv, Sweeps, CopyInv, Knows
<1>. QED  BY <1>1, <1>3, <1>4, <1>5, <1>6 DEF AuthInv, DirInv, DirBase

LEMMA AuthStep == AuthInv /\ [Next]_vars => AuthInv'
<1>. SUFFICES ASSUME AuthInv, [Next]_vars PROVE AuthInv'
  OBVIOUS
<1>1. TypeOK /\ Identified /\ EntrySound /\ WorkInv  BY DEF AuthInv
<1>2. TypeOK' /\ DirInv'  BY <1>1, TypesKept, DirectoryKept
<1>. QED
  BY <1>2, StoreKept, WorkKept, FlyingKept, SweepKept, CopyKept, FreshKept, UngrantedKept
  DEF AuthInv, DirInv, DirBase

LEMMA AuthInvariant == Spec => []AuthInv
  BY AuthInitial, AuthStep, PTL DEF Spec

----------------------------------------------------------------------------
(* The theorems.                                                           *)

\* Every variable keeps its type, for any connections, UINs and pairs.
THEOREM TypeCorrect == Spec => []TypeOK
<1>1. AuthInv => TypeOK  BY DEF AuthInv
<1>. QED  BY <1>1, AuthInvariant, PTL

\* A contact whose owner always wanted to be asked stays pending until the
\* owner agrees, however adds, updates, grants and rosters cross each other,
\* unless a client of the viewer sent an update without the mark although
\* nothing it was told made the contact open.
THEOREM PendingUntilGranted == Spec => []UngrantedStayPending
<1>1. AuthInv => UngrantedStayPending  BY DEF AuthInv
<1>. QED  BY <1>1, AuthInvariant, PTL

\* A client is shown only requests made to its UIN, by the UIN that made them.
THEOREM NoForgedRequest == Spec => []RequestsGenuine
<1>1. AuthInv => RequestsGenuine  BY DEF AuthInv, CopyInv, Knows, RequestsGenuine
<1>. QED  BY <1>1, AuthInvariant, PTL

----------------------------------------------------------------------------
(* Requests leave the store by a sweep only.                               *)

\* What a connection that sweeps still owes stays so.
LEMMA SweptKept ==
  ASSUME AuthInv, SweptInv, [Next]_vars
  PROVE  SweptInv'
<1>0. /\ TypeOK /\ DirInv /\ WorkInv
      /\ overtaken \subseteq overtaken'
  BY HistoryGrows DEF AuthInv, DirInv, DirBase, TypeOK
<1>. DEFINE Owes(c) == handler[c].op \in {"sweep", "clear"} =>
                         \A r \in RequestsTo(uin[c]) :
                           \/ r \in overtaken \/ r \in batch[c]
                           \/ r[2] \in asked[c] \/ ~open[c]
<1>1. ASSUME NEW c \in Conns, handler'[c] = handler[c], batch'[c] = batch[c],
             asked[c] \subseteq asked'[c],
             handler[c] # Idle => uin'[c] = uin[c] /\ (open'[c] => open[c]),
             requests' \subseteq requests
      PROVE  Owes(c)'
  BY <1>0, <1>1 DEF SweptInv, RequestsTo, Idle
<1>2. ASSUME NEW d \in Conns, SessionStep(d), UNCHANGED authVars PROVE SweptInv'
  <2>1. ASSUME NEW c \in Conns PROVE handler[c] # Idle => life[c] = "up"
    BY <1>0 DEF WorkInv, Works
  <2>. QED  BY <1>0, <1>1, <1>2, <2>1, IdentitySteps DEF authVars, client, SweptInv
<1>3. ASSUME UNCHANGED <<dirVars, handler, batch, requests>>,
             \A c \in Conns : asked[c] \subseteq asked'[c]
      PROVE  SweptInv'
  BY <1>1, <1>3 DEF dirVars, SweptInv
<1>4. ASSUME NEW d \in Conns, Handle(d), NEW c \in Conns PROVE Owes(c)'
  <2>1. UNCHANGED dirVars  BY <1>4, HandlersLeaveSessions
  <2>2. CASE StoreRequest(d)
    <3>. DEFINE q == <<handler[d].of, uin[d]>>
    <3>1. /\ requests' = requests \cup {q} /\ batch' = batch /\ asked' = asked
          /\ overtaken' = IF Sweeping(q[1]) THEN overtaken \cup {q} ELSE overtaken
      BY <2>2 DEF StoreRequest, client
    <3>2. handler'[c] = handler[c] \/ handler'[c].op = "none"
      BY <1>0, <2>2 DEF StoreRequest, Then, Idle, TypeOK
    <3>3. handler'[c] = handler[c] /\ handler[c].op \in {"sweep", "clear"} /\ q[1] = uin[c]
          => q \in overtaken'
      BY <3>1 DEF Sweeping
    <3>. QED  BY <1>0, <2>1, <3>1, <3>2, <3>3 DEF SweptInv, RequestsTo, dirVars
  <2>3. CASE BeginSweep(d)
    <3>1. c # d => handler'[c] = handler[c] /\ batch'[c] = batch[c]
      BY <1>0, <2>3 DEF BeginSweep, Then, TypeOK
    <3>2. /\ batch'[d] = RequestsTo(uin[d]) /\ requests' = requests /\ asked' = asked
      BY <1>0, <2>3 DEF BeginSweep, TypeOK, client
    <3>. QED  BY <1>1, <2>1, <3>1, <3>2 DEF dirVars, RequestsTo
  <2>4. ASSUME NEW r \in batch[d], SendRequest(d, r) PROVE Owes(c)'
    <3>1. /\ c # d => handler'[c] = handler[c] /\ batch'[c] = batch[c]
          /\ requests' = requests /\ asked[c] \subseteq asked'[c]
      BY <1>0, <2>4 DEF SendRequest, Then, TypeOK, Show
    <3>2. /\ batch'[d] = batch[d] \ {r} /\ handler[d].op = "sweep"
          /\ open[d] => r[2] \in asked'[d]
      BY <1>0, <2>4 DEF SendRequest, TypeOK, Show
    <3>. QED  BY <1>0, <1>1, <2>1, <3>1, <3>2 DEF dirVars, RequestsTo, SweptInv
  <2>5. CASE PutContact(d) \/ ClearRequests(d) \/ SendReply(d)
    <3>1. handler'[c] = handler[c] \/ handler'[c].op = "none"
      BY <1>0, <2>5 DEF PutContact, ClearRequests, SendReply, Then, Idle, TypeOK
    <3>2. batch' = batch /\ asked' = asked /\ requests' \subseteq requests
      BY <2>5 DEF PutContact, ClearRequests, SendReply, client
    <3>. QED  BY <1>1, <2>1, <3>1, <3>2 DEF dirVars
  <2>6. CASE SendRoster(d) \/ SetAuthRequired(d)
    BY <1>1, <2>1, <2>6 DEF SendRoster, SetAuthRequired, dirVars, client
  <2>7. ASSUME NEW u \in Uins, NEW yes \in BOOLEAN,
               BeginAdd(d, u) \/ BeginUpdate(d, u) \/ Ask(d, u) \/ Reply(d, u, yes)
        PROVE  Owes(c)'
    <3>1. handler'[c] = handler[c] \/ handler'[c].op \notin {"sweep", "clear"}
      BY <1>0, <2>7 DEF BeginAdd, BeginUpdate, Ask, Reply, Then, Do, TypeOK
    <3>2. batch' = batch /\ asked' = asked /\ requests' = requests
      BY <2>7 DEF BeginAdd, BeginUpdate, Ask, Reply, client
    <3>. QED  BY <1>1, <2>1, <3>1, <3>2 DEF dirVars
  <2>. QED  BY <1>4, <2>2, <2>3, <2>4, <2>5, <2>6, <2>7 DEF Handle
<1>5. ASSUME NEW b \in Pairs, DropContact(b) PROVE SweptInv'
  BY <1>3, <1>5 DEF DropContact, client
<1>6. ASSUME NEW f \in flying, Deliver(f) PROVE SweptInv'
  <2>1. \A c \in Conns : asked[c] \subseteq asked'[c]
    BY <1>0, <1>6 DEF Deliver, Show, TypeOK
  <2>. QED  BY <1>3, <1>6, <2>1 DEF Deliver
<1>7. CASE UNCHANGED vars  BY <1>3, <1>7 DEF vars, authVars, client
<1>. QED  BY <1>2, <1>4, <1>5, <1>6, <1>7, OtherSteps DEF SweptInv

\* A request leaves the store only when a sweep of its addressee clears it,
\* which has shown it, found its socket closed, or was overtaken by it.
LEMMA ShownWhenCleared ==
  ASSUME AuthInv, SweptInv, [Next]_vars, NEW r \in requests \ requests'
  PROVE  \/ r \in overtaken
         \/ \E c \in Conns : uin[c] = r[1] /\ (r[2] \in asked[c] \/ ~open[c])
<1>1. PICK c \in Conns : ClearRequests(c)
  <2>1. ASSUME NEW c \in Conns, Handle(c), ~ClearRequests(c)
        PROVE  requests \subseteq requests'
    BY <2>1 DEF Handle, PutContact, SendRoster, SetAuthRequired, StoreRequest, BeginSweep,
         SendReply, SendRequest, BeginAdd, BeginUpdate, Ask, Reply
  <2>2. ASSUME NEW b \in Pairs, DropContact(b) PROVE requests' = requests
    BY <2>2 DEF DropContact
  <2>3. ASSUME NEW f \in flying, Deliver(f) PROVE requests' = requests
    BY <2>3 DEF Deliver
  <2>4. UNCHANGED authVars => requests' = requests  BY DEF authVars
  <2>. QED  BY <2>1, <2>2, <2>3, <2>4, OtherSteps DEF vars
<1>2. r \in RequestsTo(uin[c]) /\ handler[c].op = "clear"
  BY <1>1 DEF ClearRequests
<1>3. batch[c] = {}  BY <1>2 DEF AuthInv, SweepInv, Sweeps
<1>4. r[1] = uin[c]  BY <1>2 DEF RequestsTo
<1>. QED  BY <1>2, <1>3, <1>4 DEF SweptInv

\* No request leaves the store unseen, except those that came while their
\* addressee was being shown the earlier ones.
THEOREM NoRequestDroppedUnseen == Spec => RequestShownOrOvertaken
<1>1. Init => SweptInv  BY DEF Init, SweptInv, Idle
<1>2. AuthInv /\ SweptInv /\ [Next]_vars => SweptInv'  BY SweptKept
<1>3. AuthInv /\ SweptInv /\ [Next]_vars =>
        [\A r \in requests \ requests' :
           \/ r \in overtaken
           \/ \E c \in Conns : uin[c] = r[1] /\ (r[2] \in asked[c] \/ ~open[c])]_vars
  BY ShownWhenCleared
<1>. QED  BY <1>1, <1>2, <1>3, AuthInvariant, PTL DEF Spec, RequestShownOrOvertaken

=============================================================================
