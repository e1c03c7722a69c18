------------------------------ MODULE Presence ------------------------------
(***************************************************************************)
(* Who is shown online to whom: the broadcasts a session makes when its    *)
(* client is ready, changes its status, asks for the presence of others,   *)
(* changes its privacy settings or goes away.                              *)
(*                                                                         *)
(* A broadcast loads the account, copies the registry (forEachSession) and *)
(* walks the copy without the lock. Its handler has one step for the first,*)
(* one for the second and one for every entry of the copy, so that other   *)
(* broadcasts, sign-ons and clean-ups interleave. A status stands for the  *)
(* status, the capabilities and the xstatus, which travel together.        *)
(*                                                                         *)
(* Clients are taken to sign on as one UIN over one connection, which the  *)
(* server does not see to (OneUinEach, in Directory).                      *)
(***************************************************************************)
EXTENDS Directory, Sequences

CONSTANTS Buddies,   \* <<viewer, owner>>: the owner is in the viewer's contacts,
                     \* with no authorisation pending
          Statuses,  \* what an online session may show
          Online     \* the status a session starts with

ASSUME PresenceAssumption ==
  /\ Buddies \subseteq Uins \X Uins
  /\ \A b \in Buddies : b[1] # b[2]
  /\ Online \in Statuses
  /\ {"offline", "untold"} \cap Statuses = {}

VARIABLES
  status,      \* Session.status, with caps and xstatusRaw
  ssiActive,   \* Session.ssiActivated
  loops,       \* the loops the handler of a connection has yet to finish
  copied,      \* has it copied the registry for the first of them?
  todo,        \* the entries of that copy it has yet to visit: <<UIN, connection>>
  hidden,      \* viewers denied by the account the loop works with
  peeked,      \* <<UIN, status>> read by sendPresenceFull and not yet sent
  flying,      \* presence spawned by applyPrivacyChange: read and not yet sent, or untold
  deny,        \* privacy settings in the store: <<owner, viewer>> is denied
  view,        \* what a connection's client was last told of a UIN
  done,        \* history: which of Announcing a connection finished since it signed on
  everDenied,  \* history: the pairs denied at some time
  everAllowed, \* history: the pairs allowed at some time
  late,        \* history: <<connection, UIN>> shown online after it had left
  lost         \* history: sessions whose entry another sign-on took, or another's
               \* cleanup removed

walk == <<ssiActive, loops, copied, todo, hidden, peeked>>
history == <<done, everDenied, everAllowed, late, lost>>
presenceVars == <<status, walk, flying, deny, view, history>>
vars == <<dirVars, presenceVars>>

\* notifyOthersOnline and broadcastPresence, which are alike; sendPresenceFull;
\* broadcastOfflineSync; applyPrivacyChange.
Loops == {"notify", "full", "farewell", "privacy"}
Announcing == {"notify", "full"}
Pairs == {<<b[2], b[1]>> : b \in Buddies}
DeniedBy(u) == {v \in Uins : <<u, v>> \in deny}

Init ==
  /\ DirInit
  /\ status = [c \in Conns |-> "offline"]
  /\ ssiActive = [c \in Conns |-> FALSE]
  /\ loops = [c \in Conns |-> <<>>]
  /\ copied = [c \in Conns |-> FALSE]
  /\ todo = [c \in Conns |-> {}]
  /\ hidden = [c \in Conns |-> {}]
  /\ peeked = [c \in Conns |-> {}]
  /\ flying = {}
  /\ deny \in SUBSET Pairs
  /\ view = [c \in Conns |-> [u \in Uins |-> "untold"]]
  /\ done = [c \in Conns |-> {}]
  /\ everDenied = deny
  /\ everAllowed = Pairs \ deny
  /\ late = {}
  /\ lost = {}

----------------------------------------------------------------------------
(* The loops.                                                              *)

\* A handler loads the account of its session and starts its loops.
Begin(c, ls, denied) ==
  /\ loops' = [loops EXCEPT ![c] = ls]
  /\ hidden' = [hidden EXCEPT ![c] = denied]
  /\ copied' = [copied EXCEPT ![c] = FALSE]
  /\ UNCHANGED <<todo, peeked>>

\* forEachSession copies the registry; the loop skips the session's own UIN.
Snapshot_ReadyOnly(c) ==
  {<<u, sessions[u]>> : u \in {v \in Uins \ {uin[c]} :
     sessions[v] # NoConn /\ "full" \in done[sessions[v]]}}
Snapshot(c) ==
  {<<u, sessions[u]>> : u \in {v \in Uins \ {uin[c]} : sessions[v] # NoConn}}

Copy(c) ==
  /\ loops[c] # <<>>
  /\ ~copied[c]
  /\ copied' = [copied EXCEPT ![c] = TRUE]
  /\ todo' = [todo EXCEPT ![c] = Snapshot(c)]
  /\ UNCHANGED <<dirVars, status, ssiActive, loops, hidden, peeked, flying, deny,
                 view, history>>

\* The handler of c turns to entry e of its copy, in the loop l.
Visit(c, l, e) ==
  /\ loops[c] # <<>> /\ Head(loops[c]) = l
  /\ copied[c]
  /\ peeked[c] = {}
  /\ e \in todo[c]
  /\ todo' = [todo EXCEPT ![c] = @ \ {e}]
  /\ UNCHANGED <<dirVars, status, ssiActive, loops, copied, hidden, deny>>

\* sendBuddyOnline and sendBuddyOffline to c: only to a session that runs and
\* has an identity, and to no effect on a closed socket. (subject: the session
\* shown, whose entry may be gone.)
Show(c, u, what, subject) ==
  IF running[c] /\ uin[c] # NoUin /\ open[c]
    THEN /\ view' = [view EXCEPT ![c][u] = what]
         /\ late' = IF what \in Statuses /\ sessions[u] # subject
                      THEN late \cup {<<c, u>>} ELSE late
    ELSE UNCHANGED <<view, late>>

\* privacyVisible and Contacts of the viewer.
VisibleTo_Anyone(c, v) == <<v, uin[c]>> \in Buddies
VisibleTo(c, v) == <<v, uin[c]>> \in Buddies /\ v \notin hidden[c]

\* Telling one other session about c.
Notify(c, e) ==
  /\ Visit(c, "notify", e)
  /\ IF VisibleTo(c, e[1]) THEN Show(e[2], uin[c], status[c], c)
                           ELSE UNCHANGED <<view, late>>
  /\ UNCHANGED <<peeked, flying, done, everDenied, everAllowed, lost>>

\* Telling c about one other session: its account and its status are read,
Peek(c, e) ==
  /\ Visit(c, "full", e)
  /\ peeked' = [peeked EXCEPT ![c] =
       IF <<uin[c], e[1]>> \in Buddies /\ <<e[1], uin[c]>> \notin deny
         THEN {<<e[1], status[e[2]], e[2]>>} ELSE {}]
  /\ UNCHANGED <<flying, view, history>>

\* and sent.
Say(c) ==
  /\ \E p \in peeked[c] : Show(c, p[1], p[2], p[3])
  /\ peeked' = [peeked EXCEPT ![c] = {}]
  /\ UNCHANGED <<dirVars, status, ssiActive, loops, copied, todo, hidden, flying,
                 deny, done, everDenied, everAllowed, lost>>

\* Telling one other session that c is gone, whatever its privacy settings.
Farewell_OnlyVisible(c, e) ==
  /\ Visit(c, "farewell", e)
  /\ IF VisibleTo(c, e[1]) THEN Show(e[2], uin[c], "offline", c)
                           ELSE UNCHANGED <<view, late>>
  /\ UNCHANGED <<peeked, flying, done, everDenied, everAllowed, lost>>
Farewell(c, e) ==
  /\ Visit(c, "farewell", e)
  /\ IF <<e[1], uin[c]>> \in Buddies THEN Show(e[2], uin[c], "offline", c)
                                     ELSE UNCHANGED <<view, late>>
  /\ UNCHANGED <<peeked, flying, done, everDenied, everAllowed, lost>>

\* applyPrivacyChange spawns what the other session is to be told. (A second
\* closure equal to one that waits is not told from it.)
Spawned(c, target, on) ==
  [by |-> c, to |-> target, on |-> on, of |-> NoUin, what |-> "untold"]
Privacy_ByUin(c, e) ==
  /\ Visit(c, "privacy", e)
  /\ flying' = IF running[c] /\ uin[c] # NoUin /\ <<e[1], uin[c]>> \in Buddies
                 THEN flying \cup {Spawned(c, e[1], VisibleTo(c, e[1]))}
                 ELSE flying
  /\ UNCHANGED <<peeked, view, history>>
Privacy(c, e) ==
  /\ Visit(c, "privacy", e)
  /\ flying' = IF running[c] /\ uin[c] # NoUin /\ <<e[1], uin[c]>> \in Buddies
                 THEN flying \cup {Spawned(c, e[2], VisibleTo(c, e[1]))}
                 ELSE flying
  /\ UNCHANGED <<peeked, view, history>>

\* Such a goroutine runs: uin and status of the session are read only now,
Read(f) ==
  /\ f \in flying /\ f.what = "untold"
  /\ flying' = (flying \ {f}) \cup
       IF uin[f.by] = NoUin THEN {}
       ELSE {[f EXCEPT !.of = uin[f.by], !.what = IF f.on THEN status[f.by] ELSE "offline"]}
  /\ UNCHANGED <<dirVars, status, walk, deny, view, history>>

\* and sent.
Deliver(f) ==
  /\ f \in flying /\ f.what # "untold"
  /\ flying' = flying \ {f}
  /\ Show(f.to, f.of, f.what, f.by)
  /\ UNCHANGED <<dirVars, status, walk, deny, done, everDenied, everAllowed, lost>>

\* The loop is over, and with it the account it worked with.
Next_Loop(c) ==
  /\ loops[c] # <<>> /\ copied[c] /\ todo[c] = {} /\ peeked[c] = {}
  /\ done' = [done EXCEPT ![c] = @ \cup ({Head(loops[c])} \cap Announcing)]
  /\ loops' = [loops EXCEPT ![c] = Tail(@)]
  /\ copied' = [copied EXCEPT ![c] = FALSE]
  /\ hidden' = [hidden EXCEPT ![c] = {}]
  /\ UNCHANGED <<dirVars, status, ssiActive, todo, peeked, flying, deny, view,
                 everDenied, everAllowed, late, lost>>

----------------------------------------------------------------------------
(* The handlers. Without an identity they broadcast nothing, and a status   *)
(* set then is overwritten at sign-on; but the roster may be activated.     *)

Serving(c) == life[c] = "up" /\ loops[c] = <<>> /\ uin[c] # NoUin

\* SNAC 01/02, broadcastOnline.
ClientReady(c) ==
  /\ Serving(c)
  /\ Begin(c, IF ssiActive[c] THEN <<"notify", "full">> ELSE <<"notify">>,
           DeniedBy(uin[c]))
  /\ UNCHANGED <<dirVars, status, ssiActive, flying, deny, view, history>>

\* SNAC 13/07, sendPresenceFull.
SsiActivate(c) ==
  /\ life[c] = "up" /\ loops[c] = <<>>
  /\ ssiActive' = [ssiActive EXCEPT ![c] = TRUE]
  /\ Begin(c, IF uin[c] = NoUin THEN <<>> ELSE <<"full">>, {})
  /\ UNCHANGED <<dirVars, status, flying, deny, view, history>>

\* SNAC 01/1E and 02/04, broadcastPresence.
SetStatus(c, s) ==
  /\ Serving(c)
  /\ status' = [status EXCEPT ![c] = s]
  /\ Begin(c, <<"notify">>, DeniedBy(uin[c]))
  /\ UNCHANGED <<dirVars, ssiActive, flying, deny, view, history>>

\* SNAC 13/08-0A with a deny item for v: parseAndModifySSI stores or deletes
\* it, and applyPrivacyChange loads the account again.
SetPrivacy(c, v) ==
  LET pair == <<uin[c], v>>
      new == IF pair \in deny THEN deny \ {pair} ELSE deny \cup {pair}
  IN
  /\ Serving(c)
  /\ pair \in Pairs
  /\ deny' = new
  /\ Begin(c, <<"privacy">>, {w \in Uins : <<uin[c], w>> \in new})
  /\ everDenied' = everDenied \cup new
  /\ everAllowed' = everAllowed \cup (Pairs \ new)
  /\ UNCHANGED <<dirVars, status, ssiActive, flying, view, done, late, lost>>

----------------------------------------------------------------------------
(* The session layer, and what it does to the presence.                    *)

\* handleBosAuth sets the status before it registers the session.
TakeIdentity(c, u) ==
  /\ Assume(c, u)
  /\ status' = [status EXCEPT ![c] = Online]
  /\ UNCHANGED <<walk, flying, deny, view, history>>

\* The session that loses its entry to c.
Ousted(c) == {sessions[uin[c]]} \ {c, NoConn}

SignOn(c) ==
  /\ Register(c)
  /\ lost' = lost \cup Ousted(c)
  /\ done' = [done EXCEPT ![c] = {}]
  /\ UNCHANGED <<status, walk, flying, deny, view, everDenied, everAllowed, late>>

\* cleanup of the session that is registered: the entry goes, and then the
\* others are told.
SignOff(c) ==
  /\ Unregister(c)
  /\ status[c] # "offline"
  /\ status' = [status EXCEPT ![c] = "offline"]
  /\ Begin(c, <<"farewell">>, DeniedBy(uin[c]))
  /\ lost' = lost \cup Ousted(c)
  /\ done' = [done EXCEPT ![c] = {}]
  /\ UNCHANGED <<ssiActive, flying, deny, view, everDenied, everAllowed, late>>

\* The other steps of its goroutine.
OwnMove(c) ==
  /\ loops[c] = <<>>
  /\ Finish(c) \/ Forget(c) \/ Leave(c)
  /\ UNCHANGED presenceVars

ForeignMove(c) == ForeignStep(c) /\ UNCHANGED presenceVars

SessionStep(c) ==
  /\ \/ loops[c] = <<>> /\ (SignOn(c) \/ SignOff(c) \/ \E u \in Uins : TakeIdentity(c, u))
     \/ OwnMove(c) \/ ForeignMove(c)
  /\ OneUinEach

Handle(c) ==
  \/ ClientReady(c) \/ SsiActivate(c)
  \/ (\E s \in Statuses : SetStatus(c, s)) \/ (\E v \in Uins : SetPrivacy(c, v))

Walk(c) ==
  \/ Copy(c) \/ Say(c) \/ Next_Loop(c)
  \/ \E e \in todo[c] : Notify(c, e) \/ Peek(c, e) \/ Farewell(c, e) \/ Privacy(c, e)

AllGone == (\A c \in Conns : life[c] = "gone") /\ flying = {} /\ UNCHANGED vars

Next ==
  \/ \E c \in Conns : SessionStep(c) \/ Handle(c) \/ Walk(c)
  \/ \E f \in flying : Read(f) \/ Deliver(f)
  \/ AllGone

Spec == Init /\ [][Next]_vars

----------------------------------------------------------------------------
(* Safety.                                                                 *)

Shown == Statuses \cup {"offline"}

TypeOK ==
  /\ DirTypeOK
  /\ status \in [Conns -> Shown]
  /\ ssiActive \in [Conns -> BOOLEAN]
  /\ loops \in [Conns -> Seq(Loops)]
  /\ copied \in [Conns -> BOOLEAN]
  /\ todo \in [Conns -> SUBSET (Uins \X Conns)]
  /\ hidden \in [Conns -> SUBSET Uins]
  /\ peeked \in [Conns -> SUBSET (Uins \X Shown \X Conns)]
  /\ flying \subseteq [by : Conns, to : Conns, on : BOOLEAN, of : Uins \cup {NoUin},
                      what : Shown \cup {"untold"}]
  /\ deny \subseteq Pairs
  /\ view \in [Conns -> [Uins -> Shown \cup {"untold"}]]
  /\ done \in [Conns -> SUBSET Announcing]
  /\ everDenied \subseteq Pairs /\ everAllowed \subseteq Pairs
  /\ late \subseteq Conns \X Uins
  /\ lost \subseteq Conns

\* The session registered for u can be written to.
Reachable(u) == sessions[u] # NoConn /\ running[sessions[u]] /\ open[sessions[u]]

\* Of two that sign on at the same time, each copies the registry after it has
\* entered it, so they cannot both miss the other: once the owner has announced
\* itself and the viewer has asked for the presence of its contacts, the viewer
\* was told of the owner, unless it was ever denied.
NobodyOverlooked ==
  \A b \in Buddies :
    LET viewer == sessions[b[1]]
        owner == sessions[b[2]]
    IN  Reachable(b[1]) /\ owner # NoConn
        /\ "full" \in done[viewer] /\ "notify" \in done[owner]
        /\ <<b[2], b[1]>> \notin everDenied
          => view[viewer][b[2]] # "untold"

\* Somebody who was denied all the time is never shown the owner online,
\* whichever of the broadcasts, spawned or not, tells it.
DeniedSeeNothing ==
  \A c \in Conns, u \in Uins :
    view[c][u] \in Statuses /\ uin[c] # NoUin => <<u, uin[c]>> \in everAllowed

\* When a UIN has gone and its offline broadcast is over, no contact goes on
\* seeing it online, except where a presence read before was written after it
\* (late), or where the contact's own session was cut off the registry (lost),
\* by another's cleanup, or by a newer sign-on, which ends it, but not at once.
GoneIsSeen ==
  \A b \in Buddies :
    LET viewer == sessions[b[1]]
    IN  Reachable(b[1]) /\ (\A d \in Conns : uin[d] # b[2])
        /\ view[viewer][b[2]] \in Statuses
          => <<viewer, b[2]>> \in late \/ viewer \in lost

\* "xstatus updates instantly": with nothing under way, a contact that was told
\* of the owner sees the status it has. The code does not ensure it: the
\* viewer's own sendPresenceFull may send the status it read before the change.
SettledViewIsCurrent ==
  \A b \in Buddies :
    LET viewer == sessions[b[1]]
        owner == sessions[b[2]]
    IN  Reachable(b[1]) /\ owner # NoConn
        /\ life[viewer] = "up" /\ life[owner] = "up"
        /\ loops[viewer] = <<>> /\ loops[owner] = <<>> /\ flying = {}
        /\ "full" \in done[viewer] /\ "notify" \in done[owner]
        /\ <<b[2], b[1]>> \notin everDenied
          => view[viewer][b[2]] = status[owner]

=============================================================================
