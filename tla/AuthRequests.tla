---------------------------- MODULE AuthRequests ----------------------------
(***************************************************************************)
(* Asking to be let into somebody's contacts: contacts that stay pending   *)
(* until their owner agrees, requests relayed to the owner or kept for its *)
(* next sign-on, and the replies.                                          *)
(*                                                                         *)
(* The sessions are those of Directory. A handler that calls the store or  *)
(* the registry more than once has a step for each call; handler[c] is     *)
(* what it has yet to do. Groups and stamps are in Roster, and what is     *)
(* shown of an owner's presence is in Presence. The frames that go with a  *)
(* reply (you were added, the owner's presence) are left out.              *)
(*                                                                         *)
(* Clients are taken to sign on as one UIN over one connection, which the  *)
(* server does not see to (OneUinEach, in Directory). What a client puts   *)
(* into its own updates is its own affair: they carry a pending mark or    *)
(* not, whatever it was told.                                              *)
(***************************************************************************)
EXTENDS Directory

CONSTANT Pairs  \* <<viewer, owner>>: the viewer may want the owner as contact

ASSUME PairsAssumption ==
  /\ Pairs \subseteq Uins \X Uins
  /\ \A b \in Pairs : b[1] # b[2]

VARIABLES
  guarded,   \* UINs whose profile has auth_required
  contact,   \* contacts: none, or pending_auth set (pending) or not (open)
  requests,  \* pending_auth_requests: <<to_uin, from_uin>>
  handler,   \* what the handler of a connection has yet to do
  batch,     \* the requests deliverPendingAuthRequests has yet to send
  flying,    \* frames spawned and not yet sent
  asked,     \* UINs whose request a connection's client was shown
  trusts,    \* owners a client takes for open, from a roster or a reply
  everAsked, \* history: requests made, as in requests
  granted,   \* history: <<owner, viewer>> agreed to
  everFree,  \* history: UINs that did not ask to be asked at some time
  presumed,  \* history: <<owner, viewer>>: a client of the viewer updated the
             \* contact without the mark, and had not been told it was open
  overtaken  \* history: requests stored while their addressee was being shown
             \* those stored before

client == <<asked, trusts>>
history == <<everAsked, granted, everFree, presumed, overtaken>>
authVars == <<guarded, contact, requests, handler, batch, flying, client, history>>
vars == <<dirVars, authVars>>

Idle == [op |-> "none", of |-> NoUin, flag |-> FALSE]
Do(op, of, flag) == [op |-> op, of |-> of, flag |-> flag]

Init ==
  /\ DirInit
  /\ guarded \in SUBSET {b[2] : b \in Pairs}
  /\ contact = [b \in Pairs |-> "none"]
  /\ requests = {}
  /\ handler = [c \in Conns |-> Idle]
  /\ batch = [c \in Conns |-> {}]
  /\ flying = {}
  /\ asked = [c \in Conns |-> {}]
  /\ trusts = [c \in Conns |-> {}]
  /\ everAsked = {}
  /\ granted = {}
  /\ everFree = Uins \ guarded
  /\ presumed = {}
  /\ overtaken = {}

Serving(c) == life[c] = "up" /\ handler[c] = Idle
Then(c, todo) == handler' = [handler EXCEPT ![c] = todo]

\* spawn: a goroutine that writes to the session found, unless c has stopped.
Spawn(c, kind, target) ==
  flying' = IF running[c] /\ uin[c] # NoUin
              THEN flying \cup {[kind |-> kind, from |-> uin[c], to |-> target]}
              ELSE flying

----------------------------------------------------------------------------
(* The viewer's contacts. An account that is not signed on has none.       *)

\* An item to be added: its own pending mark, or does the owner ask for it?
BeginAdd_OwnMark(c, o) ==
  /\ Serving(c)
  /\ <<uin[c], o>> \in Pairs
  /\ \E own \in BOOLEAN : Then(c, Do("put", o, own))
  /\ UNCHANGED <<dirVars, guarded, contact, requests, batch, flying, client, history>>
BeginAdd(c, o) ==
  /\ Serving(c)
  /\ <<uin[c], o>> \in Pairs
  /\ \E own \in BOOLEAN : Then(c, Do("put", o, own \/ o \in guarded))
  /\ UNCHANGED <<dirVars, guarded, contact, requests, batch, flying, client, history>>

\* An item to be updated, of a contact in the account as it was loaded: the mark
\* is the frame's, and nobody asks what the owner wants.
BeginUpdate(c, o) ==
  /\ Serving(c)
  /\ <<uin[c], o>> \in Pairs
  /\ contact[<<uin[c], o>>] # "none"
  /\ \E own \in BOOLEAN :
       /\ Then(c, Do("put", o, own))
       /\ presumed' = IF own \/ o \in trusts[c] THEN presumed
                      ELSE presumed \cup {<<o, uin[c]>>}
  /\ UNCHANGED <<dirVars, guarded, contact, requests, batch, flying, client,
                 everAsked, granted, everFree, overtaken>>

\* UpsertContact
PutContact(c) ==
  /\ handler[c].op = "put"
  /\ contact' = [contact EXCEPT ![<<uin[c], handler[c].of>>] =
                   IF handler[c].flag THEN "pending" ELSE "open"]
  /\ Then(c, Idle)
  /\ UNCHANGED <<dirVars, guarded, requests, batch, flying, client, history>>

\* The viewer deletes its contact, or the owner removes itself (SNAC 13/16).
DropContact(b) ==
  /\ \E c \in Conns : Serving(c) /\ uin[c] \in {b[1], b[2]}
  /\ contact' = [contact EXCEPT ![b] = "none"]
  /\ UNCHANGED <<dirVars, guarded, requests, handler, batch, flying, client, history>>

\* The client gets its roster, with the marks.
SendRoster(c) ==
  /\ Serving(c)
  /\ trusts' = [trusts EXCEPT ![c] =
       {b[2] : b \in {d \in Pairs : d[1] = uin[c] /\ contact[d] = "open"}}]
  /\ UNCHANGED <<dirVars, guarded, contact, requests, handler, batch, flying, asked,
                 history>>

\* handleMetaSetPerms, handleMetaSaveInfo: must the owner be asked?
SetAuthRequired(c) ==
  /\ Serving(c)
  /\ \E b \in Pairs : b[2] = uin[c]
  /\ guarded' = IF uin[c] \in guarded THEN guarded \ {uin[c]} ELSE guarded \cup {uin[c]}
  /\ everFree' = everFree \cup (Uins \ guarded')
  /\ UNCHANGED <<dirVars, contact, requests, handler, batch, flying, client,
                 everAsked, granted, presumed, overtaken>>

----------------------------------------------------------------------------
(* Requests: handleAuthSendReq, which also serves a client that is not     *)
(* signed on, and deliverPendingAuthRequests.                              *)

Ask(c, o) ==
  /\ Serving(c)
  /\ \E b \in Pairs : b[2] = o /\ uin[c] \in {b[1], NoUin}
  /\ everAsked' = everAsked \cup {<<o, uin[c]>>}
  /\ IF sessions[o] = NoConn THEN Then(c, Do("store", o, FALSE)) /\ UNCHANGED flying
                             ELSE Spawn(c, "ask", sessions[o]) /\ UNCHANGED handler
  /\ UNCHANGED <<dirVars, guarded, contact, requests, batch, client, granted, everFree,
                 presumed, overtaken>>

\* AddPendingAuthRequest, after the look-up.
Sweeping(u) == \E c \in Conns : handler[c].op \in {"sweep", "clear"} /\ uin[c] = u
StoreRequest(c) ==
  LET r == <<handler[c].of, uin[c]>> IN
  /\ handler[c].op = "store"
  /\ requests' = requests \cup {r}
  /\ overtaken' = IF Sweeping(r[1]) THEN overtaken \cup {r} ELSE overtaken
  /\ Then(c, Idle)
  /\ UNCHANGED <<dirVars, guarded, contact, batch, flying, client, everAsked, granted,
                 everFree, presumed>>

\* SNAC 01/02: the requests stored so far are loaded; if there are none, the
\* store is left alone.
RequestsTo_Everyone(u) == requests
RequestsTo(u) == {r \in requests : r[1] = u}
BeginSweep(c) ==
  /\ Serving(c)
  /\ RequestsTo(uin[c]) # {}
  /\ batch' = [batch EXCEPT ![c] = RequestsTo(uin[c])]
  /\ Then(c, Do("sweep", uin[c], FALSE))
  /\ UNCHANGED <<dirVars, guarded, contact, requests, flying, client, history>>

Show(c, v) == asked' = IF open[c] THEN [asked EXCEPT ![c] = @ \cup {v}] ELSE asked

SendRequest(c, r) ==
  /\ handler[c].op = "sweep"
  /\ r \in batch[c]
  /\ Show(c, r[2])
  /\ batch' = [batch EXCEPT ![c] = @ \ {r}]
  /\ Then(c, IF batch'[c] = {} THEN Do("clear", uin[c], FALSE) ELSE handler[c])
  /\ UNCHANGED <<dirVars, guarded, contact, requests, flying, trusts, history>>

\* ClearPendingAuthRequests: all requests to this UIN, whenever they came.
ClearRequests(c) ==
  /\ handler[c].op = "clear"
  /\ requests' = requests \ RequestsTo(uin[c])
  /\ Then(c, Idle)
  /\ UNCHANGED <<dirVars, guarded, contact, batch, flying, client, history>>

----------------------------------------------------------------------------
(* Replies: handleAuthSendReply.                                           *)

\* ClearPendingAuth, where the owner agrees.
Reply(c, v, yes) ==
  /\ Serving(c)
  /\ <<v, uin[c]>> \in Pairs
  /\ contact' = IF yes /\ contact[<<v, uin[c]>>] = "pending"
                  THEN [contact EXCEPT ![<<v, uin[c]>>] = "open"] ELSE contact
  /\ granted' = IF yes THEN granted \cup {<<uin[c], v>>} ELSE granted
  /\ Then(c, Do("answer", v, yes))
  /\ UNCHANGED <<dirVars, guarded, requests, batch, flying, client, everAsked, everFree,
                 presumed, overtaken>>

\* getSession, and the reply to the session found.
SendReply_ByUin(c) ==
  /\ handler[c].op = "answer"
  /\ Spawn(c, "yes", handler[c].of)
  /\ Then(c, Idle)
  /\ UNCHANGED <<dirVars, guarded, contact, requests, batch, client, history>>
SendReply(c) ==
  LET target == sessions[handler[c].of] IN
  /\ handler[c].op = "answer"
  /\ IF target = NoConn THEN UNCHANGED flying
     ELSE Spawn(c, IF handler[c].flag THEN "yes" ELSE "no", target)
  /\ Then(c, Idle)
  /\ UNCHANGED <<dirVars, guarded, contact, requests, batch, client, history>>

\* A spawned goroutine runs.
Deliver(f) ==
  /\ f \in flying
  /\ flying' = flying \ {f}
  /\ IF f.kind = "ask" THEN Show(f.to, f.from) ELSE UNCHANGED asked
  /\ trusts' = IF f.kind = "yes" /\ open[f.to]
                 THEN [trusts EXCEPT ![f.to] = @ \cup {f.from}] ELSE trusts
  /\ UNCHANGED <<dirVars, guarded, contact, requests, handler, batch, history>>

----------------------------------------------------------------------------
SessionStep(c) ==
  /\ ForeignStep(c) \/ (handler[c] = Idle /\ OwnStep(c))
  /\ OneUinEach
  /\ UNCHANGED authVars

Handle(c) ==
  \/ PutContact(c) \/ SendRoster(c) \/ SetAuthRequired(c)
  \/ StoreRequest(c) \/ BeginSweep(c) \/ ClearRequests(c) \/ SendReply(c)
  \/ \E r \in batch[c] : SendRequest(c, r)
  \/ \E u \in Uins : BeginAdd(c, u) \/ BeginUpdate(c, u) \/ Ask(c, u)
                     \/ \E yes \in BOOLEAN : Reply(c, u, yes)

AllGone == (\A c \in Conns : life[c] = "gone") /\ flying = {} /\ UNCHANGED vars

Next ==
  \/ \E c \in Conns : SessionStep(c) \/ Handle(c)
  \/ \E b \in Pairs : DropContact(b)
  \/ \E f \in flying : Deliver(f)
  \/ AllGone

Spec == Init /\ [][Next]_vars

----------------------------------------------------------------------------
(* Safety.                                                                 *)

Senders == Uins \cup {NoUin}
Requests == Uins \X Senders
Jobs == [op : {"none", "put", "store", "sweep", "clear", "answer"}, of : Senders,
         flag : BOOLEAN]

TypeOK ==
  /\ DirTypeOK
  /\ guarded \subseteq Uins
  /\ contact \in [Pairs -> {"none", "pending", "open"}]
  /\ requests \subseteq Requests
  /\ handler \in [Conns -> Jobs]
  /\ batch \in [Conns -> SUBSET Requests]
  /\ flying \subseteq [kind : {"ask", "yes", "no"}, from : Uins, to : Conns]
  /\ asked \in [Conns -> SUBSET Senders]
  /\ trusts \in [Conns -> SUBSET Uins]
  /\ everAsked \subseteq Requests /\ overtaken \subseteq Requests
  /\ granted \subseteq Uins \X Uins
  /\ everFree \subseteq Uins
  /\ presumed \subseteq Uins \X Uins

\* A contact whose owner always wanted to be asked stays pending until the
\* owner agrees, whatever adds, updates, rosters and replies cross each other:
\* neither an old roster, nor a late reply, nor a contact deleted and added anew
\* by another session makes a client open one that leaves the mark out only
\* where it was told that the contact is open. The one way out is an update
\* without the mark by a client that was not (presumed): on an update the server
\* takes the frame's word and does not ask what the owner wants.
UngrantedStayPending ==
  \A b \in Pairs :
    contact[b] = "open" =>
      \/ <<b[2], b[1]>> \in granted
      \/ b[2] \in everFree
      \/ <<b[2], b[1]>> \in presumed

\* The same without that way out, which the code does not ensure: a contact is open
\* only by leave of its owner.
OpenByLeaveOnly ==
  \A b \in Pairs : contact[b] = "open" => <<b[2], b[1]>> \in granted \/ b[2] \in everFree

\* A client is only shown requests made to its own UIN, by the UIN that made
\* them, though they are relayed late or come from the store.
RequestsGenuine ==
  \A c \in Conns : \A v \in asked[c] :
    uin[c] # NoUin => <<uin[c], v>> \in everAsked

\* A request that leaves the store was shown to a session of its addressee,
\* or written to its closed socket; except when it was stored while the
\* addressee was being shown those stored before.
RequestShownOrOvertaken ==
  [][\A r \in requests \ requests' :
       \/ r \in overtaken
       \/ \E c \in Conns : uin[c] = r[1] /\ (r[2] \in asked[c] \/ ~open[c])]_vars

=============================================================================
