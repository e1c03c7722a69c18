----------------------------- MODULE Messaging -----------------------------
(***************************************************************************)
(* Messages between clients: handleSendMessage and the relays, which look  *)
(* the recipient up and hand delivery to a goroutine of its own (spawn),   *)
(* and the store for the messages of absent recipients: AddOfflineMsg, the *)
(* request for offline messages and its acknowledgement.                   *)
(*                                                                         *)
(* The sessions underneath are those of Directory, which Sessions          *)
(* implements. A connection's handlers and its own directory steps are one *)
(* goroutine, so they exclude each other; deliveries, sockets and other    *)
(* connections interleave with both. A connection may sign on a second     *)
(* time, also as another UIN, as the server lets it.                       *)
(***************************************************************************)
EXTENDS Directory, Sequences, Naturals, FiniteSets

CONSTANTS Msgs,       \* messages; each is sent once, which bounds the traffic
          Addressees  \* the UINs that messages are written to

ASSUME MessagingAssumption == Addressees \subseteq Uins

VARIABLES
  held,             \* history: the UINs a connection has signed on as
  letter,           \* message -> by whom and to whom it was sent
  storing,          \* messages whose handler is about to call AddOfflineMsg
  flying,           \* deliveries spawned and not yet executed
  inbox,            \* what was written to a connection's open socket
  table,            \* offline_messages: the messages that have a row
  rowId,            \* the id of that row, also after its deletion; or 0
  lastId,           \* the AUTOINCREMENT counter
  batching,         \* connections inside handleMetaReqOffline
  batch,            \* the messages it has yet to send
  offlineDelivered, \* Session.offlineDelivered
  sawEof            \* clients that got the end mark and have not answered it

wire == <<letter, flying, inbox>>
store == <<storing, table, rowId, lastId>>
fetch == <<batching, batch, offlineDelivered, sawEof>>
mailboxVars == <<wire, store, fetch>>
vars == <<dirVars, held, mailboxVars>>

Unsent == [by |-> NoConn, from |-> NoUin, to |-> NoUin]

MailboxInit ==
  /\ held = [c \in Conns |-> IF uin[c] = NoUin THEN {} ELSE {uin[c]}]
  /\ letter = [m \in Msgs |-> Unsent]
  /\ storing = {}
  /\ flying = {}
  /\ inbox = [c \in Conns |-> <<>>]
  /\ table = {}
  /\ rowId = [m \in Msgs |-> 0]
  /\ lastId = 0
  /\ batching = {}
  /\ batch = [c \in Conns |-> {}]
  /\ offlineDelivered = [c \in Conns |-> FALSE]
  /\ sawEof = {}

Init == DirInit /\ MailboxInit

\* The goroutine of c is inside a handler of this module.
Busy(c) == c \in batching \/ \E m \in storing : letter[m].by = c

\* The goroutine of c takes up the next frame.
Serving(c) == life[c] = "up" /\ ~Busy(c)

Compose(c, m, u) ==
  /\ Serving(c)
  /\ letter[m] = Unsent
  /\ letter' = [letter EXCEPT ![m] = [by |-> c, from |-> uin[c], to |-> u]]

\* What is written to a closed socket is lost, and nobody is told.
Write(c, m, from, live) ==
  inbox' = IF open[c]
             THEN [inbox EXCEPT ![c] = Append(@, [msg |-> m, from |-> from, live |-> live])]
             ELSE inbox

----------------------------------------------------------------------------
(* Sending.                                                                *)

\* spawn refuses once the sender is stopped, and without an identity.
Spawn(c, m, target, from) ==
  flying' = IF running[c] /\ uin[c] # NoUin
              THEN flying \cup {[msg |-> m, to |-> target, from |-> from]}
              ELSE flying

\* handleSendMessage, recipient found: the closure reads the sender's uin
\* when it runs (from |-> NoUin: not read yet).
SendLive(c, m, u) ==
  /\ Compose(c, m, u)
  /\ sessions[u] # NoConn
  /\ Spawn(c, m, sessions[u], NoUin)
  /\ UNCHANGED <<dirVars, held, inbox, store, fetch>>

\* handleSendMessage, recipient absent, channel 1 or 4 with some text: the
\* message goes to the store, after the look-up and outside its lock.
SendAbsent(c, m, u) ==
  /\ Compose(c, m, u)
  /\ sessions[u] = NoConn
  /\ storing' = storing \cup {m}
  /\ UNCHANGED <<dirVars, held, flying, inbox, table, rowId, lastId, fetch>>

\* Anything else for an absent recipient is dropped.
SendDropped(c, m, u) ==
  /\ Compose(c, m, u)
  /\ sessions[u] = NoConn
  /\ UNCHANGED <<dirVars, held, flying, inbox, store, fetch>>

\* relayGenericICBM, handleServerRelay and handleTyping: as SendLive, but the
\* sender's uin is copied into the frame before the goroutine starts.
Relay(c, m, u) ==
  /\ Compose(c, m, u)
  /\ sessions[u] # NoConn
  /\ Spawn(c, m, sessions[u], uin[c])
  /\ UNCHANGED <<dirVars, held, inbox, store, fetch>>

\* The sender named in a delivery when its goroutine runs.
Sender_Recipient(f) == IF f.from = NoUin THEN uin[f.to] ELSE f.from
Sender(f) == IF f.from = NoUin THEN uin[letter[f.msg].by] ELSE f.from

\* A spawned goroutine runs, in no particular order, and writes to the socket
\* of the session found at the look-up.
Deliver(f) ==
  /\ f \in flying
  /\ flying' = flying \ {f}
  /\ Write(f.to, f.msg, Sender(f), TRUE)
  /\ UNCHANGED <<dirVars, held, letter, store, fetch>>

----------------------------------------------------------------------------
(* The store for absent recipients.                                        *)

\* AddOfflineMsg, at the end of handleSendMessage.
Store(m) ==
  /\ m \in storing
  /\ storing' = storing \ {m}
  /\ table' = table \cup {m}
  /\ lastId' = lastId + 1
  /\ rowId' = [rowId EXCEPT ![m] = lastId + 1]
  /\ UNCHANGED <<dirVars, held, wire, fetch>>

\* GetOfflineMsgs and ClearOfflineMsgs: ... WHERE to_uin=?
RowsFor_Everyone(u) == table
RowsFor(u) == {m \in table : letter[m].to = u}

\* handleMetaReqOffline, the first on this connection: a snapshot of the store.
RequestOffline_Repeats(c) ==
  /\ Serving(c)
  /\ batching' = batching \cup {c}
  /\ batch' = [batch EXCEPT ![c] = RowsFor(uin[c])]
  /\ UNCHANGED <<dirVars, held, wire, store, offlineDelivered, sawEof>>
RequestOffline(c) ==
  /\ Serving(c)
  /\ ~offlineDelivered[c]
  /\ batching' = batching \cup {c}
  /\ batch' = [batch EXCEPT ![c] = RowsFor(uin[c])]
  /\ UNCHANGED <<dirVars, held, wire, store, offlineDelivered, sawEof>>

\* ORDER BY id
NextRow_Newest(ms, m) == m \in ms /\ \A n \in ms : rowId[m] >= rowId[n]
NextRow(ms, m) == m \in ms /\ \A n \in ms : rowId[m] <= rowId[n]

\* The snapshot is sent message by message, oldest first,
SendBatch(c, m) ==
  /\ c \in batching
  /\ NextRow(batch[c], m)
  /\ Write(c, m, letter[m].from, FALSE)
  /\ batch' = [batch EXCEPT ![c] = @ \ {m}]
  /\ UNCHANGED <<dirVars, held, letter, flying, store, batching, offlineDelivered, sawEof>>

SendEof(c) == sawEof' = IF open[c] THEN sawEof \cup {c} ELSE sawEof

\* and closed with the end mark.
FinishBatch(c) ==
  /\ c \in batching
  /\ batch[c] = {}
  /\ SendEof(c)
  /\ offlineDelivered' = [offlineDelivered EXCEPT ![c] = TRUE]
  /\ batching' = batching \ {c}
  /\ UNCHANGED <<dirVars, held, wire, store, batch>>

\* handleMetaReqOffline once more: nothing but the end mark.
RequestAgain(c) ==
  /\ Serving(c)
  /\ offlineDelivered[c]
  /\ SendEof(c)
  /\ UNCHANGED <<dirVars, held, wire, store, batching, batch, offlineDelivered>>

\* handleMetaAckOffline: every row of the UIN goes, whenever it was added and
\* whatever was asked for before.
AckOffline(c) ==
  /\ Serving(c)
  /\ table' = table \ RowsFor(uin[c])
  /\ sawEof' = sawEof \ {c}
  /\ UNCHANGED <<dirVars, held, wire, storing, rowId, lastId, batching, batch, offlineDelivered>>

----------------------------------------------------------------------------
\* A step of the session layer; one of its own waits for the handler to end.
SessionStep(c) ==
  /\ ForeignStep(c) \/ (~Busy(c) /\ OwnStep(c))
  /\ held' = [held EXCEPT ![c] = @ \cup ({uin'[c]} \ {NoUin})]
  /\ UNCHANGED mailboxVars

Send(c, m, u) ==
  SendLive(c, m, u) \/ SendAbsent(c, m, u) \/ SendDropped(c, m, u) \/ Relay(c, m, u)

Offline(c) ==
  \/ RequestOffline(c) \/ (\E m \in Msgs : SendBatch(c, m)) \/ FinishBatch(c)
  \/ RequestAgain(c) \/ AckOffline(c)

\* Every connection of the model is over; the server waits in Accept.
AllGone == (\A c \in Conns : life[c] = "gone") /\ flying = {} /\ UNCHANGED vars

Next ==
  \/ \E c \in Conns : SessionStep(c) \/ Offline(c)
  \/ \E c \in Conns, m \in Msgs, u \in Addressees : Send(c, m, u)
  \/ \E m \in Msgs : Store(m)
  \/ \E f \in flying : Deliver(f)
  \/ AllGone

Spec == Init /\ [][Next]_vars

----------------------------------------------------------------------------
(* Safety.                                                                 *)

Letters == [by : Conns \cup {NoConn}, from : Uins \cup {NoUin}, to : Uins \cup {NoUin}]
Flights == [msg : Msgs, to : Conns, from : Uins \cup {NoUin}]
Pieces == [msg : Msgs, from : Uins \cup {NoUin}, live : BOOLEAN]

TypeOK ==
  /\ DirTypeOK
  /\ held \in [Conns -> SUBSET Uins]
  /\ letter \in [Msgs -> Letters]
  /\ storing \subseteq Msgs
  /\ flying \subseteq Flights
  /\ inbox \in [Conns -> Seq(Pieces)]
  /\ table \subseteq Msgs
  /\ rowId \in [Msgs -> Nat]
  /\ lastId \in Nat
  /\ batching \subseteq Conns
  /\ batch \in [Conns -> SUBSET Msgs]
  /\ offlineDelivered \in [Conns -> BOOLEAN]
  /\ sawEof \subseteq Conns

Received(c) == {inbox[c][i] : i \in DOMAIN inbox[c]}

\* Nobody reads another's mail: what a client is sent was addressed to a UIN its
\* connection signed on as, although deliveries run late, on a session that was
\* looked up before a sign-on replaced it or before it passed on to another UIN.
NoCrossDelivery ==
  \A c \in Conns : \A piece \in Received(c) : letter[piece.msg].to \in held[c]

\* The sender a recipient is shown is the one who wrote the message. A delivery
\* that reads the sender's uin late may show nobody, once the sender's session was
\* cleaned up, or another UIN the sender's connection signed on as since (which a
\* client that keeps to one sign-on never does); it never shows a UIN the sender
\* has not held, and nothing but the writer once the message was stored.
SenderIdentity ==
  \A c \in Conns : \A piece \in Received(c) :
    LET l == letter[piece.msg] IN
      \/ piece.from = l.from
      \/ piece.live /\ piece.from = NoUin /\ uin[l.by] = NoUin
      \/ piece.live /\ {l.from, piece.from} \subseteq held[l.by]

\* A client gets its offline messages in the order they were stored, and none
\* of them twice on one connection, however often it asks and whoever adds and
\* deletes rows meanwhile.
OfflineInOrder ==
  \A c \in Conns : \A i, j \in DOMAIN inbox[c] :
    i < j /\ ~inbox[c][i].live /\ ~inbox[c][j].live
      => rowId[inbox[c][i].msg] < rowId[inbox[c][j].msg]

\* A stored message is only removed after it was sent to a session of its
\* recipient: "offline messages arrive intact". The acknowledgement removes
\* every row of the UIN, so the code does not ensure it.
StoredUntilSent ==
  \A m \in Msgs : rowId[m] # 0 /\ m \notin table
    => \E c \in Conns : \E piece \in Received(c) : piece.msg = m

----------------------------------------------------------------------------
(* One message, seen from outside.                                         *)

HandedTo(m) == {c \in Conns : \E p \in Received(c) : p.msg = m /\ p.live}
ShownTo(m) == {c \in Conns : \E p \in Received(c) : p.msg = m /\ ~p.live}

PhaseOf(m) ==
  IF letter[m] = Unsent THEN "unsent"
  ELSE IF m \in storing \/ \E f \in flying : f.msg = m THEN "carried"
  ELSE IF m \in table THEN "kept"
  ELSE IF rowId[m] # 0 THEN "purged"
  ELSE IF HandedTo(m) # {} THEN "handed" ELSE "lost"

\* How often m was written to c, live or from the store.
TimesSent(m, c, live) ==
  Cardinality({i \in DOMAIN inbox[c] : inbox[c][i].msg = m /\ inbox[c][i].live = live})

Mail == INSTANCE Mailbox WITH
          phase <- [m \in Msgs |-> PhaseOf(m)],
          handed <- [m \in Msgs |-> [c \in Conns |-> TimesSent(m, c, TRUE)]],
          shown <- [m \in Msgs |-> [c \in Conns |-> TimesSent(m, c, FALSE)]]

\* A message goes one way: live to one session, once, or into the store, or
\* nowhere; and no session is shown a stored message a second time, however often
\* its client asks and acknowledges.
ImplementsMailbox == Mail!MailSpec

=============================================================================
