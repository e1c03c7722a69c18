-------------------------- MODULE MessagingProofs --------------------------
(***************************************************************************)
(* Safety of the messages, for any number of connections, UINs and         *)
(* messages. Three invariants, each resting on the one before:             *)
(*   TypeInv    types, which UINs a connection has held, and who a sent    *)
(*              letter, a stored row and a batch belong to;                *)
(*   MailInv    a connection that is about to get, or got, a message has   *)
(*              held the UIN it is for, and the sender the one it names;   *)
(*   OrderInv   row ids grow, and what a client got from the store is      *)
(*              older than what its batch still holds.                     *)
(* and two more on top: WayInv for the refinement of Mailbox, EofInv for   *)
(* what an acknowledgement deletes.                                        *)
(***************************************************************************)
EXTENDS Messaging, DirectoryProofs, FiniteSetTheorems

\* A connection has held the UIN it acts for, and every UIN it is registered for.
HeldInv ==
  /\ \A c \in Conns : uin[c] # NoUin => uin[c] \in held[c]
  /\ \A u \in Uins : sessions[u] # NoConn => u \in held[sessions[u]]

Posted == {m \in Msgs : letter[m] # Unsent}

\* Every letter names a connection and a registered addressee once sent, and
\* only sent letters are on their way, stored or delivered.
SentInv ==
  /\ \A m \in Posted : letter[m].by \in Conns /\ letter[m].to \in Uins
  /\ \A f \in flying : f.msg \in Posted
  /\ storing \subseteq Posted
  /\ \A m \in storing : rowId[m] = 0
  /\ \A m \in Msgs : rowId[m] # 0 => m \in Posted
  /\ \A m \in table : rowId[m] # 0
  /\ \A c \in Conns : \A m \in batch[c] : rowId[m] # 0
  /\ \A c \in Conns : \A i \in DOMAIN inbox[c] : inbox[c][i].msg \in Posted

TypeInv == TypeOK /\ Identified /\ HeldInv /\ SentInv

\* What Append does to the elements of a sequence.
LEMMA AppendElements ==
  ASSUME NEW S, NEW s \in Seq(S), NEW e \in S
  PROVE  /\ Append(s, e) \in Seq(S)
         /\ DOMAIN s = 1..Len(s) /\ Len(s) \in Nat
         /\ DOMAIN Append(s, e) = 1..(Len(s) + 1)
         /\ \A i \in 1..Len(s) : Append(s, e)[i] = s[i]
         /\ Append(s, e)[Len(s) + 1] = e
  OBVIOUS

\* The elements of an inbox are pieces.
LEMMA InboxPiece ==
  ASSUME inbox \in [Conns -> Seq(Pieces)], NEW c \in Conns, NEW i \in DOMAIN inbox[c]
  PROVE  /\ inbox[c][i] \in Pieces
         /\ inbox[c][i].msg \in Msgs
         /\ inbox[c][i].from \in Uins \cup {NoUin}
         /\ inbox[c][i].live \in BOOLEAN
<1>1. inbox[c] \in Seq(Pieces)  OBVIOUS
<1>2. inbox[c][i] \in Pieces
  <2>. DEFINE P == Pieces
  <2>1. inbox[c] \in Seq(P)  BY <1>1
  <2>. HIDE DEF P
  <2>2. inbox[c][i] \in P  BY <2>1
  <2>. QED  BY <2>2 DEF P
<1>. QED  BY <1>2 DEF Pieces

Piece(m, from, live) == [msg |-> m, from |-> from, live |-> live]

\* What Write does to an inbox: nothing, or one piece more at the end.
LEMMA Written ==
  ASSUME inbox \in [Conns -> Seq(Pieces)], NEW c \in Conns,
         NEW m \in Msgs, NEW from \in Uins \cup {NoUin}, NEW live \in BOOLEAN,
         Write(c, m, from, live)
  PROVE  /\ inbox' \in [Conns -> Seq(Pieces)]
         /\ \A d \in Conns \ {c} : inbox'[d] = inbox[d]
         /\ \/ inbox' = inbox
            \/ /\ Len(inbox[c]) \in Nat
               /\ DOMAIN inbox[c] = 1..Len(inbox[c])
               /\ DOMAIN inbox'[c] = 1..(Len(inbox[c]) + 1)
               /\ \A i \in 1..Len(inbox[c]) : inbox'[c][i] = inbox[c][i]
               /\ inbox'[c][Len(inbox[c]) + 1] = Piece(m, from, live)
<1> DEFINE p == Piece(m, from, live)
<1>1. p \in Pieces  BY DEF Piece, Pieces
<1>2. inbox' = IF open[c] THEN [inbox EXCEPT ![c] = Append(@, p)] ELSE inbox
  BY DEF Write, Piece
<1>. HIDE DEF p
<1>3. inbox[c] \in Seq(Pieces)  OBVIOUS
<1>4. Append(inbox[c], p) \in Seq(Pieces)  BY <1>1, <1>3, AppendElements
<1>5. CASE ~open[c]  BY <1>2, <1>5
<1>6. CASE open[c]
  <2>1. inbox' = [inbox EXCEPT ![c] = Append(inbox[c], p)]  BY <1>2, <1>6
  <2>2. inbox'[c] = Append(inbox[c], p)  BY <2>1
  <2>3. inbox' \in [Conns -> Seq(Pieces)] /\ \A d \in Conns \ {c} : inbox'[d] = inbox[d]
    BY <2>1, <1>4
  <2>4. /\ DOMAIN inbox[c] = 1..Len(inbox[c]) /\ Len(inbox[c]) \in Nat
        /\ DOMAIN Append(inbox[c], p) = 1..(Len(inbox[c]) + 1)
        /\ \A i \in 1..Len(inbox[c]) : Append(inbox[c], p)[i] = inbox[c][i]
        /\ Append(inbox[c], p)[Len(inbox[c]) + 1] = p
    BY <1>1, <1>3, AppendElements
  <2>. QED  BY <2>2, <2>3, <2>4 DEF p
<1>. QED  BY <1>5, <1>6

\* A letter, once sent, is never rewritten: of the actions only Compose writes
\* one, and only over Unsent.
LEMMA LetterKept ==
  ASSUME TypeInv, [Next]_vars, NEW m \in Posted
  PROVE  letter'[m] = letter[m] /\ m \in Posted'
<1> USE DEF Posted, TypeInv, TypeOK
<1>1. ASSUME NEW c \in Conns, NEW n \in Msgs, NEW u \in Addressees, Compose(c, n, u)
      PROVE  letter'[m] = letter[m] /\ m \in Posted'
  BY <1>1 DEF Compose
<1>2. ASSUME NEW c \in Conns, NEW n \in Msgs, NEW u \in Addressees, Send(c, n, u)
      PROVE  letter'[m] = letter[m] /\ m \in Posted'
  BY <1>1, <1>2 DEF Send, SendLive, SendAbsent, SendDropped, Relay
<1>3. ASSUME NEW c \in Conns, SessionStep(c) \/ Offline(c) PROVE letter' = letter
  BY <1>3 DEF SessionStep, Offline, RequestOffline, SendBatch, FinishBatch,
              RequestAgain, AckOffline, mailboxVars, wire
<1>4. ASSUME NEW n \in Msgs, Store(n) PROVE letter' = letter
  BY <1>4 DEF Store, wire
<1>5. ASSUME NEW f \in flying, Deliver(f) PROVE letter' = letter
  BY <1>5 DEF Deliver
<1>6. CASE UNCHANGED vars \/ AllGone
  BY <1>6 DEF vars, AllGone, mailboxVars, wire
<1>. QED  BY <1>2, <1>3, <1>4, <1>5, <1>6 DEF Next

----------------------------------------------------------------------------
(* Types, and who the letters belong to.                                   *)

\* Handlers and deliveries leave the directory alone.
LEMMA OnlySessionsMoveIt == [Next]_vars => [DirNext]_dirVars
<1>. SUFFICES ASSUME [Next]_vars PROVE DirNext \/ UNCHANGED dirVars
  OBVIOUS
<1>1. ASSUME NEW c \in Conns, SessionStep(c) PROVE DirNext
  BY <1>1 DEF SessionStep, DirStep, DirNext
<1>2. ASSUME NEW c \in Conns, Offline(c) PROVE UNCHANGED dirVars
  BY <1>2 DEF Offline, RequestOffline, SendBatch, FinishBatch, RequestAgain, AckOffline
<1>3. ASSUME NEW c \in Conns, NEW m \in Msgs, NEW u \in Addressees, Send(c, m, u)
      PROVE  UNCHANGED dirVars
  BY <1>3 DEF Send, SendLive, SendAbsent, SendDropped, Relay
<1>4. ASSUME NEW m \in Msgs, Store(m) PROVE UNCHANGED dirVars  BY <1>4 DEF Store
<1>5. ASSUME NEW f \in flying, Deliver(f) PROVE UNCHANGED dirVars  BY <1>5 DEF Deliver
<1>6. CASE UNCHANGED vars \/ AllGone  BY <1>6 DEF vars, AllGone
<1>. QED  BY <1>1, <1>2, <1>3, <1>4, <1>5, <1>6 DEF Next

\* The sessions underneath the messages are the Directory's, that is, what Sessions
\* implements: no handler, relay or delivery registers, renames or ends one.
THEOREM SessionsUnderneath == Spec => DirSpec
<1>1. Init => DirInit  BY DEF Init
<1>. QED  BY <1>1, OnlySessionsMoveIt, PTL DEF Spec, DirSpec

\* A connection gives up none of the UINs it has held, and takes one by signing on.
LEMMA HeldGrows ==
  ASSUME TypeInv, [Next]_vars
  PROVE  /\ held' \in [Conns -> SUBSET Uins]
         /\ \A c \in Conns : held[c] \subseteq held'[c]
<1>1. held \in [Conns -> SUBSET Uins] /\ DirTypeOK  BY DEF TypeInv, TypeOK
<1>2. DirTypeOK'
  <2>1. DirBase  BY DEF TypeInv, TypeOK, DirBase
  <2>. QED  BY <2>1, OnlySessionsMoveIt, DirNextBase DEF DirBase
<1>3. ASSUME NEW c \in Conns, SessionStep(c)
      PROVE  held' = [held EXCEPT ![c] = held[c] \cup ({uin'[c]} \ {NoUin})]
  BY <1>3 DEF SessionStep
<1>4. ASSUME held' = held
      PROVE  held' \in [Conns -> SUBSET Uins] /\ \A c \in Conns : held[c] \subseteq held'[c]
  BY <1>1, <1>4
<1>5. ASSUME NEW c \in Conns, SessionStep(c)
      PROVE  held' \in [Conns -> SUBSET Uins] /\ \A d \in Conns : held[d] \subseteq held'[d]
  <2>1. uin'[c] \in Uins \cup {NoUin}  BY <1>2 DEF DirTypeOK
  <2>. QED  BY <1>1, <1>3, <1>5, <2>1
<1>6. (\A c \in Conns : ~SessionStep(c)) => held' = held
  BY DEF Next, vars, AllGone, Offline, RequestOffline, SendBatch, FinishBatch, RequestAgain,
         AckOffline, Send, SendLive, SendAbsent, SendDropped, Relay, Store, Deliver
<1>. QED  BY <1>4, <1>5, <1>6

\* Registering, and taking an identity, are the steps that could break HeldInv.
LEMMA HeldKept ==
  ASSUME TypeInv, [Next]_vars
  PROVE  DirBase' /\ HeldInv'
<1>1. DirBase'
  <2>1. DirBase  BY DEF TypeInv, TypeOK, DirBase
  <2>. QED  BY <2>1, OnlySessionsMoveIt, DirNextBase
<1>2. /\ held \in [Conns -> SUBSET Uins] /\ DirTypeOK /\ Identified /\ HeldInv
      /\ \A c \in Conns : held[c] \subseteq held'[c]
  BY HeldGrows DEF TypeInv, TypeOK
<1>3. ASSUME UNCHANGED <<sessions, uin>> PROVE HeldInv'
  <2>1. \A u \in Uins : sessions[u] # NoConn => sessions[u] \in Conns  BY <1>2 DEF DirTypeOK
  <2>. QED  BY <1>2, <1>3, <2>1 DEF HeldInv
<1>4. ASSUME NEW c \in Conns, SessionStep(c) PROVE HeldInv'
  <2>1. uin'[c] # NoUin => uin'[c] \in held'[c]  BY <1>2, <1>4 DEF SessionStep
  <2>2. \A d \in Conns \ {c} : uin'[d] = uin[d]
    BY <1>2, <1>4
    DEF SessionStep, ForeignStep, OwnStep, Connect, Drop, Halt, Register, Finish, Unregister,
        Forget, Leave, Assume, DirTypeOK
  <2>3. \A d \in Conns : uin'[d] # NoUin => uin'[d] \in held'[d]
    BY <1>2, <2>1, <2>2 DEF HeldInv
  <2>4. ASSUME NEW u \in Uins, sessions'[u] # NoConn PROVE u \in held'[sessions'[u]]
    <3>1. CASE sessions'[u] = sessions[u]
      <4>1. sessions[u] \in Conns  BY <1>2, <2>4, <3>1 DEF DirTypeOK
      <4>. QED  BY <1>2, <2>4, <3>1, <4>1 DEF HeldInv
    <3>2. CASE Register(c)
      <4>1. sessions'[u] = sessions[u] \/ (u = uin[c] /\ sessions'[u] = c)
        BY <1>2, <3>2 DEF Register, DirTypeOK
      <4>2. uin[c] # NoUin  BY <1>2, <3>2 DEF Register, Identified
      <4>. QED  BY <1>2, <3>1, <4>1, <4>2 DEF HeldInv
    <3>3. CASE ~Register(c)
      <4>1. sessions'[u] = sessions[u]
        BY <1>2, <1>4, <2>4, <3>3
        DEF SessionStep, ForeignStep, OwnStep, Connect, Drop, Halt, Finish, Unregister, Forget,
            Leave, Assume, DirTypeOK
      <4>. QED  BY <3>1, <4>1
    <3>. QED  BY <3>2, <3>3
  <2>. QED  BY <2>3, <2>4 DEF HeldInv
<1>5. (\A c \in Conns : ~SessionStep(c)) => UNCHANGED <<sessions, uin>>
  BY DEF Next, vars, AllGone, Offline, RequestOffline, SendBatch, FinishBatch, RequestAgain,
         AckOffline, Send, SendLive, SendAbsent, SendDropped, Relay, Store, Deliver, dirVars
<1>. QED  BY <1>1, <1>3, <1>4, <1>5

\* The part of TypeInv that is not the directory's.
MailTypeOK ==
  /\ letter \in [Msgs -> Letters]
  /\ storing \subseteq Msgs
  /\ flying \subseteq Flights
  /\ inbox \in [Conns -> Seq(Pieces)]
  /\ table \subseteq Msgs
  /\ rowId \in [Msgs -> Nat]
  /\ lastId \in Nat
  /\ batching \subseteq Conns
  /\ batch \in [Conns -> SUBSET Msgs]
  /\ offlineDelivered \in [Conns -> BOOLEAN]
  /\ sawEof \subseteq Conns

\* Composing writes a letter of the sender's own to a registered UIN.
LEMMA Composed ==
  ASSUME TypeInv, NEW c \in Conns, NEW m \in Msgs, NEW u \in Addressees,
         Compose(c, m, u)
  PROVE  /\ letter' \in [Msgs -> Letters]
         /\ m \notin Posted /\ Posted' = Posted \cup {m}
         /\ letter'[m].by = c /\ letter'[m].from = uin[c] /\ letter'[m].to = u
         /\ \A n \in Posted : letter'[n] = letter[n]
<1>. DEFINE l == [by |-> c, from |-> uin[c], to |-> u]
<1>1. u \in Uins /\ c # NoConn  BY MessagingAssumption, DirectoryAssumption
<1>2. l \in Letters /\ l # Unsent /\ l.by = c /\ l.from = uin[c] /\ l.to = u
  BY <1>1 DEF Letters, Unsent, TypeInv, TypeOK, DirTypeOK
<1>3. letter \in [Msgs -> Letters] /\ letter[m] = Unsent /\ letter' = [letter EXCEPT ![m] = l]
  BY DEF Compose, TypeInv, TypeOK
<1>. HIDE DEF l
<1>4. letter' \in [Msgs -> Letters] /\ letter'[m] = l
      /\ \A n \in Msgs \ {m} : letter'[n] = letter[n]
  BY <1>2, <1>3
<1>. QED  BY <1>2, <1>3, <1>4 DEF Posted, l

LEMMA SendType ==
  ASSUME TypeInv, NEW c \in Conns, NEW m \in Msgs, NEW u \in Addressees,
         Send(c, m, u)
  PROVE  MailTypeOK' /\ SentInv'
<1>1. TypeOK /\ DirTypeOK /\ MailTypeOK /\ SentInv  BY DEF TypeInv, TypeOK, MailTypeOK
<1>2. Compose(c, m, u)
  BY DEF Send, SendLive, SendAbsent, SendDropped, Relay
<1>3. u \in Uins  BY MessagingAssumption
<1>4. UNCHANGED <<inbox, table, rowId, lastId, fetch>>
  BY DEF Send, SendLive, SendAbsent, SendDropped, Relay, store
<1>5. \/ storing' = storing
      \/ storing' = storing \cup {m}
  BY DEF Send, SendLive, SendAbsent, SendDropped, Relay, store
<1>6. \/ flying' = flying
      \/ \E from \in Uins \cup {NoUin} :
           /\ sessions[u] \in Conns
           /\ flying' = flying \cup {[msg |-> m, to |-> sessions[u], from |-> from]}
  <2>1. ASSUME NEW from \in Uins \cup {NoUin}, Spawn(c, m, sessions[u], from),
               sessions[u] # NoConn
        PROVE  \/ flying' = flying
               \/ /\ sessions[u] \in Conns
                  /\ flying' = flying \cup {[msg |-> m, to |-> sessions[u], from |-> from]}
    BY <1>1, <1>3, <2>1 DEF Spawn, DirTypeOK
  <2>2. uin[c] \in Uins \cup {NoUin}  BY <1>1 DEF DirTypeOK
  <2>3. CASE SendLive(c, m, u)  BY <2>1, <2>3 DEF SendLive
  <2>4. CASE Relay(c, m, u)  BY <2>1, <2>2, <2>4 DEF Relay
  <2>5. CASE SendAbsent(c, m, u) \/ SendDropped(c, m, u)
    BY <2>5 DEF SendAbsent, SendDropped
  <2>. QED  BY <2>3, <2>4, <2>5 DEF Send
<1>7. flying' \subseteq Flights /\ \A f \in flying' : f.msg = m \/ f \in flying
  BY <1>1, <1>6 DEF Flights, MailTypeOK
<1>8. MailTypeOK'
  BY <1>1, <1>2, <1>4, <1>5, <1>7, Composed DEF MailTypeOK, fetch
<1>9. \A n \in Posted' : letter'[n].by \in Conns /\ letter'[n].to \in Uins
  BY <1>1, <1>2, <1>3, Composed DEF SentInv
<1>10. \A f \in flying' : f.msg \in Posted'
  BY <1>1, <1>2, <1>7, Composed DEF SentInv
<1>11. rowId[m] = 0  BY <1>1, <1>2, Composed DEF SentInv
<1>12. storing' \subseteq Posted' /\ \A n \in storing' : rowId'[n] = 0
  BY <1>1, <1>2, <1>4, <1>5, <1>11, Composed DEF SentInv
<1>13. \A n \in Msgs : rowId'[n] # 0 => n \in Posted'
  BY <1>1, <1>2, <1>4, Composed DEF SentInv
<1>14. \A d \in Conns : \A i \in DOMAIN inbox'[d] : inbox'[d][i].msg \in Posted'
  BY <1>1, <1>2, <1>4, Composed DEF SentInv
<1>15. \A n \in table' : rowId'[n] # 0  BY <1>1, <1>4 DEF SentInv
<1>16. \A d \in Conns : \A n \in batch'[d] : rowId'[n] # 0
  BY <1>1, <1>4 DEF SentInv, fetch
<1>. QED  BY <1>8, <1>9, <1>10, <1>12, <1>13, <1>14, <1>15, <1>16 DEF SentInv

\* A write to c adds at most one piece, of a posted message.
LEMMA WriteType ==
  ASSUME MailTypeOK, SentInv, NEW c \in Conns, NEW m \in Posted,
         NEW from \in Uins \cup {NoUin}, NEW live \in BOOLEAN,
         Write(c, m, from, live), Posted' = Posted
  PROVE  /\ inbox' \in [Conns -> Seq(Pieces)]
         /\ \A d \in Conns : \A i \in DOMAIN inbox'[d] : inbox'[d][i].msg \in Posted'
<1>1. m \in Msgs  BY DEF Posted
<1>2. /\ inbox' \in [Conns -> Seq(Pieces)]
      /\ \A d \in Conns \ {c} : inbox'[d] = inbox[d]
      /\ \/ inbox' = inbox
         \/ /\ Len(inbox[c]) \in Nat
            /\ DOMAIN inbox[c] = 1..Len(inbox[c])
            /\ DOMAIN inbox'[c] = 1..(Len(inbox[c]) + 1)
            /\ \A i \in 1..Len(inbox[c]) : inbox'[c][i] = inbox[c][i]
            /\ inbox'[c][Len(inbox[c]) + 1] = Piece(m, from, live)
  BY <1>1, Written DEF MailTypeOK
<1>3. Piece(m, from, live).msg = m  BY DEF Piece
<1>4. \A d \in Conns : \A i \in DOMAIN inbox[d] : inbox[d][i].msg \in Posted
  BY DEF SentInv
<1>5. ASSUME NEW i \in DOMAIN inbox'[c] PROVE inbox'[c][i].msg \in Posted
  <2>1. CASE inbox' = inbox  BY <1>4, <2>1
  <2>2. CASE inbox' # inbox
    <3>1. i \in 1..Len(inbox[c]) \/ i = Len(inbox[c]) + 1  BY <1>2, <2>2
    <3>. QED  BY <1>2, <1>3, <1>4, <2>2, <3>1
  <2>. QED  BY <2>1, <2>2
<1>6. ASSUME NEW d \in Conns \ {c}, NEW i \in DOMAIN inbox'[d]
      PROVE  inbox'[d][i].msg \in Posted
  BY <1>2, <1>4, <1>6
<1>. QED  BY <1>2, <1>5, <1>6

\* The handlers of the store, the deliveries and the session layer.
LEMMA OtherType ==
  ASSUME TypeInv,
         \/ \E c \in Conns : SessionStep(c) \/ Offline(c)
         \/ \E m \in Msgs : Store(m)
         \/ \E f \in flying : Deliver(f)
  PROVE  MailTypeOK' /\ SentInv'
<1>1. MailTypeOK /\ SentInv  BY DEF TypeInv, TypeOK, MailTypeOK
<1>2. uin \in [Conns -> Uins \cup {NoUin}]  BY DEF TypeInv, TypeOK, DirTypeOK
<1>3. ASSUME letter' = letter PROVE Posted' = Posted  BY <1>3 DEF Posted
<1>4. ASSUME NEW c \in Conns, SessionStep(c) PROVE MailTypeOK' /\ SentInv'
  BY <1>1, <1>3, <1>4 DEF SessionStep, mailboxVars, wire, store, fetch, MailTypeOK, SentInv
<1>5. ASSUME NEW m \in Msgs, Store(m) PROVE MailTypeOK' /\ SentInv'
  <2>1. UNCHANGED <<letter, flying, inbox>> /\ Posted' = Posted
    BY <1>3, <1>5 DEF Store, wire
  <2>2. m \in Posted  BY <1>1, <1>5 DEF SentInv, Store
  <2>3. MailTypeOK'  BY <1>1, <1>5, <2>1 DEF MailTypeOK, Store, fetch
  <2>4. lastId + 1 # 0  BY <1>1 DEF MailTypeOK
  <2>5. rowId' = [rowId EXCEPT ![m] = lastId + 1] /\ storing' = storing \ {m}
        /\ table' = table \cup {m} /\ rowId \in [Msgs -> Nat]
    BY <1>1, <1>5 DEF Store, MailTypeOK
  <2>. QED  BY <1>1, <1>5, <2>1, <2>2, <2>3, <2>4, <2>5 DEF SentInv, MailTypeOK, Store, fetch
<1>6. ASSUME NEW f \in flying, Deliver(f) PROVE MailTypeOK' /\ SentInv'
  <2>1. UNCHANGED <<letter, storing, table, rowId>> /\ Posted' = Posted
    BY <1>3, <1>6 DEF Deliver, store
  <2>2. f \in Flights /\ f.to \in Conns /\ f.msg \in Msgs /\ f.from \in Uins \cup {NoUin}
    BY <1>1 DEF MailTypeOK, Flights
  <2>3. f.msg \in Posted /\ letter[f.msg].by \in Conns  BY <1>1, <1>6 DEF SentInv
  <2>4. Sender(f) \in Uins \cup {NoUin}  BY <1>2, <2>2, <2>3 DEF Sender
  <2>5. Write(f.to, f.msg, Sender(f), TRUE)  BY <1>6 DEF Deliver
  <2>6. /\ inbox' \in [Conns -> Seq(Pieces)]
        /\ \A d \in Conns : \A i \in DOMAIN inbox'[d] : inbox'[d][i].msg \in Posted'
    BY <1>1, <2>1, <2>2, <2>3, <2>4, <2>5, WriteType
  <2>7. flying' \subseteq flying  BY <1>6 DEF Deliver
  <2>8. MailTypeOK'  BY <1>1, <1>6, <2>1, <2>6, <2>7 DEF MailTypeOK, Deliver, store, fetch
  <2>. QED  BY <1>1, <1>6, <2>1, <2>6, <2>7, <2>8 DEF SentInv, Deliver, fetch
<1>7. ASSUME NEW c \in Conns, NEW m \in Msgs, SendBatch(c, m)
      PROVE  MailTypeOK' /\ SentInv'
  <2>1. UNCHANGED <<letter, flying, storing, table, rowId>> /\ Posted' = Posted
    BY <1>3, <1>7 DEF SendBatch, store
  <2>2. m \in batch[c] /\ batch' = [batch EXCEPT ![c] = batch[c] \ {m}]
    BY <1>7 DEF SendBatch, NextRow
  <2>3. m \in Posted /\ letter[m].from \in Uins \cup {NoUin}
    BY <1>1, <2>2 DEF SentInv, MailTypeOK, Letters
  <2>4. Write(c, m, letter[m].from, FALSE)  BY <1>7 DEF SendBatch
  <2>5. /\ inbox' \in [Conns -> Seq(Pieces)]
        /\ \A d \in Conns : \A i \in DOMAIN inbox'[d] : inbox'[d][i].msg \in Posted'
    BY <1>1, <2>1, <2>3, <2>4, WriteType
  <2>6. MailTypeOK'  BY <1>1, <1>7, <2>1, <2>2, <2>5 DEF MailTypeOK, SendBatch, store
  <2>7. \A d \in Conns : batch'[d] \subseteq batch[d]
    BY <1>1, <2>2 DEF MailTypeOK
  <2>. QED  BY <1>1, <2>1, <2>5, <2>6, <2>7 DEF SentInv
<1>8. ASSUME NEW c \in Conns,
             RequestOffline(c) \/ FinishBatch(c) \/ RequestAgain(c) \/ AckOffline(c)
      PROVE  MailTypeOK' /\ SentInv'
  <2>1. UNCHANGED <<letter, storing, flying, inbox, rowId, lastId>> /\ Posted' = Posted
    BY <1>3, <1>8
    DEF RequestOffline, FinishBatch, RequestAgain, AckOffline, wire, store
  <2>2. table' \subseteq table /\ table \subseteq Msgs
    BY <1>1, <1>8
    DEF RequestOffline, FinishBatch, RequestAgain, AckOffline, store, MailTypeOK
  <2>3. MailTypeOK'
    BY <1>1, <1>8, <2>1, <2>2
    DEF MailTypeOK, RequestOffline, RowsFor, FinishBatch, RequestAgain, AckOffline, SendEof
  <2>4. \A d \in Conns : \A n \in batch'[d] : rowId'[n] # 0
    <3>1. CASE RequestOffline(c)
      BY <1>1, <2>1, <3>1 DEF RequestOffline, RowsFor, SentInv, MailTypeOK
    <3>2. CASE FinishBatch(c) \/ RequestAgain(c) \/ AckOffline(c)
      BY <1>1, <2>1, <3>2 DEF FinishBatch, RequestAgain, AckOffline, SentInv
    <3>. QED  BY <1>8, <3>1, <3>2
  <2>. QED  BY <1>1, <2>1, <2>2, <2>3, <2>4 DEF SentInv
<1>. QED  BY <1>4, <1>5, <1>6, <1>7, <1>8 DEF Offline

LEMMA TypeNext == TypeInv /\ [Next]_vars => TypeInv'
<1>. SUFFICES ASSUME TypeInv, [Next]_vars PROVE TypeInv'
  OBVIOUS
<1>1. DirBase' /\ HeldInv' /\ held' \in [Conns -> SUBSET Uins]  BY HeldKept, HeldGrows
<1>2. MailTypeOK' /\ SentInv'
  <2>1. CASE UNCHANGED vars \/ AllGone
    <3>1. UNCHANGED vars  BY <2>1 DEF AllGone
    <3>2. MailTypeOK /\ SentInv  BY DEF TypeInv, TypeOK, MailTypeOK
    <3>. QED
      BY <3>1, <3>2
      DEF vars, mailboxVars, wire, store, fetch, MailTypeOK, SentInv, Posted
  <2>. QED  BY <2>1, SendType, OtherType DEF Next
<1>. QED  BY <1>1, <1>2 DEF DirBase, TypeInv, TypeOK, MailTypeOK

LEMMA TypeInit == Init => TypeInv
<1>. SUFFICES ASSUME Init PROVE TypeInv
  OBVIOUS
<1>1. DirInv  BY DirInitial DEF Init
<1>2. held \in [Conns -> SUBSET Uins] /\ HeldInv
  BY <1>1 DEF Init, DirInit, MailboxInit, HeldInv, DirInv, DirBase, DirTypeOK
<1>3. Unsent \in Letters  BY DEF Unsent, Letters
<1>4. MailTypeOK  BY <1>3 DEF Init, MailboxInit, MailTypeOK
<1>5. Posted = {}  BY DEF Init, MailboxInit, Posted
<1>6. SentInv  BY <1>5 DEF Init, MailboxInit, SentInv
<1>. QED  BY <1>1, <1>2, <1>4, <1>6 DEF DirInv, DirBase, TypeInv, TypeOK, MailTypeOK

LEMMA TypeInvariant == Spec => []TypeInv
  BY TypeInit, TypeNext, PTL DEF Spec

\* Every variable keeps its type, in particular: a delivery always has a
\* connection to go to, and a stored row a letter it came from.
THEOREM TypeCorrect == Spec => []TypeOK
  BY TypeInvariant, PTL DEF TypeInv

\* What a sender finds under a UIN in the registry, whatever the handlers and the
\* clients do in between, is nothing or a connection that signed on as that UIN.
THEOREM EntriesWereSignedOn ==
  Spec => [](\A u \in Uins : sessions[u] # NoConn => u \in held[sessions[u]])
  BY TypeInvariant, PTL DEF TypeInv, HeldInv

----------------------------------------------------------------------------
(* Who gets a message, and from whom.                                      *)

\* The session gave its identity up in cleanup, for good.
Departed(c) == uin[c] = NoUin /\ life[c] \in {"ending", "gone"}

Carried(f) ==
  LET l == letter[f.msg] IN
    /\ l.to \in held[f.to]
    /\ l.from \in Uins /\ l.from \in held[l.by]
    /\ uin[l.by] = NoUin => Departed(l.by)
    /\ f.from \in {NoUin, l.from}

Proper(c, p) ==
  LET l == letter[p.msg] IN
    /\ l.to \in held[c]
    /\ \/ p.from = l.from
       \/ p.live /\ p.from = NoUin /\ Departed(l.by)
       \/ p.live /\ {l.from, p.from} \subseteq held[l.by]

\* The recipient of a message under way, or delivered, has held the UIN it is for;
\* its live sender has held the UIN it wrote as, and has some identity or departed;
\* a batch is the requester's own, and its goroutine is inside the request, so that
\* it cannot change identity.
MailInv ==
  /\ \A f \in flying : Carried(f)
  /\ \A c \in Conns : \A m \in batch[c] : c \in batching /\ letter[m].to = uin[c]
  /\ \A c \in Conns : \A i \in DOMAIN inbox[c] : Proper(c, inbox[c][i])

\* No step of the directory brings a departed session back, and an identity is only
\* given up by departing.
LEMMA IdentityKept ==
  ASSUME TypeInv, NEW c \in Conns, NEW d \in Conns, DirStep(d)
  PROVE  /\ Departed(c) => Departed(c)'
         /\ (uin[c] = NoUin => Departed(c)) => (uin[c] = NoUin => Departed(c))'
<1>. USE DirectoryAssumption DEF TypeInv, TypeOK, DirTypeOK, Departed
<1>1. CASE Register(d)  BY <1>1 DEF Register
<1>2. CASE Finish(d)  BY <1>2 DEF Finish
<1>3. CASE Unregister(d)  BY <1>3 DEF Unregister
<1>4. CASE Forget(d)  BY <1>4 DEF Forget
<1>5. CASE Leave(d)  BY <1>5 DEF Leave
<1>6. ASSUME NEW v \in Uins, Assume(d, v)
      PROVE  /\ Departed(c) => Departed(c)'
             /\ (uin[c] = NoUin => Departed(c)) => (uin[c] = NoUin => Departed(c))'
  BY <1>6 DEF Assume
<1>7. CASE Connect(d)  BY <1>7 DEF Connect
<1>8. CASE Drop(d)  BY <1>8 DEF Drop
<1>9. CASE Halt(d)  BY <1>9 DEF Halt
<1>. QED
  BY <1>1, <1>2, <1>3, <1>4, <1>5, <1>6, <1>7, <1>8, <1>9
  DEF DirStep, OwnStep, ForeignStep

\* A step of the session layer keeps every message where it belongs.
LEMMA MailSession ==
  ASSUME TypeInv, MailInv, NEW d \in Conns, SessionStep(d)
  PROVE  MailInv'
<1>1. DirStep(d) /\ UNCHANGED <<letter, flying, inbox, batching, batch>>
  BY DEF SessionStep, DirStep, mailboxVars, wire, fetch
<1>2. /\ letter \in [Msgs -> Letters] /\ MailTypeOK /\ SentInv
      /\ \A c \in Conns : held[c] \subseteq held'[c]
  BY HeldGrows DEF TypeInv, TypeOK, MailTypeOK, Next
<1>3. \A m \in Posted : letter[m].by \in Conns /\ letter[m].to \in Uins
  BY <1>2 DEF SentInv
<1>4. ASSUME NEW f \in flying PROVE Carried(f)'
  <2>1. f.to \in Conns /\ letter[f.msg].by \in Conns /\ letter[f.msg].to \in Uins
    BY <1>2, <1>3 DEF SentInv, MailTypeOK, Flights
  <2>2. Carried(f)  BY DEF MailInv
  <2>. QED  BY <1>1, <1>2, <2>1, <2>2, IdentityKept DEF Carried
<1>5. ASSUME NEW c \in Conns, NEW m \in batch[c]
      PROVE  c \in batching /\ letter[m].to = uin'[c]
  <2>1. c \in batching /\ letter[m].to = uin[c]  BY DEF MailInv
  <2>2. letter[m].to \in Uins
    BY <1>2, <1>3 DEF SentInv, MailTypeOK
  <2>3. c = d => ForeignStep(d)  BY <2>1 DEF SessionStep, Busy
  <2>4. uin'[c] = uin[c]
    <3>1. CASE ForeignStep(d)
      BY <3>1 DEF ForeignStep, Connect, Drop, Halt
    <3>2. CASE c # d /\ OwnStep(d)
      BY <3>2 DEF OwnStep, Register, Finish, Unregister, Forget, Leave, Assume,
                  TypeInv, TypeOK, DirTypeOK
    <3>. QED  BY <2>3, <3>1, <3>2 DEF SessionStep
  <2>. QED  BY <2>1, <2>4
<1>6. ASSUME NEW c \in Conns, NEW i \in DOMAIN inbox[c]
      PROVE  Proper(c, inbox[c][i])'
  <2>. DEFINE p == inbox[c][i]
  <2>1. letter[p.msg].by \in Conns /\ letter[p.msg].to \in Uins
    BY <1>2, <1>3 DEF SentInv
  <2>2. Proper(c, p)  BY DEF MailInv
  <2>3. p' = p  BY <1>1
  <2>. HIDE DEF p
  <2>4. Proper(c, p)'  BY <1>1, <1>2, <2>1, <2>2, <2>3, IdentityKept DEF Proper
  <2>. QED  BY <2>4 DEF p
<1>. QED  BY <1>1, <1>4, <1>5, <1>6 DEF MailInv

\* A message that was delivered, or is on its way, was posted: a new letter
\* cannot be one of them, so Carried and Proper are not disturbed.
LEMMA MailSend ==
  ASSUME TypeInv, MailInv, NEW c \in Conns, NEW m \in Msgs, NEW u \in Addressees,
         Send(c, m, u)
  PROVE  MailInv'
<1>1. Compose(c, m, u) /\ UNCHANGED <<dirVars, held, inbox, batching, batch>>
  BY DEF Send, SendLive, SendAbsent, SendDropped, Relay, fetch
<1>2. MailTypeOK /\ SentInv /\ DirTypeOK /\ HeldInv
  BY DEF TypeInv, TypeOK, MailTypeOK
<1>3. /\ letter'[m].by = c /\ letter'[m].from = uin[c] /\ letter'[m].to = u
      /\ \A n \in Posted : letter'[n] = letter[n]
  BY <1>1, Composed
<1>4. u \in Uins  BY MessagingAssumption
<1>5. \A d \in Conns : uin'[d] = uin[d] /\ life'[d] = life[d]  BY <1>1 DEF dirVars
<1>6. ASSUME NEW f \in flying PROVE Carried(f)'
  <2>1. f.msg \in Posted  BY <1>2 DEF SentInv
  <2>2. letter'[f.msg] = letter[f.msg]  BY <1>3, <2>1
  <2>. QED  BY <1>1, <2>2 DEF MailInv, Carried, Departed, dirVars
<1>7. ASSUME NEW from \in {NoUin, uin[c]}, sessions[u] # NoConn, uin[c] # NoUin,
             NEW f, f = [msg |-> m, to |-> sessions[u], from |-> from]
      PROVE  Carried(f)'
  <2>1. f.msg = m /\ f.to = sessions[u] /\ f.from = from  BY <1>7
  <2>2. sessions[u] \in Conns /\ u \in held[sessions[u]]
    BY <1>2, <1>4, <1>7 DEF DirTypeOK, HeldInv
  <2>3. uin[c] \in Uins /\ uin[c] \in held[c]  BY <1>2, <1>7 DEF DirTypeOK, HeldInv
  <2>4. uin' = uin /\ life' = life /\ held' = held  BY <1>1 DEF dirVars
  <2>. QED  BY <1>3, <1>7, <2>1, <2>2, <2>3, <2>4 DEF Carried
<1>8. ASSUME NEW from \in {NoUin, uin[c]}, sessions[u] # NoConn,
             Spawn(c, m, sessions[u], from)
      PROVE  \A f \in flying' : Carried(f)'
  <2>1. CASE uin[c] # NoUin /\ running[c]
    <3>1. flying' = flying \cup {[msg |-> m, to |-> sessions[u], from |-> from]}
      BY <1>8, <2>1 DEF Spawn
    <3>. QED  BY <1>6, <1>7, <1>8, <2>1, <3>1
  <2>2. CASE ~(uin[c] # NoUin /\ running[c])  BY <1>6, <1>8, <2>2 DEF Spawn
  <2>. QED  BY <2>1, <2>2
<1>9. \A f \in flying' : Carried(f)'
  <2>1. CASE SendLive(c, m, u)  BY <1>8, <2>1 DEF SendLive
  <2>2. CASE Relay(c, m, u)  BY <1>8, <2>2 DEF Relay
  <2>3. CASE SendAbsent(c, m, u) \/ SendDropped(c, m, u)
    BY <1>6, <2>3 DEF SendAbsent, SendDropped
  <2>. QED  BY <2>1, <2>2, <2>3 DEF Send
<1>10. ASSUME NEW d \in Conns, NEW n \in batch[d]
       PROVE  d \in batching /\ letter'[n].to = uin[d]
  <2>1. n \in Msgs  BY <1>2 DEF MailTypeOK
  <2>2. n \in Posted  BY <1>2, <2>1 DEF SentInv
  <2>3. letter'[n] = letter[n]  BY <1>3, <2>2
  <2>. QED  BY <2>3 DEF MailInv
<1>11. ASSUME NEW d \in Conns, NEW i \in DOMAIN inbox[d]
       PROVE  Proper(d, inbox[d][i])'
  <2>. DEFINE p == inbox[d][i]
  <2>1. p.msg \in Posted /\ Proper(d, p)  BY <1>2 DEF SentInv, MailInv
  <2>2. p' = p  BY <1>1
  <2>. HIDE DEF p
  <2>3. letter'[p.msg] = letter[p.msg]  BY <1>3, <2>1
  <2>4. Proper(d, p)'
    BY <1>1, <2>1, <2>2, <2>3 DEF Proper, Departed, dirVars
  <2>. QED  BY <2>4 DEF p
<1>. QED  BY <1>1, <1>5, <1>9, <1>10, <1>11 DEF MailInv

\* A write to c of a message that is proper for c.
LEMMA MailWrite ==
  ASSUME TypeInv, MailInv, UNCHANGED <<dirVars, held, letter>>,
         NEW c \in Conns, NEW m \in Posted,
         NEW from \in Uins \cup {NoUin}, NEW live \in BOOLEAN,
         Proper(c, Piece(m, from, live)), Write(c, m, from, live)
  PROVE  \A d \in Conns : \A i \in DOMAIN inbox'[d] : Proper(d, inbox[d][i])'
<1>1. MailTypeOK  BY DEF TypeInv, TypeOK, MailTypeOK
<1>2. m \in Msgs  BY DEF Posted
<1>3. /\ inbox' \in [Conns -> Seq(Pieces)]
      /\ \A d \in Conns \ {c} : inbox'[d] = inbox[d]
      /\ \/ inbox' = inbox
         \/ /\ Len(inbox[c]) \in Nat
            /\ DOMAIN inbox[c] = 1..Len(inbox[c])
            /\ DOMAIN inbox'[c] = 1..(Len(inbox[c]) + 1)
            /\ \A i \in 1..Len(inbox[c]) : inbox'[c][i] = inbox[c][i]
            /\ inbox'[c][Len(inbox[c]) + 1] = Piece(m, from, live)
  BY <1>1, <1>2, Written DEF MailTypeOK
<1>4. \A d \in Conns : \A i \in DOMAIN inbox[d] : Proper(d, inbox[d][i])
  BY DEF MailInv
<1>5. ASSUME NEW d \in Conns, NEW i \in DOMAIN inbox'[d]
      PROVE  Proper(d, inbox'[d][i])
  <2>1. CASE inbox' = inbox \/ d # c  BY <1>3, <1>4, <2>1
  <2>2. CASE inbox' # inbox /\ d = c
    <3>1. i \in 1..Len(inbox[c]) \/ i = Len(inbox[c]) + 1  BY <1>3, <2>2
    <3>. QED  BY <1>3, <1>4, <2>2, <3>1
  <2>. QED  BY <2>1, <2>2
<1>6. uin' = uin /\ life' = life /\ letter' = letter  BY DEF dirVars
<1>7. ASSUME NEW d \in Conns, NEW i \in DOMAIN inbox'[d]
      PROVE  Proper(d, inbox[d][i])'
  BY <1>5, <1>6 DEF Proper, Departed
<1>. QED  BY <1>7

LEMMA MailDeliver ==
  ASSUME TypeInv, MailInv, NEW f \in flying, Deliver(f)
  PROVE  MailInv'
<1>1. /\ UNCHANGED <<dirVars, held, letter, batching, batch>>
      /\ flying' \subseteq flying
      /\ Write(f.to, f.msg, Sender(f), TRUE)
  BY DEF Deliver, fetch
<1>2. MailTypeOK /\ SentInv /\ HeldInv /\ uin \in [Conns -> Uins \cup {NoUin}]
  BY DEF TypeInv, TypeOK, MailTypeOK, DirTypeOK
<1>3. f.to \in Conns /\ f.msg \in Posted /\ letter[f.msg].by \in Conns
  BY <1>2 DEF MailTypeOK, SentInv, Flights
<1>4. f.from \in Uins \cup {NoUin}  BY <1>2 DEF MailTypeOK, Flights
<1>5. Carried(f)  BY DEF MailInv
<1>6. Sender(f) \in Uins \cup {NoUin}  BY <1>2, <1>3, <1>4 DEF Sender
<1>7. \/ Sender(f) = letter[f.msg].from
      \/ Sender(f) = NoUin /\ Departed(letter[f.msg].by)
      \/ {letter[f.msg].from, Sender(f)} \subseteq held[letter[f.msg].by]
  BY <1>2, <1>3, <1>5 DEF Sender, Carried, HeldInv
<1>8. Proper(f.to, Piece(f.msg, Sender(f), TRUE))
  BY <1>5, <1>7 DEF Proper, Piece, Carried
<1>9. \A d \in Conns : \A i \in DOMAIN inbox'[d] : Proper(d, inbox[d][i])'
  BY <1>1, <1>3, <1>6, <1>8, MailWrite
<1>10. \A g \in flying' : Carried(g)'
  BY <1>1 DEF MailInv, Carried, Departed, dirVars
<1>11. \A c \in Conns : \A m \in batch'[c] : c \in batching' /\ letter'[m].to = uin'[c]
  BY <1>1 DEF MailInv, dirVars
<1>. QED  BY <1>9, <1>10, <1>11 DEF MailInv

LEMMA MailSendBatch ==
  ASSUME TypeInv, MailInv, NEW c \in Conns, NEW m \in Msgs, SendBatch(c, m)
  PROVE  MailInv'
<1>1. /\ UNCHANGED <<dirVars, held, letter, flying, batching>>
      /\ batch' = [batch EXCEPT ![c] = batch[c] \ {m}]
      /\ m \in batch[c]
      /\ Write(c, m, letter[m].from, FALSE)
  BY DEF SendBatch, NextRow
<1>2. MailTypeOK /\ SentInv  BY DEF TypeInv, TypeOK, MailTypeOK
<1>3. m \in Posted /\ letter[m].from \in Uins \cup {NoUin}
  BY <1>1, <1>2 DEF SentInv, MailTypeOK, Letters
<1>4. letter[m].to = uin[c]  BY <1>1 DEF MailInv
<1>5. Proper(c, Piece(m, letter[m].from, FALSE))
  <2>1. uin[c] \in held[c]
    <3>1. letter[m].to \in Uins  BY <1>2, <1>3 DEF SentInv
    <3>. QED  BY <1>4, <3>1, DirectoryAssumption DEF TypeInv, HeldInv
  <2>. QED  BY <1>4, <2>1 DEF Proper, Piece
<1>6. \A d \in Conns : \A i \in DOMAIN inbox'[d] : Proper(d, inbox[d][i])'
  BY <1>1, <1>3, <1>5, MailWrite
<1>7. \A f \in flying' : Carried(f)'
  BY <1>1 DEF MailInv, Carried, Departed, dirVars
<1>8. \A d \in Conns : batch'[d] \subseteq batch[d]
  BY <1>1, <1>2 DEF MailTypeOK
<1>9. \A d \in Conns : \A n \in batch'[d] : d \in batching' /\ letter'[n].to = uin'[d]
  BY <1>1, <1>8 DEF MailInv, dirVars
<1>. QED  BY <1>6, <1>7, <1>9 DEF MailInv

\* The rest write nothing to a client: only the batches can change.
LEMMA MailRest ==
  ASSUME TypeInv, MailInv,
         UNCHANGED <<dirVars, held, letter, flying, inbox>>,
         \A d \in Conns : \A n \in batch'[d] : d \in batching' /\ letter[n].to = uin[d]
  PROVE  MailInv'
<1>1. UNCHANGED <<uin, life>>  BY DEF dirVars
<1>2. \A f \in flying' : Carried(f)'
  BY <1>1 DEF MailInv, Carried, Departed
<1>3. \A d \in Conns : \A i \in DOMAIN inbox'[d] : Proper(d, inbox[d][i])'
  BY <1>1 DEF MailInv, Proper, Departed
<1>. QED  BY <1>1, <1>2, <1>3 DEF MailInv

LEMMA MailNext == TypeInv /\ MailInv /\ [Next]_vars => MailInv'
<1>. SUFFICES ASSUME TypeInv, MailInv, [Next]_vars PROVE MailInv'
  OBVIOUS
<1>1. MailTypeOK  BY DEF TypeInv, TypeOK, MailTypeOK
<1>2. \A d \in Conns : \A n \in batch[d] : d \in batching /\ letter[n].to = uin[d]
  BY DEF MailInv
<1>3. ASSUME NEW m \in Msgs, Store(m) PROVE MailInv'
  <2>1. UNCHANGED <<dirVars, held, letter, flying, inbox, batching, batch>>
    BY <1>3 DEF Store, wire, fetch
  <2>. QED  BY <1>2, <2>1, MailRest
<1>4. ASSUME NEW c \in Conns, RequestOffline(c) PROVE MailInv'
  <2>1. UNCHANGED <<dirVars, held, letter, flying, inbox>>
    BY <1>4 DEF RequestOffline, wire
  <2>2. /\ batching' = batching \cup {c}
        /\ batch' = [batch EXCEPT ![c] = RowsFor(uin[c])]
    BY <1>4 DEF RequestOffline
  <2>3. \A d \in Conns : \A n \in batch'[d] : d \in batching' /\ letter[n].to = uin[d]
    BY <1>1, <1>2, <2>2 DEF MailTypeOK, RowsFor
  <2>. QED  BY <2>1, <2>3, MailRest
<1>5. ASSUME NEW c \in Conns, FinishBatch(c) PROVE MailInv'
  <2>1. UNCHANGED <<dirVars, held, letter, flying, inbox, batch>>
        /\ batching' = batching \ {c} /\ batch[c] = {}
    BY <1>5 DEF FinishBatch, wire
  <2>. QED  BY <1>2, <2>1, MailRest
<1>6. ASSUME NEW c \in Conns, RequestAgain(c) \/ AckOffline(c) PROVE MailInv'
  <2>1. UNCHANGED <<dirVars, held, letter, flying, inbox, batching, batch>>
    BY <1>6 DEF RequestAgain, AckOffline, wire
  <2>. QED  BY <1>2, <2>1, MailRest
<1>7. CASE UNCHANGED vars \/ AllGone
  <2>1. UNCHANGED <<dirVars, held, letter, flying, inbox, batching, batch>>
    BY <1>7 DEF AllGone, vars, mailboxVars, wire, fetch
  <2>. QED  BY <1>2, <2>1, MailRest
<1>. QED
  BY <1>3, <1>4, <1>5, <1>6, <1>7, MailSession, MailSend, MailDeliver, MailSendBatch
  DEF Next, Offline

LEMMA MailInvariant == Spec => [](TypeInv /\ MailInv)
<1>1. Init => MailInv
  BY DEF Init, MailboxInit, MailInv
<1>. QED  BY <1>1, TypeInit, TypeNext, MailNext, PTL DEF Spec

\* Nobody is sent a message that was addressed to a UIN its connection never
\* signed on as.
THEOREM NobodyReadsAnothersMail == Spec => []NoCrossDelivery
<1>1. TypeInv /\ MailInv => NoCrossDelivery
  BY DEF MailInv, NoCrossDelivery, Received, Proper
<1>. QED  BY <1>1, MailInvariant, PTL

\* No message is shown as written by a UIN its sender's connection never signed on
\* as, and one from the store by nobody but its writer.
THEOREM SendersAreGenuine == Spec => []SenderIdentity
<1>1. TypeInv /\ MailInv => SenderIdentity
  BY DEF MailInv, SenderIdentity, Received, Proper, Departed
<1>. QED  BY <1>1, MailInvariant, PTL

----------------------------------------------------------------------------
(* The order of the offline messages.                                      *)

\* Row ids grow and are not shared.
IdInv ==
  /\ \A m \in Msgs : rowId[m] <= lastId
  /\ \A m, n \in Msgs : rowId[m] = rowId[n] /\ rowId[m] # 0 => m = n

\* What c got from the store comes from its one batch, and is older than what
\* the batch still holds.
FromBatch(c, i) ==
  ~inbox[c][i].live =>
    /\ c \in batching \/ offlineDelivered[c]
    /\ rowId[inbox[c][i].msg] # 0
    /\ \A m \in batch[c] : rowId[inbox[c][i].msg] < rowId[m]

OrderInv ==
  /\ IdInv
  /\ \A c \in batching : ~offlineDelivered[c]
  /\ \A c \in Conns : \A i \in DOMAIN inbox[c] : FromBatch(c, i)
  /\ OfflineInOrder

\* Storing a message gives it a new id and leaves all others theirs.
LEMMA OrderStore ==
  ASSUME TypeInv, OrderInv, NEW m \in Msgs, Store(m)
  PROVE  OrderInv'
<1>1. MailTypeOK /\ SentInv  BY DEF TypeInv, TypeOK, MailTypeOK
<1>2. /\ UNCHANGED <<inbox, batching, batch, offlineDelivered>>
      /\ rowId' = [rowId EXCEPT ![m] = lastId + 1] /\ lastId' = lastId + 1
      /\ rowId[m] = 0
  BY <1>1 DEF Store, wire, fetch, SentInv
<1>3. rowId \in [Msgs -> Nat] /\ lastId \in Nat  BY <1>1 DEF MailTypeOK
<1>4. \A n \in Msgs : rowId[n] # 0 => rowId'[n] = rowId[n]  BY <1>2, <1>3
<1>5. IdInv'  BY <1>2, <1>3 DEF OrderInv, IdInv
<1>6. ASSUME NEW c \in Conns, NEW i \in DOMAIN inbox[c], ~inbox[c][i].live
      PROVE  /\ rowId'[inbox[c][i].msg] = rowId[inbox[c][i].msg]
             /\ FromBatch(c, i) /\ rowId[inbox[c][i].msg] # 0
  <2>1. inbox[c][i].msg \in Msgs  BY <1>1, InboxPiece DEF MailTypeOK
  <2>2. FromBatch(c, i)  BY DEF OrderInv
  <2>. QED  BY <1>4, <1>6, <2>1, <2>2 DEF FromBatch
<1>7. \A c \in Conns : \A n \in batch[c] : rowId'[n] = rowId[n]
  BY <1>1, <1>4 DEF MailTypeOK, SentInv
<1>8. \A c \in Conns : \A i \in DOMAIN inbox'[c] : FromBatch(c, i)'
  BY <1>2, <1>6, <1>7 DEF FromBatch
<1>9. OfflineInOrder'
  BY <1>2, <1>6 DEF OfflineInOrder, OrderInv
<1>. QED  BY <1>2, <1>5, <1>8, <1>9 DEF OrderInv

\* A write of a live message, or of the next row of the batch, keeps the order.
LEMMA OrderWrite ==
  ASSUME TypeInv, OrderInv, UNCHANGED <<rowId, lastId, batching, offlineDelivered>>,
         NEW c \in Conns, NEW m \in Msgs, NEW from \in Uins \cup {NoUin},
         NEW live \in BOOLEAN, Write(c, m, from, live),
         \A d \in Conns : batch'[d] \subseteq batch[d],
         ~live => /\ c \in batching /\ rowId[m] # 0 /\ m \in batch[c]
                  /\ \A n \in batch'[c] : rowId[m] < rowId[n]
  PROVE  OrderInv'
<1>1. MailTypeOK  BY DEF TypeInv, TypeOK, MailTypeOK
<1>2. /\ inbox' \in [Conns -> Seq(Pieces)]
      /\ \A d \in Conns \ {c} : inbox'[d] = inbox[d]
      /\ \/ inbox' = inbox
         \/ /\ Len(inbox[c]) \in Nat
            /\ DOMAIN inbox[c] = 1..Len(inbox[c])
            /\ DOMAIN inbox'[c] = 1..(Len(inbox[c]) + 1)
            /\ \A i \in 1..Len(inbox[c]) : inbox'[c][i] = inbox[c][i]
            /\ inbox'[c][Len(inbox[c]) + 1] = Piece(m, from, live)
  BY <1>1, Written DEF MailTypeOK
<1>3. Piece(m, from, live).msg = m /\ Piece(m, from, live).live = live
  BY DEF Piece
<1>4. ASSUME NEW d \in Conns, NEW i \in DOMAIN inbox'[d]
      PROVE  \/ i \in DOMAIN inbox[d] /\ inbox'[d][i] = inbox[d][i]
             \/ /\ d = c /\ inbox'[d][i] = Piece(m, from, live)
                /\ i = Len(inbox[c]) + 1 /\ Len(inbox[c]) \in Nat
                /\ DOMAIN inbox[c] = 1..Len(inbox[c])
                /\ DOMAIN inbox'[c] = 1..(Len(inbox[c]) + 1)
  <2>1. CASE inbox' = inbox \/ d # c  BY <1>2, <2>1
  <2>2. CASE inbox' # inbox /\ d = c
    <3>1. i \in 1..Len(inbox[c]) \/ i = Len(inbox[c]) + 1  BY <1>2, <2>2
    <3>. QED  BY <1>2, <2>2, <3>1
  <2>. QED  BY <2>1, <2>2
<1>5. ASSUME NEW d \in Conns, NEW i \in DOMAIN inbox'[d] PROVE FromBatch(d, i)'
  <2>1. CASE i \in DOMAIN inbox[d] /\ inbox'[d][i] = inbox[d][i]
    BY <2>1 DEF OrderInv, FromBatch
  <2>2. CASE d = c /\ inbox'[d][i] = Piece(m, from, live)
    BY <1>3, <2>2 DEF FromBatch
  <2>. QED  BY <1>4, <2>1, <2>2
<1>6. ASSUME NEW d \in Conns, NEW i \in DOMAIN inbox'[d], NEW j \in DOMAIN inbox'[d],
             i < j, ~inbox'[d][i].live, ~inbox'[d][j].live
      PROVE  rowId'[inbox'[d][i].msg] < rowId'[inbox'[d][j].msg]
  <2>1. CASE /\ i \in DOMAIN inbox[d] /\ inbox'[d][i] = inbox[d][i]
             /\ j \in DOMAIN inbox[d] /\ inbox'[d][j] = inbox[d][j]
    BY <1>6, <2>1 DEF OrderInv, OfflineInOrder
  <2>2. CASE /\ i \in DOMAIN inbox[d] /\ inbox'[d][i] = inbox[d][i]
             /\ d = c /\ inbox'[d][j] = Piece(m, from, live)
    <3>1. FromBatch(d, i)  BY <2>2 DEF OrderInv
    <3>2. ~live /\ m \in batch[c] /\ inbox'[d][j].msg = m  BY <1>3, <1>6, <2>2
    <3>. QED  BY <1>6, <2>2, <3>1, <3>2 DEF FromBatch
  <2>3. CASE i = Len(inbox[c]) + 1 /\ Len(inbox[c]) \in Nat /\ d = c
             /\ DOMAIN inbox'[c] = 1..(Len(inbox[c]) + 1)
    BY <1>6, <2>3
  <2>. QED  BY <1>4, <2>1, <2>2, <2>3
<1>7. OfflineInOrder'  BY <1>6 DEF OfflineInOrder
<1>8. IdInv'  BY DEF OrderInv, IdInv
<1>. QED  BY <1>5, <1>7, <1>8 DEF OrderInv

\* A first request: the inbox holds nothing from the store yet.
LEMMA OrderRequest ==
  ASSUME TypeInv, OrderInv, NEW c \in Conns, RequestOffline(c)
  PROVE  OrderInv'
<1>1. MailTypeOK  BY DEF TypeInv, TypeOK, MailTypeOK
<1>2. /\ UNCHANGED <<inbox, rowId, lastId, offlineDelivered>>
      /\ batching' = batching \cup {c}
      /\ batch' = [batch EXCEPT ![c] = RowsFor(uin[c])]
      /\ ~offlineDelivered[c] /\ c \notin batching
  BY DEF RequestOffline, wire, store, Serving, Busy
<1>3. ASSUME NEW d \in Conns, NEW i \in DOMAIN inbox[d] PROVE FromBatch(d, i)'
  <2>1. FromBatch(d, i)  BY DEF OrderInv
  <2>2. CASE d = c  BY <1>2, <2>1, <2>2 DEF FromBatch
  <2>3. CASE d # c
    <3>1. batch'[d] = batch[d]  BY <1>1, <1>2, <2>3 DEF MailTypeOK
    <3>. QED  BY <1>2, <2>1, <2>3, <3>1 DEF FromBatch
  <2>. QED  BY <2>2, <2>3
<1>4. IdInv' /\ OfflineInOrder'  BY <1>2 DEF OrderInv, IdInv, OfflineInOrder
<1>. QED  BY <1>2, <1>3, <1>4 DEF OrderInv

\* The end of a batch: what it brought stays, and no other batch will follow.
LEMMA OrderFinish ==
  ASSUME TypeInv, OrderInv, NEW c \in Conns, FinishBatch(c)
  PROVE  OrderInv'
<1>1. offlineDelivered \in [Conns -> BOOLEAN]  BY DEF TypeInv, TypeOK
<1>2. /\ UNCHANGED <<inbox, rowId, lastId, batch>>
      /\ batching' = batching \ {c}
      /\ offlineDelivered' = [offlineDelivered EXCEPT ![c] = TRUE]
  BY DEF FinishBatch, wire, store
<1>3. \A d \in batching' : ~offlineDelivered'[d]
  BY <1>1, <1>2 DEF OrderInv, TypeInv, TypeOK
<1>4. ASSUME NEW d \in Conns, NEW i \in DOMAIN inbox[d] PROVE FromBatch(d, i)'
  <2>1. FromBatch(d, i)  BY DEF OrderInv
  <2>2. d \in batching \/ offlineDelivered[d] => d \in batching' \/ offlineDelivered'[d]
    BY <1>1, <1>2
  <2>. QED  BY <1>2, <2>1, <2>2 DEF FromBatch
<1>5. IdInv' /\ OfflineInOrder'  BY <1>2 DEF OrderInv, IdInv, OfflineInOrder
<1>. QED  BY <1>2, <1>3, <1>4, <1>5 DEF OrderInv

LEMMA OrderNext == TypeInv /\ MailInv /\ OrderInv /\ [Next]_vars => OrderInv'
<1>. SUFFICES ASSUME TypeInv, MailInv, OrderInv, [Next]_vars PROVE OrderInv'
  OBVIOUS
<1>1. MailTypeOK /\ SentInv  BY DEF TypeInv, TypeOK, MailTypeOK
<1>2. ASSUME UNCHANGED <<inbox, rowId, lastId, batching, batch, offlineDelivered>>
      PROVE  OrderInv'
  BY <1>2 DEF OrderInv, IdInv, FromBatch, OfflineInOrder
<1>3. ASSUME NEW f \in flying, Deliver(f) PROVE OrderInv'
  <2>1. /\ UNCHANGED <<rowId, lastId, batching, batch, offlineDelivered>>
        /\ Write(f.to, f.msg, Sender(f), TRUE)
    BY <1>3 DEF Deliver, store, fetch
  <2>2. f \in Flights /\ letter[f.msg].by \in Conns  BY <1>1 DEF MailTypeOK, SentInv
  <2>3. f.to \in Conns /\ f.msg \in Msgs /\ f.from \in Uins \cup {NoUin}
    BY <2>2 DEF Flights
  <2>4. Sender(f) \in Uins \cup {NoUin}
    BY <2>2, <2>3 DEF Sender, TypeInv, TypeOK, DirTypeOK
  <2>. QED  BY <2>1, <2>3, <2>4, OrderWrite
<1>4. ASSUME NEW c \in Conns, NEW m \in Msgs, SendBatch(c, m) PROVE OrderInv'
  <2>1. /\ UNCHANGED <<rowId, lastId, batching, offlineDelivered>>
        /\ batch' = [batch EXCEPT ![c] = batch[c] \ {m}]
        /\ m \in batch[c] /\ c \in batching
        /\ \A n \in batch[c] : rowId[m] <= rowId[n]
        /\ Write(c, m, letter[m].from, FALSE)
    BY <1>4 DEF SendBatch, NextRow, store
  <2>2. /\ batch \in [Conns -> SUBSET Msgs] /\ rowId \in [Msgs -> Nat]
        /\ letter[m] \in Letters
    BY <1>1 DEF MailTypeOK
  <2>3. letter[m].from \in Uins \cup {NoUin}  BY <2>2 DEF Letters
  <2>4. rowId[m] # 0  BY <1>1, <2>1 DEF SentInv
  <2>5. \A n \in batch'[c] : rowId[m] < rowId[n]
    BY <2>1, <2>2, <2>4 DEF OrderInv, IdInv
  <2>6. \A d \in Conns : batch'[d] \subseteq batch[d]  BY <2>1, <2>2
  <2>. QED  BY <2>1, <2>3, <2>4, <2>5, <2>6, OrderWrite
<1>5. ASSUME NEW c \in Conns, SessionStep(c) \/ RequestAgain(c) \/ AckOffline(c)
      PROVE  OrderInv'
  BY <1>2, <1>5 DEF SessionStep, RequestAgain, AckOffline, mailboxVars, wire, store, fetch
<1>6. ASSUME NEW c \in Conns, NEW m \in Msgs, NEW u \in Addressees, Send(c, m, u)
      PROVE  OrderInv'
  BY <1>2, <1>6 DEF Send, SendLive, SendAbsent, SendDropped, Relay, store, fetch
<1>7. CASE UNCHANGED vars \/ AllGone
  BY <1>2, <1>7 DEF AllGone, vars, mailboxVars, wire, store, fetch
<1>. QED
  BY <1>3, <1>4, <1>5, <1>6, <1>7, OrderStore, OrderRequest, OrderFinish
  DEF Next, Offline

\* Offline messages reach a client in the order they were stored, each once,
\* whatever is stored, acknowledged and asked for again in the meantime.
THEOREM OfflineOrderKept == Spec => []OfflineInOrder
<1>1. Init => MailInv /\ OrderInv
  BY DEF Init, MailboxInit, MailInv, OrderInv, IdInv, OfflineInOrder
<1>2. OrderInv => OfflineInOrder  BY DEF OrderInv
<1>. QED  BY <1>1, <1>2, TypeInit, TypeNext, MailNext, OrderNext, PTL DEF Spec

----------------------------------------------------------------------------
(* Each message goes one way: the refinement of Mailbox.                   *)

Underway(m) == m \in storing \/ \E f \in flying : f.msg = m

\* A message is with one handler or one delivery at most, and before it got a row
\* and before it reached anybody; what has a row was handed to nobody.
WayInv ==
  /\ \A f, g \in flying : f.msg = g.msg => f = g
  /\ \A f \in flying : f.msg \notin storing
  /\ \A m \in Msgs : Underway(m) => rowId[m] = 0 /\ HandedTo(m) = {}
  /\ \A m \in Msgs : rowId[m] # 0 => HandedTo(m) = {}

MailboxInv == TypeInv /\ MailInv /\ OrderInv /\ WayInv

\* Who was shown a message was shown a row, and not one its batch still holds.
LEMMA ShownRows ==
  ASSUME TypeInv, OrderInv, NEW m \in Msgs
  PROVE  /\ ShownTo(m) # {} => rowId[m] # 0
         /\ \A c \in Conns : m \in batch[c] => c \notin ShownTo(m)
<1>1. \A c \in Conns : \A i \in DOMAIN inbox[c] : FromBatch(c, i)  BY DEF OrderInv
<1>2. rowId[m] \in Nat  BY DEF TypeInv, TypeOK
<1>3. ASSUME NEW c \in ShownTo(m) PROVE rowId[m] # 0 /\ m \notin batch[c]
  <2>1. PICK i \in DOMAIN inbox[c] : inbox[c][i].msg = m /\ ~inbox[c][i].live
    BY DEF ShownTo, Received
  <2>. QED  BY <1>1, <1>2, <2>1 DEF FromBatch, ShownTo
<1>. QED  BY <1>3

\* Where in the inbox of c the copies of m are.
Places(m, c, live) == {i \in DOMAIN inbox[c] : inbox[c][i].msg = m /\ inbox[c][i].live = live}

\* Who was sent nothing of m has no copy of it.
LEMMA NoPlaces ==
  ASSUME inbox \in [Conns -> Seq(Pieces)], NEW m \in Msgs, NEW c \in Conns
  PROVE  /\ c \notin HandedTo(m) => Places(m, c, TRUE) = {}
         /\ c \notin ShownTo(m) => Places(m, c, FALSE) = {}
<1>1. \A i \in DOMAIN inbox[c] : inbox[c][i] \in Received(c)  BY DEF Received
<1>. QED  BY <1>1 DEF Places, HandedTo, ShownTo

\* What a write does to who got which message, and how, and how often.
LEMMA Reached ==
  ASSUME inbox \in [Conns -> Seq(Pieces)], NEW c \in Conns,
         NEW m \in Msgs, NEW from \in Uins \cup {NoUin}, NEW live \in BOOLEAN,
         Write(c, m, from, live)
  PROVE  \/ inbox' = inbox
         \/ /\ \A n \in Msgs \ {m} : HandedTo(n)' = HandedTo(n) /\ ShownTo(n)' = ShownTo(n)
            /\ HandedTo(m)' = IF live THEN HandedTo(m) \cup {c} ELSE HandedTo(m)
            /\ ShownTo(m)' = IF live THEN ShownTo(m) ELSE ShownTo(m) \cup {c}
            /\ \A n \in Msgs, d \in Conns, l \in BOOLEAN :
                 n # m \/ d # c \/ l # live => TimesSent(n, d, l)' = TimesSent(n, d, l)
            /\ Places(m, c, live) = {} => TimesSent(m, c, live)' = TimesSent(m, c, live) + 1
<1>1. /\ inbox' \in [Conns -> Seq(Pieces)]
      /\ \A d \in Conns \ {c} : inbox'[d] = inbox[d]
      /\ \/ inbox' = inbox
         \/ /\ Len(inbox[c]) \in Nat
            /\ DOMAIN inbox[c] = 1..Len(inbox[c])
            /\ DOMAIN inbox'[c] = 1..(Len(inbox[c]) + 1)
            /\ \A i \in 1..Len(inbox[c]) : inbox'[c][i] = inbox[c][i]
            /\ inbox'[c][Len(inbox[c]) + 1] = Piece(m, from, live)
  BY Written
<1>. DEFINE p == Piece(m, from, live)
<1>2. p.msg = m /\ p.live = live /\ p = Piece(m, from, live)  BY DEF Piece
<1>. HIDE DEF p
<1>3. CASE inbox' = inbox
  BY <1>3
<1>4. CASE inbox' # inbox
  <2>1. \A d \in Conns \ {c} : Received(d)' = Received(d)  BY <1>1 DEF Received
  <2>2. Received(c)' = Received(c) \cup {p}
    <3>1. ASSUME NEW i \in DOMAIN inbox'[c] PROVE inbox'[c][i] \in Received(c) \cup {p}
      <4>1. i \in 1..Len(inbox[c]) \/ i = Len(inbox[c]) + 1  BY <1>1, <1>4
      <4>. QED  BY <1>1, <1>2, <1>4, <4>1 DEF Received
    <3>2. ASSUME NEW i \in DOMAIN inbox[c] PROVE inbox[c][i] \in Received(c)'
      <4>1. i \in 1..Len(inbox[c]) /\ Len(inbox[c]) \in Nat  BY <1>1, <1>4
      <4>2. i \in 1..(Len(inbox[c]) + 1)  BY <4>1
      <4>3. i \in DOMAIN inbox'[c] /\ inbox'[c][i] = inbox[c][i]  BY <1>1, <1>4, <4>1, <4>2
      <4>. QED  BY <4>3 DEF Received
    <3>3. p \in Received(c)'
      <4>1. Len(inbox[c]) + 1 \in DOMAIN inbox'[c]  BY <1>1, <1>4
      <4>. QED  BY <1>1, <1>2, <1>4, <4>1 DEF Received
    <3>4. Received(c)' \subseteq Received(c) \cup {p}  BY <3>1 DEF Received
    <3>5. Received(c) \subseteq Received(c)'  BY <3>2 DEF Received
    <3>. QED  BY <3>3, <3>4, <3>5
  <2>3. ASSUME NEW n \in Msgs, NEW d \in Conns
        PROVE  /\ d \in HandedTo(n)' <=> d \in HandedTo(n) \/ (d = c /\ n = m /\ live)
               /\ d \in ShownTo(n)' <=> d \in ShownTo(n) \/ (d = c /\ n = m /\ ~live)
    <3>1. CASE d # c  BY <2>1, <3>1 DEF HandedTo, ShownTo
    <3>2. CASE d = c  BY <1>2, <2>2, <3>2 DEF HandedTo, ShownTo
    <3>. QED  BY <3>1, <3>2
  <2>4. \A n \in Msgs : /\ HandedTo(n) \subseteq Conns /\ HandedTo(n)' \subseteq Conns
                        /\ ShownTo(n) \subseteq Conns /\ ShownTo(n)' \subseteq Conns
    BY DEF HandedTo, ShownTo
  <2>5. \A n \in Msgs \ {m} : HandedTo(n)' = HandedTo(n) /\ ShownTo(n)' = ShownTo(n)
    BY <2>3, <2>4
  <2>6. HandedTo(m)' = IF live THEN HandedTo(m) \cup {c} ELSE HandedTo(m)
    BY <2>3, <2>4
  <2>7. ShownTo(m)' = IF live THEN ShownTo(m) ELSE ShownTo(m) \cup {c}
    BY <2>3, <2>4
  <2>. DEFINE k == Len(inbox[c]) + 1
  <2>8. /\ \A d \in Conns \ {c} : \A n, l : Places(n, d, l)' = Places(n, d, l)
        /\ \A n, l : n # m \/ l # live => Places(n, c, l)' = Places(n, c, l)
        /\ Places(m, c, live)' = Places(m, c, live) \cup {k}
    <3>1. /\ k \in Nat /\ DOMAIN inbox[c] = 1..Len(inbox[c]) /\ Len(inbox[c]) \in Nat
          /\ DOMAIN inbox'[c] = DOMAIN inbox[c] \cup {k}
          /\ \A i \in DOMAIN inbox[c] : inbox'[c][i] = inbox[c][i]
          /\ inbox'[c][k].msg = m /\ inbox'[c][k].live = live
      <4>1. /\ Len(inbox[c]) \in Nat /\ DOMAIN inbox[c] = 1..Len(inbox[c])
            /\ DOMAIN inbox'[c] = 1..(Len(inbox[c]) + 1)
            /\ \A i \in 1..Len(inbox[c]) : inbox'[c][i] = inbox[c][i]
            /\ inbox'[c][k] = p
        BY <1>1, <1>2, <1>4
      <4>2. 1..(Len(inbox[c]) + 1) = 1..Len(inbox[c]) \cup {Len(inbox[c]) + 1}  BY <4>1
      <4>. QED  BY <1>2, <4>1, <4>2
    <3>. HIDE DEF k
    <3>2. \A d \in Conns \ {c} : inbox'[d] = inbox[d]  BY <1>1
    <3>. QED  BY <3>1, <3>2 DEF Places
  <2>9. \A n, d, l : /\ TimesSent(n, d, l) = Cardinality(Places(n, d, l))
                     /\ TimesSent(n, d, l)' = Cardinality(Places(n, d, l)')
    BY DEF TimesSent, Places
  <2>10. Places(m, c, live) = {} => TimesSent(m, c, live)' = TimesSent(m, c, live) + 1
    <3>1. Cardinality({}) = 0 /\ Cardinality({k}) = 1  BY FS_EmptySet, FS_Singleton
    <3>. HIDE DEF k
    <3>2. Places(m, c, live) = {} => Places(m, c, live)' = {k}  BY <2>8
    <3>3. /\ TimesSent(m, c, live) = Cardinality(Places(m, c, live))
          /\ TimesSent(m, c, live)' = Cardinality(Places(m, c, live)')
      BY <2>9
    <3>4. ASSUME Places(m, c, live) = {}
          PROVE  TimesSent(m, c, live) = 0 /\ TimesSent(m, c, live)' = 1
      BY <3>1, <3>2, <3>3, <3>4
    <3>. QED  BY <3>4
  <2>11. ASSUME NEW n \in Msgs, NEW d \in Conns, NEW l \in BOOLEAN, n # m \/ d # c \/ l # live
         PROVE  TimesSent(n, d, l)' = TimesSent(n, d, l)
    BY <2>8, <2>9, <2>11
  <2>. QED  BY <2>5, <2>6, <2>7, <2>10, <2>11
<1>. QED  BY <1>3, <1>4

\* PhaseOf in terms of Underway.
LEMMA PhaseCases ==
  ASSUME NEW m \in Msgs
  PROVE  /\ letter[m] = Unsent => PhaseOf(m) = "unsent"
         /\ letter[m] # Unsent /\ Underway(m) => PhaseOf(m) = "carried"
         /\ letter[m] # Unsent /\ ~Underway(m) /\ m \in table => PhaseOf(m) = "kept"
         /\ letter[m] # Unsent /\ ~Underway(m) /\ m \notin table /\ rowId[m] # 0
              => PhaseOf(m) = "purged"
         /\ letter[m] # Unsent /\ ~Underway(m) /\ m \notin table /\ rowId[m] = 0
              => PhaseOf(m) = IF HandedTo(m) # {} THEN "handed" ELSE "lost"
BY DEF PhaseOf, Underway

\* A step that does not concern a message leaves its phase alone.
LEMMA PhaseSame ==
  ASSUME NEW m \in Msgs, letter'[m] = letter[m], Underway(m)' <=> Underway(m),
         m \in table' <=> m \in table, rowId'[m] = rowId[m], HandedTo(m)' = HandedTo(m)
  PROVE  PhaseOf(m)' = PhaseOf(m)
BY DEF PhaseOf, Underway

\* The variables of Mailbox, and a step that changes those of one message.
Phases == [m \in Msgs |-> PhaseOf(m)]
Handed == [m \in Msgs |-> [c \in Conns |-> TimesSent(m, c, TRUE)]]
Shown == [m \in Msgs |-> [c \in Conns |-> TimesSent(m, c, FALSE)]]

\* Without a write nobody got anything.
LEMMA SameInbox ==
  ASSUME inbox' = inbox
  PROVE  /\ \A n : HandedTo(n)' = HandedTo(n) /\ ShownTo(n)' = ShownTo(n)
         /\ UNCHANGED <<Handed, Shown>>
<1>1. \A n : HandedTo(n)' = HandedTo(n) /\ ShownTo(n)' = ShownTo(n)
  BY DEF HandedTo, ShownTo, Received
<1>2. \A n, d, l : TimesSent(n, d, l)' = TimesSent(n, d, l)  BY DEF TimesSent
<1>. QED  BY <1>1, <1>2 DEF Handed, Shown

\* With one, of a message that its reader did not have, one count goes up by one.
LEMMA OneMore ==
  ASSUME NEW m \in Msgs, NEW c \in Conns, NEW live \in BOOLEAN,
         \A n \in Msgs, d \in Conns, l \in BOOLEAN :
            n # m \/ d # c \/ l # live => TimesSent(n, d, l)' = TimesSent(n, d, l),
         TimesSent(m, c, live)' = TimesSent(m, c, live) + 1
  PROVE  /\ live => Shown' = Shown /\ Handed' = [Handed EXCEPT ![m][c] = @ + 1]
         /\ ~live => Handed' = Handed /\ Shown' = [Shown EXCEPT ![m][c] = @ + 1]
<1>1. CASE live = TRUE
  <2>1. \A n \in Msgs, d \in Conns : TimesSent(n, d, FALSE)' = TimesSent(n, d, FALSE)
    BY <1>1
  <2>2. \A n \in Msgs, d \in Conns :
          TimesSent(n, d, TRUE)'
            = IF n = m /\ d = c THEN TimesSent(n, d, TRUE) + 1 ELSE TimesSent(n, d, TRUE)
    BY <1>1
  <2>3. Shown' = Shown  BY <2>1 DEF Shown
  <2>4. Handed' = [Handed EXCEPT ![m][c] = @ + 1]  BY <2>2 DEF Handed
  <2>. QED  BY <1>1, <2>3, <2>4
<1>2. CASE live = FALSE
  <2>1. \A n \in Msgs, d \in Conns : TimesSent(n, d, TRUE)' = TimesSent(n, d, TRUE)
    BY <1>2
  <2>2. \A n \in Msgs, d \in Conns :
          TimesSent(n, d, FALSE)'
            = IF n = m /\ d = c THEN TimesSent(n, d, FALSE) + 1 ELSE TimesSent(n, d, FALSE)
    BY <1>2
  <2>3. Handed' = Handed  BY <2>1 DEF Handed
  <2>4. Shown' = [Shown EXCEPT ![m][c] = @ + 1]  BY <2>2 DEF Shown
  <2>. QED  BY <1>2, <2>3, <2>4
<1>. QED  BY <1>1, <1>2

LEMMA OneMessage ==
  ASSUME NEW m \in Msgs,
         \A n \in Msgs \ {m} : PhaseOf(n)' = PhaseOf(n)
  PROVE  Phases' = [Phases EXCEPT ![m] = PhaseOf(m)']
<1>1. ASSUME NEW n \in Msgs PROVE PhaseOf(n)' = [Phases EXCEPT ![m] = PhaseOf(m)'][n]
  BY <1>1 DEF Phases
<1>2. Phases' = [n \in Msgs |-> PhaseOf(n)']  BY DEF Phases
<1>3. [Phases EXCEPT ![m] = PhaseOf(m)'] = [n \in Msgs |-> [Phases EXCEPT ![m] = PhaseOf(m)'][n]]
  BY DEF Phases
<1>. QED  BY <1>1, <1>2, <1>3

\* Steps that neither start nor end the way of a message, nor write to a client.
LEMMA WayQuiet ==
  ASSUME WayInv, UNCHANGED <<storing, flying, rowId, inbox>>
  PROVE  WayInv'
BY SameInbox DEF WayInv, Underway

\* A message that is sent: it was nowhere, and is in one place, or nowhere.
LEMMA WaySend ==
  ASSUME TypeInv, WayInv, NEW c \in Conns, NEW m \in Msgs, NEW u \in Addressees, Send(c, m, u)
  PROVE  /\ WayInv' /\ UNCHANGED <<inbox, table, rowId>>
         /\ \A n \in Msgs \ {m} : letter'[n] = letter[n] /\ (Underway(n)' <=> Underway(n))
         /\ letter[m] = Unsent /\ letter'[m] # Unsent
         /\ rowId[m] = 0 /\ m \notin table /\ HandedTo(m) = {}
<1>1. MailTypeOK /\ SentInv  BY DEF TypeInv, TypeOK, MailTypeOK
<1>2. Compose(c, m, u) /\ UNCHANGED <<inbox, table, rowId>>
  BY DEF Send, SendLive, SendAbsent, SendDropped, Relay, store
<1>3. /\ letter \in [Msgs -> Letters]
      /\ letter[m] = Unsent /\ letter'[m] # Unsent
      /\ \A n \in Msgs \ {m} : letter'[n] = letter[n]
  <2>1. letter' = [letter EXCEPT ![m] = [by |-> c, from |-> uin[c], to |-> u]]
        /\ letter[m] = Unsent
    BY <1>2 DEF Compose
  <2>2. c # NoConn  BY DirectoryAssumption
  <2>. QED  BY <1>1, <2>1, <2>2 DEF MailTypeOK, Unsent
<1>4. m \notin Posted  BY <1>3 DEF Posted
<1>5. /\ rowId[m] = 0 /\ m \notin table /\ ~Underway(m)
      /\ \A d \in Conns : \A i \in DOMAIN inbox[d] : inbox[d][i].msg # m
  BY <1>1, <1>4 DEF SentInv, Underway, MailTypeOK
<1>6. HandedTo(m) = {}  BY <1>5 DEF HandedTo, Received
<1>7. \A n \in Msgs : HandedTo(n)' = HandedTo(n)  BY <1>2, SameInbox
<1>8. \/ storing' = storing /\ flying' = flying
      \/ storing' = storing \cup {m} /\ flying' = flying
      \/ storing' = storing /\ \E f : f.msg = m /\ flying' = flying \cup {f}
  <2>1. ASSUME NEW from, Spawn(c, m, sessions[u], from)
        PROVE  flying' = flying \/ \E f : f.msg = m /\ flying' = flying \cup {f}
    <3>1. [msg |-> m, to |-> sessions[u], from |-> from].msg = m  OBVIOUS
    <3>. QED  BY <2>1, <3>1 DEF Spawn
  <2>2. CASE SendLive(c, m, u)  BY <2>1, <2>2 DEF SendLive, store
  <2>3. CASE Relay(c, m, u)  BY <2>1, <2>3 DEF Relay, store
  <2>4. CASE SendAbsent(c, m, u)  BY <2>4 DEF SendAbsent
  <2>5. CASE SendDropped(c, m, u)  BY <2>5 DEF SendDropped, store
  <2>. QED  BY <2>2, <2>3, <2>4, <2>5 DEF Send
<1>9. \A n \in Msgs \ {m} : Underway(n)' <=> Underway(n)
  BY <1>8 DEF Underway
<1>10. \A f \in flying : f.msg # m  BY <1>5 DEF Underway
<1>11. m \notin storing  BY <1>5 DEF Underway
<1>12. (\A f, g \in flying' : f.msg = g.msg => f = g) /\ \A f \in flying' : f.msg \notin storing'
  BY <1>8, <1>10, <1>11 DEF WayInv
<1>13. \A n \in Msgs : Underway(n)' => rowId'[n] = 0 /\ HandedTo(n)' = {}
  BY <1>2, <1>5, <1>6, <1>7, <1>9 DEF WayInv
<1>14. WayInv'  BY <1>2, <1>7, <1>12, <1>13 DEF WayInv
<1>. QED  BY <1>2, <1>3, <1>5, <1>6, <1>7, <1>9, <1>14

LEMMA WayStore ==
  ASSUME TypeInv, WayInv, NEW m \in Msgs, Store(m)
  PROVE  /\ WayInv' /\ UNCHANGED <<inbox, letter>>
         /\ \A n \in Msgs \ {m} : /\ Underway(n)' <=> Underway(n)
                                  /\ (n \in table' <=> n \in table) /\ rowId'[n] = rowId[n]
         /\ Underway(m) /\ ~Underway(m)' /\ m \in table'
<1>1. /\ m \in storing /\ storing' = storing \ {m} /\ table' = table \cup {m}
      /\ rowId' = [rowId EXCEPT ![m] = lastId + 1] /\ rowId \in [Msgs -> Nat]
      /\ UNCHANGED <<letter, flying, inbox>>
  BY DEF Store, wire, TypeInv, TypeOK
<1>2. \A n \in Msgs : HandedTo(n)' = HandedTo(n)  BY <1>1, SameInbox
<1>3. \A n \in Msgs \ {m} : /\ Underway(n)' <=> Underway(n)
                            /\ (n \in table' <=> n \in table) /\ rowId'[n] = rowId[n]
  BY <1>1 DEF Underway
<1>4. Underway(m) /\ ~Underway(m)'  BY <1>1 DEF Underway, WayInv
<1>5. HandedTo(m) = {}  BY <1>4 DEF WayInv
<1>6. \A n \in Msgs : Underway(n)' => rowId'[n] = 0 /\ HandedTo(n)' = {}
  BY <1>2, <1>3, <1>4 DEF WayInv
<1>7. \A n \in Msgs : rowId'[n] # 0 => HandedTo(n)' = {}
  BY <1>2, <1>3, <1>5 DEF WayInv
<1>8. WayInv'  BY <1>1, <1>6, <1>7 DEF WayInv
<1>. QED  BY <1>1, <1>2, <1>3, <1>4, <1>8

\* A delivery runs: the message reaches its session, or nobody any more.
LEMMA WayDeliver ==
  ASSUME TypeInv, WayInv, NEW f \in flying, Deliver(f)
  PROVE  /\ WayInv' /\ UNCHANGED <<Shown, letter, table, rowId>>
         /\ f.msg \in Msgs /\ f.to \in Conns
         /\ \A n \in Msgs \ {f.msg} : (Underway(n)' <=> Underway(n)) /\ HandedTo(n)' = HandedTo(n)
         /\ Underway(f.msg) /\ ~Underway(f.msg)'
         /\ rowId[f.msg] = 0 /\ f.msg \notin table /\ HandedTo(f.msg) = {}
         /\ \/ HandedTo(f.msg)' = {} /\ Handed' = Handed
            \/ HandedTo(f.msg)' = {f.to} /\ Handed' = [Handed EXCEPT ![f.msg][f.to] = @ + 1]
<1>1. MailTypeOK /\ SentInv  BY DEF TypeInv, TypeOK, MailTypeOK
<1>2. /\ flying' = flying \ {f} /\ UNCHANGED <<storing, letter, table, rowId>>
      /\ Write(f.to, f.msg, Sender(f), TRUE)
  BY DEF Deliver, store
<1>3. f \in Flights /\ f.msg \in Posted  BY <1>1 DEF MailTypeOK, SentInv
<1>4. f.to \in Conns /\ f.msg \in Msgs /\ f.from \in Uins \cup {NoUin} /\ letter[f.msg].by \in Conns
  BY <1>1, <1>3 DEF Flights, SentInv
<1>5. Sender(f) \in Uins \cup {NoUin}
  BY <1>4 DEF Sender, TypeInv, TypeOK, DirTypeOK
<1>6. Underway(f.msg) /\ ~Underway(f.msg)'
  BY <1>2 DEF Underway, WayInv
<1>7. rowId[f.msg] = 0 /\ HandedTo(f.msg) = {} /\ f.msg \notin table
  BY <1>1, <1>4, <1>6 DEF WayInv, SentInv
<1>8. /\ \A n \in Msgs \ {f.msg} : HandedTo(n)' = HandedTo(n)
      /\ Shown' = Shown
      /\ \/ HandedTo(f.msg)' = {} /\ Handed' = Handed
         \/ HandedTo(f.msg)' = {f.to} /\ Handed' = [Handed EXCEPT ![f.msg][f.to] = @ + 1]
  <2>1. CASE inbox' = inbox  BY <1>7, <2>1, SameInbox
  <2>2. CASE inbox' # inbox
    <3>1. Places(f.msg, f.to, TRUE) = {}  BY <1>1, <1>4, <1>7, NoPlaces DEF MailTypeOK
    <3>2. /\ \A n \in Msgs \ {f.msg} : HandedTo(n)' = HandedTo(n)
          /\ HandedTo(f.msg)' = HandedTo(f.msg) \cup {f.to}
          /\ \A n \in Msgs, d \in Conns, l \in BOOLEAN :
               n # f.msg \/ d # f.to \/ l # TRUE => TimesSent(n, d, l)' = TimesSent(n, d, l)
          /\ TimesSent(f.msg, f.to, TRUE)' = TimesSent(f.msg, f.to, TRUE) + 1
      BY <1>1, <1>2, <1>4, <1>5, <2>2, <3>1, Reached DEF MailTypeOK
    <3>3. Shown' = Shown /\ Handed' = [Handed EXCEPT ![f.msg][f.to] = @ + 1]
      BY <1>4, <3>2, OneMore
    <3>. QED  BY <1>7, <3>2, <3>3
  <2>. QED  BY <2>1, <2>2
<1>9. \A n \in Msgs \ {f.msg} : Underway(n)' <=> Underway(n)
  BY <1>2 DEF Underway
<1>10. WayInv'
  BY <1>2, <1>6, <1>7, <1>8, <1>9 DEF WayInv
<1>. QED  BY <1>2, <1>4, <1>6, <1>7, <1>8, <1>9, <1>10

\* A row of a batch is sent: it is shown to the session, which had not seen it.
LEMMA WaySendBatch ==
  ASSUME TypeInv, OrderInv, WayInv, NEW c \in Conns, NEW m \in Msgs, SendBatch(c, m)
  PROVE  /\ WayInv' /\ UNCHANGED <<Handed, letter, storing, flying, table, rowId>>
         /\ \A n \in Msgs : HandedTo(n)' = HandedTo(n)
         /\ Shown' = Shown \/ Shown' = [Shown EXCEPT ![m][c] = @ + 1]
         /\ rowId[m] # 0 /\ m \in Posted /\ ~Underway(m) /\ TimesSent(m, c, FALSE) = 0
<1>1. MailTypeOK /\ SentInv  BY DEF TypeInv, TypeOK, MailTypeOK
<1>2. /\ UNCHANGED <<letter, storing, flying, table, rowId>> /\ m \in batch[c]
      /\ Write(c, m, letter[m].from, FALSE)
  BY DEF SendBatch, NextRow, store
<1>3. rowId[m] # 0 /\ m \in Posted  BY <1>1, <1>2 DEF SentInv
<1>4. letter[m].from \in Uins \cup {NoUin}  BY <1>1 DEF MailTypeOK, Letters
<1>5. Places(m, c, FALSE) = {}  BY <1>1, <1>2, ShownRows, NoPlaces DEF MailTypeOK
<1>6. /\ \A n \in Msgs : HandedTo(n)' = HandedTo(n)
      /\ Handed' = Handed
      /\ Shown' = Shown \/ Shown' = [Shown EXCEPT ![m][c] = @ + 1]
  <2>1. CASE inbox' = inbox  BY <2>1, SameInbox
  <2>2. CASE inbox' # inbox
    <3>1. /\ \A n \in Msgs : HandedTo(n)' = HandedTo(n)
          /\ \A n \in Msgs, d \in Conns, l \in BOOLEAN :
               n # m \/ d # c \/ l # FALSE => TimesSent(n, d, l)' = TimesSent(n, d, l)
          /\ TimesSent(m, c, FALSE)' = TimesSent(m, c, FALSE) + 1
      BY <1>1, <1>2, <1>4, <1>5, <2>2, Reached DEF MailTypeOK
    <3>2. Handed' = Handed /\ Shown' = [Shown EXCEPT ![m][c] = @ + 1]
      BY <3>1, OneMore
    <3>. QED  BY <3>1, <3>2
  <2>. QED  BY <2>1, <2>2
<1>7. \A n \in Msgs : Underway(n)' <=> Underway(n)
  BY <1>2 DEF Underway
<1>8. WayInv'  BY <1>2, <1>6, <1>7 DEF WayInv
<1>9. ~Underway(m)  BY <1>3 DEF WayInv
<1>10. TimesSent(m, c, FALSE) = 0
  <2>1. TimesSent(m, c, FALSE) = Cardinality(Places(m, c, FALSE))  BY DEF TimesSent, Places
  <2>. QED  BY <1>5, <2>1, FS_EmptySet
<1>. QED  BY <1>2, <1>3, <1>6, <1>7, <1>8, <1>9, <1>10

LEMMA WayNext ==
  ASSUME TypeInv, OrderInv, WayInv, [Next]_vars
  PROVE  WayInv'
<1>1. ASSUME NEW c \in Conns, SessionStep(c) \/ RequestOffline(c) \/ FinishBatch(c)
                              \/ RequestAgain(c) \/ AckOffline(c)
      PROVE  WayInv'
  <2>1. UNCHANGED <<storing, flying, rowId, inbox>>
    BY <1>1 DEF SessionStep, RequestOffline, FinishBatch, RequestAgain, AckOffline,
                mailboxVars, wire, store
  <2>. QED  BY <2>1, WayQuiet
<1>2. CASE UNCHANGED vars \/ AllGone
  <2>1. UNCHANGED <<storing, flying, rowId, inbox>>
    BY <1>2 DEF AllGone, vars, mailboxVars, wire, store
  <2>. QED  BY <2>1, WayQuiet
<1>. QED
  BY <1>1, <1>2, WaySend, WayStore, WayDeliver, WaySendBatch DEF Next, Offline

\* The steps of Mailbox, in terms of what they read and write of one message.
LEMMA MailSteps ==
  ASSUME NEW m \in Msgs, \A n \in Msgs \ {m} : PhaseOf(n)' = PhaseOf(n)
  PROVE  /\ PhaseOf(m) = "unsent" /\ PhaseOf(m)' = "carried" /\ UNCHANGED <<Handed, Shown>>
              => Mail!Post(m)
         /\ PhaseOf(m) \in {"unsent", "carried"} /\ PhaseOf(m)' = "lost"
              /\ UNCHANGED <<Handed, Shown>> => Mail!Lose(m)
         /\ PhaseOf(m) = "carried" /\ PhaseOf(m)' = "kept" /\ UNCHANGED <<Handed, Shown>>
              => Mail!Keep(m)
         /\ \A c \in Conns : PhaseOf(m) = "carried" /\ PhaseOf(m)' = "handed" /\ Shown' = Shown
              /\ Handed' = [Handed EXCEPT ![m][c] = @ + 1] => Mail!Hand(m, c)
<1>1. Phases' = [Phases EXCEPT ![m] = PhaseOf(m)'] /\ Phases[m] = PhaseOf(m)
  BY OneMessage DEF Phases
<1>2. PhaseOf(m) = "unsent" /\ PhaseOf(m)' = "carried" /\ UNCHANGED <<Handed, Shown>>
      => Mail!Post(m)
  BY <1>1 DEF Mail!Post, Phases, Handed, Shown
<1>3. PhaseOf(m) \in {"unsent", "carried"} /\ PhaseOf(m)' = "lost"
      /\ UNCHANGED <<Handed, Shown>> => Mail!Lose(m)
  BY <1>1 DEF Mail!Lose, Phases, Handed, Shown
<1>4. PhaseOf(m) = "carried" /\ PhaseOf(m)' = "kept" /\ UNCHANGED <<Handed, Shown>>
      => Mail!Keep(m)
  BY <1>1 DEF Mail!Keep, Phases, Handed, Shown
<1>5. ASSUME NEW c \in Conns, PhaseOf(m) = "carried", PhaseOf(m)' = "handed", Shown' = Shown,
             Handed' = [Handed EXCEPT ![m][c] = @ + 1]
      PROVE  Mail!Hand(m, c)
  BY <1>1, <1>5 DEF Mail!Hand, Phases, Handed, Shown
<1>. QED  BY <1>2, <1>3, <1>4, <1>5

\* A step of the server that leaves every message where it is.
LEMMA MailStutters ==
  ASSUME UNCHANGED <<storing, flying, rowId, inbox, letter, table>>
  PROVE  UNCHANGED Mail!mailVars
<1>1. \A n \in Msgs : HandedTo(n)' = HandedTo(n) /\ (Underway(n)' <=> Underway(n))
  BY SameInbox DEF Underway
<1>2. \A n \in Msgs : PhaseOf(n)' = PhaseOf(n)  BY <1>1, PhaseSame
<1>3. UNCHANGED <<Handed, Shown>>  BY SameInbox
<1>. QED  BY <1>2, <1>3 DEF Mail!mailVars, Handed, Shown

LEMMA MapSend ==
  ASSUME MailboxInv, NEW c \in Conns, NEW m \in Msgs, NEW u \in Addressees, Send(c, m, u)
  PROVE  Mail!Post(m) \/ Mail!Lose(m)
<1>1. /\ UNCHANGED <<inbox, table, rowId>>
      /\ \A n \in Msgs \ {m} : letter'[n] = letter[n] /\ (Underway(n)' <=> Underway(n))
      /\ letter[m] = Unsent /\ letter'[m] # Unsent
      /\ rowId[m] = 0 /\ m \notin table /\ HandedTo(m) = {}
  BY WaySend DEF MailboxInv
<1>2. (\A n \in Msgs : HandedTo(n)' = HandedTo(n)) /\ UNCHANGED <<Handed, Shown>>
  BY <1>1, SameInbox
<1>3. \A n \in Msgs \ {m} : PhaseOf(n)' = PhaseOf(n)
  BY <1>1, <1>2, PhaseSame
<1>4. PhaseOf(m) = "unsent"  BY <1>1, PhaseCases
<1>5. PhaseOf(m)' \in {"carried", "lost"}
  BY <1>1, <1>2 DEF PhaseOf
<1>. QED  BY <1>1, <1>2, <1>3, <1>4, <1>5, MailSteps

LEMMA MapStore ==
  ASSUME MailboxInv, NEW m \in Msgs, Store(m)
  PROVE  Mail!Keep(m)
<1>1. /\ UNCHANGED <<inbox, letter>>
      /\ \A n \in Msgs \ {m} : /\ Underway(n)' <=> Underway(n)
                               /\ (n \in table' <=> n \in table) /\ rowId'[n] = rowId[n]
      /\ Underway(m) /\ ~Underway(m)' /\ m \in table'
  BY WayStore DEF MailboxInv
<1>2. (\A n \in Msgs : HandedTo(n)' = HandedTo(n)) /\ UNCHANGED <<Handed, Shown>>
  BY <1>1, SameInbox
<1>3. \A n \in Msgs \ {m} : PhaseOf(n)' = PhaseOf(n)
  <2>. SUFFICES ASSUME NEW n \in Msgs \ {m} PROVE PhaseOf(n)' = PhaseOf(n)  OBVIOUS
  <2>1. letter'[n] = letter[n] /\ (Underway(n)' <=> Underway(n)) /\ HandedTo(n)' = HandedTo(n)
        /\ (n \in table' <=> n \in table) /\ rowId'[n] = rowId[n]
    BY <1>1, <1>2
  <2>. QED  BY <2>1, PhaseSame
<1>4. letter[m] # Unsent  BY <1>1 DEF MailboxInv, TypeInv, SentInv, Underway, Posted
<1>5. PhaseOf(m) = "carried" /\ PhaseOf(m)' = "kept"
  BY <1>1, <1>4 DEF PhaseOf, Underway
<1>. QED  BY <1>1, <1>2, <1>3, <1>5, MailSteps

LEMMA MapDeliver ==
  ASSUME MailboxInv, NEW f \in flying, Deliver(f)
  PROVE  \E m \in Msgs, c \in Conns : Mail!Hand(m, c) \/ Mail!Lose(m)
<1>. DEFINE m == f.msg
<1>1. /\ UNCHANGED <<Shown, letter, table, rowId>>
      /\ m \in Msgs /\ f.to \in Conns
      /\ \A n \in Msgs \ {m} : (Underway(n)' <=> Underway(n)) /\ HandedTo(n)' = HandedTo(n)
      /\ Underway(m) /\ ~Underway(m)'
      /\ rowId[m] = 0 /\ m \notin table /\ HandedTo(m) = {}
      /\ \/ HandedTo(m)' = {} /\ Handed' = Handed
         \/ HandedTo(m)' = {f.to} /\ Handed' = [Handed EXCEPT ![m][f.to] = @ + 1]
  BY WayDeliver DEF MailboxInv
<1>2. letter[m] # Unsent  BY <1>1 DEF MailboxInv, TypeInv, SentInv, Underway, Posted
<1>. HIDE DEF m
<1>3. \A n \in Msgs \ {m} : PhaseOf(n)' = PhaseOf(n)
  BY <1>1, PhaseSame
<1>4. PhaseOf(m) = "carried"  BY <1>1, <1>2, PhaseCases
<1>5. PICK k \in Msgs : k = m  BY <1>1
<1>6. PhaseOf(k)' = IF HandedTo(k)' # {} THEN "handed" ELSE "lost"
  BY <1>1, <1>2, <1>5 DEF PhaseOf, Underway
<1>7. HandedTo(k)' = HandedTo(m)'
  <2>1. m' = m  BY DEF m
  <2>. QED  BY <1>5, <2>1
<1>8. CASE HandedTo(m)' = {} /\ Handed' = Handed
  <2>1. Mail!Lose(k)  BY <1>1, <1>3, <1>4, <1>5, <1>6, <1>7, <1>8, MailSteps
  <2>. QED  BY <1>1, <2>1
<1>9. CASE HandedTo(m)' = {f.to} /\ Handed' = [Handed EXCEPT ![m][f.to] = @ + 1]
  <2>1. Mail!Hand(k, f.to)  BY <1>1, <1>3, <1>4, <1>5, <1>6, <1>7, <1>9, MailSteps
  <2>. QED  BY <1>1, <2>1
<1>. QED  BY <1>1, <1>8, <1>9

LEMMA MapSendBatch ==
  ASSUME MailboxInv, NEW c \in Conns, NEW m \in Msgs, SendBatch(c, m)
  PROVE  Mail!Show(m, c) \/ UNCHANGED Mail!mailVars
<1>1. /\ UNCHANGED <<Handed, letter, storing, flying, table, rowId>>
      /\ \A n \in Msgs : HandedTo(n)' = HandedTo(n)
      /\ Shown' = Shown \/ Shown' = [Shown EXCEPT ![m][c] = @ + 1]
      /\ rowId[m] # 0 /\ m \in Posted /\ ~Underway(m) /\ TimesSent(m, c, FALSE) = 0
  BY WaySendBatch DEF MailboxInv
<1>2. \A n \in Msgs : PhaseOf(n)' = PhaseOf(n)  BY <1>1, PhaseSame DEF Underway
<1>3. PhaseOf(m) \in {"kept", "purged"}  BY <1>1, PhaseCases DEF Posted
<1>4. Phases' = Phases /\ Phases[m] = PhaseOf(m)  BY <1>2 DEF Phases
<1>5. Shown[m][c] = 0  BY <1>1 DEF Shown
<1>6. CASE Shown' = Shown
  BY <1>1, <1>4, <1>6 DEF Mail!mailVars, Phases, Handed, Shown
<1>7. CASE Shown' = [Shown EXCEPT ![m][c] = @ + 1]
  BY <1>1, <1>3, <1>4, <1>5, <1>7 DEF Mail!Show, Phases, Handed, Shown
<1>. QED  BY <1>1, <1>6, <1>7

LEMMA MapAckOffline ==
  ASSUME MailboxInv, NEW c \in Conns, AckOffline(c)
  PROVE  \E ms \in SUBSET Msgs : Mail!Purge(ms)
<1>. DEFINE ms == RowsFor(uin[c])
<1>1. /\ table' = table \ ms /\ UNCHANGED <<letter, storing, flying, rowId, inbox>>
  BY DEF AckOffline, wire
<1>2. ms \in SUBSET Msgs /\ \A m \in ms : m \in table
  BY DEF RowsFor, MailboxInv, TypeInv, TypeOK
<1>3. \A m \in ms : rowId[m] # 0 /\ letter[m] # Unsent /\ ~Underway(m)
  BY <1>2 DEF MailboxInv, TypeInv, SentInv, WayInv, Posted
<1>. HIDE DEF ms
<1>4. \A n \in Msgs : HandedTo(n)' = HandedTo(n) /\ (Underway(n)' <=> Underway(n))
  BY <1>1, SameInbox DEF Underway
<1>5. \A n \in Msgs \ ms : PhaseOf(n)' = PhaseOf(n)  BY <1>1, <1>4, PhaseSame
<1>6. \A m \in ms : PhaseOf(m) = "kept" /\ PhaseOf(m)' = "purged"
  <2>. SUFFICES ASSUME NEW m \in ms PROVE PhaseOf(m) = "kept" /\ PhaseOf(m)' = "purged"
    OBVIOUS
  <2>1. m \in Msgs /\ m \in table /\ m \notin table' /\ rowId'[m] # 0
        /\ letter'[m] # Unsent /\ ~Underway(m)'
    BY <1>1, <1>2, <1>3, <1>4
  <2>2. PhaseOf(m) = "kept"  BY <1>3, <2>1, PhaseCases
  <2>3. PhaseOf(m)' = "purged"  BY <2>1 DEF PhaseOf, Underway
  <2>. QED  BY <2>2, <2>3
<1>7. Phases' = [m \in Msgs |-> IF m \in ms THEN "purged" ELSE Phases[m]]
  BY <1>5, <1>6 DEF Phases
<1>8. UNCHANGED <<Handed, Shown>>  BY <1>1, SameInbox
<1>9. \A m \in ms : Phases[m] = "kept"  BY <1>2, <1>6 DEF Phases
<1>10. Mail!Purge(ms)  BY <1>7, <1>8, <1>9 DEF Mail!Purge, Phases, Handed, Shown
<1>. QED  BY <1>2, <1>10

LEMMA MapNext == MailboxInv /\ [Next]_vars => [Mail!MailNext]_(Mail!mailVars)
<1>. SUFFICES ASSUME MailboxInv, [Next]_vars PROVE Mail!MailNext \/ UNCHANGED Mail!mailVars
  OBVIOUS
<1>1. ASSUME NEW c \in Conns, SessionStep(c) \/ RequestOffline(c) \/ FinishBatch(c)
                              \/ RequestAgain(c)
      PROVE  UNCHANGED Mail!mailVars
  <2>1. UNCHANGED <<storing, flying, rowId, inbox, letter, table>>
    BY <1>1 DEF SessionStep, RequestOffline, FinishBatch, RequestAgain, mailboxVars, wire, store
  <2>. QED  BY <2>1, MailStutters
<1>2. CASE UNCHANGED vars \/ AllGone
  <2>1. UNCHANGED <<storing, flying, rowId, inbox, letter, table>>
    BY <1>2 DEF AllGone, vars, mailboxVars, wire, store
  <2>. QED  BY <2>1, MailStutters
<1>3. ASSUME NEW c \in Conns, NEW m \in Msgs, NEW u \in Addressees, Send(c, m, u)
      PROVE  Mail!MailNext
  BY <1>3, MapSend DEF Mail!MailNext
<1>4. ASSUME NEW m \in Msgs, Store(m) PROVE Mail!MailNext
  BY <1>4, MapStore DEF Mail!MailNext
<1>5. ASSUME NEW f \in flying, Deliver(f) PROVE Mail!MailNext
  BY <1>5, MapDeliver DEF Mail!MailNext
<1>6. ASSUME NEW c \in Conns, NEW m \in Msgs, SendBatch(c, m)
      PROVE  Mail!MailNext \/ UNCHANGED Mail!mailVars
  BY <1>6, MapSendBatch DEF Mail!MailNext
<1>7. ASSUME NEW c \in Conns, AckOffline(c) PROVE Mail!MailNext
  BY <1>7, MapAckOffline DEF Mail!MailNext
<1>. QED
  BY <1>1, <1>2, <1>3, <1>4, <1>5, <1>6, <1>7 DEF Next, Offline

LEMMA MapInit == Init => Mail!MailInit /\ WayInv
<1>. SUFFICES ASSUME Init PROVE Mail!MailInit /\ WayInv  OBVIOUS
<1>1. /\ letter = [m \in Msgs |-> Unsent] /\ rowId = [m \in Msgs |-> 0]
      /\ storing = {} /\ flying = {} /\ inbox = [c \in Conns |-> <<>>]
  BY DEF Init, MailboxInit
<1>2. \A c \in Conns : Received(c) = {}
  <2>1. \A c \in Conns : inbox[c] = <<>>  BY <1>1
  <2>2. DOMAIN <<>> = {}  OBVIOUS
  <2>. QED  BY <2>1, <2>2 DEF Received
<1>3. \A m \in Msgs : HandedTo(m) = {} /\ ShownTo(m) = {} /\ PhaseOf(m) = "unsent"
  BY <1>1, <1>2 DEF HandedTo, ShownTo, PhaseOf
<1>4. \A m \in Msgs, c \in Conns, l \in BOOLEAN : TimesSent(m, c, l) = 0
  <2>1. \A c \in Conns : inbox[c] = <<>>  BY <1>1
  <2>2. DOMAIN <<>> = {}  OBVIOUS
  <2>3. \A c \in Conns : DOMAIN inbox[c] = {}  BY <2>1, <2>2
  <2>. QED  BY <2>3, FS_EmptySet DEF TimesSent
<1>5. WayInv  BY <1>1, <1>3 DEF WayInv
<1>. QED  BY <1>3, <1>4, <1>5 DEF Mail!MailInit, Mail!Never

\* Seen from outside, a message is handed over live to one session, once, or kept and
\* written at most once to any session from the store, or lost; whatever deliveries run late,
\* whoever signs on meanwhile, and however often clients ask for what is stored.
THEOREM MailboxImplemented == Spec => ImplementsMailbox
<1>1. Init => MailInv /\ OrderInv
  BY DEF Init, MailboxInit, MailInv, OrderInv, IdInv, OfflineInOrder
<1>2. Init => MailboxInv  BY <1>1, TypeInit, MapInit DEF MailboxInv
<1>3. MailboxInv /\ [Next]_vars => MailboxInv'
  BY TypeNext, MailNext, OrderNext, WayNext DEF MailboxInv
<1>. QED
  BY <1>2, <1>3, MapInit, MapNext, PTL DEF Spec, ImplementsMailbox, Mail!MailSpec

----------------------------------------------------------------------------
(* What was stored when a client asked is not deleted unseen.              *)

\* Who got the end mark is done with the store, and who is in the middle of it has
\* a connection that was accepted.
EofInv ==
  /\ \A c \in sawEof : offlineDelivered[c]
  /\ \A c \in batching : life[c] # "idle"

FetchInv == TypeInv /\ MailInv /\ OrderInv /\ EofInv

\* A message that was once in the batch of c is there still, or was shown, or c is
\* cut off without an end mark and will never get one.
Kept(c, m) ==
  \/ m \in batch[c]
  \/ c \in ShownTo(m)
  \/ c \notin sawEof /\ ~open[c] /\ life[c] # "idle"

\* A connection is accepted once, and a socket that is closed stays closed.
LEMMA AcceptedOnce ==
  ASSUME TypeInv, NEW d \in Conns, SessionStep(d), NEW c \in Conns, life[c] # "idle"
  PROVE  life'[c] # "idle" /\ (open'[c] => open[c])
<1>1. open \in [Conns -> BOOLEAN] /\ life \in [Conns -> Lives]
  BY DEF TypeInv, TypeOK, DirTypeOK
<1>2. CASE ForeignStep(d)
  BY <1>1, <1>2 DEF ForeignStep, Connect, Drop, Halt
<1>3. CASE OwnStep(d)
  BY <1>1, <1>3 DEF OwnStep, Register, Finish, Unregister, Forget, Leave, Assume
<1>. QED  BY <1>2, <1>3 DEF SessionStep

\* A write takes nothing back, and reaches a client whose socket is open.
LEMMA WriteShows ==
  ASSUME inbox \in [Conns -> Seq(Pieces)], NEW c \in Conns,
         NEW m \in Msgs, NEW from \in Uins \cup {NoUin}, NEW live \in BOOLEAN,
         Write(c, m, from, live)
  PROVE  /\ \A n \in Msgs : ShownTo(n) \subseteq ShownTo(n)'
         /\ open[c] /\ ~live => c \in ShownTo(m)'
<1>1. \A n \in Msgs : ShownTo(n) \subseteq ShownTo(n)'  BY Reached, SameInbox
<1>2. ASSUME open[c], ~live PROVE c \in ShownTo(m)'
  <2>. DEFINE p == Piece(m, from, live)
  <2>1. p.msg = m /\ p.live = live /\ p \in Pieces  BY DEF Piece, Pieces
  <2>2. inbox' = [inbox EXCEPT ![c] = Append(inbox[c], p)]
    BY <1>2 DEF Write, Piece
  <2>. HIDE DEF p
  <2>3. inbox'[c] = Append(inbox[c], p) /\ inbox[c] \in Seq(Pieces)  BY <2>2
  <2>4. Len(inbox[c]) + 1 \in DOMAIN inbox'[c] /\ inbox'[c][Len(inbox[c]) + 1] = p
    BY <2>1, <2>3, AppendElements
  <2>5. p \in Received(c)'  BY <2>4 DEF Received
  <2>. QED  BY <1>2, <2>1, <2>5 DEF ShownTo
<1>. QED  BY <1>1, <1>2

LEMMA EofNext == FetchInv /\ [Next]_vars => EofInv'
<1>. SUFFICES ASSUME FetchInv, [Next]_vars PROVE EofInv'
  OBVIOUS
<1>. USE DEF FetchInv
<1>1. MailTypeOK  BY DEF TypeInv, TypeOK, MailTypeOK
<1>2. ASSUME UNCHANGED <<life, sawEof, offlineDelivered, batching>> PROVE EofInv'
  BY <1>2 DEF EofInv
<1>3. ASSUME NEW c \in Conns, SessionStep(c) PROVE EofInv'
  <2>1. UNCHANGED <<sawEof, offlineDelivered, batching>>
    BY <1>3 DEF SessionStep, mailboxVars, fetch
  <2>. QED  BY <1>1, <1>3, <2>1, AcceptedOnce DEF EofInv, MailTypeOK
<1>4. ASSUME NEW c \in Conns, RequestOffline(c) PROVE EofInv'
  BY <1>4 DEF RequestOffline, Serving, EofInv, dirVars
<1>5. ASSUME NEW c \in Conns, FinishBatch(c) PROVE EofInv'
  BY <1>1, <1>5 DEF FinishBatch, SendEof, EofInv, dirVars, MailTypeOK
<1>6. ASSUME NEW c \in Conns, RequestAgain(c) \/ AckOffline(c) PROVE EofInv'
  BY <1>6 DEF RequestAgain, AckOffline, SendEof, EofInv, dirVars
<1>7. ASSUME NEW c \in Conns, NEW m \in Msgs, SendBatch(c, m) PROVE EofInv'
  BY <1>2, <1>7 DEF SendBatch, dirVars
<1>8. ASSUME NEW c \in Conns, NEW m \in Msgs, NEW u \in Addressees, Send(c, m, u) PROVE EofInv'
  BY <1>2, <1>8 DEF Send, SendLive, SendAbsent, SendDropped, Relay, dirVars, fetch
<1>9. ASSUME NEW m \in Msgs, Store(m) PROVE EofInv'
  BY <1>2, <1>9 DEF Store, dirVars, fetch
<1>10. ASSUME NEW f \in flying, Deliver(f) PROVE EofInv'
  BY <1>2, <1>10 DEF Deliver, dirVars, fetch
<1>11. CASE UNCHANGED vars \/ AllGone
  BY <1>2, <1>11 DEF AllGone, vars, dirVars, mailboxVars, fetch
<1>. QED
  BY <1>3, <1>4, <1>5, <1>6, <1>7, <1>8, <1>9, <1>10, <1>11 DEF Next, Offline

\* Nothing but showing a message takes it out of a batch.
LEMMA KeptNext ==
  ASSUME FetchInv, [Next]_vars, NEW c \in Conns, NEW m \in Msgs, Kept(c, m)
  PROVE  Kept(c, m)'
<1>. USE DEF FetchInv
<1>1. MailTypeOK /\ SentInv  BY DEF TypeInv, TypeOK, MailTypeOK
<1>2. m \in batch[c] => c \in batching /\ c \notin sawEof /\ life[c] # "idle"
  BY DEF MailInv, OrderInv, EofInv
<1>3. ASSUME UNCHANGED inbox PROVE ShownTo(m)' = ShownTo(m)
  BY <1>3 DEF ShownTo, Received
<1>4. ASSUME UNCHANGED <<life, open, batch>>, sawEof' \subseteq sawEof,
             ShownTo(m) \subseteq ShownTo(m)'
      PROVE  Kept(c, m)'
  BY <1>4 DEF Kept
<1>5. ASSUME NEW d \in Conns, SessionStep(d) PROVE Kept(c, m)'
  <2>1. UNCHANGED <<inbox, batch, sawEof>>
    BY <1>5 DEF SessionStep, mailboxVars, wire, fetch
  <2>2. life[c] # "idle" => life'[c] # "idle" /\ (open'[c] => open[c])
    BY <1>5, AcceptedOnce
  <2>. QED  BY <1>3, <2>1, <2>2 DEF Kept
<1>6. ASSUME NEW d \in Conns, RequestOffline(d) PROVE Kept(c, m)'
  <2>1. /\ UNCHANGED <<life, open, inbox, sawEof>> /\ d \notin batching
        /\ \A e \in Conns \ {d} : batch'[e] = batch[e]
    BY <1>1, <1>6 DEF RequestOffline, Serving, Busy, dirVars, wire, MailTypeOK
  <2>2. m \in batch[c] => m \in batch'[c]  BY <1>2, <2>1
  <2>. QED  BY <1>3, <2>1, <2>2 DEF Kept
<1>7. ASSUME NEW d \in Conns, NEW n \in Msgs, SendBatch(d, n) PROVE Kept(c, m)'
  <2>1. /\ UNCHANGED <<life, open, sawEof>> /\ n \in batch[d]
        /\ batch' = [batch EXCEPT ![d] = batch[d] \ {n}]
        /\ Write(d, n, letter[n].from, FALSE)
    BY <1>7 DEF SendBatch, NextRow, dirVars
  <2>2. letter[n].from \in Uins \cup {NoUin}  BY <1>1 DEF MailTypeOK, Letters
  <2>3. ShownTo(m) \subseteq ShownTo(m)' /\ (open[d] => d \in ShownTo(n)')
    BY <1>1, <2>1, <2>2, WriteShows DEF MailTypeOK
  <2>4. m \in batch[c] => m \in batch'[c] \/ (m = n /\ c = d)
    BY <1>1, <2>1 DEF MailTypeOK
  <2>. QED  BY <1>2, <2>1, <2>3, <2>4 DEF Kept
<1>8. ASSUME NEW d \in Conns, FinishBatch(d) \/ RequestAgain(d) PROVE Kept(c, m)'
  <2>1. UNCHANGED <<life, open, inbox, batch>> /\ SendEof(d)
    BY <1>8 DEF FinishBatch, RequestAgain, dirVars, wire
  <2>. QED  BY <1>3, <2>1 DEF Kept, SendEof
<1>9. ASSUME NEW d \in Conns, AckOffline(d) PROVE Kept(c, m)'
  <2>1. UNCHANGED <<life, open, inbox, batch>> /\ sawEof' \subseteq sawEof
    BY <1>9 DEF AckOffline, dirVars, wire
  <2>. QED  BY <1>3, <1>4, <2>1
<1>10. ASSUME NEW d \in Conns, NEW n \in Msgs, NEW u \in Addressees, Send(d, n, u)
       PROVE  Kept(c, m)'
  <2>1. UNCHANGED <<life, open, inbox, batch, sawEof>>
    BY <1>10 DEF Send, SendLive, SendAbsent, SendDropped, Relay, dirVars, fetch
  <2>. QED  BY <1>3, <1>4, <2>1
<1>11. ASSUME NEW n \in Msgs, Store(n) PROVE Kept(c, m)'
  <2>1. UNCHANGED <<life, open, inbox, batch, sawEof>>
    BY <1>11 DEF Store, dirVars, wire, fetch
  <2>. QED  BY <1>3, <1>4, <2>1
<1>12. ASSUME NEW f \in flying, Deliver(f) PROVE Kept(c, m)'
  <2>1. UNCHANGED <<life, open, batch, sawEof>> /\ Write(f.to, f.msg, Sender(f), TRUE)
    BY <1>12 DEF Deliver, dirVars, fetch
  <2>2. f \in Flights /\ letter[f.msg].by \in Conns  BY <1>1 DEF MailTypeOK, SentInv
  <2>3. f.to \in Conns /\ f.msg \in Msgs /\ f.from \in Uins \cup {NoUin}
    BY <2>2 DEF Flights
  <2>4. Sender(f) \in Uins \cup {NoUin}
    BY <2>2, <2>3 DEF Sender, TypeInv, TypeOK, DirTypeOK
  <2>5. ShownTo(m) \subseteq ShownTo(m)'
    BY <1>1, <2>1, <2>3, <2>4, WriteShows DEF MailTypeOK
  <2>. QED  BY <1>4, <2>1, <2>5
<1>13. CASE UNCHANGED vars \/ AllGone
  <2>1. UNCHANGED <<life, open, inbox, batch, sawEof>>
    BY <1>13 DEF AllGone, vars, dirVars, mailboxVars, wire, fetch
  <2>. QED  BY <1>3, <1>4, <2>1
<1>. QED
  BY <1>5, <1>6, <1>7, <1>8, <1>9, <1>10, <1>11, <1>12, <1>13 DEF Next, Offline

\* Once a client asked for its offline messages, each that was stored by then has
\* been shown to it by the time it holds an end mark: not when it asks again, when
\* others store and acknowledge meanwhile, or when its socket closes on the way does
\* an acknowledgement given on an end mark delete one of them unseen. (One given
\* before may, and what is stored later goes either way: StoredUntilSent.)
THEOREM FetchedIsShown ==
  ASSUME NEW c \in Conns, NEW m \in Msgs
  PROVE  Spec => [](m \in batch[c] => [](c \in sawEof => c \in ShownTo(m)))
<1>1. Init => FetchInv
  <2>1. Init => MailInv /\ OrderInv
    BY DEF Init, MailboxInit, MailInv, OrderInv, IdInv, OfflineInOrder
  <2>2. Init => EofInv  BY DEF Init, MailboxInit, EofInv
  <2>. QED  BY <2>1, <2>2, TypeInit DEF FetchInv
<1>2. FetchInv /\ [Next]_vars => FetchInv'
  BY TypeNext, MailNext, OrderNext, EofNext DEF FetchInv
<1>3. m \in batch[c] => Kept(c, m)  BY DEF Kept
<1>4. FetchInv /\ [Next]_vars /\ Kept(c, m) => Kept(c, m)'  BY KeptNext
<1>5. FetchInv /\ Kept(c, m) => (c \in sawEof => c \in ShownTo(m))
  BY DEF FetchInv, MailInv, OrderInv, EofInv, Kept
<1>. QED  BY <1>1, <1>2, <1>3, <1>4, <1>5, PTL DEF Spec

=============================================================================
