----------------------------- MODULE FlapWriter -----------------------------
(***************************************************************************)
(* Writing to clients: sendSnac, sendFlap and the mutex Session.writeMu.   *)
(*                                                                         *)
(* Any goroutine may write to any client: the one that serves the client,  *)
(* another session's broadcast, or a goroutine made by spawn. Each member  *)
(* of Writers is one run of such a goroutine: it does its job, a sequence  *)
(* of sends and closes, and ends. conn.Write has no deadline: it returns   *)
(* when the kernel has taken the frame, or when the socket is closed.      *)
(*                                                                         *)
(* A frame stands for its sequence number and its request id. Payloads fit *)
(* the 16-bit length of the header.                                        *)
(***************************************************************************)
EXTENDS Integers, Sequences

CONSTANTS Clients,   \* connections, one Session each
          Writers,   \* goroutines that write
          Readers,   \* connections whose client goes on reading
          Jobs,      \* what a goroutine may have to do
          SeqMod,    \* 2^16 in the code
          MaxId,     \* bound: the last id drawn (the code wraps at 2^32)
          Room,      \* frames the kernel takes before the client reads
          NoWriter   \* a free mutex

NoId == 0            \* a frame without an id of the server's: a reply bears
                     \* its request's id, a channel 1 or 4 frame none

Deeds == [do : {"send", "reply", "close"}, to : Clients]

ASSUME FlapAssumption ==
  /\ NoWriter \notin Writers
  /\ Readers \subseteq Clients
  /\ Jobs \subseteq Seq(Deeds)
  /\ SeqMod \in Nat \ {0}
  /\ MaxId \in Nat
  /\ Room \in Nat \ {0}

VARIABLES
  connected,   \* Session.conn, closed by neither side
  writeMu,     \* Session.writeMu: who holds it
  seq,         \* Session.seq
  snacReqID,   \* Session.snacReqID
  unread,      \* frames the kernel holds for the client
  place,       \* where a goroutine stands
  todo,        \* what it still has to do, the current deed first
  id,          \* the id of the frame it is sending
  wire         \* history: the frames the kernel took, in order

session == <<connected, seq, snacReqID>>
writerVars == <<session, writeMu, unread, place, todo, id, wire>>

\* rand.Intn(0x7FFF) + 1
Drawn == 1 .. SeqMod \div 2 - 1

WriterInit ==
  /\ connected = [c \in Clients |-> TRUE]
  /\ writeMu = [c \in Clients |-> NoWriter]
  /\ seq \in [Clients -> Drawn]
  /\ snacReqID = [c \in Clients |-> 0]
  /\ unread = [c \in Clients |-> 0]
  /\ place = [w \in Writers |-> "idle"]
  /\ todo = [w \in Writers |-> <<>>]
  /\ id = [w \in Writers |-> NoId]
  /\ wire = [c \in Clients |-> <<>>]

Target(w) == Head(todo[w]).to

\* The deed is done: the goroutine goes on to the next one. Errors of sendSnac
\* are ignored, so a broadcast goes on after a failed write.
NextDeed(w) ==
  /\ todo' = [todo EXCEPT ![w] = Tail(@)]
  /\ place' = [place EXCEPT ![w] = IF Len(todo[w]) = 1 THEN "done" ELSE "next"]
  /\ id' = [id EXCEPT ![w] = NoId]

Start(w) ==
  /\ place[w] = "idle"
  /\ \E job \in Jobs \ {<<>>} : todo' = [todo EXCEPT ![w] = job]
  /\ place' = [place EXCEPT ![w] = "next"]
  /\ UNCHANGED <<session, writeMu, unread, id, wire>>

\* atomic.AddUint32(&s.snacReqID, 1), before the mutex is asked for.
DrawId(w) ==
  /\ snacReqID' = [snacReqID EXCEPT ![Target(w)] = @ + 1]
  /\ id' = [id EXCEPT ![w] = snacReqID[Target(w)] + 1]

\* sendSnac, as far as sendFlap.
SendSnac(w) ==
  /\ place[w] = "next"
  /\ Head(todo[w]).do = "send"
  /\ snacReqID[Target(w)] < MaxId
  /\ DrawId(w)
  /\ place' = [place EXCEPT ![w] = "lock"]
  /\ UNCHANGED <<connected, seq, writeMu, unread, todo, wire>>

\* The same with the client's own request id, or a bare frame.
SendReply(w) ==
  /\ place[w] = "next"
  /\ Head(todo[w]).do = "reply"
  /\ place' = [place EXCEPT ![w] = "lock"]
  /\ UNCHANGED <<session, writeMu, unread, todo, id, wire>>

\* sendFlap takes the mutex and the next sequence number.
Acquire_Unlocked(w) ==
  /\ place[w] = "lock"
  /\ writeMu' = [writeMu EXCEPT ![Target(w)] = w]
  /\ seq' = [seq EXCEPT ![Target(w)] = (@ + 1) % SeqMod]
  /\ place' = [place EXCEPT ![w] = "write"]
  /\ UNCHANGED <<connected, snacReqID, unread, todo, id, wire>>
Acquire(w) ==
  /\ place[w] = "lock"
  /\ writeMu[Target(w)] = NoWriter
  /\ writeMu' = [writeMu EXCEPT ![Target(w)] = w]
  /\ seq' = [seq EXCEPT ![Target(w)] = (@ + 1) % SeqMod]
  /\ place' = [place EXCEPT ![w] = "write"]
  /\ UNCHANGED <<connected, snacReqID, unread, todo, id, wire>>

\* conn.Write returns with the frame in the kernel; the mutex is released.
Write_DropsWhenFull(w) ==
  LET c == Target(w)
      fits == unread[c] < Room IN
  /\ place[w] = "write"
  /\ connected[c]
  /\ wire' = IF fits THEN [wire EXCEPT ![c] = Append(@, [seq |-> seq[c], id |-> id[w]])]
                     ELSE wire
  /\ unread' = IF fits THEN [unread EXCEPT ![c] = @ + 1] ELSE unread
  /\ writeMu' = [writeMu EXCEPT ![c] = NoWriter]
  /\ NextDeed(w)
  /\ UNCHANGED session
Write(w) ==
  LET c == Target(w) IN
  /\ place[w] = "write"
  /\ connected[c]
  /\ unread[c] < Room
  /\ wire' = [wire EXCEPT ![c] = Append(@, [seq |-> seq[c], id |-> id[w]])]
  /\ unread' = [unread EXCEPT ![c] = @ + 1]
  /\ writeMu' = [writeMu EXCEPT ![c] = NoWriter]
  /\ NextDeed(w)
  /\ UNCHANGED session

\* conn.Write returns an error, at once or out of a blocked write; the mutex
\* is released all the same (defer).
WriteFails_Retries(w) ==
  /\ place[w] = "write"
  /\ ~connected[Target(w)]
  /\ UNCHANGED writerVars
WriteFails(w) ==
  /\ place[w] = "write"
  /\ ~connected[Target(w)]
  /\ writeMu' = [writeMu EXCEPT ![Target(w)] = NoWriter]
  /\ NextDeed(w)
  /\ UNCHANGED <<session, unread, wire>>

\* conn.Close(): the kick of an older session, or the end of cleanup. It asks
\* for no mutex.
Close_Locking(w) ==
  /\ place[w] = "next"
  /\ Head(todo[w]).do = "close"
  /\ writeMu[Target(w)] = NoWriter
  /\ connected' = [connected EXCEPT ![Target(w)] = FALSE]
  /\ NextDeed(w)
  /\ UNCHANGED <<seq, snacReqID, writeMu, unread, wire>>
Close(w) ==
  /\ place[w] = "next"
  /\ Head(todo[w]).do = "close"
  /\ connected' = [connected EXCEPT ![Target(w)] = FALSE]
  /\ NextDeed(w)
  /\ UNCHANGED <<seq, snacReqID, writeMu, unread, wire>>

\* The client reads a frame, or closes its end.
ClientReads(c) ==
  /\ unread[c] > 0
  /\ unread' = [unread EXCEPT ![c] = @ - 1]
  /\ UNCHANGED <<session, writeMu, place, todo, id, wire>>

ClientCloses(c) ==
  /\ connected[c]
  /\ connected' = [connected EXCEPT ![c] = FALSE]
  /\ UNCHANGED <<seq, snacReqID, writeMu, unread, place, todo, id, wire>>

\* Every goroutine of the model has ended.
AllWritten == (\A w \in Writers : place[w] = "done") /\ UNCHANGED writerVars

WriterGo(w) == SendSnac(w) \/ SendReply(w) \/ Write(w) \/ WriteFails(w) \/ Close(w)

WriterNext ==
  \/ \E w \in Writers : Start(w) \/ Acquire(w) \/ WriterGo(w)
  \/ \E c \in Clients : ClientReads(c) \/ ClientCloses(c)
  \/ AllWritten

WriterSpec == WriterInit /\ [][WriterNext]_writerVars

\* A goroutine that can run does; a mutex is not kept from one waiter for ever
\* (sync.Mutex hands itself to a waiter of more than 1 ms); the clients in
\* Readers read. Nothing is assumed of the others.
WriterFairness ==
  /\ \A w \in Writers : WF_writerVars(WriterGo(w)) /\ SF_writerVars(Acquire(w))
  /\ \A c \in Readers : WF_writerVars(ClientReads(c))

----------------------------------------------------------------------------
(* Safety.                                                                 *)

Frame == [seq : 0 .. SeqMod - 1, id : 0 .. MaxId]

WriterTypeOK ==
  /\ connected \in [Clients -> BOOLEAN]
  /\ writeMu \in [Clients -> Writers \cup {NoWriter}]
  /\ seq \in [Clients -> 0 .. SeqMod - 1]
  /\ snacReqID \in [Clients -> 0 .. MaxId]
  /\ unread \in [Clients -> 0 .. Room]
  /\ place \in [Writers -> {"idle", "next", "lock", "write", "done"}]
  /\ todo \in [Writers -> Seq(Deeds)]
  /\ id \in [Writers -> 0 .. MaxId]
  /\ wire \in [Clients -> Seq(Frame)]

\* Whoever writes, the client sees sequence numbers without a gap, a repeat or
\* a swap, round the end of the 16 bits too: a client drops the connection
\* otherwise. It takes the number and the write under one mutex.
SequenceUnbroken ==
  \A c \in Clients : \A i \in 1 .. Len(wire[c]) - 1 :
    wire[c][i + 1].seq = (wire[c][i].seq + 1) % SeqMod

\* Two frames of the server's own never bear the same request id on one
\* connection, although ids are drawn outside the mutex.
IdsUnique ==
  \A c \in Clients : \A i, j \in 1 .. Len(wire[c]) :
    i # j /\ wire[c][i].id # NoId => wire[c][i].id # wire[c][j].id

\* Who is about to write the frame with id n to c.
Holds(w, c, n) == place[w] \in {"lock", "write"} /\ Target(w) = c /\ id[w] = n

\* Ids may reach the wire out of order, but only within the goroutines at work:
\* on an open connection every id drawn is on the wire or in the hands of a
\* goroutine on its way to write it. No frame is dropped silently.
NoIdLost ==
  \A c \in Clients : connected[c] =>
    \A n \in 1 .. snacReqID[c] :
      \/ \E i \in 1 .. Len(wire[c]) : wire[c][i].id = n
      \/ \E w \in Writers : Holds(w, c, n)

\* A goroutine holds a mutex only inside a write to that very connection, so
\* none waits for one mutex with another in its hands.
OneLockAtATime ==
  \A c \in Clients : writeMu[c] # NoWriter =>
    place[writeMu[c]] = "write" /\ Target(writeMu[c]) = c

----------------------------------------------------------------------------
(* Liveness, under WriterFairness.                                         *)

Busy(w) == place[w] \in {"next", "lock", "write"}

\* What w still has to write goes to clients that read, or are gone.
Unhampered(w) ==
  \A i \in 1 .. Len(todo[w]) :
    todo[w][i].do # "close" => todo[w][i].to \in Readers \/ ~connected[todo[w][i].to]

\* A client that does not read holds up those who write to it and nobody else:
\* a goroutine with nothing to write to such a client comes to its end.
OthersNotHeldUp ==
  \A w \in Writers : (Busy(w) /\ Unhampered(w)) ~> place[w] = "done"

\* Closing a connection frees every goroutine held up in a write to it, and
\* those queued behind: what a second sign-on of the UIN relies on.
WritesTo(w, c) == place[w] \in {"lock", "write"} /\ Target(w) = c
CloseFreesWriters ==
  \A c \in Clients : \A w \in Writers :
    (WritesTo(w, c) /\ ~connected[c]) ~> ~WritesTo(w, c)

=============================================================================
