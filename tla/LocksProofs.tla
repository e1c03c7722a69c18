---------------------------- MODULE LocksProofs ----------------------------
(***************************************************************************)
(* Proofs about the two components that are about locks. FlapWriter, for   *)
(* any number of connections and goroutines, any jobs, any modulus of the  *)
(* sequence number and any buffer. StoragePool, for any number of calls of *)
(* any shape over any tables: the calls of Storage are as good as atomic   *)
(* (Store), although SearchUsers gives the mutex back while its rows are   *)
(* being read.                                                             *)
(***************************************************************************)
EXTENDS FlapWriter, StoragePool, SequenceTheorems, FiniteSetTheorems, TLAPS

----------------------------------------------------------------------------
(* The FLAP writer.                                                        *)

\* Mutexes are where the program counters say, and a goroutine at work has
\* something to do.
WriterLockInv ==
  /\ \A w \in Writers : place[w] \in {"next", "lock", "write"} => todo[w] # <<>>
  /\ OneLockAtATime
  /\ \A w \in Writers : place[w] = "write" => writeMu[Target(w)] = w

\* While the connection is open, the counter is that of the last frame on the
\* wire, or one on when a goroutine is between taking it and writing. (A write
\* that fails leaves it behind, but then the connection is closed.)
LastSeq(c) == wire[c][Len(wire[c])].seq
SeqInv ==
  \A c \in Clients : connected[c] /\ wire[c] # <<>> =>
    seq[c] = IF writeMu[c] = NoWriter THEN LastSeq(c) ELSE (LastSeq(c) + 1) % SeqMod

\* Ids are drawn once: those on the wire and those in hand are not above the
\* counter, and no two of them are the same.
Sending(w) == place[w] \in {"lock", "write"}
OnWire(c) == {wire[c][i].id : i \in 1 .. Len(wire[c])}
IdInv ==
  /\ \A c \in Clients : \A n \in OnWire(c) : n <= snacReqID[c]
  /\ \A w \in Writers : ~Sending(w) => id[w] = NoId
  /\ \A w \in Writers : Sending(w) =>
       /\ id[w] <= snacReqID[Target(w)]
       /\ id[w] # NoId => id[w] \notin OnWire(Target(w))
  /\ \A v, w \in Writers :
       v # w /\ Sending(v) /\ Sending(w) /\ Target(v) = Target(w) /\ id[v] # NoId
         => id[v] # id[w]

\* The inductive invariant.
WriterInv == WriterTypeOK /\ WriterLockInv /\ SeqInv /\ SequenceUnbroken /\ IdInv /\ IdsUnique /\ NoIdLost

----------------------------------------------------------------------------
\* A goroutine at work has a connection to work on.
LEMMA HasTarget ==
  ASSUME WriterTypeOK, WriterLockInv, NEW w \in Writers, place[w] \in {"next", "lock", "write"}
  PROVE  Target(w) \in Clients /\ todo[w] \in Seq(Deeds) /\ todo[w] # <<>>
<1>1. todo[w] \in Seq(Deeds) /\ todo[w] # <<>>
  BY DEF WriterTypeOK, WriterLockInv
<1>2. Head(todo[w]) \in Deeds
  BY <1>1
<1> QED
  BY <1>1, <1>2 DEF Target, Deeds

\* Numbers wrap within their range.
LEMMA WrapInRange ==
  ASSUME NEW n \in Nat PROVE (n + 1) % SeqMod \in 0 .. SeqMod - 1
BY FlapAssumption

\* What is left of a job is a job.
LEMMA NextDeedTyped ==
  ASSUME WriterTypeOK, WriterLockInv, NEW w \in Writers, place[w] \in {"next", "lock", "write"}, NextDeed(w)
  PROVE  /\ todo' \in [Writers -> Seq(Deeds)]
         /\ place' \in [Writers -> {"idle", "next", "lock", "write", "done"}]
         /\ id' \in [Writers -> 0 .. MaxId]
         /\ place'[w] \in {"next", "done"}
         /\ place'[w] = "next" => todo'[w] # <<>>
         /\ id'[w] = NoId
         /\ \A v \in Writers \ {w} :
              place'[v] = place[v] /\ todo'[v] = todo[v] /\ id'[v] = id[v] /\ Target(v)' = Target(v)
<1>1. todo[w] \in Seq(Deeds) /\ todo[w] # <<>>
  BY HasTarget
<1>2. Tail(todo[w]) \in Seq(Deeds)
  BY <1>1
<1>3. Len(todo[w]) # 1 => Tail(todo[w]) # <<>>
  <2>1. Len(Tail(todo[w])) = Len(todo[w]) - 1 /\ Len(todo[w]) \in Nat
    BY <1>1
  <2>2. Len(<<>>) = 0
    OBVIOUS
  <2>3. Tail(todo[w]) = <<>> => Len(Tail(todo[w])) = 0
    BY <2>2, Zenon
  <2> DEFINE n == Len(Tail(todo[w]))
  <2> HIDE DEF n
  <2> QED
    BY <2>1, <2>3 DEF n
<1>4. 0 \in 0 .. MaxId
  BY FlapAssumption
<1> QED
  BY <1>1, <1>2, <1>3, <1>4 DEF NextDeed, WriterTypeOK, NoId, Target

----------------------------------------------------------------------------
(* Types and mutexes.                                                      *)

LEMMA WriterTypeStep ==
  ASSUME WriterTypeOK, WriterLockInv, [WriterNext]_writerVars
  PROVE  WriterTypeOK'
<1> USE FlapAssumption
<1>0. 0 \in 0 .. MaxId
  OBVIOUS
<1>1. ASSUME NEW w \in Writers, Start(w) PROVE WriterTypeOK'
  BY <1>1 DEF Start, WriterTypeOK, session
<1>2. ASSUME NEW w \in Writers, SendSnac(w) PROVE WriterTypeOK'
  <2>1. Target(w) \in Clients
    BY <1>2, HasTarget DEF SendSnac
  <2>2. snacReqID[Target(w)] + 1 \in 0 .. MaxId
    BY <1>2, <2>1 DEF SendSnac, WriterTypeOK
  <2> QED
    BY <1>2, <2>1, <2>2 DEF SendSnac, DrawId, WriterTypeOK
<1>3. ASSUME NEW w \in Writers, SendReply(w) PROVE WriterTypeOK'
  BY <1>3 DEF SendReply, WriterTypeOK, session
<1>4. ASSUME NEW w \in Writers, Acquire(w) PROVE WriterTypeOK'
  <2>1. Target(w) \in Clients
    BY <1>4, HasTarget DEF Acquire
  <2>2. (seq[Target(w)] + 1) % SeqMod \in 0 .. SeqMod - 1
    BY <2>1, WrapInRange DEF WriterTypeOK
  <2> QED
    BY <1>4, <2>1, <2>2 DEF Acquire, WriterTypeOK
<1>5. ASSUME NEW w \in Writers, Write(w) PROVE WriterTypeOK'
  <2> DEFINE c == Target(w)
             f == [seq |-> seq[c], id |-> id[w]]
  <2>1. c \in Clients
    BY <1>5, HasTarget DEF Write
  <2>2. f \in Frame
    BY <2>1 DEF Frame, WriterTypeOK
  <2>3. Append(wire[c], f) \in Seq(Frame)
    <3>1. wire[c] \in Seq(Frame)
      BY <2>1 DEF WriterTypeOK
    <3> HIDE DEF f, c
    <3> QED
      BY <3>1, <2>2
  <2>4. wire' \in [Clients -> Seq(Frame)]
    BY <1>5, <2>1, <2>3 DEF Write, WriterTypeOK
  <2>5. unread' \in [Clients -> 0 .. Room] /\ writeMu' \in [Clients -> Writers \cup {NoWriter}]
    BY <1>5, <2>1 DEF Write, WriterTypeOK
  <2>6. NextDeed(w)
    BY <1>5 DEF Write
  <2> QED
    BY <1>5, <2>4, <2>5, <2>6, NextDeedTyped DEF Write, WriterTypeOK, session
<1>6. ASSUME NEW w \in Writers, WriteFails(w) PROVE WriterTypeOK'
  <2>1. NextDeed(w) /\ place[w] = "write"
    BY <1>6 DEF WriteFails
  <2>2. Target(w) \in Clients
    BY <2>1, HasTarget
  <2> QED
    BY <1>6, <2>1, <2>2, NextDeedTyped DEF WriteFails, WriterTypeOK, session
<1>7. ASSUME NEW w \in Writers, Close(w) PROVE WriterTypeOK'
  <2>1. NextDeed(w) /\ place[w] = "next"
    BY <1>7 DEF Close
  <2>2. Target(w) \in Clients
    BY <2>1, HasTarget
  <2> QED
    BY <1>7, <2>1, <2>2, NextDeedTyped DEF Close, WriterTypeOK
<1>8. ASSUME NEW c \in Clients, ClientReads(c) \/ ClientCloses(c) PROVE WriterTypeOK'
  <2>1. CASE ClientReads(c)
    <3>1. unread[c] - 1 \in 0 .. Room
      BY <2>1 DEF ClientReads, WriterTypeOK
    <3> QED
      BY <2>1, <3>1 DEF ClientReads, WriterTypeOK, session
  <2>2. CASE ClientCloses(c)
    BY <2>2 DEF ClientCloses, WriterTypeOK
  <2> QED
    BY <1>8, <2>1, <2>2
<1>9. CASE UNCHANGED writerVars \/ AllWritten
  BY <1>9 DEF writerVars, session, AllWritten, WriterTypeOK
<1> QED
  BY <1>1, <1>2, <1>3, <1>4, <1>5, <1>6, <1>7, <1>8, <1>9 DEF WriterNext, WriterGo

\* Only the goroutine that acts moves; where it stays at work, its job stays.
LEMMA WriterLockStep ==
  ASSUME WriterTypeOK, WriterLockInv, [WriterNext]_writerVars
  PROVE  WriterLockInv'
<1> USE FlapAssumption DEF WriterLockInv, OneLockAtATime
<1>1. ASSUME NEW w \in Writers, Start(w) PROVE WriterLockInv'
  <2>1. \A v \in Writers \ {w} : Target(v)' = Target(v) /\ place'[v] = place[v] /\ todo'[v] = todo[v]
    BY <1>1 DEF Start, WriterTypeOK, Target
  <2>2. place'[w] = "next" /\ place[w] = "idle" /\ todo'[w] # <<>>
    BY <1>1 DEF Start, WriterTypeOK
  <2> QED
    BY <1>1, <2>1, <2>2 DEF Start, WriterTypeOK
<1>2. ASSUME NEW w \in Writers, SendSnac(w) \/ SendReply(w) PROVE WriterLockInv'
  <2>1. \A v \in Writers : Target(v)' = Target(v)
    BY <1>2 DEF SendSnac, SendReply, Target
  <2> QED
    BY <1>2, <2>1 DEF SendSnac, SendReply, WriterTypeOK
<1>3. ASSUME NEW w \in Writers, Acquire(w) PROVE WriterLockInv'
  <2>1. \A v \in Writers : Target(v)' = Target(v)
    BY <1>3 DEF Acquire, Target
  <2>2. Target(w) \in Clients
    BY <1>3, HasTarget DEF Acquire
  <2>3. /\ place[w] = "lock" /\ writeMu[Target(w)] = NoWriter
        /\ place' = [place EXCEPT ![w] = "write"] /\ todo' = todo
        /\ writeMu' = [writeMu EXCEPT ![Target(w)] = w]
    BY <1>3 DEF Acquire
  <2>4. place'[w] = "write" /\ \A v \in Writers \ {w} : place'[v] = place[v]
    BY <2>3 DEF WriterTypeOK
  <2>5. writeMu'[Target(w)] = w /\ \A c \in Clients \ {Target(w)} : writeMu'[c] = writeMu[c]
    BY <2>2, <2>3 DEF WriterTypeOK
  <2>6. \A v \in Writers : place[v] = "write" => Target(v) \in Clients \ {Target(w)}
    BY <2>3, HasTarget
  <2>7. \A v \in Writers : place'[v] = "write" => writeMu'[Target(v)] = v
    BY <2>4, <2>5, <2>6
  <2>8. \A c \in Clients : writeMu'[c] # NoWriter =>
          place'[writeMu'[c]] = "write" /\ Target(writeMu'[c]) = c
    <3> SUFFICES ASSUME NEW c \in Clients \ {Target(w)}, writeMu[c] # NoWriter
                 PROVE  place'[writeMu[c]] = "write" /\ Target(writeMu[c]) = c
      BY <2>4, <2>5
    <3>1. writeMu[c] \in Writers /\ place[writeMu[c]] = "write" /\ Target(writeMu[c]) = c
      BY DEF WriterTypeOK
    <3> QED
      BY <3>1, <2>3, <2>4
  <2>9. \A c \in Clients : writeMu'[c] \in Writers \cup {NoWriter}
    BY <2>2, <2>5 DEF WriterTypeOK
  <2>10. \A v \in Writers : place'[v] \in {"next", "lock", "write"} => todo'[v] # <<>>
    BY <2>3, <2>4
  <2> QED
    BY <2>1, <2>7, <2>8, <2>9, <2>10
<1>4. ASSUME NEW w \in Writers, Write(w) \/ WriteFails(w) PROVE WriterLockInv'
  <2>1. place[w] = "write" /\ NextDeed(w)
    BY <1>4 DEF Write, WriteFails
  <2>2. Target(w) \in Clients /\ writeMu[Target(w)] = w
    BY <2>1, HasTarget
  <2>3. writeMu' = [writeMu EXCEPT ![Target(w)] = NoWriter]
    BY <1>4 DEF Write, WriteFails
  <2>4. \A v \in Writers \ {w} : place[v] = "write" => Target(v) # Target(w)
    BY <2>2
  <2>5. writeMu'[Target(w)] = NoWriter
        /\ \A c \in Clients \ {Target(w)} : writeMu'[c] = writeMu[c]
    BY <2>2, <2>3 DEF WriterTypeOK
  <2>6. place'[w] \in {"next", "done"} /\ (place'[w] = "next" => todo'[w] # <<>>)
    BY <2>1, NextDeedTyped
  <2>7. \A v \in Writers \ {w} : place'[v] = place[v] /\ todo'[v] = todo[v] /\ Target(v)' = Target(v)
    BY <2>1, NextDeedTyped
  <2>8. \A v \in Writers : place'[v] = "write" => writeMu'[Target(v)'] = v
    BY <2>4, <2>5, <2>6, <2>7, HasTarget
  <2>9. ASSUME NEW c \in Clients, writeMu'[c] # NoWriter
        PROVE  place'[writeMu'[c]] = "write" /\ Target(writeMu[c])' = c /\ writeMu'[c] = writeMu[c]
    <3>1. c # Target(w) /\ writeMu'[c] = writeMu[c]
      BY <2>5, <2>9
    <3>2. writeMu[c] \in Writers /\ place[writeMu[c]] = "write" /\ Target(writeMu[c]) = c
      BY <2>9, <3>1 DEF WriterTypeOK
    <3> QED
      BY <3>1, <3>2, <2>7
  <2>10. \A c \in Clients : (writeMu[c] # NoWriter) => writeMu[c] \in Writers
    BY DEF WriterTypeOK
  <2> QED
    BY <2>6, <2>7, <2>8, <2>9, <2>10
<1>5. ASSUME NEW w \in Writers, Close(w) PROVE WriterLockInv'
  <2>1. place[w] = "next" /\ NextDeed(w) /\ writeMu' = writeMu
    BY <1>5 DEF Close
  <2>2. \A c \in Clients : writeMu[c] # NoWriter => writeMu[c] \in Writers \ {w}
    BY <2>1 DEF WriterTypeOK
  <2>3. place'[w] \in {"next", "done"} /\ (place'[w] = "next" => todo'[w] # <<>>)
    BY <2>1, NextDeedTyped
  <2>4. \A v \in Writers \ {w} : place'[v] = place[v] /\ todo'[v] = todo[v] /\ Target(v)' = Target(v)
    BY <2>1, NextDeedTyped
  <2> QED
    BY <2>1, <2>2, <2>3, <2>4
<1>6. ASSUME NEW c \in Clients, ClientReads(c) \/ ClientCloses(c) PROVE WriterLockInv'
  BY <1>6 DEF ClientReads, ClientCloses, session, Target
<1>7. CASE UNCHANGED writerVars \/ AllWritten
  BY <1>7 DEF writerVars, session, AllWritten, Target
<1> QED
  BY <1>1, <1>2, <1>3, <1>4, <1>5, <1>6, <1>7 DEF WriterNext, WriterGo

----------------------------------------------------------------------------
(* What reaches the wire.                                                  *)

\* A write adds one frame to one connection, and frees its mutex.
LEMMA WireGrows ==
  ASSUME WriterTypeOK, WriterLockInv, NEW w \in Writers, Write(w), NEW c, c = Target(w)
  PROVE  /\ c \in Clients /\ connected[c] /\ place[w] = "write" /\ writeMu[c] = w
         /\ Len(wire[c]) \in Nat
         /\ Len(wire'[c]) = Len(wire[c]) + 1
         /\ \A i \in 1 .. Len(wire[c]) : wire'[c][i] = wire[c][i]
         /\ wire'[c][Len(wire[c]) + 1].seq = seq[c]
         /\ wire'[c][Len(wire[c]) + 1].id = id[w]
         /\ writeMu'[c] = NoWriter
         /\ \A d \in Clients \ {c} : wire'[d] = wire[d] /\ writeMu'[d] = writeMu[d]
         /\ connected' = connected /\ seq' = seq /\ snacReqID' = snacReqID
<1> DEFINE f == [seq |-> seq[c], id |-> id[w]]
<1>1. c \in Clients /\ place[w] = "write" /\ writeMu[c] = w
  BY HasTarget DEF Write, WriterLockInv
<1>2. f \in Frame
  BY <1>1 DEF Frame, WriterTypeOK
<1>3. wire[c] \in Seq(Frame)
  BY <1>1 DEF WriterTypeOK
<1>4. wire' = [wire EXCEPT ![c] = Append(wire[c], f)]
  BY DEF Write
<1>5. f.seq = seq[c] /\ f.id = id[w]
  OBVIOUS
<1> HIDE DEF f
<1>6. /\ Len(wire[c]) \in Nat
      /\ Len(Append(wire[c], f)) = Len(wire[c]) + 1
      /\ \A i \in 1 .. Len(wire[c]) : Append(wire[c], f)[i] = wire[c][i]
      /\ Append(wire[c], f)[Len(wire[c]) + 1] = f
  BY <1>2, <1>3
<1>7. wire'[c] = Append(wire[c], f) /\ \A d \in Clients \ {c} : wire'[d] = wire[d]
  BY <1>1, <1>4 DEF WriterTypeOK
<1>8. writeMu'[c] = NoWriter /\ \A d \in Clients \ {c} : writeMu'[d] = writeMu[d]
  BY <1>1 DEF Write, WriterTypeOK
<1> QED
  BY <1>1, <1>5, <1>6, <1>7, <1>8 DEF Write, session

\* Frames of one connection number on: the mutex is held from the taking of a
\* number to the end of its write.
LEMMA SeqStep ==
  ASSUME WriterTypeOK, WriterLockInv, SeqInv, SequenceUnbroken, [WriterNext]_writerVars
  PROVE  SeqInv' /\ SequenceUnbroken'
<1> USE FlapAssumption
<1>1. ASSUME wire' = wire,
             \A c \in Clients : connected'[c] =>
               connected[c] /\ seq'[c] = seq[c] /\ writeMu'[c] = writeMu[c]
      PROVE  SeqInv' /\ SequenceUnbroken'
  BY <1>1 DEF SeqInv, SequenceUnbroken, LastSeq
<1>2. ASSUME NEW w \in Writers, Start(w) \/ SendSnac(w) \/ SendReply(w) \/ Close(w)
      PROVE  SeqInv' /\ SequenceUnbroken'
  <2>1. wire' = wire /\ seq' = seq /\ writeMu' = writeMu
    BY <1>2 DEF Start, SendSnac, SendReply, Close, session
  <2>2. \A c \in Clients : connected'[c] => connected[c]
    <3>1. CASE Close(w)
      BY <3>1, HasTarget DEF Close, WriterTypeOK
    <3>2. CASE connected' = connected
      BY <3>2
    <3> QED
      BY <1>2, <3>1, <3>2 DEF Start, SendSnac, SendReply, session
  <2> QED
    BY <1>1, <2>1, <2>2
<1>3. ASSUME NEW w \in Writers, Acquire(w) PROVE SeqInv' /\ SequenceUnbroken'
  <2>1. Target(w) \in Clients /\ writeMu[Target(w)] = NoWriter /\ w # NoWriter
    BY <1>3, HasTarget DEF Acquire
  <2>2. /\ writeMu'[Target(w)] = w
        /\ seq'[Target(w)] = (seq[Target(w)] + 1) % SeqMod
        /\ \A c \in Clients \ {Target(w)} : writeMu'[c] = writeMu[c] /\ seq'[c] = seq[c]
        /\ wire' = wire /\ connected' = connected
    BY <1>3, <2>1 DEF Acquire, WriterTypeOK
  <2>3. SequenceUnbroken'
    BY <2>2 DEF SequenceUnbroken
  <2>4. ASSUME NEW c \in Clients, connected[c], wire[c] # <<>>
        PROVE  seq'[c] = IF writeMu'[c] = NoWriter THEN LastSeq(c) ELSE (LastSeq(c) + 1) % SeqMod
    <3>1. seq[c] = IF writeMu[c] = NoWriter THEN LastSeq(c) ELSE (LastSeq(c) + 1) % SeqMod
      BY <2>4 DEF SeqInv
    <3> QED
      BY <3>1, <2>1, <2>2
  <2>5. SeqInv'
    BY <2>2, <2>4 DEF SeqInv, LastSeq
  <2> QED
    BY <2>3, <2>5
<1>4. ASSUME NEW w \in Writers, Write(w) PROVE SeqInv' /\ SequenceUnbroken'
  <2> DEFINE c == Target(w)
             n == Len(wire[c])
  <2>1. /\ c \in Clients /\ connected[c] /\ writeMu[c] = w
        /\ n \in Nat /\ Len(wire'[c]) = n + 1
        /\ \A i \in 1 .. n : wire'[c][i] = wire[c][i]
        /\ wire'[c][n + 1].seq = seq[c]
        /\ writeMu'[c] = NoWriter
        /\ \A d \in Clients \ {c} : wire'[d] = wire[d] /\ writeMu'[d] = writeMu[d]
        /\ connected' = connected /\ seq' = seq
    BY <1>4, WireGrows
  <2>2. n # 0 => seq[c] = (wire[c][n].seq + 1) % SeqMod
    <3>1. Len(<<>>) = 0
      OBVIOUS
    <3>2. n # 0 => wire[c] # <<>>
      BY <3>1, Zenon
    <3> QED
      BY <3>2, <2>1 DEF SeqInv, LastSeq
  <2>3. \A i \in 1 .. n - 1 : wire[c][i + 1].seq = (wire[c][i].seq + 1) % SeqMod
    BY <2>1 DEF SequenceUnbroken
  <2>4. ASSUME NEW i \in 1 .. n
        PROVE  wire'[c][i + 1].seq = (wire'[c][i].seq + 1) % SeqMod
    <3> HIDE DEF c, n
    <3>1. CASE i = n
      BY <3>1, <2>1, <2>2
    <3>2. CASE i # n
      <4>1. i \in 1 .. n - 1 /\ i + 1 \in 1 .. n
        BY <3>2, <2>1
      <4> QED
        BY <4>1, <2>1, <2>3
    <3> QED
      BY <3>1, <3>2
  <2>5. SequenceUnbroken'
    <3>1. ASSUME NEW d \in Clients, NEW i \in 1 .. Len(wire'[d]) - 1
          PROVE  wire'[d][i + 1].seq = (wire'[d][i].seq + 1) % SeqMod
      <4>1. CASE d = c
        <5>1. i \in 1 .. n
          BY <4>1, <2>1
        <5> QED
          BY <4>1, <5>1, <2>4
      <4>2. CASE d # c
        BY <4>2, <2>1 DEF SequenceUnbroken
      <4> QED
        BY <4>1, <4>2
    <3> QED
      BY <3>1 DEF SequenceUnbroken
  <2>6. SeqInv'
    <3>1. ASSUME NEW d \in Clients, connected'[d], wire'[d] # <<>>
          PROVE  seq'[d] = IF writeMu'[d] = NoWriter THEN LastSeq(d)'
                                                     ELSE (LastSeq(d)' + 1) % SeqMod
      <4>1. CASE d = c
        <5>1. LastSeq(d)' = seq[c]
          BY <4>1, <2>1 DEF LastSeq
        <5> QED
          BY <4>1, <5>1, <2>1
      <4>2. CASE d # c
        BY <4>2, <3>1, <2>1 DEF SeqInv, LastSeq
      <4> QED
        BY <4>1, <4>2
    <3> QED
      BY <3>1 DEF SeqInv
  <2> QED
    BY <2>5, <2>6
<1>5. ASSUME NEW w \in Writers, WriteFails(w) PROVE SeqInv' /\ SequenceUnbroken'
  <2>1. Target(w) \in Clients /\ ~connected[Target(w)]
    BY <1>5, HasTarget DEF WriteFails
  <2> QED
    BY <1>1, <1>5, <2>1 DEF WriteFails, session, WriterTypeOK
<1>6. ASSUME NEW c \in Clients, ClientReads(c) \/ ClientCloses(c)
      PROVE  SeqInv' /\ SequenceUnbroken'
  BY <1>1, <1>6 DEF ClientReads, ClientCloses, session, WriterTypeOK
<1>7. CASE UNCHANGED writerVars \/ AllWritten
  BY <1>1, <1>7 DEF writerVars, session, AllWritten
<1> QED
  BY <1>2, <1>3, <1>4, <1>5, <1>6, <1>7 DEF WriterNext, WriterGo

----------------------------------------------------------------------------
(* Request ids.                                                            *)

\* A step that neither draws nor writes: those at work keep their id.
LEMMA IdFrame ==
  ASSUME WriterTypeOK, WriterLockInv, IdInv, IdsUnique, wire' = wire, snacReqID' = snacReqID,
         \A v \in Writers : Sending(v)' =>
           /\ Target(v)' = Target(v) /\ id'[v] = id[v]
           /\ Sending(v) \/ place[v] = "next",
         \A v \in Writers : ~Sending(v)' => id'[v] = NoId
  PROVE  IdInv' /\ IdsUnique'
<1>1. IdsUnique'
  BY DEF IdsUnique
<1>2. \A c \in Clients : OnWire(c)' = OnWire(c)
  BY DEF OnWire
<1>3. ASSUME NEW v \in Writers, Sending(v)'
      PROVE  /\ id'[v] <= snacReqID[Target(v)]
             /\ id'[v] # NoId => Sending(v) /\ id'[v] \notin OnWire(Target(v))
             /\ Target(v) \in Clients /\ Target(v)' = Target(v)
  <2>1. Target(v) \in Clients
    BY <1>3, HasTarget DEF Sending
  <2>2. CASE Sending(v)
    BY <1>3, <2>1, <2>2 DEF IdInv
  <2>3. CASE ~Sending(v)
    <3>1. id'[v] = NoId
      BY <1>3, <2>3 DEF IdInv
    <3>2. snacReqID[Target(v)] \in 0 .. MaxId
      BY <2>1 DEF WriterTypeOK
    <3> QED
      BY <1>3, <2>1, <3>1, <3>2, FlapAssumption DEF NoId
  <2> QED
    BY <2>2, <2>3
<1>4. \A c \in Clients : \A n \in OnWire(c)' : n <= snacReqID'[c]
  BY <1>2 DEF IdInv
<1>5. \A v \in Writers : Sending(v)' =>
        /\ id'[v] <= snacReqID'[Target(v)']
        /\ id'[v] # NoId => id'[v] \notin OnWire(Target(v))'
  <2> SUFFICES ASSUME NEW v \in Writers, Sending(v)'
               PROVE  /\ id'[v] <= snacReqID'[Target(v)']
                      /\ id'[v] # NoId => id'[v] \notin OnWire(Target(v))'
    OBVIOUS
  <2>1. OnWire(Target(v))' = OnWire(Target(v))
    BY <1>3 DEF OnWire
  <2> QED
    BY <1>3, <2>1
<1>6. ASSUME NEW v \in Writers, NEW w \in Writers, v # w, Sending(v)', Sending(w)',
             Target(v)' = Target(w)', id'[v] # NoId
      PROVE  id'[v] # id'[w]
  <2>1. Sending(v) /\ Target(v) = Target(w) /\ id'[v] = id[v] /\ id'[w] = id[w]
    BY <1>3, <1>6
  <2> QED
    BY <1>6, <2>1 DEF IdInv
<1> QED
  BY <1>1, <1>4, <1>5, <1>6 DEF IdInv

\* An id is given once, and leaves the hands of its goroutine for the wire.
LEMMA IdStep ==
  ASSUME WriterTypeOK, WriterLockInv, IdInv, IdsUnique, [WriterNext]_writerVars
  PROVE  IdInv' /\ IdsUnique'
<1> USE FlapAssumption
<1>1. ASSUME NEW w \in Writers, Start(w) \/ SendReply(w) \/ Acquire(w)
      PROVE  IdInv' /\ IdsUnique'
  <2>1. wire' = wire /\ snacReqID' = snacReqID /\ id' = id
    BY <1>1 DEF Start, SendReply, Acquire, session
  <2>2. /\ \A v \in Writers \ {w} : place'[v] = place[v] /\ todo'[v] = todo[v]
        /\ place'[w] # "next" => Sending(w)' /\ (Sending(w) \/ place[w] = "next") /\ todo'[w] = todo[w]
        /\ place'[w] = "next" => ~Sending(w)
    BY <1>1 DEF Start, SendReply, Acquire, WriterTypeOK, Sending
  <2>3. \A v \in Writers : Sending(v)' =>
          Target(v)' = Target(v) /\ id'[v] = id[v] /\ (Sending(v) \/ place[v] = "next")
    BY <2>1, <2>2 DEF Sending, Target
  <2>4. \A v \in Writers : ~Sending(v)' => ~Sending(v)
    BY <2>2 DEF Sending
  <2> QED
    BY <2>1, <2>3, <2>4, IdFrame DEF IdInv
<1>2. ASSUME NEW w \in Writers, WriteFails(w) \/ Close(w) PROVE IdInv' /\ IdsUnique'
  <2>1. /\ place[w] \in {"next", "write"} /\ NextDeed(w)
        /\ wire' = wire /\ snacReqID' = snacReqID
    BY <1>2 DEF WriteFails, Close, session
  <2>2. place'[w] \in {"next", "done"} /\ id'[w] = NoId
    BY <2>1, NextDeedTyped
  <2>3. \A v \in Writers \ {w} : place'[v] = place[v] /\ id'[v] = id[v] /\ Target(v)' = Target(v)
    BY <2>1, NextDeedTyped
  <2> QED
    BY <2>1, <2>2, <2>3, IdFrame DEF IdInv, Sending
<1>3. ASSUME NEW c \in Clients, ClientReads(c) \/ ClientCloses(c) PROVE IdInv' /\ IdsUnique'
  BY <1>3, IdFrame DEF ClientReads, ClientCloses, session, Sending, Target, IdInv
<1>4. CASE UNCHANGED writerVars \/ AllWritten
  BY <1>4, IdFrame DEF writerVars, session, AllWritten, Sending, Target, IdInv
<1>5. ASSUME NEW w \in Writers, SendSnac(w) PROVE IdInv' /\ IdsUnique'
  <2> DEFINE c == Target(w)
  <2>1. c \in Clients /\ snacReqID[c] \in Nat /\ ~Sending(w)
    BY <1>5, HasTarget DEF SendSnac, WriterTypeOK, Sending
  <2>2. /\ snacReqID'[c] = snacReqID[c] + 1 /\ id'[w] = snacReqID[c] + 1
        /\ \A d \in Clients \ {c} : snacReqID'[d] = snacReqID[d]
        /\ \A v \in Writers \ {w} : id'[v] = id[v] /\ place'[v] = place[v]
        /\ place'[w] = "lock" /\ wire' = wire /\ todo' = todo
    BY <1>5, <2>1 DEF SendSnac, DrawId, WriterTypeOK
  <2>3. /\ \A v \in Writers : Target(v)' = Target(v)
        /\ \A d : OnWire(d)' = OnWire(d)
        /\ \A v \in Writers \ {w} : Sending(v)' = Sending(v)
    BY <2>2 DEF Target, OnWire, Sending
  <2>4. IdsUnique'
    BY <2>2 DEF IdsUnique
  <2>5. /\ \A n \in OnWire(c) : n \in Nat
        /\ \A v \in Writers : id[v] \in Nat
    <3>1. wire[c] \in Seq(Frame)
      BY <2>1 DEF WriterTypeOK
    <3>2. \A i \in 1 .. Len(wire[c]) : wire[c][i] \in Frame
      BY <3>1, ElementOfSeq
    <3>3. \A i \in 1 .. Len(wire[c]) : wire[c][i].id \in Nat
      BY <3>2 DEF Frame
    <3>4. \A v \in Writers : id[v] \in Nat
      BY DEF WriterTypeOK
    <3> QED
      BY <3>3, <3>4 DEF OnWire
  <2>6. \A d \in Clients : \A n \in OnWire(d) : n <= snacReqID'[d]
    <3>1. \A n \in OnWire(c) : n <= snacReqID[c]
      BY <2>1 DEF IdInv
    <3>2. \A n \in OnWire(c) : n <= snacReqID'[c]
      <4> HIDE DEF c
      <4> QED
        BY <2>1, <2>2, <2>5, <3>1
    <3> QED
      BY <2>2, <3>2 DEF IdInv
  <2>7. \A v \in Writers \ {w} : Sending(v) /\ Target(v) = c =>
          id[v] <= snacReqID[c] /\ id[v] # id'[w]
    <3> HIDE DEF c
    <3>1. \A v \in Writers \ {w} : Sending(v) /\ Target(v) = c => id[v] <= snacReqID[c]
      BY DEF IdInv
    <3> QED
      BY <3>1, <2>1, <2>2, <2>5
  <2>8. ASSUME NEW v \in Writers, Sending(v)'
        PROVE  /\ id'[v] <= snacReqID'[Target(v)]
               /\ id'[v] # NoId => id'[v] \notin OnWire(Target(v))
    <3>1. CASE v = w
      <4>1. \A n \in OnWire(c) : n <= snacReqID[c]
        BY <2>1 DEF IdInv
      <4> HIDE DEF c
      <4>2. id'[w] \notin OnWire(c)
        BY <2>1, <2>2, <2>5, <4>1
      <4> QED
        BY <2>1, <2>2, <4>2, <3>1 DEF c
    <3>2. CASE v # w /\ Target(v) = c
      <4>1. id[v] <= snacReqID[c] + 1
        <5> HIDE DEF c
        <5> QED
          BY <2>1, <2>3, <2>5, <2>7, <2>8, <3>2
      <4> QED
        BY <2>2, <2>3, <2>8, <3>2, <4>1 DEF IdInv
    <3>3. CASE v # w /\ Target(v) # c
      <4>1. Target(v) \in Clients
        BY <2>3, <2>8, <3>3, HasTarget DEF Sending
      <4> QED
        BY <2>2, <2>3, <2>8, <3>3, <4>1 DEF IdInv
    <3> QED
      BY <3>1, <3>2, <3>3
  <2>9. ASSUME NEW u \in Writers, NEW v \in Writers, u # v, Sending(u)', Sending(v)',
               Target(u) = Target(v), id'[u] # NoId
        PROVE  id'[u] # id'[v]
    <3>1. CASE u = w
      BY <2>2, <2>3, <2>7, <2>9, <3>1
    <3>2. CASE v = w
      BY <2>2, <2>3, <2>7, <2>9, <3>2
    <3>3. CASE u # w /\ v # w
      BY <2>2, <2>3, <2>9, <3>3 DEF IdInv
    <3> QED
      BY <3>1, <3>2, <3>3
  <2>10. \A v \in Writers : ~Sending(v)' => id'[v] = NoId
    BY <2>2, <2>3 DEF IdInv, Sending
  <2> QED
    BY <2>3, <2>4, <2>6, <2>8, <2>9, <2>10 DEF IdInv
<1>6. ASSUME NEW w \in Writers, Write(w), NEW c, c = Target(w) PROVE IdInv' /\ IdsUnique'
  <2> DEFINE n == Len(wire[c])
  <2>1. /\ c \in Clients /\ place[w] = "write" /\ n \in Nat /\ Len(wire'[c]) = n + 1
        /\ \A i \in 1 .. n : wire'[c][i] = wire[c][i]
        /\ wire'[c][n + 1].id = id[w]
        /\ \A d \in Clients \ {c} : wire'[d] = wire[d]
        /\ snacReqID' = snacReqID
    BY <1>6, WireGrows
  <2>2. NextDeed(w) /\ Sending(w)
    BY <1>6 DEF Write, Sending
  <2>3. ~Sending(w)' /\ id'[w] = NoId
    BY <2>2, NextDeedTyped DEF Sending
  <2>4. \A v \in Writers \ {w} :
          Sending(v)' = Sending(v) /\ id'[v] = id[v] /\ Target(v)' = Target(v)
    BY <2>2, NextDeedTyped DEF Sending
  <2>5. /\ OnWire(c)' = OnWire(c) \cup {id[w]}
        /\ \A d \in Clients \ {c} : OnWire(d)' = OnWire(d)
    <3>1. OnWire(c)' = {wire'[c][i].id : i \in 1 .. n + 1}
      BY <2>1 DEF OnWire
    <3>2. OnWire(c) = {wire'[c][i].id : i \in 1 .. n}
      BY <2>1 DEF OnWire
    <3>3. 1 .. n + 1 = (1 .. n) \cup {n + 1}
      BY <2>1
    <3>4. \A d \in Clients \ {c} : OnWire(d)' = OnWire(d)
      BY <2>1 DEF OnWire
    <3> HIDE DEF n
    <3> QED
      BY <2>1, <3>1, <3>2, <3>3, <3>4
  <2>6. id[w] <= snacReqID[c] /\ (id[w] # NoId => id[w] \notin OnWire(c))
    BY <1>6, <2>2 DEF IdInv
  <2>7. \A d \in Clients : \A k \in OnWire(d)' : k <= snacReqID'[d]
    <3> HIDE DEF n
    <3> QED
      BY <2>1, <2>5, <2>6 DEF IdInv
  <2>8. ASSUME NEW v \in Writers, Sending(v)'
        PROVE  /\ id'[v] <= snacReqID'[Target(v)']
               /\ id'[v] # NoId => id'[v] \notin OnWire(Target(v))'
    <3>1. v # w /\ Sending(v) /\ id'[v] = id[v] /\ Target(v)' = Target(v)
      BY <2>3, <2>4, <2>8
    <3>2. Target(v) \in Clients
      BY <3>1, HasTarget DEF Sending
    <3>3. OnWire(Target(v))' = IF Target(v) = c THEN OnWire(c) \cup {id[w]} ELSE OnWire(Target(v))
      <4> SUFFICES ASSUME NEW d, d = Target(v)
                   PROVE  OnWire(Target(v))' = IF d = c THEN OnWire(c) \cup {id[w]} ELSE OnWire(d)
        OBVIOUS
      <4>1. OnWire(Target(v))' = OnWire(d)'
        BY <3>1 DEF OnWire
      <4> QED
        BY <4>1, <2>5, <3>2
    <3>4. Target(v) = c /\ id[v] # NoId => id[v] # id[w]
      BY <1>6, <2>2, <3>1 DEF IdInv
    <3> QED
      BY <2>1, <3>1, <3>3, <3>4 DEF IdInv
  <2>9. ASSUME NEW u \in Writers, NEW v \in Writers, u # v, Sending(u)', Sending(v)',
               Target(u)' = Target(v)', id'[u] # NoId
        PROVE  id'[u] # id'[v]
    BY <2>3, <2>4, <2>9 DEF IdInv
  <2>10. \A v \in Writers : ~Sending(v)' => id'[v] = NoId
    BY <2>3, <2>4 DEF IdInv
  <2>11. ASSUME NEW d \in Clients, NEW i \in 1 .. Len(wire'[d]), NEW j \in 1 .. Len(wire'[d]),
                i # j, wire'[d][i].id # NoId
         PROVE  wire'[d][i].id # wire'[d][j].id
    <3>1. CASE d # c
      BY <2>1, <2>11, <3>1 DEF IdsUnique
    <3>2. CASE d = c /\ i # n + 1 /\ j # n + 1
      <4>1. i \in 1 .. n /\ j \in 1 .. n
        BY <2>1, <3>2
      <4> QED
        BY <2>1, <2>11, <3>2, <4>1 DEF IdsUnique
    <3>3. CASE d = c /\ i = n + 1
      <4>1. j \in 1 .. n
        BY <2>1, <2>11, <3>3
      <4> QED
        BY <2>1, <2>6, <2>11, <3>3, <4>1 DEF OnWire
    <3>4. CASE d = c /\ j = n + 1
      <4>1. i \in 1 .. n
        BY <2>1, <2>11, <3>4
      <4> QED
        BY <2>1, <2>6, <2>11, <3>4, <4>1 DEF OnWire
    <3> QED
      BY <3>1, <3>2, <3>3, <3>4
  <2>12. IdsUnique'
    BY <2>11 DEF IdsUnique
  <2> QED
    BY <2>7, <2>8, <2>9, <2>10, <2>12 DEF IdInv
<1> QED
  BY <1>1, <1>2, <1>3, <1>4, <1>5, <1>6 DEF WriterNext, WriterGo

\* NoIdLost in the terms above.
InHand(c) == {id[w] : w \in {v \in Writers : Sending(v) /\ Target(v) = c}}
Accounted == \A c \in Clients : connected[c] => 1 .. snacReqID[c] \subseteq OnWire(c) \cup InHand(c)

LEMMA AccountedIsNoIdLost == Accounted <=> NoIdLost
<1>1. ASSUME NEW c \in Clients, NEW n
      PROVE  n \in OnWire(c) \cup InHand(c) <=>
               \/ \E i \in 1 .. Len(wire[c]) : wire[c][i].id = n
               \/ \E w \in Writers : Holds(w, c, n)
  BY DEF OnWire, InHand, Holds, Sending
<1> QED
  BY <1>1 DEF Accounted, NoIdLost

LEMMA LostStep ==
  ASSUME WriterTypeOK, WriterLockInv, Accounted, [WriterNext]_writerVars
  PROVE  Accounted'
<1> USE FlapAssumption
<1>1. ASSUME wire' = wire, snacReqID' = snacReqID,
             \A c \in Clients : connected'[c] => connected[c],
             \A v \in Writers : Sending(v) /\ (Target(v) \in Clients => connected'[Target(v)]) =>
               Sending(v)' /\ Target(v)' = Target(v) /\ id'[v] = id[v]
      PROVE  Accounted'
  <2> SUFFICES ASSUME NEW c \in Clients, connected'[c], NEW n \in 1 .. snacReqID[c]
               PROVE  n \in OnWire(c)' \cup InHand(c)'
    BY <1>1 DEF Accounted
  <2>1. n \in OnWire(c) \cup InHand(c)
    BY <1>1 DEF Accounted
  <2>2. OnWire(c)' = OnWire(c)
    BY <1>1 DEF OnWire
  <2>3. InHand(c) \subseteq InHand(c)'
    BY <1>1 DEF InHand
  <2> QED
    BY <2>1, <2>2, <2>3
<1>2. ASSUME NEW w \in Writers, Start(w) \/ SendReply(w) \/ Acquire(w) PROVE Accounted'
  <2>1. wire' = wire /\ snacReqID' = snacReqID /\ id' = id /\ connected' = connected
    BY <1>2 DEF Start, SendReply, Acquire, session
  <2>2. /\ \A v \in Writers \ {w} : place'[v] = place[v] /\ todo'[v] = todo[v]
        /\ Sending(w) => Sending(w)' /\ todo'[w] = todo[w]
    BY <1>2 DEF Start, SendReply, Acquire, WriterTypeOK, Sending
  <2>3. \A v \in Writers : Sending(v) => Sending(v)' /\ Target(v)' = Target(v)
    BY <2>2 DEF Sending, Target
  <2> QED
    BY <1>1, <2>1, <2>3
<1>3. ASSUME NEW w \in Writers, WriteFails(w) PROVE Accounted'
  <2>1. place[w] = "write" /\ NextDeed(w) /\ ~connected[Target(w)] /\ Target(w) \in Clients
        /\ wire' = wire /\ snacReqID' = snacReqID /\ connected' = connected
    BY <1>3, HasTarget DEF WriteFails, session
  <2>2. \A v \in Writers \ {w} : place'[v] = place[v] /\ id'[v] = id[v] /\ Target(v)' = Target(v)
    BY <2>1, NextDeedTyped
  <2> QED
    BY <1>1, <2>1, <2>2 DEF Sending
<1>4. ASSUME NEW w \in Writers, Close(w) PROVE Accounted'
  <2>1. place[w] = "next" /\ NextDeed(w) /\ Target(w) \in Clients
        /\ wire' = wire /\ snacReqID' = snacReqID
        /\ connected' = [connected EXCEPT ![Target(w)] = FALSE]
    BY <1>4, HasTarget DEF Close
  <2>2. \A v \in Writers \ {w} : place'[v] = place[v] /\ id'[v] = id[v] /\ Target(v)' = Target(v)
    BY <2>1, NextDeedTyped
  <2> QED
    BY <1>1, <2>1, <2>2 DEF Sending, WriterTypeOK
<1>5. ASSUME NEW c \in Clients, ClientReads(c) \/ ClientCloses(c) PROVE Accounted'
  BY <1>1, <1>5 DEF ClientReads, ClientCloses, session, Sending, Target, WriterTypeOK
<1>6. CASE UNCHANGED writerVars \/ AllWritten
  BY <1>1, <1>6 DEF writerVars, session, AllWritten, Sending, Target
<1>7. ASSUME NEW w \in Writers, SendSnac(w), NEW c, c = Target(w) PROVE Accounted'
  <2>1. c \in Clients /\ snacReqID[c] \in Nat /\ ~Sending(w)
    BY <1>7, HasTarget DEF SendSnac, WriterTypeOK, Sending
  <2>2. /\ snacReqID'[c] = snacReqID[c] + 1 /\ id'[w] = snacReqID[c] + 1
        /\ \A d \in Clients \ {c} : snacReqID'[d] = snacReqID[d]
        /\ \A v \in Writers \ {w} : id'[v] = id[v] /\ place'[v] = place[v]
        /\ place'[w] = "lock" /\ wire' = wire /\ todo' = todo /\ connected' = connected
    BY <1>7, <2>1 DEF SendSnac, DrawId, WriterTypeOK
  <2>3. /\ \A v \in Writers : Target(v)' = Target(v)
        /\ \A d \in Clients : OnWire(d)' = OnWire(d)
        /\ \A v \in Writers : Sending(v) => Sending(v)' /\ id'[v] = id[v]
        /\ Sending(w)'
    BY <2>1, <2>2 DEF Target, OnWire, Sending
  <2>4. \A d \in Clients : InHand(d) \subseteq InHand(d)'
    BY <2>3 DEF InHand
  <2>5. snacReqID[c] + 1 \in InHand(c)'
    BY <1>7, <2>2, <2>3 DEF InHand
  <2>6. \A d \in Clients : connected[d] => 1 .. snacReqID'[d] \subseteq OnWire(d) \cup InHand(d)'
    <3>1. 1 .. snacReqID[c] + 1 = (1 .. snacReqID[c]) \cup {snacReqID[c] + 1}
      BY <2>1
    <3> QED
      BY <2>2, <2>4, <2>5, <3>1 DEF Accounted
  <2> QED
    BY <2>2, <2>3, <2>6 DEF Accounted
<1>8. ASSUME NEW w \in Writers, Write(w), NEW c, c = Target(w) PROVE Accounted'
  <2> DEFINE n == Len(wire[c])
  <2>1. /\ c \in Clients /\ n \in Nat /\ Len(wire'[c]) = n + 1
        /\ \A i \in 1 .. n : wire'[c][i] = wire[c][i]
        /\ wire'[c][n + 1].id = id[w]
        /\ \A d \in Clients \ {c} : wire'[d] = wire[d]
        /\ snacReqID' = snacReqID /\ connected' = connected
    BY <1>8, WireGrows
  <2>2. \A v \in Writers \ {w} :
          Sending(v)' = Sending(v) /\ id'[v] = id[v] /\ Target(v)' = Target(v)
    <3>1. NextDeed(w) /\ place[w] = "write"
      BY <1>8 DEF Write
    <3> QED
      BY <3>1, NextDeedTyped DEF Sending
  <2>3. OnWire(c) \cup {id[w]} \subseteq OnWire(c)'
    <3>1. \A i \in 1 .. n : i \in 1 .. n + 1
      BY <2>1
    <3>2. n + 1 \in 1 .. n + 1
      BY <2>1
    <3> HIDE DEF n
    <3>3. OnWire(c)' = {wire'[c][i].id : i \in 1 .. n + 1}
      BY <2>1 DEF OnWire
    <3>4. OnWire(c) = {wire[c][i].id : i \in 1 .. n}
      BY DEF OnWire, n
    <3> QED
      BY <2>1, <3>1, <3>2, <3>3, <3>4
  <2>4. \A d \in Clients \ {c} : OnWire(d)' = OnWire(d)
    BY <2>1 DEF OnWire
  <2>5. InHand(c) \subseteq InHand(c)' \cup {id[w]}
    BY <2>2 DEF InHand
  <2>6. \A d \in Clients \ {c} : InHand(d) \subseteq InHand(d)'
    BY <1>8, <2>2 DEF InHand
  <2> QED
    BY <2>1, <2>3, <2>4, <2>5, <2>6 DEF Accounted
<1> QED
  BY <1>2, <1>3, <1>4, <1>5, <1>6, <1>7, <1>8 DEF WriterNext, WriterGo

----------------------------------------------------------------------------
(* The theorems.                                                           *)

LEMMA WriterInitial == WriterInit => WriterInv
<1> SUFFICES ASSUME WriterInit PROVE WriterInv
  OBVIOUS
<1> USE FlapAssumption DEF WriterInit
<1>1. WriterTypeOK
  <2>1. Drawn \subseteq 0 .. SeqMod - 1
    BY SMT DEF Drawn
  <2>2. seq \in [Clients -> 0 .. SeqMod - 1]
    BY <2>1
  <2> QED
    BY <2>2 DEF WriterTypeOK, NoId
<1>2. WriterLockInv
  BY DEF WriterLockInv, OneLockAtATime
<1>3. Len(<<>>) = 0
  OBVIOUS
<1>4. SeqInv /\ SequenceUnbroken
  BY <1>3 DEF SeqInv, SequenceUnbroken
<1>5. IdInv /\ IdsUnique
  BY <1>3 DEF IdInv, IdsUnique, OnWire, Sending
<1>6. NoIdLost
  BY DEF NoIdLost
<1> QED
  BY <1>1, <1>2, <1>4, <1>5, <1>6 DEF WriterInv

LEMMA WriterNextInv == WriterInv /\ [WriterNext]_writerVars => WriterInv'
<1> SUFFICES ASSUME WriterInv, [WriterNext]_writerVars PROVE WriterInv'
  OBVIOUS
<1>1. WriterTypeOK' /\ WriterLockInv'
  BY WriterTypeStep, WriterLockStep DEF WriterInv
<1>2. SeqInv' /\ SequenceUnbroken' /\ IdInv' /\ IdsUnique'
  BY SeqStep, IdStep DEF WriterInv
<1>3. Accounted'
  BY LostStep, AccountedIsNoIdLost DEF WriterInv
<1>4. NoIdLost'
  BY <1>3, AccountedIsNoIdLost, PTL
<1> QED
  BY <1>1, <1>2, <1>4 DEF WriterInv

LEMMA WriterInvariant == WriterSpec => []WriterInv
BY WriterInitial, WriterNextInv, PTL DEF WriterSpec

\* Numbers, ids and program counters stay what they are.
THEOREM WriterTypeCorrect == WriterSpec => []WriterTypeOK
BY WriterInvariant, PTL DEF WriterInv

\* Sequence numbers run on without a gap on every connection, however many
\* goroutines write to it, round the end of the 16 bits as well.
THEOREM NumbersRunOn == WriterSpec => []SequenceUnbroken
BY WriterInvariant, PTL DEF WriterInv

\* No two frames of the server's own on one connection bear the same id.
THEOREM IdsDiffer == WriterSpec => []IdsUnique
BY WriterInvariant, PTL DEF WriterInv

\* On an open connection every id drawn is on the wire or about to be.
THEOREM NoFrameDropped == WriterSpec => []NoIdLost
BY WriterInvariant, PTL DEF WriterInv

\* No goroutine waits for a mutex with another in its hands.
THEOREM LocksNotNested == WriterSpec => []OneLockAtATime
BY WriterInvariant, PTL DEF WriterInv, WriterLockInv

\* The guards of the steps a goroutine may be about to take (SendSnac's bound on
\* the ids apart).
MayGo(w) ==
  \/ place[w] = "next" /\ Head(todo[w]).do \in {"send", "reply", "close"}
  \/ place[w] = "lock" /\ writeMu[Target(w)] = NoWriter
  \/ place[w] = "write" /\ (~connected[Target(w)] \/ unread[Target(w)] < Room)

\* What the liveness of the writer rests on: a goroutine that cannot go on waits
\* for its own target, for room at a client that does not read, or for a goroutine
\* that writes to that very client and can go on. So one step is what it waits for,
\* whatever other clients do, and nothing of a closed connection stands still.
THEOREM OnlyItsTargetHoldsUp ==
  WriterSpec => [](\A w \in Writers : Busy(w) =>
                     \/ MayGo(w)
                     \/ \E v \in Writers : /\ writeMu[Target(w)] = v /\ Target(v) = Target(w)
                                           /\ MayGo(v)
                     \/ connected[Target(w)] /\ unread[Target(w)] = Room)
<1>1. ASSUME WriterInv, NEW w \in Writers, Busy(w)
      PROVE  \/ MayGo(w)
             \/ \E v \in Writers : /\ writeMu[Target(w)] = v /\ Target(v) = Target(w)
                                   /\ MayGo(v)
             \/ connected[Target(w)] /\ unread[Target(w)] = Room
  <2>1. WriterTypeOK /\ WriterLockInv  BY <1>1 DEF WriterInv
  <2>2. Target(w) \in Clients /\ Head(todo[w]) \in Deeds
    <3>1. Target(w) \in Clients /\ todo[w] \in Seq(Deeds) /\ todo[w] # <<>>
      BY <1>1, <2>1, HasTarget DEF Busy
    <3>. QED  BY <3>1
  <2>3. connected[Target(w)] \in BOOLEAN /\ unread[Target(w)] \in 0 .. Room
    BY <2>1, <2>2 DEF WriterTypeOK
  <2>4. ~connected[Target(w)] \/ unread[Target(w)] < Room
        \/ (connected[Target(w)] /\ unread[Target(w)] = Room)
    BY <2>3, FlapAssumption
  <2>5. CASE place[w] = "next"  BY <2>2, <2>5 DEF MayGo, Deeds
  <2>6. CASE place[w] = "write"  BY <2>4, <2>6 DEF MayGo
  <2>7. CASE place[w] = "lock"
    <3>1. CASE writeMu[Target(w)] = NoWriter  BY <2>7, <3>1 DEF MayGo
    <3>2. CASE writeMu[Target(w)] # NoWriter
      <4>1. PICK v \in Writers : writeMu[Target(w)] = v
        BY <2>1, <2>2, <3>2 DEF WriterTypeOK
      <4>2. place[v] = "write" /\ Target(v) = Target(w)
        BY <2>1, <2>2, <3>2, <4>1 DEF WriterLockInv, OneLockAtATime
      <4>. QED  BY <2>4, <4>1, <4>2 DEF MayGo
    <3>. QED  BY <3>1, <3>2
  <2>. QED  BY <1>1, <2>5, <2>6, <2>7 DEF Busy
<1>2. WriterInv => \A w \in Writers : Busy(w) =>
                     \/ MayGo(w)
                     \/ \E v \in Writers : /\ writeMu[Target(w)] = v /\ Target(v) = Target(w)
                                           /\ MayGo(v)
                     \/ connected[Target(w)] /\ unread[Target(w)] = Room
  BY <1>1
<1>. QED  BY <1>2, WriterInvariant, PTL

----------------------------------------------------------------------------
(* The store's mutex and its pool of one connection.                       *)

\* The mutex and the connection are where the program counters say.
PoolLockInv ==
  /\ mu # NoCaller => stage[mu] \in {"run", "rows"} /\ (stage[mu] = "rows" => ~Search(mu))
  /\ \A w \in Callers : stage[w] = "run" => mu = w
  /\ \A w \in Callers : stage[w] = "rows" => mu = w \/ Search(w)
  /\ \A w \in Callers : w \in pool <=> stage[w] = "rows"
  /\ IsFiniteSet(pool)
  /\ \A v, w \in pool : v = w

\* How far the calls are. Who got the mutex while a search had the connection
\* is still at its first statement.
PlanInv ==
  /\ \A w \in Callers : stage[w] # "new" => plan[w] \in Plans \cup Searches
  /\ \A w \in Callers : stage[w] \in {"new", "lock"} => at[w] = 1 /\ seen[w] = Nothing
  /\ \A w \in Callers : stage[w] \in {"run", "rows"} /\ Search(w) => at[w] = 1
  /\ \A w \in Callers : stage[w] = "run" => at[w] <= Len(plan[w]) + 1
  /\ \A w \in Callers : stage[w] = "rows" => ~Over(w) /\ Current(w).op = "rows"
  /\ mu # NoCaller /\ pool # {} /\ mu \notin pool => at[mu] = 1

\* The tables of the first n - 1 statements of a plan, and those they change.
Touched(p, n) == {p[i].of : i \in {j \in DOMAIN p : j < n}}
Changed(p, n) == {p[i].of : i \in {j \in DOMAIN p : j < n /\ p[j].op = "set"}}
Reached(w) == IF stage[w] = "rows" THEN at[w] + 1 ELSE at[w]

\* A call under way has seen the tables it touched as they are, and the holder
\* of the mutex has changed those it changed and no others.
SeenInv ==
  \A w \in Callers : stage[w] \in {"run", "rows"} => \A t \in Tables :
    seen[w][t] = IF t \in Touched(plan[w], Reached(w)) THEN data[t] ELSE Unseen
DataInv ==
  mu # NoCaller => \A t \in Tables :
    data[t] = IF t \in Changed(plan[mu], at[mu]) THEN mu ELSE base[t]

\* The inductive invariant.
PoolInv == PoolTypeOK /\ PoolLockInv /\ PlanInv /\ SeenInv /\ DataInv

----------------------------------------------------------------------------
(* Plans and their statements.                                             *)

LEMMA PlansTyped == Plans \cup Searches \subseteq Seq(Statement)
<1>1. ASSUME NEW st \in Statement PROVE <<st>> \in Seq(Statement)
  BY <1>1
<1> QED
  BY <1>1, PoolAssumption

LEMMA PlansNotEmpty ==
  ASSUME NEW p \in Plans \cup Searches PROVE \E t \in Tables : t \in Atomic!Touches(p)
<1>1. p \in Seq(Statement)
  BY PlansTyped
<1>2. p # <<>>
  BY PoolAssumption
<1>3. 1 \in DOMAIN p /\ p[1] \in Statement
  BY <1>1, <1>2
<1>4. p[1].of \in Tables
  BY <1>3 DEF Statement
<1> QED
  BY <1>3, <1>4 DEF Atomic!Touches

LEMMA CurrentTyped ==
  ASSUME PoolTypeOK, PlanInv, NEW w \in Callers, stage[w] \in {"run", "rows"}, ~Over(w)
  PROVE  /\ plan[w] \in Seq(Statement) /\ Len(plan[w]) \in Nat
         /\ DOMAIN plan[w] = 1 .. Len(plan[w])
         /\ at[w] \in DOMAIN plan[w]
         /\ Current(w) \in Statement /\ Current(w).of \in Tables
<1> USE PoolAssumption
<1>1. plan[w] \in Seq(Statement)
  BY PlansTyped DEF PlanInv
<1>2. at[w] \in 1 .. Len(plan[w])
  BY <1>1 DEF Over, PoolTypeOK
<1>3. plan[w][at[w]] \in Statement
  BY <1>1, <1>2
<1> QED
  BY <1>1, <1>2, <1>3 DEF Current, Statement

LEMMA NextTouched ==
  ASSUME NEW p \in Seq(Statement), NEW n \in 1 .. Len(p)
  PROVE  /\ Touched(p, n + 1) = Touched(p, n) \cup {p[n].of}
         /\ Changed(p, n + 1) = IF p[n].op = "set" THEN Changed(p, n) \cup {p[n].of}
                                                   ELSE Changed(p, n)
<1>1. DOMAIN p = 1 .. Len(p) /\ Len(p) \in Nat
  OBVIOUS
<1>2. {j \in DOMAIN p : j < n + 1} = {j \in DOMAIN p : j < n} \cup {n}
  BY <1>1
<1>3. {j \in DOMAIN p : j < n + 1 /\ p[j].op = "set"} =
        IF p[n].op = "set" THEN {j \in DOMAIN p : j < n /\ p[j].op = "set"} \cup {n}
                           ELSE {j \in DOMAIN p : j < n /\ p[j].op = "set"}
  BY <1>1
<1> QED
  BY <1>2, <1>3 DEF Touched, Changed

LEMMA TouchedEnds ==
  ASSUME NEW p \in Seq(Statement)
  PROVE  /\ Touched(p, 1) = {} /\ Changed(p, 1) = {}
         /\ Touched(p, Len(p) + 1) = Atomic!Touches(p)
         /\ Changed(p, Len(p) + 1) = Atomic!Changes(p)
<1>1. DOMAIN p = 1 .. Len(p) /\ Len(p) \in Nat
  OBVIOUS
<1>2. {j \in DOMAIN p : j < 1} = {} /\ {j \in DOMAIN p : j < Len(p) + 1} = DOMAIN p
  BY <1>1
<1>3. /\ {j \in DOMAIN p : j < 1 /\ p[j].op = "set"} = {}
      /\ {j \in DOMAIN p : j < Len(p) + 1 /\ p[j].op = "set"} = {j \in DOMAIN p : p[j].op = "set"}
  BY <1>1
<1> QED
  BY <1>2, <1>3 DEF Touched, Changed, Atomic!Touches, Atomic!Changes

\* Nobody has the connection when a statement gets it.
LEMMA PoolFree ==
  ASSUME PoolLockInv, ConnFree PROVE pool = {}
<1>1. Cardinality(pool) \in Nat /\ (Cardinality(pool) = 0 <=> pool = {})
  BY FS_CardinalityType, FS_EmptySet DEF PoolLockInv
<1> QED
  BY <1>1 DEF ConnFree, PoolSize

----------------------------------------------------------------------------
(* Types, mutex and plans.                                                 *)

LEMMA PoolTypeStep ==
  ASSUME PoolTypeOK, PlanInv, [PoolNext]_poolVars
  PROVE  PoolTypeOK'
<1> USE PoolAssumption
<1>1. ASSUME NEW w \in Callers, Call(w) \/ Lock(w) \/ Return(w) PROVE PoolTypeOK'
  <2>1. CASE Call(w)
    BY <2>1 DEF Call, MoveTo, PoolTypeOK
  <2>2. CASE Lock(w)
    BY <2>2 DEF Lock, MoveTo, PoolTypeOK, Marks
  <2>3. CASE Return(w)
    BY <2>3 DEF Return, MoveTo, PoolTypeOK
  <2> QED
    BY <1>1, <2>1, <2>2, <2>3
<1>2. ASSUME NEW w \in Callers, Get(w) \/ Set(w) \/ OpenRows(w) PROVE PoolTypeOK'
  <2>1. stage[w] = "run" /\ ~Over(w)
    BY <1>2 DEF Get, Set, OpenRows
  <2>2. Current(w).of \in Tables
    BY <2>1, CurrentTyped
  <2>3. w \in Marks /\ \A t \in Tables : data[t] \in Marks
    BY DEF PoolTypeOK, Marks
  <2>4. CASE Get(w)
    BY <2>2, <2>3, <2>4 DEF Get, Advance, PoolTypeOK
  <2>5. CASE Set(w)
    BY <2>2, <2>3, <2>5 DEF Set, Advance, PoolTypeOK
  <2>6. CASE OpenRows(w)
    BY <2>2, <2>3, <2>6 DEF OpenRows, MoveTo, PoolTypeOK
  <2> QED
    BY <1>2, <2>4, <2>5, <2>6
<1>3. ASSUME NEW w \in Callers, Fetch(w) PROVE PoolTypeOK'
  <2>1. Current(w).of \in Tables
    BY <1>3, CurrentTyped DEF Fetch, PlanInv
  <2> QED
    BY <1>3, <2>1 DEF Fetch, PoolTypeOK
<1>4. ASSUME NEW w \in Callers, CloseRows(w) PROVE PoolTypeOK'
  BY <1>4 DEF CloseRows, Advance, MoveTo, PoolTypeOK
<1>5. CASE UNCHANGED poolVars \/ AllReturned
  BY <1>5 DEF poolVars, AllReturned, PoolTypeOK
<1> QED
  BY <1>1, <1>2, <1>3, <1>4, <1>5 DEF PoolNext, PoolGo

\* Who gets the connection holds the mutex or is a search; one has it at most.
LEMMA PoolLockStep ==
  ASSUME PoolTypeOK, PoolLockInv, PlanInv, [PoolNext]_poolVars
  PROVE  PoolLockInv'
<1> USE PoolAssumption
<1>1. ASSUME NEW w \in Callers, Call(w) PROVE PoolLockInv'
  <2>1. /\ mu' = mu /\ pool' = pool
        /\ \A v \in Callers \ {w} : stage'[v] = stage[v] /\ plan'[v] = plan[v]
        /\ stage[w] = "new" /\ stage'[w] = "lock"
    BY <1>1 DEF Call, MoveTo, PoolTypeOK
  <2> QED
    BY <2>1 DEF PoolLockInv, PoolTypeOK, Search
<1>2. ASSUME NEW w \in Callers, Lock(w) PROVE PoolLockInv'
  <2>1. /\ mu = NoCaller /\ mu' = w /\ pool' = pool /\ plan' = plan
        /\ \A v \in Callers \ {w} : stage'[v] = stage[v]
        /\ stage[w] = "lock" /\ stage'[w] = "run"
    BY <1>2 DEF Lock, MoveTo, PoolTypeOK
  <2> QED
    BY <2>1 DEF PoolLockInv, Search
<1>3. ASSUME NEW w \in Callers, Get(w) \/ Set(w) \/ Fetch(w) PROVE PoolLockInv'
  BY <1>3 DEF Get, Set, Fetch, PoolLockInv, Search
<1>4. ASSUME NEW w \in Callers, OpenRows(w) PROVE PoolLockInv'
  <2>1. /\ pool = {} /\ pool' = {w} /\ plan' = plan
        /\ mu' = (IF Search(w) THEN NoCaller ELSE mu)
        /\ \A v \in Callers \ {w} : stage'[v] = stage[v]
        /\ stage[w] = "run" /\ stage'[w] = "rows"
    BY <1>4, PoolFree DEF OpenRows, MoveTo, PoolTypeOK
  <2>2. IsFiniteSet(pool')
    BY <2>1, FS_Singleton
  <2>3. mu = w
    BY <2>1 DEF PoolLockInv
  <2> QED
    BY <2>1, <2>2, <2>3 DEF PoolLockInv, Search
<1>5. ASSUME NEW w \in Callers, CloseRows(w) PROVE PoolLockInv'
  <2>1. /\ pool' = pool \ {w} /\ plan' = plan /\ mu' = mu
        /\ \A v \in Callers \ {w} : stage'[v] = stage[v]
        /\ stage[w] = "rows" /\ stage'[w] = IF Search(w) THEN "done" ELSE "run"
    BY <1>5 DEF CloseRows, MoveTo, PoolTypeOK
  <2>2. IsFiniteSet(pool')
    BY <2>1, FS_RemoveElement DEF PoolLockInv
  <2>3. \A v \in Callers : Search(v)' = Search(v)
    BY <2>1 DEF Search
  <2>4. mu = w => ~Search(w)
    BY <2>1 DEF PoolLockInv
  <2> QED
    BY <2>1, <2>2, <2>3, <2>4 DEF PoolLockInv, PoolTypeOK
<1>6. ASSUME NEW w \in Callers, Return(w) PROVE PoolLockInv'
  <2>1. /\ pool' = pool /\ plan' = plan /\ mu' = NoCaller
        /\ \A v \in Callers \ {w} : stage'[v] = stage[v]
        /\ stage[w] = "run" /\ stage'[w] = "done"
    BY <1>6 DEF Return, MoveTo, PoolTypeOK
  <2>2. mu = w
    BY <2>1 DEF PoolLockInv
  <2>3. \A v \in Callers : Search(v)' = Search(v)
    BY <2>1 DEF Search
  <2>4. \A v \in Callers \ {w} : stage'[v] # "run" /\ (stage'[v] = "rows" => Search(v))
    BY <2>1, <2>2 DEF PoolLockInv
  <2> QED
    BY <2>1, <2>3, <2>4 DEF PoolLockInv
<1>7. CASE UNCHANGED poolVars \/ AllReturned
  BY <1>7 DEF poolVars, AllReturned, PoolLockInv, Search
<1> QED
  BY <1>1, <1>2, <1>3, <1>4, <1>5, <1>6, <1>7 DEF PoolNext, PoolGo

\* Plans are followed statement by statement, and who waits for the connection
\* stays where it is.
LEMMA PlanStep ==
  ASSUME PoolTypeOK, PoolLockInv, PlanInv, [PoolNext]_poolVars
  PROVE  PlanInv'
<1> USE PoolAssumption
<1>1. ASSUME NEW w \in Callers, Call(w) PROVE PlanInv'
  <2>1. /\ mu' = mu /\ pool' = pool /\ at' = at /\ seen' = seen
        /\ \A v \in Callers \ {w} : stage'[v] = stage[v] /\ plan'[v] = plan[v]
        /\ stage[w] = "new" /\ stage'[w] = "lock" /\ plan'[w] \in Plans \cup Searches
    BY <1>1 DEF Call, MoveTo, PoolTypeOK
  <2> QED
    BY <2>1 DEF PlanInv, PoolTypeOK, Search, Current, Over, Nothing
<1>2. ASSUME NEW w \in Callers, Lock(w) PROVE PlanInv'
  <2>1. /\ mu' = w /\ pool' = pool /\ plan' = plan /\ at' = at /\ seen' = seen
        /\ \A v \in Callers \ {w} : stage'[v] = stage[v]
        /\ stage[w] = "lock" /\ stage'[w] = "run"
    BY <1>2 DEF Lock, MoveTo, PoolTypeOK
  <2>2. at[w] = 1 /\ Len(plan[w]) \in Nat
    <3>1. plan[w] \in Seq(Statement)
      BY <2>1, PlansTyped DEF PlanInv
    <3> QED
      BY <2>1, <3>1 DEF PlanInv
  <2> QED
    BY <2>1, <2>2 DEF PlanInv, Search, Current, Over, Nothing
<1>3. ASSUME NEW w \in Callers, Get(w) \/ Set(w) PROVE PlanInv'
  <2>1. /\ mu' = mu /\ pool' = pool /\ plan' = plan /\ stage' = stage /\ pool = {}
        /\ stage[w] = "run" /\ ~Over(w) /\ Current(w).op # "rows"
        /\ \A v \in Callers \ {w} : at'[v] = at[v] /\ seen'[v] = seen[v]
        /\ at'[w] = at[w] + 1
    BY <1>3, PoolFree DEF Get, Set, Advance, PoolTypeOK
  <2>2. at[w] \in 1 .. Len(plan[w]) /\ Len(plan[w]) \in Nat
    BY <2>1, CurrentTyped
  <2>3. ~Search(w)
    <3>1. ASSUME Search(w) PROVE Current(w).op = "rows"
      <4>1. at[w] = 1
        BY <2>1, <3>1 DEF PlanInv
      <4>2. PICK st \in Statement : st.op = "rows" /\ plan[w] = <<st>>
        BY <3>1 DEF Search
      <4> QED
        BY <4>1, <4>2 DEF Current
    <3> QED
      BY <2>1, <3>1
  <2> QED
    BY <2>1, <2>2, <2>3 DEF PlanInv, Search, Current, Over, Nothing
<1>4. ASSUME NEW w \in Callers, OpenRows(w) PROVE PlanInv'
  <2>1. /\ pool' = {w} /\ plan' = plan /\ at' = at
        /\ mu' = (IF Search(w) THEN NoCaller ELSE mu)
        /\ \A v \in Callers \ {w} : stage'[v] = stage[v] /\ seen'[v] = seen[v]
        /\ stage[w] = "run" /\ stage'[w] = "rows" /\ ~Over(w) /\ Current(w).op = "rows"
    BY <1>4, PoolFree DEF OpenRows, MoveTo, PoolTypeOK
  <2>2. mu = w
    BY <2>1 DEF PoolLockInv
  <2> QED
    BY <2>1, <2>2 DEF PlanInv, Search, Current, Over, Nothing
<1>5. ASSUME NEW w \in Callers, Fetch(w) PROVE PlanInv'
  <2>1. /\ UNCHANGED <<mu, pool, stage, plan, at>> /\ stage[w] = "rows"
        /\ \A v \in Callers \ {w} : seen'[v] = seen[v]
    BY <1>5 DEF Fetch, PoolTypeOK
  <2> QED
    BY <2>1 DEF PlanInv, Search, Current, Over, Nothing
<1>6. ASSUME NEW w \in Callers, CloseRows(w) PROVE PlanInv'
  <2>1. /\ pool' = pool \ {w} /\ plan' = plan /\ mu' = mu /\ seen' = seen
        /\ \A v \in Callers \ {w} : stage'[v] = stage[v] /\ at'[v] = at[v]
        /\ stage[w] = "rows" /\ stage'[w] = (IF Search(w) THEN "done" ELSE "run")
        /\ at'[w] = at[w] + 1
    BY <1>6 DEF CloseRows, Advance, MoveTo, PoolTypeOK
  <2>2. at[w] \in 1 .. Len(plan[w]) /\ Len(plan[w]) \in Nat
    BY <2>1, CurrentTyped DEF PlanInv
  <2>3. pool' = {}
    BY <2>1 DEF PoolLockInv, PoolTypeOK
  <2>4. /\ \A v \in Callers : Search(v)' = Search(v)
        /\ \A v \in Callers \ {w} : Over(v)' = Over(v) /\ Current(v)' = Current(v)
    BY <2>1 DEF Search, Over, Current
  <2>5. stage'[w] = "run" => ~Search(w)
    BY <2>1
  <2>6. stage'[w] \in {"run", "done"} /\ plan'[w] \in Plans \cup Searches
    BY <2>1 DEF PlanInv
  <2>7. at'[w] <= Len(plan'[w]) + 1
    BY <2>1, <2>2
  <2> HIDE DEF Search
  <2> QED
    BY <2>1, <2>3, <2>4, <2>5, <2>6, <2>7 DEF PlanInv, Nothing
<1>7. ASSUME NEW w \in Callers, Return(w) PROVE PlanInv'
  <2>1. /\ UNCHANGED <<pool, plan, at, seen>> /\ mu' = NoCaller
        /\ \A v \in Callers \ {w} : stage'[v] = stage[v]
        /\ stage[w] = "run" /\ stage'[w] = "done"
    BY <1>7 DEF Return, MoveTo, PoolTypeOK
  <2> QED
    BY <2>1 DEF PlanInv, Search, Current, Over, Nothing
<1>8. CASE UNCHANGED poolVars \/ AllReturned
  BY <1>8 DEF poolVars, AllReturned, PlanInv, Search, Current, Over, Nothing
<1> QED
  BY <1>1, <1>2, <1>3, <1>4, <1>5, <1>6, <1>7, <1>8 DEF PoolNext, PoolGo

----------------------------------------------------------------------------
(* What the calls see.                                                     *)

\* Steps that leave the calls under way where they are.
LEMMA SeenFrame ==
  ASSUME SeenInv, data' = data,
         \A v \in Callers : stage'[v] \in {"run", "rows"} =>
           /\ stage[v] \in {"run", "rows"} /\ plan'[v] = plan[v]
           /\ Reached(v)' = Reached(v) /\ seen'[v] = seen[v]
  PROVE  SeenInv'
BY DEF SeenInv

LEMMA DataFrame ==
  ASSUME DataInv, data' = data, base' = base, mu' = mu,
         mu # NoCaller => plan'[mu] = plan[mu]
                          /\ Changed(plan[mu], at[mu])' = Changed(plan[mu], at[mu])
  PROVE  DataInv'
BY DEF DataInv

LEMMA SeenStep ==
  ASSUME PoolInv, [PoolNext]_poolVars
  PROVE  SeenInv' /\ DataInv'
<1> USE PoolAssumption DEF PoolInv
<1>1. ASSUME NEW w \in Callers, Call(w) PROVE SeenInv' /\ DataInv'
  <2>1. /\ UNCHANGED <<mu, data, at, seen, base>>
        /\ \A v \in Callers \ {w} : stage'[v] = stage[v] /\ plan'[v] = plan[v]
        /\ stage[w] = "new" /\ stage'[w] = "lock"
    BY <1>1 DEF Call, MoveTo, PoolTypeOK
  <2>2. mu # w
    BY <2>1 DEF PoolLockInv
  <2>3. SeenInv'
    BY <2>1, SeenFrame DEF Reached
  <2>4. mu # NoCaller => mu \in Callers \ {w}
    BY <2>2 DEF PoolTypeOK
  <2>5. DataInv'
    BY <2>1, <2>4 DEF DataInv
  <2> QED
    BY <2>3, <2>5
<1>2. ASSUME NEW w \in Callers, Lock(w) PROVE SeenInv' /\ DataInv'
  <2>1. /\ mu' = w /\ base' = data /\ UNCHANGED <<data, plan, at, seen>>
        /\ \A v \in Callers \ {w} : stage'[v] = stage[v]
        /\ stage[w] = "lock" /\ stage'[w] = "run"
    BY <1>2 DEF Lock, MoveTo, PoolTypeOK
  <2>2. at[w] = 1 /\ seen[w] = Nothing /\ plan[w] \in Seq(Statement)
    BY <2>1, PlansTyped DEF PlanInv
  <2>3. Touched(plan[w], 1) = {} /\ Changed(plan[w], 1) = {}
    BY <2>2, TouchedEnds
  <2>4. SeenInv'
    BY <2>1, <2>2, <2>3 DEF SeenInv, Reached, Nothing
  <2>5. DataInv'
    BY <2>1, <2>2, <2>3 DEF DataInv, PoolTypeOK
  <2> QED
    BY <2>4, <2>5
<1>3. ASSUME NEW w \in Callers, Get(w) \/ Set(w) PROVE SeenInv' /\ DataInv'
  <2> DEFINE t0 == Current(w).of
  <2>1. /\ mu' = mu /\ plan' = plan /\ stage' = stage /\ base' = base /\ pool = {}
        /\ stage[w] = "run" /\ ~Over(w)
        /\ \A v \in Callers \ {w} : at'[v] = at[v] /\ seen'[v] = seen[v]
        /\ at'[w] = at[w] + 1
    BY <1>3, PoolFree DEF Get, Set, Advance, PoolTypeOK
  <2>2. mu = w /\ w # NoCaller /\ \A v \in Callers \ {w} : stage[v] \notin {"run", "rows"}
    BY <2>1 DEF PoolLockInv
  <2>3. /\ plan[w] \in Seq(Statement) /\ at[w] \in 1 .. Len(plan[w])
        /\ t0 \in Tables /\ t0 = plan[w][at[w]].of
    BY <2>1, CurrentTyped DEF Current
  <2>4. /\ Touched(plan[w], at[w] + 1) = Touched(plan[w], at[w]) \cup {t0}
        /\ Changed(plan[w], at[w] + 1) =
             IF Current(w).op = "set" THEN Changed(plan[w], at[w]) \cup {t0}
                                      ELSE Changed(plan[w], at[w])
    BY <2>3, NextTouched DEF Current
  <2>5. Reached(w) = at[w] /\ Reached(w)' = at[w] + 1
    BY <2>1 DEF Reached
  <2>6. CASE Get(w)
    <3>1. data' = data /\ Current(w).op = "get"
          /\ seen'[w] = [seen[w] EXCEPT ![t0] = data[t0]]
      BY <2>6 DEF Get, PoolTypeOK
    <3>2. SeenInv'
      <4> HIDE DEF t0
      <4> QED
        BY <2>1, <2>2, <2>3, <2>4, <2>5, <3>1 DEF SeenInv, PoolTypeOK
    <3>3. DataInv'
      BY <2>1, <2>2, <2>4, <3>1 DEF DataInv
    <3> QED
      BY <3>2, <3>3
  <2>7. CASE Set(w)
    <3>1. /\ data' = [data EXCEPT ![t0] = w] /\ Current(w).op = "set"
          /\ seen'[w] = [seen[w] EXCEPT ![t0] = w]
      BY <2>7 DEF Set, PoolTypeOK
    <3> HIDE DEF t0
    <3>2. SeenInv'
      BY <2>1, <2>2, <2>3, <2>4, <2>5, <3>1 DEF SeenInv, PoolTypeOK
    <3>3. DataInv'
      BY <2>1, <2>2, <2>3, <2>4, <3>1 DEF DataInv, PoolTypeOK
    <3> QED
      BY <3>2, <3>3
  <2> QED
    BY <1>3, <2>6, <2>7
<1>4. ASSUME NEW w \in Callers, OpenRows(w) PROVE SeenInv' /\ DataInv'
  <2> DEFINE t0 == Current(w).of
  <2>1. /\ UNCHANGED <<data, plan, at, base>>
        /\ mu' = (IF Search(w) THEN NoCaller ELSE mu)
        /\ \A v \in Callers \ {w} : stage'[v] = stage[v] /\ seen'[v] = seen[v]
        /\ stage[w] = "run" /\ stage'[w] = "rows" /\ ~Over(w)
        /\ seen'[w] = [seen[w] EXCEPT ![t0] = data[t0]]
    BY <1>4 DEF OpenRows, MoveTo, PoolTypeOK
  <2>2. /\ plan[w] \in Seq(Statement) /\ at[w] \in 1 .. Len(plan[w])
        /\ t0 \in Tables /\ t0 = plan[w][at[w]].of
    BY <2>1, CurrentTyped DEF Current
  <2>3. Touched(plan[w], at[w] + 1) = Touched(plan[w], at[w]) \cup {t0}
    BY <2>2, NextTouched
  <2>4. Reached(w) = at[w] /\ Reached(w)' = at[w] + 1
    BY <2>1 DEF Reached
  <2>5. \A v \in Callers \ {w} : Reached(v)' = Reached(v)
    BY <2>1 DEF Reached
  <2>6. SeenInv'
    <3> HIDE DEF t0
    <3> QED
      BY <2>1, <2>2, <2>3, <2>4, <2>5, SMTT(30) DEF SeenInv, PoolTypeOK
  <2>7. DataInv'
    BY <2>1 DEF DataInv
  <2> QED
    BY <2>6, <2>7
<1>5. ASSUME NEW w \in Callers, Fetch(w) PROVE SeenInv' /\ DataInv'
  <2> DEFINE t0 == Current(w).of
  <2>1. /\ UNCHANGED <<mu, data, stage, plan, at, base>> /\ stage[w] = "rows" /\ ~Over(w)
        /\ \A v \in Callers \ {w} : seen'[v] = seen[v]
        /\ seen'[w] = [seen[w] EXCEPT ![t0] = data[t0]]
    BY <1>5 DEF Fetch, PoolTypeOK, PlanInv
  <2>2. /\ plan[w] \in Seq(Statement) /\ at[w] \in 1 .. Len(plan[w])
        /\ t0 \in Tables /\ t0 = plan[w][at[w]].of
    BY <2>1, CurrentTyped DEF Current
  <2>3. t0 \in Touched(plan[w], at[w] + 1)
    BY <2>2, NextTouched
  <2>4. Reached(w) = at[w] + 1 /\ \A v \in Callers : Reached(v)' = Reached(v)
    BY <2>1 DEF Reached
  <2>5. seen[w][t0] = data[t0]
    BY <2>1, <2>2, <2>3, <2>4 DEF SeenInv
  <2>6. seen'[w] = seen[w]
    <3> HIDE DEF t0
    <3> QED
      BY <2>1, <2>5 DEF PoolTypeOK
  <2>7. SeenInv'
    BY <2>1, <2>4, <2>6, SeenFrame
  <2>8. DataInv'
    BY <2>1 DEF DataInv
  <2> QED
    BY <2>7, <2>8
<1>6. ASSUME NEW w \in Callers, CloseRows(w) PROVE SeenInv' /\ DataInv'
  <2>1. /\ UNCHANGED <<mu, data, plan, seen, base>>
        /\ \A v \in Callers \ {w} : stage'[v] = stage[v] /\ at'[v] = at[v]
        /\ stage[w] = "rows" /\ stage'[w] \in {"run", "done"} /\ ~Over(w)
        /\ at'[w] = at[w] + 1 /\ Current(w).op = "rows"
    BY <1>6 DEF CloseRows, Advance, MoveTo, PoolTypeOK, PlanInv
  <2>2. plan[w] \in Seq(Statement) /\ at[w] \in 1 .. Len(plan[w])
    BY <2>1, CurrentTyped
  <2>3. Changed(plan[w], at[w] + 1) = Changed(plan[w], at[w])
    BY <2>1, <2>2, NextTouched DEF Current
  <2>4. \A v \in Callers : Reached(v)' = Reached(v)
    BY <2>1 DEF Reached
  <2>5. SeenInv'
    BY <2>1, <2>4, SeenFrame
  <2>6. DataInv'
    <3>1. mu # NoCaller => mu \in Callers
      BY DEF PoolTypeOK
    <3> QED
      BY <2>1, <2>3, <3>1 DEF DataInv
  <2> QED
    BY <2>5, <2>6
<1>7. ASSUME NEW w \in Callers, Return(w) PROVE SeenInv' /\ DataInv'
  <2>1. /\ UNCHANGED <<data, plan, at, seen, base>> /\ mu' = NoCaller
        /\ \A v \in Callers \ {w} : stage'[v] = stage[v]
        /\ stage'[w] = "done"
    BY <1>7 DEF Return, MoveTo, PoolTypeOK
  <2>2. SeenInv'
    BY <2>1, SeenFrame DEF Reached
  <2>3. DataInv'
    BY <2>1 DEF DataInv
  <2> QED
    BY <2>2, <2>3
<1>8. CASE UNCHANGED poolVars \/ AllReturned
  <2>1. UNCHANGED poolVars
    BY <1>8 DEF AllReturned
  <2> QED
    BY <2>1 DEF poolVars, SeenInv, DataInv, Reached
<1> QED
  BY <1>1, <1>2, <1>3, <1>4, <1>5, <1>6, <1>7, <1>8 DEF PoolInv, PoolNext, PoolGo

----------------------------------------------------------------------------
(* The theorems.                                                           *)

LEMMA PoolInitial == PoolInit => PoolInv
<1> SUFFICES ASSUME PoolInit PROVE PoolInv
  OBVIOUS
<1> USE PoolAssumption DEF PoolInit
<1>1. PoolTypeOK
  BY DEF PoolTypeOK, Marks, Nothing
<1>2. PoolLockInv
  BY FS_EmptySet DEF PoolLockInv
<1>3. PlanInv /\ SeenInv /\ DataInv
  BY DEF PlanInv, SeenInv, DataInv, Nothing
<1> QED
  BY <1>1, <1>2, <1>3 DEF PoolInv

LEMMA PoolNextInv == PoolInv /\ [PoolNext]_poolVars => PoolInv'
BY PoolTypeStep, PoolLockStep, PlanStep, SeenStep DEF PoolInv

LEMMA PoolInvariant == PoolSpec => []PoolInv
BY PoolInitial, PoolNextInv, PTL DEF PoolSpec

\* Whoever waits for the mutex has no connection, and who has the connection
\* never waits for the mutex: the two locks are taken one way round.
THEOREM LocksOneWay == PoolSpec => []NoWaitInCircle
<1>1. PoolInv => NoWaitInCircle
  BY DEF PoolInv, PoolTypeOK, PoolLockInv, NoWaitInCircle
<1> QED
  BY <1>1, PoolInvariant, PTL

\* The guards of the steps a call may be about to take.
CallMayGo(w) ==
  \/ stage[w] = "lock" /\ mu = NoCaller
  \/ stage[w] = "run" /\ Over(w)
  \/ stage[w] = "run" /\ ~Over(w) /\ ConnFree /\ Current(w).op \in {"get", "set", "rows"}
  \/ stage[w] = "rows"

\* What the liveness of the store rests on: as long as a call is under way, it can go
\* on, or the one that holds the mutex can, or the one that holds the connection. No
\* set of calls waits for each other, although a search gives the mutex back before
\* the connection, so that the next call can hold the one and wait for the other.
THEOREM SomeCallGoesOn ==
  PoolSpec => [](\A w \in Callers : stage[w] \in {"lock", "run", "rows"} =>
                   \E v \in Callers : CallMayGo(v) /\ (v = w \/ v = mu \/ v \in pool))
<1>1. ASSUME PoolInv, NEW w \in Callers, stage[w] \in {"lock", "run", "rows"}
      PROVE  \E v \in Callers : CallMayGo(v) /\ (v = w \/ v = mu \/ v \in pool)
  <2>1. PoolTypeOK /\ PoolLockInv /\ PlanInv  BY <1>1 DEF PoolInv
  <2>2. ASSUME NEW v \in Callers, stage[v] = "run", v = w \/ v = mu
        PROVE  \E x \in Callers : CallMayGo(x) /\ (x = w \/ x = mu \/ x \in pool)
    <3>1. CASE Over(v)  BY <2>2, <3>1 DEF CallMayGo
    <3>2. CASE ~Over(v) /\ ConnFree
      <4>1. Current(v).op \in {"get", "set", "rows"}
        BY <2>1, <2>2, <3>2, CurrentTyped DEF Statement
      <4>. QED  BY <2>2, <3>2, <4>1 DEF CallMayGo
    <3>3. CASE ~ConnFree
      <4>1. pool # {}  BY <3>3, FS_EmptySet DEF ConnFree, PoolSize
      <4>2. PICK x \in pool : TRUE  BY <4>1
      <4>3. x \in Callers /\ stage[x] = "rows"  BY <2>1, <4>2 DEF PoolTypeOK, PoolLockInv
      <4>. QED  BY <4>2, <4>3 DEF CallMayGo
    <3>. QED  BY <3>1, <3>2, <3>3
  <2>3. CASE stage[w] = "rows"  BY <2>3 DEF CallMayGo
  <2>4. CASE stage[w] = "run"  BY <2>2, <2>4
  <2>5. CASE stage[w] = "lock" /\ mu = NoCaller  BY <2>5 DEF CallMayGo
  <2>6. CASE stage[w] = "lock" /\ mu # NoCaller
    <3>1. mu \in Callers /\ stage[mu] \in {"run", "rows"}
      BY <2>1, <2>6 DEF PoolTypeOK, PoolLockInv
    <3>2. CASE stage[mu] = "rows"  BY <3>1, <3>2 DEF CallMayGo
    <3>. QED  BY <2>2, <3>1, <3>2
  <2>. QED  BY <1>1, <2>3, <2>4, <2>5, <2>6
<1>2. PoolInv => \A w \in Callers : stage[w] \in {"lock", "run", "rows"} =>
                   \E v \in Callers : CallMayGo(v) /\ (v = w \/ v = mu \/ v \in pool)
  BY <1>1
<1>. QED  BY <1>2, PoolInvariant, PTL

\* The state stays of the kinds declared.
THEOREM PoolTypeCorrect == PoolSpec => []PoolTypeOK
BY PoolInvariant, PTL DEF PoolInv

\* Until a call returns, all that it has seen is still so: a search too, which
\* reads its rows without the mutex.
THEOREM SeenStays == PoolSpec => []WhatIsSeenStays
<1>1. PoolInv => WhatIsSeenStays
  BY DEF PoolInv, SeenInv, WhatIsSeenStays
<1> QED
  BY <1>1, PoolInvariant, PTL

\* Every step of a call is a step of the atomic store or none: the calls of
\* Storage take effect one after the other.
LEMMA StoreStep ==
  ASSUME PoolInv, PoolInv', [PoolNext]_poolVars
  PROVE  [Atomic!StoreNext]_(Atomic!storeVars)
<1> USE PoolAssumption DEF PoolInv
<1> DEFINE abstract == [t \in Tables |-> Undone(t)]
           answered == [w \in Callers |-> IF stage[w] = "done" THEN seen[w] ELSE Nothing]
<1>1. ASSUME abstract' = abstract, answered' = answered
      PROVE  UNCHANGED Atomic!storeVars
  BY <1>1 DEF Atomic!storeVars
<1>2. ASSUME NEW w \in Callers, stage[w] # "done", stage'[w] = "done",
             plan[w] \in Plans \cup Searches,
             \A v \in Callers \ {w} : stage'[v] = stage[v], seen' = seen,
             \A t \in Tables : Undone(t)' = IF t \in Atomic!Changes(plan[w]) THEN w ELSE Undone(t),
             \A t \in Tables : seen[w][t] = IF t \in Atomic!Touches(plan[w]) THEN Undone(t)' ELSE Unseen
      PROVE  Atomic!StoreNext
  <2>1. answered[w] = Nothing
    BY <1>2
  <2>2. abstract' = [t \in Tables |-> IF t \in Atomic!Changes(plan[w]) THEN w ELSE abstract[t]]
    BY <1>2
  <2>3. seen[w] = [t \in Tables |-> IF t \in Atomic!Touches(plan[w]) THEN abstract'[t] ELSE Unseen]
    BY <1>2 DEF PoolTypeOK
  <2>4. answered' = [answered EXCEPT ![w] = seen[w]]
    BY <1>2
  <2> HIDE DEF abstract, answered
  <2>5. Atomic!Nothing = Nothing
    BY DEF Atomic!Nothing, Nothing
  <2>6. PICK p \in Plans \cup Searches : p = plan[w]
    BY <1>2
  <2>7. Atomic!Take(w, p)
    BY <2>1, <2>2, <2>3, <2>4, <2>5, <2>6 DEF Atomic!Take, abstract, answered
  <2>8. PICK t \in Tables : t \in Atomic!Touches(plan[w])
    BY <1>2, PlansNotEmpty
  <2>9. seen[w][t] \in Marks
    BY <1>2, <2>8 DEF Undone, PoolTypeOK
  <2>10. seen[w] # Nothing
    BY <2>9 DEF Marks, Nothing
  <2>11. Atomic!Answered(w)
    BY <2>1, <2>4, <2>5, <2>10 DEF Atomic!Answered, answered, abstract
  <2> QED
    BY <2>6, <2>7, <2>11 DEF Atomic!StoreNext
<1>3. ASSUME NEW w \in Callers, Call(w) PROVE UNCHANGED Atomic!storeVars
  BY <1>1, <1>3 DEF Call, MoveTo, PoolTypeOK, Undone
<1>4. ASSUME NEW w \in Callers, Lock(w) PROVE UNCHANGED Atomic!storeVars
  BY <1>1, <1>4 DEF Lock, MoveTo, PoolTypeOK, Undone
<1>5. ASSUME NEW w \in Callers, Get(w) \/ Set(w) PROVE UNCHANGED Atomic!storeVars
  <2>1. mu = w /\ w # NoCaller /\ stage' = stage /\ mu' = mu /\ base' = base /\ stage[w] = "run"
    BY <1>5 DEF Get, Set, PoolLockInv
  <2>2. \A v \in Callers \ {w} : seen'[v] = seen[v]
    BY <1>5 DEF Get, Set, PoolTypeOK
  <2> QED
    BY <1>1, <2>1, <2>2 DEF Undone
<1>6. ASSUME NEW w \in Callers, OpenRows(w) PROVE UNCHANGED Atomic!storeVars
  <2>1. /\ mu = w /\ w # NoCaller /\ stage[w] = "run" /\ stage'[w] = "rows"
        /\ \A v \in Callers \ {w} : stage'[v] = stage[v] /\ seen'[v] = seen[v]
        /\ data' = data /\ base' = base /\ mu' = IF Search(w) THEN NoCaller ELSE mu
    BY <1>6 DEF OpenRows, MoveTo, PoolLockInv, PoolTypeOK
  <2>2. Search(w) => \A t \in Tables : data[t] = base[t]
    <3>1. Search(w) => at[w] = 1 /\ plan[w] \in Seq(Statement)
      BY <1>6, CurrentTyped DEF PlanInv, OpenRows
    <3>2. Search(w) => Changed(plan[w], at[w]) = {}
      BY <3>1, TouchedEnds
    <3> QED
      BY <2>1, <3>2 DEF DataInv
  <2>3. \A t \in Tables : Undone(t)' = Undone(t)
    BY <2>1, <2>2 DEF Undone
  <2> QED
    BY <1>1, <2>1, <2>3
<1>7. ASSUME NEW w \in Callers, Fetch(w) PROVE UNCHANGED Atomic!storeVars
  BY <1>1, <1>7 DEF Fetch, PoolTypeOK, Undone
<1>8. ASSUME NEW w \in Callers, CloseRows(w) PROVE [Atomic!StoreNext]_(Atomic!storeVars)
  <2>1. /\ UNCHANGED <<mu, data, plan, seen, base>>
        /\ \A v \in Callers \ {w} : stage'[v] = stage[v]
        /\ stage[w] = "rows" /\ stage'[w] = (IF Search(w) THEN "done" ELSE "run") /\ ~Over(w)
    BY <1>8 DEF CloseRows, MoveTo, PoolTypeOK, PlanInv
  <2>2. \A t \in Tables : Undone(t)' = Undone(t)
    BY <2>1 DEF Undone
  <2>3. CASE ~Search(w)
    BY <1>1, <2>1, <2>2, <2>3
  <2>4. CASE Search(w)
    <3>1. at[w] = 1 /\ Len(plan[w]) = 1 /\ plan[w] \in Seq(Statement)
      <4>1. PICK st \in Statement : plan[w] = <<st>>
        BY <2>4 DEF Search
      <4> QED
        BY <2>1, <2>4, <4>1 DEF PlanInv
    <3>2. plan[w][1].op = "rows"
      BY <2>1, <3>1 DEF PlanInv, Current
    <3>3. Atomic!Changes(plan[w]) = {} /\ Atomic!Touches(plan[w]) = Touched(plan[w], Reached(w))
      <4>1. Reached(w) = Len(plan[w]) + 1 /\ 1 \in 1 .. Len(plan[w])
        BY <2>1, <3>1 DEF Reached
      <4>2. Changed(plan[w], 1 + 1) = Changed(plan[w], 1)
        BY <3>2, <4>1, <3>1, NextTouched
      <4> QED
        BY <3>1, <4>1, <4>2, TouchedEnds
    <3>4. \A t \in Tables : data[t] = Undone(t)
      <4>1. CASE mu = NoCaller
        BY <4>1 DEF Undone
      <4>2. CASE mu # NoCaller
        <5>1. w \in pool /\ mu \in Callers /\ mu # w
          BY <2>1, <2>4, <4>2 DEF PoolLockInv, PoolTypeOK
        <5>2. mu \notin pool
          BY <2>1, <5>1 DEF PoolLockInv
        <5>3. at[mu] = 1 /\ stage[mu] = "run"
          BY <4>2, <5>1, <5>2 DEF PlanInv, PoolLockInv
        <5>4. plan[mu] \in Seq(Statement)
          BY <5>1, <5>3, PlansTyped DEF PlanInv
        <5>5. Changed(plan[mu], at[mu]) = {}
          BY <5>3, <5>4, TouchedEnds
        <5> QED
          BY <4>2, <5>5 DEF DataInv, Undone
      <4> QED
        BY <4>1, <4>2
    <3>5. \A t \in Tables : seen[w][t] = IF t \in Atomic!Touches(plan[w]) THEN Undone(t)' ELSE Unseen
      BY <2>1, <2>2, <3>3, <3>4 DEF SeenInv
    <3>6. plan[w] \in Plans \cup Searches
      BY <2>1 DEF PlanInv
    <3> QED
      BY <1>2, <2>1, <2>2, <2>4, <3>3, <3>5, <3>6
  <2> QED
    BY <2>3, <2>4
<1>9. ASSUME NEW w \in Callers, Return(w) PROVE Atomic!StoreNext
  <2>1. /\ UNCHANGED <<data, plan, seen, base>> /\ mu' = NoCaller
        /\ \A v \in Callers \ {w} : stage'[v] = stage[v]
        /\ stage[w] = "run" /\ stage'[w] = "done" /\ Over(w)
    BY <1>9 DEF Return, MoveTo, PoolTypeOK
  <2>2. mu = w /\ w # NoCaller
    BY <2>1 DEF PoolLockInv
  <2>3. at[w] = Len(plan[w]) + 1 /\ plan[w] \in Seq(Statement)
    <3>1. plan[w] \in Seq(Statement)
      BY <2>1, PlansTyped DEF PlanInv
    <3>2. Len(plan[w]) \in Nat /\ at[w] \in Nat
      BY <3>1 DEF PoolTypeOK
    <3> QED
      BY <2>1, <3>1, <3>2 DEF PlanInv, Over
  <2>4. /\ Changed(plan[w], at[w]) = Atomic!Changes(plan[w])
        /\ Touched(plan[w], Reached(w)) = Atomic!Touches(plan[w])
    BY <2>1, <2>3, TouchedEnds DEF Reached
  <2>5. \A t \in Tables : Undone(t)' = data[t] /\ Undone(t) = base[t]
    BY <2>1, <2>2 DEF Undone
  <2>6. \A t \in Tables : Undone(t)' = IF t \in Atomic!Changes(plan[w]) THEN w ELSE Undone(t)
    BY <2>2, <2>4, <2>5 DEF DataInv
  <2>7. \A t \in Tables : seen[w][t] = IF t \in Atomic!Touches(plan[w]) THEN Undone(t)' ELSE Unseen
    BY <2>1, <2>4, <2>5 DEF SeenInv
  <2>8. plan[w] \in Plans \cup Searches
    BY <2>1 DEF PlanInv
  <2> QED
    BY <1>2, <2>1, <2>6, <2>7, <2>8
<1>10. CASE UNCHANGED poolVars \/ AllReturned
  <2>1. UNCHANGED poolVars
    BY <1>10 DEF AllReturned
  <2> QED
    BY <1>1, <2>1 DEF poolVars, Undone
<1> QED
  BY <1>3, <1>4, <1>5, <1>6, <1>7, <1>8, <1>9, <1>10 DEF PoolNext, PoolGo

THEOREM StoreImplemented == PoolSpec => ImplementsStore
<1>1. PoolInit => Atomic!StoreInit
  BY DEF PoolInit, Atomic!StoreInit, Undone, Nothing, Atomic!Nothing
<1>2. PoolInv /\ PoolInv' /\ [PoolNext]_poolVars => [Atomic!StoreNext]_(Atomic!storeVars)
  BY StoreStep
<1> QED
  BY <1>1, <1>2, PoolInvariant, PTL DEF PoolSpec, ImplementsStore, Atomic!StoreSpec

=============================================================================
