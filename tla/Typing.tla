------------------------------- MODULE Typing -------------------------------
(***************************************************************************)
(* Typing marks shown to one signed-on client, the owner: its icbmFlags,   *)
(* a Go map that its own goroutine writes and the goroutines of those who  *)
(* write to it read, without a lock; and the marks, each sent by a         *)
(* goroutine of its own.                                                   *)
(*                                                                         *)
(* The Go runtime looks whether a map is being written when a read begins, *)
(* and then ends the process: it is not a panic and cannot be recovered.   *)
(* A write that begins during a read passes unnoticed, and the read gets   *)
(* the old value or the new one.                                           *)
(*                                                                         *)
(* What is looked up is a session that stays; for those that leave see     *)
(* Messaging, whose Relay and SendLive the deliveries of this module are.  *)
(***************************************************************************)
EXTENDS Naturals, FiniteSets

CONSTANTS Writers,   \* signed-on clients that write to the owner
          Channels,  \* 1..MaxIcbmChannels
          MaxMarks   \* bound: marks accepted

ASSUME TypingAssumption ==
  /\ Channels \subseteq Nat \ {0} /\ IsFiniteSet(Channels) /\ 1 \in Channels
  /\ MaxMarks \in Nat

VARIABLES up,       \* does the process run?
          flags,    \* icbmFlags[channel] & IcbmFlgMtn
          setting,  \* channels that the owner's handler has yet to write
          value,    \* what it writes
          writing,  \* the channel it is writing, the map marked so; or 0
          reading,  \* per writer: the channel whose flag is being read, or 0
          mark,     \* per writer: the mark it is for
          underWay, \* marks whose goroutines have not run yet
          shown,    \* what the owner's client shows of each writer
          last,     \* history: the last mark of each writer that was accepted
          count,    \* marks accepted
          asked     \* history: channels the owner asked for marks on

owner == <<flags, setting, value, writing, asked>>
client == <<underWay, shown, last, count>>
typingVars == <<up, owner, reading, mark, client>>

MarkKinds == {"finished", "begun"}

TypingInit ==
  /\ up = TRUE
  /\ flags = [h \in Channels |-> FALSE]
  /\ setting = {}
  /\ value = FALSE
  /\ writing = 0
  /\ reading = [w \in Writers |-> 0]
  /\ mark = [w \in Writers |-> "finished"]
  /\ underWay = {}
  /\ shown = [w \in Writers |-> "finished"]
  /\ last = [w \in Writers |-> "finished"]
  /\ count = 0
  /\ asked = {}

----------------------------------------------------------------------------
(* SNAC 04/02: the owner sets its flags, for one channel or (channel 0) for *)
(* all of them one by one.                                                 *)

SetFlags(hs, b) ==
  /\ up /\ setting = {} /\ writing = 0
  /\ setting' = hs
  /\ value' = b
  /\ asked' = IF b THEN asked \cup hs ELSE asked
  /\ UNCHANGED <<up, flags, writing, reading, mark, client>>

BeginWrite(h) ==
  /\ up /\ writing = 0 /\ h \in setting
  /\ writing' = h
  /\ setting' = setting \ {h}
  /\ UNCHANGED <<up, flags, value, asked, reading, mark, client>>

EndWrite ==
  /\ up /\ writing # 0
  /\ flags' = [flags EXCEPT ![writing] = value]
  /\ writing' = 0
  /\ UNCHANGED <<up, setting, value, asked, reading, mark, client>>

----------------------------------------------------------------------------
(* handleTyping, and handleSendMessage on channel 1, which sends "finished" *)
(* after the message.                                                      *)

BeginRead(w, h, k) ==
  /\ up /\ reading[w] = 0 /\ writing = 0
  /\ reading' = [reading EXCEPT ![w] = h]
  /\ mark' = [mark EXCEPT ![w] = k]
  /\ UNCHANGED <<up, owner, client>>

\* The read begins inside a write: the runtime ends the process.
Fatal ==
  /\ up /\ writing # 0 /\ \E w \in Writers : reading[w] = 0
  /\ up' = FALSE
  /\ UNCHANGED <<owner, reading, mark, client>>

\* What a read may give: the value of a write that began after it, too.
Read_Default(h) == BOOLEAN
Read(h) == {flags[h]} \cup IF writing = h THEN {value} ELSE {}

\* The mark is for channel h, and is spawned if the flag was set.
EndRead(w) ==
  /\ up /\ reading[w] # 0
  /\ reading' = [reading EXCEPT ![w] = 0]
  /\ \E wanted \in Read(reading[w]) :
       IF wanted
         THEN /\ count < MaxMarks
              /\ count' = count + 1
              /\ underWay' = underWay \cup
                   {[from |-> w, kind |-> mark[w], channel |-> reading[w], nr |-> count]}
              /\ last' = [last EXCEPT ![w] = mark[w]]
              /\ UNCHANGED shown
         ELSE UNCHANGED client
  /\ UNCHANGED <<up, owner, mark>>

Type(w, h, k) == BeginRead(w, h, k)
SendMessage(w) == BeginRead(w, 1, "finished")

\* A spawned goroutine writes its mark to the owner.
DeliverMark(f) ==
  /\ up /\ f \in underWay
  /\ underWay' = underWay \ {f}
  /\ shown' = [shown EXCEPT ![f.from] = f.kind]
  /\ UNCHANGED <<up, owner, reading, mark, last, count>>

\* The process is started again, and everybody signs on anew.
Restart ==
  /\ ~up
  /\ up' = TRUE
  /\ flags' = [h \in Channels |-> FALSE]
  /\ setting' = {} /\ value' = FALSE /\ writing' = 0 /\ asked' = {}
  /\ reading' = [w \in Writers |-> 0]
  /\ mark' = [w \in Writers |-> "finished"]
  /\ underWay' = {} /\ count' = 0
  /\ shown' = [w \in Writers |-> "finished"]
  /\ last' = [w \in Writers |-> "finished"]

TypingNext ==
  \/ \E b \in BOOLEAN : SetFlags(Channels, b) \/ \E h \in Channels : SetFlags({h}, b)
  \/ (\E h \in Channels : BeginWrite(h)) \/ EndWrite
  \/ \E w \in Writers :
       \/ (\E h \in Channels, k \in MarkKinds : Type(w, h, k))
       \/ SendMessage(w)
       \/ EndRead(w)
  \/ Fatal \/ Restart
  \/ \E f \in underWay : DeliverMark(f)

TypingSpec == TypingInit /\ [][TypingNext]_typingVars

----------------------------------------------------------------------------
\* Whatever a read beside a write returns, nobody is on its way to show typing
\* marks, or shows them, to a client that never asked for them on that channel
\* (also where the flags of all channels are being set one by one).
AskedFor ==
  /\ \A f \in underWay : f.channel \in asked
  /\ \A w \in Writers : shown[w] = "begun" => asked # {}

\* Run recovers from a panic in a handler, and spawn from one in a closure, so
\* that no frame ends the server ("panic handling packet", session.go:146).
ServerStaysUp == up

\* Once every mark is delivered, the one shown of a client is its last: who has
\* stopped typing, or has sent the message, is not shown as typing.
SettledMarkIsLast == underWay = {} => shown = last

=============================================================================
