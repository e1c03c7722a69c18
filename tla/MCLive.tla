------------------------------- MODULE MCLive -------------------------------
(***************************************************************************)
(* An instance of Sessions, FlapWriter and StoragePool for TLC, checked    *)
(* with liveness. The three share no variable, so each of their properties *)
(* holds when all three move if it holds when the other two rest: in a     *)
(* behaviour of this module one of them moves, and the others stay in an   *)
(* initial state in which nothing that is fair can happen.                 *)
(*                                                                         *)
(* Liveness cannot use symmetry, so two of the three start late.           *)
(***************************************************************************)
EXTENDS Sessions, FlapWriter, StoragePool, TLC

VARIABLE part   \* which of the three moves

----------------------------------------------------------------------------
(* Sessions starts when every cookie has been earned, for one UIN, by a    *)
(* connection that has come and gone since and whose name the cookie bears *)
(* (Cookies \subseteq Conns). Spec reaches this state: the run looks at    *)
(* what may follow, the racing sign-ons.                                   *)

OneUin == CHOOSE u \in Uins : TRUE

InitLoggedIn ==
  /\ pc = [c \in Conns |-> IF c \in Cookies THEN "done" ELSE "idle"]
  /\ running = [c \in Conns |-> FALSE]
  /\ open = [c \in Conns |-> FALSE]
  /\ uin = [c \in Conns |-> NoUin]
  /\ authenticated = [c \in Conns |-> FALSE]
  /\ old = [c \in Conns |-> NoConn]
  /\ sessions = [u \in Uins |-> NoConn]
  /\ pendingCookies = [k \in Cookies |-> OneUin]
  /\ ledger = [k \in Cookies |->
                [issuer |-> k, owner |-> OneUin, redeemer |-> NoConn]]
  /\ attempts = [c \in Conns |-> IF c \in Cookies THEN 1 ELSE 0]
  /\ clobbered = {}

----------------------------------------------------------------------------
(* FlapWriter starts when the kernel has taken all it takes for the client *)
(* that does not read, and a broadcast is held up in the next write to it. *)
(* Other goroutines broadcast in the other order, answer the quick client, *)
(* or close a connection first (the kick of handleBosAuth) or last         *)
(* (cleanup).                                                              *)

Slow == CHOOSE c \in Clients : c \notin Readers
Quick == CHOOSE c \in Readers : TRUE
Stuck == CHOOSE w \in Writers : TRUE
Queued == CHOOSE w \in Writers : w # Stuck

Deed(what, c) == [do |-> what, to |-> c]
Broadcast == <<Deed("send", Slow), Deed("send", Quick)>>
SomeJobs == {<<Deed("close", Slow), Deed("reply", Quick)>>}

InitHeldUp ==
  LET If(c, there, elsewhere) == IF c = Slow THEN there ELSE elsewhere
      Of(w, there, elsewhere) == IF w = Stuck THEN there ELSE elsewhere
      first == SeqMod \div 2 - 1 IN
  /\ connected = [c \in Clients |-> TRUE]
  /\ writeMu = [c \in Clients |-> If(c, Stuck, NoWriter)]
  /\ seq = [c \in Clients |-> If(c, first + 2, first)]
  /\ snacReqID = [c \in Clients |-> If(c, 2, 0)]
  /\ unread = [c \in Clients |-> If(c, Room, 0)]
  /\ place = [w \in Writers |-> Of(w, "write", IF w = Queued THEN "lock" ELSE "idle")]
  /\ todo = [w \in Writers |-> IF w \in {Stuck, Queued} THEN Broadcast ELSE <<>>]
  /\ id = [w \in Writers |-> Of(w, 1, IF w = Queued THEN 2 ELSE NoId)]
  /\ wire = [c \in Clients |->
              If(c, [i \in 1 .. Room |-> [seq |-> first + i, id |-> NoId]], <<>>)]

----------------------------------------------------------------------------
(* Calls of Storage that look at one table and change another, such as     *)
(* AddOfflineMsg; that change a table they have read the rows of, such as  *)
(* FixOrphanContacts; and SearchUsers, over a table that others change.    *)

This == CHOOSE t \in Tables : TRUE
Other == CHOOSE t \in Tables : t # This

Stmt(what, t) == [op |-> what, of |-> t]
Plain == {<<Stmt("get", This), Stmt("set", Other)>>,
          <<Stmt("rows", Other), Stmt("set", Other)>>}
Searching == {<<Stmt("rows", Other)>>}

----------------------------------------------------------------------------
LiveInit ==
  /\ part \in {"sessions", "writers", "store"}
  /\ InitLoggedIn
  /\ InitHeldUp
  /\ PoolInit

LiveNext ==
  /\ UNCHANGED part
  /\ \/ part = "sessions" /\ Next /\ UNCHANGED <<writerVars, poolVars>>
     \/ part = "writers" /\ WriterNext /\ UNCHANGED <<vars, poolVars>>
     \/ part = "store" /\ PoolNext /\ UNCHANGED <<vars, writerVars>>

Live ==
  /\ LiveInit
  /\ [][LiveNext]_<<vars, writerVars, poolVars, part>>
  /\ Fairness /\ WriterFairness /\ PoolFairness

=============================================================================
