----------------------------- MODULE StoragePool -----------------------------
(***************************************************************************)
(* How the calls of Storage share the database: the mutex Storage.mu and   *)
(* the pool of database/sql, which NewStorage limits to one connection.    *)
(*                                                                         *)
(* Each member of Callers is one call, made by one goroutine. A call is a  *)
(* plan of statements: "get" and "set" (QueryRow, Exec) have their         *)
(* connection for their own time only, "rows" (Query) keeps it until the   *)
(* rows are closed. Every call holds the mutex to its end, except          *)
(* SearchUsers, which gives it back as soon as its query is open.          *)
(* No call makes two goroutines, and none is made with the mutex held.     *)
(***************************************************************************)
EXTENDS Naturals, Sequences, FiniteSets

CONSTANTS Callers, Tables,
          Plans,      \* the plans of ordinary calls
          Searches,   \* the plans of SearchUsers: one query
          NoCaller,   \* a free mutex
          Initial, Unseen

Statement == [op : {"get", "set", "rows"}, of : Tables]

ASSUME PoolAssumption ==
  /\ NoCaller \notin Callers
  /\ Initial \notin Callers
  /\ Unseen \notin Callers \cup {Initial}
  /\ Plans \subseteq Seq(Statement) \ {<<>>}
  /\ Searches \subseteq {<<st>> : st \in {s \in Statement : s.op = "rows"}}
  /\ Plans \cap Searches = {}

VARIABLES
  mu,      \* Storage.mu: who holds it
  pool,    \* the calls that hold a connection
  data,    \* table -> the call that changed it last
  stage,   \* where a call stands
  plan,    \* its statements
  at,      \* the statement it is at
  seen,    \* what it has seen of each table, its own changes included
  base     \* history: the tables when the holder of the mutex got it

poolVars == <<mu, pool, data, stage, plan, at, seen, base>>

Nothing == [t \in Tables |-> Unseen]

PoolInit ==
  /\ mu = NoCaller
  /\ pool = {}
  /\ data = [t \in Tables |-> Initial]
  /\ stage = [w \in Callers |-> "new"]
  /\ plan = [w \in Callers |-> <<>>]
  /\ at = [w \in Callers |-> 1]
  /\ seen = [w \in Callers |-> Nothing]
  /\ base = [t \in Tables |-> Initial]

\* db.SetMaxOpenConns(1)
PoolSize == 1

MoveTo(w, s) == stage' = [stage EXCEPT ![w] = s]
Current(w) == plan[w][at[w]]
Over(w) == at[w] > Len(plan[w])
Advance(w) == at' = [at EXCEPT ![w] = @ + 1]
Search(w) == plan[w] \in Searches

Call(w) ==
  /\ stage[w] = "new"
  /\ \E p \in Plans \cup Searches : plan' = [plan EXCEPT ![w] = p]
  /\ MoveTo(w, "lock")
  /\ UNCHANGED <<mu, pool, data, at, seen, base>>

\* s.mu.Lock()
Lock(w) ==
  /\ stage[w] = "lock"
  /\ mu = NoCaller
  /\ mu' = w
  /\ base' = data
  /\ MoveTo(w, "run")
  /\ UNCHANGED <<pool, data, plan, at, seen>>

\* The statement waits for a connection.
ConnFree == Cardinality(pool) < PoolSize

\* QueryRow(..).Scan
Get(w) ==
  /\ stage[w] = "run"
  /\ ~Over(w)
  /\ Current(w).op = "get"
  /\ ConnFree
  /\ seen' = [seen EXCEPT ![w][Current(w).of] = data[Current(w).of]]
  /\ Advance(w)
  /\ UNCHANGED <<mu, pool, data, stage, plan, base>>

\* Exec
Set(w) ==
  /\ stage[w] = "run"
  /\ ~Over(w)
  /\ Current(w).op = "set"
  /\ ConnFree
  /\ data' = [data EXCEPT ![Current(w).of] = w]
  /\ seen' = [seen EXCEPT ![w][Current(w).of] = w]
  /\ Advance(w)
  /\ UNCHANGED <<mu, pool, stage, plan, base>>

\* Query: the connection is kept. SearchUsers unlocks, the others do not.
OpenRows_AllUnlock(w) ==
  /\ stage[w] = "run"
  /\ ~Over(w)
  /\ Current(w).op = "rows"
  /\ ConnFree
  /\ pool' = pool \cup {w}
  /\ mu' = NoCaller
  /\ seen' = [seen EXCEPT ![w][Current(w).of] = data[Current(w).of]]
  /\ MoveTo(w, "rows")
  /\ UNCHANGED <<data, plan, at, base>>
OpenRows(w) ==
  /\ stage[w] = "run"
  /\ ~Over(w)
  /\ Current(w).op = "rows"
  /\ ConnFree
  /\ pool' = pool \cup {w}
  /\ mu' = IF Search(w) THEN NoCaller ELSE mu
  /\ seen' = [seen EXCEPT ![w][Current(w).of] = data[Current(w).of]]
  /\ MoveTo(w, "rows")
  /\ UNCHANGED <<data, plan, at, base>>

\* rows.Next, a row further on.
Fetch(w) ==
  /\ stage[w] = "rows"
  /\ seen' = [seen EXCEPT ![w][Current(w).of] = data[Current(w).of]]
  /\ UNCHANGED <<mu, pool, data, stage, plan, at, base>>

\* rows.Close. SearchUsers has nothing else to do and returns (the variant has
\* it ask for the mutex again first).
CloseRows_Relocks(w) ==
  /\ stage[w] = "rows"
  /\ Search(w) => mu = NoCaller
  /\ pool' = pool \ {w}
  /\ Advance(w)
  /\ MoveTo(w, IF Search(w) THEN "done" ELSE "run")
  /\ UNCHANGED <<mu, data, plan, seen, base>>
CloseRows(w) ==
  /\ stage[w] = "rows"
  /\ pool' = pool \ {w}
  /\ Advance(w)
  /\ MoveTo(w, IF Search(w) THEN "done" ELSE "run")
  /\ UNCHANGED <<mu, data, plan, seen, base>>

\* The deferred s.mu.Unlock(), and the call returns.
Return(w) ==
  /\ stage[w] = "run"
  /\ Over(w)
  /\ mu' = NoCaller
  /\ MoveTo(w, "done")
  /\ UNCHANGED <<pool, data, plan, at, seen, base>>

AllReturned == (\A w \in Callers : stage[w] = "done") /\ UNCHANGED poolVars

PoolGo(w) == Get(w) \/ Set(w) \/ OpenRows(w) \/ CloseRows(w) \/ Return(w)

PoolNext == (\E w \in Callers : Call(w) \/ Lock(w) \/ Fetch(w) \/ PoolGo(w)) \/ AllReturned

PoolSpec == PoolInit /\ [][PoolNext]_poolVars

\* A statement that can run does, rows come to an end, and sync.Mutex hands
\* itself to a waiter. (One call at most waits for the pool: the one that holds
\* the mutex.)
PoolFairness == \A w \in Callers : WF_poolVars(PoolGo(w)) /\ SF_poolVars(Lock(w))

----------------------------------------------------------------------------
(* Safety.                                                                 *)

Marks == Callers \cup {Initial}

PoolTypeOK ==
  /\ mu \in Callers \cup {NoCaller}
  /\ pool \subseteq Callers
  /\ data \in [Tables -> Marks]
  /\ stage \in [Callers -> {"new", "lock", "run", "rows", "done"}]
  /\ plan \in [Callers -> Plans \cup Searches \cup {<<>>}]
  /\ at \in [Callers -> Nat \ {0}]
  /\ seen \in [Callers -> [Tables -> Marks \cup {Unseen}]]
  /\ base \in [Tables -> Marks]

\* Until a call returns, whatever it has seen is still so: the rows of a query
\* and the statements after it belong to one state of the tables, for
\* SearchUsers too, whose rows are read without the mutex.
WhatIsSeenStays ==
  \A w \in Callers : stage[w] \in {"run", "rows"} =>
    \A t \in Tables : seen[w][t] \in {Unseen, data[t]}

\* Who holds the connection never waits for the mutex, and holds it for one
\* statement only: waiting goes one way, from the mutex to the connection.
\* (A query inside the loop over the rows of another would wait for itself.)
NoWaitInCircle ==
  \A w \in pool : stage[w] = "rows" /\ (mu = w \/ Search(w))

\* A call half done is seen by nobody: the tables and the answers are at every
\* moment those of calls made one after the other.
Undone(t) == IF mu # NoCaller THEN base[t] ELSE data[t]

Atomic == INSTANCE Store WITH
            Plans <- Plans \cup Searches,
            data <- [t \in Tables |-> Undone(t)],
            answer <- [w \in Callers |-> IF stage[w] = "done" THEN seen[w] ELSE Nothing]

ImplementsStore == Atomic!StoreSpec

----------------------------------------------------------------------------
(* Liveness, under PoolFairness.                                           *)

\* Every call of Storage returns, whoever searches meanwhile.
EveryCallReturns == \A w \in Callers : stage[w] = "lock" ~> stage[w] = "done"

=============================================================================
