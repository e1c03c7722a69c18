------------------------------- MODULE Store -------------------------------
(***************************************************************************)
(* What the other modules take the store for: every call of Storage takes  *)
(* effect at one moment. It sees the tables as the calls before it left    *)
(* them, together with its own changes, and nobody sees it half done.      *)
(***************************************************************************)
CONSTANTS Callers,   \* calls of Storage, one goroutine each
          Tables,
          Plans,     \* what a call may do: a sequence of statements
          Initial,   \* the mark of a table no call has changed
          Unseen

VARIABLES data,      \* table -> the call that changed it last
          answer     \* call -> what it saw of each table, once it is over

storeVars == <<data, answer>>

Changes(plan) == {plan[i].of : i \in {j \in DOMAIN plan : plan[j].op = "set"}}
Touches(plan) == {plan[i].of : i \in DOMAIN plan}
Nothing == [t \in Tables |-> Unseen]

StoreInit ==
  /\ data = [t \in Tables |-> Initial]
  /\ answer = [w \in Callers |-> Nothing]

\* A call is answered once, and has seen something.
Answered(w) == answer[w] = Nothing /\ answer'[w] # Nothing

Take(w, plan) ==
  /\ data' = [t \in Tables |-> IF t \in Changes(plan) THEN w ELSE data[t]]
  /\ answer' = [answer EXCEPT ![w] =
       [t \in Tables |-> IF t \in Touches(plan) THEN data'[t] ELSE Unseen]]

StoreNext == \E w \in Callers : Answered(w) /\ \E plan \in Plans : Take(w, plan)

StoreSpec == StoreInit /\ [][StoreNext]_storeVars

=============================================================================
