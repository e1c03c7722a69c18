------------------------------ MODULE Mailbox ------------------------------
(***************************************************************************)
(* What happens to one text message, seen from outside: it is accepted,    *)
(* and then either handed to one session of its recipient, or kept for the *)
(* recipient until somebody purges the kept messages, or lost. A kept      *)
(* message is shown at most once to any one session, and never also handed *)
(* over live.                                                              *)
(***************************************************************************)
EXTENDS Naturals

CONSTANTS Msgs, Conns

VARIABLES phase,   \* message -> unsent, carried, kept, purged, handed or lost
          handed,  \* message -> session -> how often it was handed over live
          shown    \* message -> session -> how often it was shown from the store

mailVars == <<phase, handed, shown>>

Never == [m \in Msgs |-> [c \in Conns |-> 0]]

MailInit ==
  /\ phase = [m \in Msgs |-> "unsent"]
  /\ handed = Never
  /\ shown = Never

Post(m) ==
  /\ phase[m] = "unsent"
  /\ phase' = [phase EXCEPT ![m] = "carried"]
  /\ UNCHANGED <<handed, shown>>

Lose(m) ==
  /\ phase[m] \in {"unsent", "carried"}
  /\ phase' = [phase EXCEPT ![m] = "lost"]
  /\ UNCHANGED <<handed, shown>>

Hand(m, c) ==
  /\ phase[m] = "carried"
  /\ phase' = [phase EXCEPT ![m] = "handed"]
  /\ handed' = [handed EXCEPT ![m][c] = @ + 1]
  /\ UNCHANGED shown

Keep(m) ==
  /\ phase[m] = "carried"
  /\ phase' = [phase EXCEPT ![m] = "kept"]
  /\ UNCHANGED <<handed, shown>>

Show(m, c) ==
  /\ phase[m] \in {"kept", "purged"}
  /\ shown[m][c] = 0
  /\ shown' = [shown EXCEPT ![m][c] = @ + 1]
  /\ UNCHANGED <<phase, handed>>

Purge(ms) ==
  /\ \A m \in ms : phase[m] = "kept"
  /\ phase' = [m \in Msgs |-> IF m \in ms THEN "purged" ELSE phase[m]]
  /\ UNCHANGED <<handed, shown>>

MailNext ==
  \/ \E m \in Msgs : Post(m) \/ Lose(m) \/ Keep(m)
  \/ \E m \in Msgs, c \in Conns : Hand(m, c) \/ Show(m, c)
  \/ \E ms \in SUBSET Msgs : Purge(ms)

MailSpec == MailInit /\ [][MailNext]_mailVars

=============================================================================
