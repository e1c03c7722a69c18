----------------------------- MODULE MCPresence -----------------------------
(* Instances of Presence for TLC.                                          *)
EXTENDS Presence, Naturals, FiniteSets

CONSTANTS
  v, o,   \* a viewer, and an owner it has in its contacts
  vc, oc  \* the connections they use

OneWay == {<<v, o>>}

\* Every connection signs on as the UIN it is meant for. (Which connection is
\* which makes no difference, and two of one UIN have nobody to look at.)
Cast == uin[vc] # o /\ uin[oc] # v

\* A viewer that was stopped, or whose socket is closed, is told nothing more
\* and cannot come back: what the owner does then is of no interest.
ViewerLast == life[vc] = "idle" \/ (running[vc] /\ open[vc]) \/ life[oc] = "gone"

\* A bound: closures of applyPrivacyChange that wait at one time.
TwoFlights == Cardinality(flying) <= 2

=============================================================================
