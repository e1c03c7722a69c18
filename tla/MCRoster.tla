------------------------------ MODULE MCRoster ------------------------------
(***************************************************************************)
(* Instances of Roster for TLC. A run has two families of behaviours, told *)
(* apart by scope: those of a single session with a richer roster, and     *)
(* those of a session and one that it replaces with a smaller one. The     *)
(* bounds of each are constraints.                                         *)
(***************************************************************************)
EXTENDS Roster, TLC

CONSTANT MaxCopies  \* bound: rosters of different date or count sent

VARIABLE scope

ScopedInit == Init /\ scope \in {"single", "overlap"}
ScopedNext == Next /\ UNCHANGED scope
Scoped == ScopedInit /\ [][ScopedNext]_<<vars, scope>>

Single ==
  /\ scope = "single"
  /\ Cardinality({s \in Conns : phase[s] # "signedOff"}) <= 1

\* The rosters that clients have a copy of.
Copies == Cardinality(current \cup outdated)

OneEditor == Cardinality({s \in Conns : phase[s] \in {"packet", "stamp"}}) <= 1

\* The run roster. Two sessions share one group, without contacts, where an
\* update is an add.
BoundCopies ==
  /\ Copies <= MaxCopies
  /\ \/ Single
     \/ /\ scope = "overlap"
        /\ \A p \in Peers : contacts[p] = NoContact
        /\ \A g \in GroupIds : groups[g] \in {NoName, General}
        /\ \A s \in Conns : task[s] \notin {"checkout", "update"}

\* crossed is for RosterSound, and rosterSent for a checkout.
Dates == <<store, modInfo, clock, phase, task, remap, info, kicked, user, copies, scope,
           IF scope = "single" THEN rosterSent ELSE {}>>

\* The run roster_sound. Without checkouts, whose outcome depends on the rest,
\* the rows and the sessions go their way whatever the clock, the stamps and the
\* clients' copies: states that differ in those only are one (Rows). Other items
\* are left out. Where two sessions edit at once, neither renames; and what a
\* single one looks into (pending marks, mapped and misnamed groups) stays put.
Rows == <<store, phase, task, remap, user, kicked, crossed, scope>>

BoundEditors ==
  /\ misc = 0
  /\ \A s \in Conns : task[s] # "checkout"
  /\ \/ Single
     \/ /\ scope = "overlap"
        /\ \A p \in Peers : contacts[p] # NoContact => ~contacts[p].pending
        /\ \A s \in Conns : remap[s] = NoRemap
        /\ \A g \in GroupIds : groups[g] # NoName =>
             groups[g] \notin Spellings \ {General} /\ (g = 1) = (groups[g] = General)
        /\ OneEditor \/ \A s \in Conns : task[s] # "update"

Interchangeable == Permutations(Conns)

=============================================================================
