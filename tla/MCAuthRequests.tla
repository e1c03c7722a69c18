--------------------------- MODULE MCAuthRequests ---------------------------
(* Instances of AuthRequests for TLC.                                      *)
EXTENDS AuthRequests

CONSTANTS
  v, o,   \* a viewer, and an owner it may want as contact
  vc, oc  \* the connections they use

OneWay == {<<v, o>>}

\* Every connection signs on as the UIN it is meant for.
Cast == uin[vc] # o /\ uin[oc] # v

\* A bound: two requests, one with the viewer's identity and one without any, are
\* made only where the viewer has no contact and gets no reply: what is done to
\* contacts does not depend on requests.
OneAskerOrNoContacts ==
  \/ \A r, q \in everAsked : r = q
  \/ /\ \A b \in Pairs : contact[b] = "none"
     /\ granted = {} /\ presumed = {}
     /\ guarded = Uins \ everFree

=============================================================================
