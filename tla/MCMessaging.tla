---------------------------- MODULE MCMessaging ----------------------------
(* Instances of Messaging for TLC.                                         *)
EXTENDS Messaging, TLC

CONSTANT Early  \* connections that are signed on when the run starts

\* Connections, UINs and messages are interchangeable within these classes.
Symmetry ==
  Permutations(Conns \ Early) \cup Permutations(Addressees) \cup Permutations(Msgs)

\* A later moment of Spec: Early have signed on, for UINs nobody writes to.
InitSignedOn ==
  /\ \E u \in Uins \ Addressees, c \in Early :
       /\ Early = {c}
       /\ sessions = [v \in Uins |-> IF v = u THEN c ELSE NoConn]
       /\ uin = [d \in Conns |-> IF d = c THEN u ELSE NoUin]
  /\ running = [c \in Conns |-> c \in Early]
  /\ open = [c \in Conns |-> c \in Early]
  /\ life = [c \in Conns |-> IF c \in Early THEN "up" ELSE "idle"]
  /\ MailboxInit

\* The bound of the run: Early keep serving and write, the others are sessions
\* of an addressee.
WritersAndReaders ==
  /\ \A c \in Early : running[c] /\ open[c] /\ held[c] \cap Addressees = {}
  /\ \A c \in Conns \ Early : held[c] \subseteq Addressees
  /\ \A m \in Msgs : letter[m].by \in Early \cup {NoConn}

\* A client acknowledges when it got the end mark, and once: the way of a session
\* in which nobody takes the server by surprise.
AcksWhatItSaw == \A c \in Conns : AckOffline(c) => c \in sawEof

\* The bound of the run: one connection that signs on as a second UIN, or a second
\* message, and not both.
SecondUinOrMessage ==
  LET twice == {c \in Conns : held[c] = Uins} IN
    \/ twice = {}
    \/ Cardinality(twice) = 1 /\ \E m \in Msgs : letter[m] = Unsent

\* A bound: where every connection was accepted and its socket is closed, no client
\* is told anything more; of these states only those at rest are followed.
SomebodyListens ==
  \/ \E c \in Conns : life[c] = "idle" \/ open[c]
  \/ flying = {} /\ storing = {} /\ batching = {} /\ \A c \in Conns : ~running[c]

SpecSignedOn == InitSignedOn /\ [][Next]_vars

============================================================================
