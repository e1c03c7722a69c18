----------------------------- MODULE Directory -----------------------------
(***************************************************************************)
(* What the session layer promises the rest of the server: which           *)
(* connection, if any, is registered for a UIN (Server.sessions), and the  *)
(* parts of a Session other sessions look at: its uin, its running flag    *)
(* and whether its socket is still open.                                   *)
(*                                                                         *)
(* It is the abstract specification of Sessions.tla, which shows it to be  *)
(* implemented, and the base that the messaging layer is built on.         *)
(***************************************************************************)
CONSTANTS Conns,     \* connections accepted over the server's life
          Uins,      \* registered UINs
          NoConn,    \* a nil *Session
          NoUin      \* the empty uin of a connection that has not signed on

ASSUME DirectoryAssumption == NoConn \notin Conns /\ NoUin \notin Uins

VARIABLES sessions,  \* Server.sessions: UIN -> connection or NoConn
          uin,       \* Session.uin
          running,   \* Session.running
          open,      \* is Session.conn usable (closed by neither side)
          life       \* how far Session.Run is: idle, up (serving frames),
                     \* joining (inside a sign-on), ending or gone

dirVars == <<sessions, uin, running, open, life>>

Lives == {"idle", "up", "joining", "ending", "gone"}

DirTypeOK ==
  /\ sessions \in [Uins -> Conns \cup {NoConn}]
  /\ uin \in [Conns -> Uins \cup {NoUin}]
  /\ running \in [Conns -> BOOLEAN]
  /\ open \in [Conns -> BOOLEAN]
  /\ life \in [Conns -> Lives]

DirInit ==
  /\ sessions = [u \in Uins |-> NoConn]
  /\ uin = [c \in Conns |-> NoUin]
  /\ running = [c \in Conns |-> FALSE]
  /\ open = [c \in Conns |-> FALSE]
  /\ life = [c \in Conns |-> "idle"]

\* A connection is accepted and its goroutine started.
Connect(c) ==
  /\ life[c] = "idle"
  /\ life' = [life EXCEPT ![c] = "up"]
  /\ running' = [running EXCEPT ![c] = TRUE]
  /\ open' = [open EXCEPT ![c] = TRUE]
  /\ UNCHANGED <<sessions, uin>>

\* The socket goes away: the peer left, or a newer sign-on closed it.
Drop(c) ==
  /\ open[c]
  /\ open' = [open EXCEPT ![c] = FALSE]
  /\ UNCHANGED <<sessions, uin, running, life>>

\* The running flag is lowered, by the session itself or by a newer sign-on.
Halt(c) ==
  /\ running[c]
  /\ running' = [running EXCEPT ![c] = FALSE]
  /\ UNCHANGED <<sessions, uin, open, life>>

\* The connection takes the identity its cookie grants, also when it is signed
\* on already, as the same UIN or as another.
Assume(c, u) ==
  /\ life[c] = "up"
  /\ uin' = [uin EXCEPT ![c] = u]
  /\ life' = [life EXCEPT ![c] = "joining"]
  /\ UNCHANGED <<sessions, running, open>>

\* The connection becomes the one registered for its UIN.
Register(c) ==
  /\ life[c] = "joining"
  /\ sessions' = [sessions EXCEPT ![uin[c]] = c]
  /\ life' = [life EXCEPT ![c] = "up"]
  /\ UNCHANGED <<uin, running, open>>

\* The goroutine leaves its read loop.
Finish(c) ==
  /\ life[c] = "up"
  /\ life' = [life EXCEPT ![c] = "ending"]
  /\ running' = [running EXCEPT ![c] = FALSE]
  /\ UNCHANGED <<sessions, uin, open>>

\* The entry of its UIN goes, whoever is registered under it by now.
Unregister(c) ==
  /\ life[c] = "ending"
  /\ uin[c] # NoUin
  /\ sessions' = [sessions EXCEPT ![uin[c]] = NoConn]
  /\ UNCHANGED <<uin, running, open, life>>

\* The ending session gives its identity up once the entry is not its own.
Forget(c) ==
  /\ life[c] = "ending"
  /\ uin[c] # NoUin
  /\ sessions[uin[c]] # c
  /\ uin' = [uin EXCEPT ![c] = NoUin]
  /\ UNCHANGED <<sessions, running, open, life>>

\* The goroutine is over and the socket closed.
Leave(c) ==
  /\ life[c] = "ending"
  /\ uin[c] = NoUin
  /\ life' = [life EXCEPT ![c] = "gone"]
  /\ open' = [open EXCEPT ![c] = FALSE]
  /\ UNCHANGED <<sessions, uin, running>>

\* What the goroutine of c does itself, between two frames.
OwnStep(c) ==
  \/ Register(c) \/ Finish(c) \/ Unregister(c) \/ Forget(c) \/ Leave(c)
  \/ \E u \in Uins : Assume(c, u)

\* What may happen to c at any moment.
ForeignStep(c) == Connect(c) \/ Drop(c) \/ Halt(c)

DirStep(c) == OwnStep(c) \/ ForeignStep(c)

DirNext == \E c \in Conns : DirStep(c)

DirSpec == DirInit /\ [][DirNext]_dirVars

----------------------------------------------------------------------------
\* A step in which no connection passes from one UIN to another. It is a habit of
\* the clients (one connection, one sign-on) and nothing the server sees to.
OneUinEach == \A c \in Conns : uin[c] # NoUin => uin'[c] \in {uin[c], NoUin}

\* What a reader of the registry may count on as long as clients keep that
\* habit: the connection getSession returns acts for that UIN and has not given
\* its identity up. (A connection that passed on to another UIN leaves the entry
\* of the first behind.)
EntrySound ==
  \A u \in Uins : LET c == sessions[u] IN
    c # NoConn => uin[c] = u /\ life[c] \in {"up", "joining", "ending"}

=============================================================================
