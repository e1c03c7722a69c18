------------------------------ MODULE Sessions ------------------------------
(***************************************************************************)
(* The life of a client connection: Session.Run and its cleanup, the       *)
(* two-stage login (password, cookie, sign-on), and the server's two shared*)
(* maps, Server.sessions and Server.pendingCookies.                        *)
(*                                                                         *)
(* Every connection is served by one goroutine; pc[c] says where it stands.*)
(* "read" is blocked in recvFlap. A handler runs inside one step unless    *)
(* it takes Server.mu, or touches another session, more than once: then it *)
(* has one step per access and other goroutines interleave with it.        *)
(* A connection is never reused: each member of Conns is one accept.       *)
(***************************************************************************)
EXTENDS Naturals

CONSTANTS Conns,     \* connections accepted over the server's life
          Uins,      \* registered UINs
          Cookies,   \* values makeCookie may return; it never repeats one
          NoConn,    \* a nil *Session
          NoUin      \* the empty string in Session.uin

ASSUME SessionsAssumption == NoConn \notin Conns /\ NoUin \notin Uins

VARIABLES
  pc,             \* where the connection's goroutine stands
  running,        \* Session.running
  open,           \* Session.conn: closed by neither side
  uin,            \* Session.uin
  authenticated,  \* Session.authenticated
  old,            \* the local variable old of handleBosAuth
  sessions,       \* Server.sessions
  pendingCookies, \* Server.pendingCookies, NoUin where the cookie is absent
  ledger,         \* history: who issued a cookie, for whom, who redeemed it
  attempts,       \* history: credential checks answered on a connection
  clobbered       \* history: sessions whose entry another's cleanup removed

local   == <<running, open, uin, authenticated>>
shared  == <<sessions, pendingCookies>>
history == <<ledger, attempts, clobbered>>
vars    == <<pc, local, old, shared, history>>

Registered == {"read", "stopOld", "closeOld", "cleanup", "delete"}
Places == Registered \cup {"idle", "replace", "clear", "close", "done"}
Entry == [issuer : Conns \cup {NoConn}, owner : Uins \cup {NoUin},
          redeemer : Conns \cup {NoConn}]

Init ==
  /\ pc = [c \in Conns |-> "idle"]
  /\ running = [c \in Conns |-> FALSE]
  /\ open = [c \in Conns |-> FALSE]
  /\ uin = [c \in Conns |-> NoUin]
  /\ authenticated = [c \in Conns |-> FALSE]
  /\ old = [c \in Conns |-> NoConn]
  /\ sessions = [u \in Uins |-> NoConn]
  /\ pendingCookies = [k \in Cookies |-> NoUin]
  /\ ledger = [k \in Cookies |->
                [issuer |-> NoConn, owner |-> NoUin, redeemer |-> NoConn]]
  /\ attempts = [c \in Conns |-> 0]
  /\ clobbered = {}

GoTo(c, place) == pc' = [pc EXCEPT ![c] = place]

\* A handler returns: the loop condition of Run decides what comes next.
Resume(c) == GoTo(c, IF running'[c] THEN "read" ELSE "cleanup")

\* s.stop(), at the end of a handler.
StopSelf_Missing(c) == UNCHANGED running
StopSelf(c) == running' = [running EXCEPT ![c] = FALSE]

----------------------------------------------------------------------------
(* The connection and what its socket does.                                *)

\* Start's accept loop: a session is made and its goroutine started.
Accept(c) ==
  /\ pc[c] = "idle"
  /\ running' = [running EXCEPT ![c] = TRUE]
  /\ open' = [open EXCEPT ![c] = TRUE]
  /\ GoTo(c, "read")
  /\ UNCHANGED <<uin, authenticated, old, shared, history>>

\* The peer closes the connection, whatever the server is doing.
PeerClose(c) ==
  /\ open[c]
  /\ open' = [open EXCEPT ![c] = FALSE]
  /\ UNCHANGED <<pc, running, uin, authenticated, old, shared, history>>

\* recvFlap fails on a closed socket. Frames already in the bufio.Reader are
\* still served, so a handler may run first.
ReadError(c) ==
  /\ pc[c] = "read"
  /\ ~open[c]
  /\ GoTo(c, "cleanup")
  /\ UNCHANGED <<local, old, shared, history>>

\* The read deadline passes: it is only set before the sign-on.
ReadTimeout(c) ==
  /\ pc[c] = "read"
  /\ ~authenticated[c]
  /\ GoTo(c, "cleanup")
  /\ UNCHANGED <<local, old, shared, history>>

\* A frame that changes nothing here, served after the session was stopped:
\* the loop ends. (While the session runs such a frame is a stutter.)
OtherFrame(c) ==
  /\ pc[c] = "read"
  /\ ~running[c]
  /\ UNCHANGED <<local, old, shared, history>>
  /\ Resume(c)

\* A channel 4 frame: the client signs off.
SignOff(c) ==
  /\ pc[c] = "read"
  /\ StopSelf(c)
  /\ Resume(c)
  /\ UNCHANGED <<open, uin, authenticated, old, shared, history>>

----------------------------------------------------------------------------
(* Stage one: the password, answered with a cookie. Three handlers take    *)
(* it: plain, and MD5 over either channel, where the key sent before must  *)
(* have been asked for. They decide alike, so the verdict is a choice here.*)

\* Any of the three login handlers refuses the credentials.
LoginRefused(c) ==
  /\ pc[c] = "read"
  /\ attempts' = [attempts EXCEPT ![c] = @ + 1]
  /\ StopSelf(c)
  /\ Resume(c)
  /\ UNCHANGED <<open, uin, authenticated, old, shared, ledger, clobbered>>

\* setPendingCookie
SetCookie(k, u) == pendingCookies' = [pendingCookies EXCEPT ![k] = u]

\* The credentials of u are right: a new cookie stands for u, and the
\* connection is told to come back with it and stopped.
GrantCookie(c, k, u) ==
  /\ pc[c] = "read"
  /\ ledger[k].issuer = NoConn
  /\ SetCookie(k, u)
  /\ ledger' = [ledger EXCEPT ![k] = [issuer |-> c, owner |-> u, redeemer |-> NoConn]]
  /\ attempts' = [attempts EXCEPT ![c] = @ + 1]
  /\ StopSelf(c)
  /\ Resume(c)
  /\ UNCHANGED <<open, uin, authenticated, old, sessions, clobbered>>

LoginAccepted(c) == \E k \in Cookies, u \in Uins : GrantCookie(c, k, u)

----------------------------------------------------------------------------
(* Stage two: handleBosAuth trades the cookie for the identity.            *)

\* popPendingCookie finds nothing.
BosRefused(c) ==
  /\ pc[c] = "read"
  /\ StopSelf(c)
  /\ Resume(c)
  /\ UNCHANGED <<open, uin, authenticated, old, shared, history>>

\* popPendingCookie: the look-up and the removal under one lock.
PopCookie_LookupOnly(k) == UNCHANGED pendingCookies
PopCookie(k) == pendingCookies' = [pendingCookies EXCEPT ![k] = NoUin]

\* s.uin = uin, the one the cookie stands for.
TakeIdentity_Claimed(c, u) == \E v \in Uins : uin' = [uin EXCEPT ![c] = v]
TakeIdentity(c, u) == uin' = [uin EXCEPT ![c] = u]

\* popPendingCookie finds u: the session becomes u's, also if it is signed on
\* as another already, and looks after u's groups in the store (see Roster)
\* before it registers.
BosAuth(c, k) ==
  LET u == pendingCookies[k] IN
  /\ pc[c] = "read"
  /\ u # NoUin
  /\ PopCookie(k)
  /\ TakeIdentity(c, u)
  /\ authenticated' = [authenticated EXCEPT ![c] = TRUE]
  /\ ledger' = [ledger EXCEPT ![k].redeemer = c]
  /\ GoTo(c, "replace")
  /\ UNCHANGED <<running, open, old, sessions, attempts, clobbered>>

\* replaceSession, and whether there is another session to end.
BosReplace_IgnoreOld(c) ==
  /\ pc[c] = "replace"
  /\ old' = [old EXCEPT ![c] = sessions[uin[c]]]
  /\ sessions' = [sessions EXCEPT ![uin[c]] = c]
  /\ UNCHANGED <<local, pendingCookies, history>>
  /\ Resume(c)
BosReplace(c) ==
  /\ pc[c] = "replace"
  /\ old' = [old EXCEPT ![c] = sessions[uin[c]]]
  /\ sessions' = [sessions EXCEPT ![uin[c]] = c]
  /\ UNCHANGED <<local, pendingCookies, history>>
  /\ IF old'[c] \in {NoConn, c} THEN Resume(c) ELSE GoTo(c, "stopOld")

\* old.stop()
StopOld(c) ==
  /\ pc[c] = "stopOld"
  /\ running' = [running EXCEPT ![old[c]] = FALSE]
  /\ GoTo(c, "closeOld")
  /\ UNCHANGED <<open, uin, authenticated, old, shared, history>>

\* old.conn.Close(), which wakes the old session's read; the handler ends.
CloseOld_Skip(c) ==
  /\ pc[c] = "closeOld"
  /\ old' = [old EXCEPT ![c] = NoConn]
  /\ UNCHANGED <<local, shared, history>>
  /\ Resume(c)
CloseOld(c) ==
  /\ pc[c] = "closeOld"
  /\ open' = [open EXCEPT ![old[c]] = FALSE]
  /\ old' = [old EXCEPT ![c] = NoConn]
  /\ UNCHANGED <<running, uin, authenticated, shared, history>>
  /\ Resume(c)

----------------------------------------------------------------------------
(* cleanup, run once when the goroutine leaves its loop.                   *)

\* stop, then getSession: is the entry of this UIN the session's own?
CleanupCheck_OnlyWhenOpen(c) ==
  /\ pc[c] = "cleanup"
  /\ running' = [running EXCEPT ![c] = FALSE]
  /\ GoTo(c, IF uin[c] = NoUin THEN "close"
             ELSE IF sessions[uin[c]] = c /\ open[c] THEN "delete" ELSE "clear")
  /\ UNCHANGED <<open, uin, authenticated, old, shared, history>>
CleanupCheck(c) ==
  /\ pc[c] = "cleanup"
  /\ running' = [running EXCEPT ![c] = FALSE]
  /\ GoTo(c, IF uin[c] = NoUin THEN "close"
             ELSE IF sessions[uin[c]] = c THEN "delete" ELSE "clear")
  /\ UNCHANGED <<open, uin, authenticated, old, shared, history>>

\* deleteSession, unconditional: the entry may be another's by now.
CleanupDelete_Skip(c) ==
  /\ pc[c] = "delete"
  /\ GoTo(c, "clear")
  /\ UNCHANGED <<local, old, shared, history>>
CleanupDelete(c) ==
  LET current == sessions[uin[c]] IN
  /\ pc[c] = "delete"
  /\ sessions' = [sessions EXCEPT ![uin[c]] = NoConn]
  /\ clobbered' = clobbered \cup ({current} \ {c, NoConn})
  /\ GoTo(c, "clear")
  /\ UNCHANGED <<local, old, pendingCookies, ledger, attempts>>

\* The offline broadcast is over, or was skipped: s.uin = "".
CleanupClear(c) ==
  /\ pc[c] = "clear"
  /\ uin' = [uin EXCEPT ![c] = NoUin]
  /\ GoTo(c, "close")
  /\ UNCHANGED <<running, open, authenticated, old, shared, history>>

\* s.conn.Close(), and the goroutine ends.
CleanupClose(c) ==
  /\ pc[c] = "close"
  /\ open' = [open EXCEPT ![c] = FALSE]
  /\ GoTo(c, "done")
  /\ UNCHANGED <<running, uin, authenticated, old, shared, history>>

----------------------------------------------------------------------------
\* What the goroutine of c does on its own once it is not waiting for input.
Proceed(c) ==
  \/ BosReplace(c) \/ StopOld(c) \/ CloseOld(c)
  \/ CleanupCheck(c) \/ CleanupDelete(c)

\* The rest of cleanup, after writes to other clients' sockets. They have no
\* deadline, so a client that does not read may hold this up for ever.
WindUp(c) == CleanupClear(c) \/ CleanupClose(c)

\* Every connection of the model is over; the server waits in Accept.
AllGone == (\A c \in Conns : pc[c] = "done") /\ UNCHANGED vars

Step(c) ==
  \/ Accept(c) \/ PeerClose(c) \/ ReadError(c) \/ ReadTimeout(c)
  \/ OtherFrame(c) \/ SignOff(c)
  \/ LoginRefused(c) \/ LoginAccepted(c)
  \/ BosRefused(c) \/ (\E k \in Cookies : BosAuth(c, k))
  \/ Proceed(c) \/ WindUp(c)

Next == (\E c \in Conns : Step(c)) \/ AllGone

Spec == Init /\ [][Next]_vars

\* The Go scheduler runs every goroutine that can run, and a read of a closed
\* socket returns. (A connection at "read" waits for a frame: that a handler
\* may itself be held up, writing to a client that does not read, is left out.)
\* Nothing is assumed of the peers, nor of WindUp.
Fairness == \A c \in Conns : WF_vars(Proceed(c)) /\ WF_vars(ReadError(c))
LiveSpec == Spec /\ Fairness

----------------------------------------------------------------------------
(* Safety.                                                                 *)

TypeOK ==
  /\ pc \in [Conns -> Places]
  /\ running \in [Conns -> BOOLEAN]
  /\ open \in [Conns -> BOOLEAN]
  /\ uin \in [Conns -> Uins \cup {NoUin}]
  /\ authenticated \in [Conns -> BOOLEAN]
  /\ old \in [Conns -> Conns \cup {NoConn}]
  /\ sessions \in [Uins -> Conns \cup {NoConn}]
  /\ pendingCookies \in [Cookies -> Uins \cup {NoUin}]
  /\ ledger \in [Cookies -> Entry]
  /\ attempts \in [Conns -> Nat]
  /\ clobbered \subseteq Conns

Grants(c) == {ledger[k].owner : k \in {j \in Cookies : ledger[j].redeemer = c}}

\* Whatever re-sign-ons, kicks and clean-ups interleave, the connection
\* registered under a UIN redeemed a cookie for that very UIN: a lookup by
\* UIN (getSession) never reaches a connection without the password's say.
EntryGranted ==
  \A u \in Uins : sessions[u] # NoConn => u \in Grants(sessions[u])

\* c proved the passwords of two UINs and acted for both, one after the other.
Switched(c) == \E u, w \in Grants(c) : u # w

\* The registered connection still acts for that UIN and has not given it up
\* in cleanup, so cleanup never leaves an entry of its own behind. The one way
\* out is a connection that signed on as two UINs: its cleanup, and its place in
\* the registry, are only the second's.
RegistrySound ==
  \A u \in Uins : LET c == sessions[u] IN
    c # NoConn =>
      \/ uin[c] = u /\ pc[c] \in Registered \cup {"replace"}
      \/ Switched(c)

\* A newer sign-on of its UIN is about to end the session c.
BeingKicked(c) == \E d \in Conns : pc[d] \in {"stopOld", "closeOld"} /\ old[d] = c

\* A signed-on session that nobody has ended (running, or socket open) can be
\* found under its UIN, or a newer sign-on is just ending it. The one way out
\* is that the cleanup of an older session removed its entry (clobbered): such
\* a session lives on unreachable, and no later sign-on will end it.
OnlyClobberedUnregistered ==
  \A c \in Conns :
    pc[c] \in Registered /\ uin[c] # NoUin /\ (running[c] \/ open[c])
      => sessions[uin[c]] = c \/ BeingKicked(c) \/ c \in clobbered

\* One credential check per connection: the handler stops the session whatever
\* the verdict, so a password cannot be tried twice over one connection, nor an
\* MD5 key answered twice, even with frames already buffered.
OneAttemptPerConnection == \A c \in Conns : attempts[c] <= 1

\* cleanup removes the entry of its own session only: what its comparison
\* before the removal, and the message "session closed but not current", say.
\* The removal is a second critical section, so the code does not ensure it.
CleanupSparesSuccessor ==
  [][\A c \in Conns : pc[c] = "delete" /\ pc'[c] = "clear"
       => sessions[uin[c]] \in {c, NoConn}]_vars

----------------------------------------------------------------------------
(* What the rest of the server relies on.                                  *)

LifeOf(place) ==
  CASE place = "idle" -> "idle"
    [] place = "replace" -> "joining"
    [] place \in {"delete", "clear", "close"} -> "ending"
    [] place = "done" -> "gone"
    [] OTHER -> "up"

Dir == INSTANCE Directory WITH life <- [c \in Conns |-> LifeOf(pc[c])]

\* The sessions implement the directory the messaging layer is built on.
ImplementsDirectory == Dir!DirSpec

StageOf(k) ==
  IF ledger[k].issuer = NoConn THEN "fresh"
  ELSE IF ledger[k].redeemer = NoConn THEN "valid" ELSE "spent"

Login == INSTANCE Tickets WITH
           stage <- [k \in Cookies |-> StageOf(k)],
           owner <- [k \in Cookies |-> ledger[k].owner],
           actsFor <- uin

\* Identities are taken with cookies, each issued once and redeemed once, for
\* the UIN whose password was proved.
ImplementsTickets == Login!TicketSpec

----------------------------------------------------------------------------
(* Liveness, under LiveSpec.                                               *)

\* A second sign-on ends the first one's service even when its client stays
\* silent: closing the socket wakes the blocked read, and cleanup follows.
SupersededEventuallyEnds ==
  \A c \in Conns : BeingKicked(c) ~> pc[c] \in {"clear", "close", "done"}

\* A connection that broke does not stay registered: the UIN becomes free, unless
\* the connection had passed on to another, whose entry is the only one it clears.
BrokenEventuallyUnregistered ==
  \A c \in Conns :
    (pc[c] # "idle" /\ ~open[c]) ~> (Switched(c) \/ \A u \in Uins : sessions[u] # c)

=============================================================================
