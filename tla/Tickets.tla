------------------------------ MODULE Tickets ------------------------------
(***************************************************************************)
(* What the two-stage login promises: a connection acts for a UIN only by  *)
(* redeeming a cookie that was issued for that UIN after its password was  *)
(* proved, and a cookie is redeemed at most once, by one connection.       *)
(***************************************************************************)
CONSTANTS Conns, Uins, Cookies, NoUin

VARIABLES stage,    \* cookie -> fresh, valid or spent
          owner,    \* cookie -> the UIN it was issued for
          actsFor   \* connection -> the UIN it acts for

ticketVars == <<stage, owner, actsFor>>

TicketInit ==
  /\ stage = [k \in Cookies |-> "fresh"]
  /\ owner = [k \in Cookies |-> NoUin]
  /\ actsFor = [c \in Conns |-> NoUin]

\* The password of u was proved: k stands for u from now on.
Issue(k, u) ==
  /\ stage[k] = "fresh"
  /\ stage' = [stage EXCEPT ![k] = "valid"]
  /\ owner' = [owner EXCEPT ![k] = u]
  /\ UNCHANGED actsFor

\* One connection trades k for the identity it stands for.
Redeem(c, k) ==
  /\ stage[k] = "valid"
  /\ stage' = [stage EXCEPT ![k] = "spent"]
  /\ actsFor' = [actsFor EXCEPT ![c] = owner[k]]
  /\ UNCHANGED owner

\* A connection gives its identity up.
Resign(c) ==
  /\ actsFor[c] # NoUin
  /\ actsFor' = [actsFor EXCEPT ![c] = NoUin]
  /\ UNCHANGED <<stage, owner>>

TicketNext ==
  \/ \E k \in Cookies, u \in Uins : Issue(k, u)
  \/ \E k \in Cookies, c \in Conns : Redeem(c, k)
  \/ \E c \in Conns : Resign(c)

TicketSpec == TicketInit /\ [][TicketNext]_ticketVars

=============================================================================
