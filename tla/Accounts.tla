------------------------------ MODULE Accounts ------------------------------
(***************************************************************************)
(* Accounts: registration over the protocol (RegisterNewUser, which counts *)
(* upwards from the greatest UIN), the default accounts of the start-up,   *)
(* the password of an account, and adduser, a program of its own that      *)
(* writes to the same database. The server may crash at any moment.        *)
(*                                                                         *)
(* A UIN is a number here (in the database it is a string of digits; those *)
(* with leading zeros are left out). The widths are scaled down: the       *)
(* answer to a registration has room for UINs up to WireMax, 2^32 - 1 in   *)
(* the code, and the count is an int64, up to IntMax.                      *)
(***************************************************************************)
EXTENDS Integers

CONSTANTS
  Clients,      \* registrations, one connection each
  Admins,       \* runs of adduser
  Chosen,       \* the UINs adduser is run for
  Defaults,     \* the UINs of createDefaultUsers
  Factory,      \* the password of the default accounts
  NewUinFloor, WireMax, IntMax,
  NoOne         \* no password; a free mutex; no UIN told

ASSUME AccountsAssumption ==
  /\ NewUinFloor \in Nat /\ WireMax \in Nat /\ IntMax \in Nat
  /\ NewUinFloor < WireMax /\ WireMax < IntMax /\ 2 * NewUinFloor <= IntMax
  /\ Chosen \cup Defaults \subseteq 0 .. IntMax
  /\ NoOne \notin Clients \cup Admins \cup {Factory} \cup (-IntMax - 1 .. IntMax)

VARIABLES
  users,      \* table users: UIN -> password, the name of who chose it
  profiles,   \* table profiles: the UINs with a row
  storeMu,    \* Storage.mu, as held by the calls of this module
  progress,   \* where a registration or a run of adduser stands
  target,     \* the UIN a registration or a run of adduser is about
  told,       \* history: the UIN a client was told is its own, 0 included
  renewed,    \* history: UINs whose password was changed by those who may
  broken,     \* history: UINs whose account was left half made
  crashes     \* history: crashes so far

tables == <<users, profiles>>
accountVars == <<tables, storeMu, progress, target, told, renewed, broken, crashes>>

\* Bound: crashes of one behaviour.
MaxCrashes == 1

Int64 == -IntMax - 1 .. IntMax
Taken == {u \in Int64 : users[u] # NoOne}
Actors == Clients \cup Admins
Largest(S) == CHOOSE u \in S : \A v \in S : v <= u

\* createDefaultUsers: INSERT OR IGNORE, the user and then the profile.
WithDefaults(t) == [u \in Int64 |-> IF u \in Defaults /\ t[u] = NoOne
                                    THEN Factory ELSE t[u]]

AccountsInit ==
  /\ users = WithDefaults([u \in Int64 |-> NoOne])
  /\ profiles = Defaults
  /\ storeMu = NoOne
  /\ progress = [a \in Actors |-> "start"]
  /\ target = [a \in Actors |-> 0]
  /\ told = [c \in Clients |-> NoOne]
  /\ renewed = {}
  /\ broken = {}
  /\ crashes = 0

GoTo(a, step) == progress' = [progress EXCEPT ![a] = step]

----------------------------------------------------------------------------
(* RegisterNewUser, from handleRegNewUin. Other calls of the server wait   *)
(* for Storage.mu; adduser does not.                                       *)

\* int64 arithmetic
Wrap(n) == IF n > IntMax THEN n - 2 * (IntMax + 1) ELSE n

\* MAX(CAST(uin AS INTEGER)) + 1, and at least the floor.
NewUin(taken) ==
  LET next == IF taken = {} THEN 1 ELSE Wrap(Largest(taken) + 1) IN
  IF next < NewUinFloor THEN next + NewUinFloor ELSE next

SelectMax(c) ==
  /\ progress[c] = "start"
  /\ storeMu = NoOne
  /\ storeMu' = c
  /\ target' = [target EXCEPT ![c] = NewUin(Taken)]
  /\ GoTo(c, "insert")
  /\ UNCHANGED <<tables, told, renewed, broken, crashes>>

\* INSERT INTO users: it fails on a UIN that is there, or when the database
\* refuses the write (locked, full). The client is refused.
InsertUser_OrReplace(c) ==
  /\ progress[c] = "insert"
  /\ \/ /\ users' = [users EXCEPT ![target[c]] = c]
        /\ GoTo(c, "profile")
        /\ UNCHANGED storeMu
     \/ /\ storeMu' = NoOne
        /\ GoTo(c, "refused")
        /\ UNCHANGED users
  /\ UNCHANGED <<profiles, target, told, renewed, broken, crashes>>
InsertUser(c) ==
  /\ progress[c] = "insert"
  /\ \/ /\ users[target[c]] = NoOne
        /\ users' = [users EXCEPT ![target[c]] = c]
        /\ GoTo(c, "profile")
        /\ UNCHANGED storeMu
     \/ /\ storeMu' = NoOne
        /\ GoTo(c, "refused")
        /\ UNCHANGED users
  /\ UNCHANGED <<profiles, target, told, renewed, broken, crashes>>

\* The UIN in the answer: strconv.ParseUint(newUin, 10, 32) with its error
\* ignored gives the greatest uint32 for a larger number, 0 for a negative one.
OnWire_Reread(u) == IF Largest(Taken) > WireMax THEN WireMax ELSE Largest(Taken)
OnWire(u) == IF u > WireMax THEN WireMax ELSE IF u < 0 THEN 0 ELSE u

\* INSERT INTO profiles, whose error is ignored; sendNewUin.
InsertProfile(c) ==
  /\ progress[c] = "profile"
  /\ \/ profiles' = profiles \cup {target[c]} /\ UNCHANGED broken
     \/ broken' = broken \cup {target[c]} /\ UNCHANGED profiles
  /\ storeMu' = NoOne
  /\ told' = [told EXCEPT ![c] = OnWire(target[c])]
  /\ GoTo(c, "answered")
  /\ UNCHANGED <<users, target, renewed, crashes>>

\* handleMetaSetPassword, by a session that signed on under u with the
\* password it now replaces; the update may fail, and the client is told the
\* same. (The new password is again known to the same people only.)
SetPassword(u) ==
  /\ storeMu = NoOne
  /\ u \in Taken
  /\ renewed' = renewed \cup {u}
  /\ UNCHANGED <<tables, storeMu, progress, target, told, broken, crashes>>

----------------------------------------------------------------------------
(* adduser, and the server's crash.                                        *)

\* SELECT uin FROM users.
AdminLook(a) ==
  /\ progress[a] = "start"
  /\ \E u \in Chosen :
       /\ target' = [target EXCEPT ![a] = u]
       /\ GoTo(a, IF users[u] = NoOne THEN "add" ELSE "exists")
  /\ UNCHANGED <<tables, storeMu, told, renewed, broken, crashes>>

\* The inserts and the commit, one transaction: it fails as a whole when the
\* UIN has come to be there since.
AdminInsert_NoProfile(a) ==
  /\ progress[a] = "add"
  /\ IF users[target[a]] = NoOne
     THEN /\ users' = [users EXCEPT ![target[a]] = a]
          /\ GoTo(a, "added")
     ELSE GoTo(a, "failed") /\ UNCHANGED users
  /\ UNCHANGED <<profiles, storeMu, target, told, renewed, broken, crashes>>
AdminInsert(a) ==
  /\ progress[a] = "add"
  /\ IF users[target[a]] = NoOne
     THEN /\ users' = [users EXCEPT ![target[a]] = a]
          /\ profiles' = profiles \cup {target[a]}
          /\ GoTo(a, "added")
     ELSE GoTo(a, "failed") /\ UNCHANGED tables
  /\ UNCHANGED <<storeMu, target, told, renewed, broken, crashes>>

\* The UIN is there: with --force the password is replaced, otherwise it is an
\* error.
AdminForce(a) ==
  /\ progress[a] = "exists"
  /\ \/ /\ users' = [users EXCEPT ![target[a]] = a]
        /\ renewed' = renewed \cup {target[a]}
        /\ GoTo(a, "forced")
     \/ GoTo(a, "failed") /\ UNCHANGED <<users, renewed>>
  /\ UNCHANGED <<profiles, storeMu, target, told, broken, crashes>>

\* The server stops where it is and is started again: a registration under way
\* is never answered; NewStorage puts the default accounts back.
Crash ==
  /\ crashes < MaxCrashes
  /\ crashes' = crashes + 1
  /\ storeMu' = NoOne
  /\ progress' = [a \in Actors |->
                   IF a \in Clients /\ progress[a] \in {"insert", "profile"}
                   THEN "lost" ELSE progress[a]]
  /\ broken' = (broken \cup {target[c] : c \in {d \in Clients : progress[d] = "profile"}})
               \ Defaults
  /\ users' = WithDefaults(users)
  /\ profiles' = profiles \cup Defaults
  /\ UNCHANGED <<target, told, renewed>>

\* Nothing is left to do.
Rest ==
  /\ \A a \in Actors : progress[a] \notin {"start", "insert", "profile", "add", "exists"}
  /\ UNCHANGED accountVars

AccountsNext ==
  \/ \E c \in Clients : SelectMax(c) \/ InsertUser(c) \/ InsertProfile(c)
  \/ \E u \in Taken : SetPassword(u)
  \/ \E a \in Admins : AdminLook(a) \/ AdminInsert(a) \/ AdminForce(a)
  \/ Crash
  \/ Rest

AccountsSpec == AccountsInit /\ [][AccountsNext]_accountVars

----------------------------------------------------------------------------
(* Safety.                                                                 *)

\* Who made an account, by registration or with adduser, and was told so, can
\* sign on with the password it chose, until that password is replaced by the
\* account's owner or by adduser --force: two programs that pick the same UIN
\* at the same time never take it from each other. A default account keeps the
\* factory password likewise.
CreatorsKeepAccount ==
  /\ \A c \in Clients : progress[c] = "answered" /\ target[c] \notin renewed
       => users[target[c]] = c
  /\ \A a \in Admins : progress[a] = "added" /\ target[a] \notin renewed
       => users[target[a]] = a
  /\ \A u \in Defaults \ renewed : users[u] = Factory

\* A client is told the UIN it was given, and no other client is told the same,
\* as long as the UIN fits the answer. (Beyond it is told a UIN that may be
\* somebody else's.)
ToldItsOwn ==
  \A c \in Clients : told[c] # NoOne /\ target[c] \in 0 .. WireMax =>
    /\ told[c] = target[c]
    /\ \A d \in Clients \ {c} : target[d] \in 0 .. WireMax => told[d] # told[c]

\* An account without a profile (nobody finds it, and it asks everybody for
\* authorisation) comes only of a registration under way, or one that a crash
\* or a failed write broke off between its two inserts; a default account does
\* not stay so, the next start puts the profile back.
HalfMadeOnlyWhenBroken ==
  \A u \in Taken \ profiles :
    u \in broken \/ \E c \in Clients : progress[c] = "profile" /\ target[c] = u

=============================================================================
