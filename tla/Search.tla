------------------------------- MODULE Search -------------------------------
(***************************************************************************)
(* Looking for other users: the three search requests of meta.go over      *)
(* SearchUsers, while accounts are registered, nicknames change and people *)
(* come and go. A request first takes the set of those online, then asks   *)
(* the store, then filters and answers.                                    *)
(*                                                                         *)
(* A UIN is a sequence of digits and a nickname a sequence of letters:     *)
(* LIKE '%..%' looks for one inside the other. The letters '%' and '_',    *)
(* wildcards of LIKE, are left out, and the other texts of a profile are   *)
(* searched as the nickname is. The query has no ORDER BY: which rows come *)
(* first is SQLite's choice.                                               *)
(***************************************************************************)
EXTENDS Naturals, Sequences, FiniteSets

CONSTANTS
  Uins,      \* sequences of digits
  Nicks,     \* sequences of letters
  Alphabet,  \* [script : {"latin", "cyrillic"}, upper : BOOLEAN]
  Askers,    \* search requests, one goroutine each
  Limit,     \* rows of the query, 1000 in the code
  Cap,       \* results, 100 in the code
  NoAccount

ASSUME SearchAssumption ==
  /\ Alphabet \subseteq [script : {"latin", "cyrillic"}, upper : BOOLEAN]
  /\ Nicks \subseteq Seq(Alphabet)
  /\ Uins \subseteq Seq(0 .. 9)
  /\ NoAccount \notin Nicks
  /\ Cap \in Nat \ {0} /\ Limit \in Nat /\ Cap <= Limit

VARIABLES
  nick,     \* users JOIN profiles: UIN -> nickname, or NoAccount
  online,   \* the keys of Server.sessions
  asking,   \* where a request stands
  wish,     \* what it looks for
  seenOn,   \* the local variable online
  result,   \* what it is answered
  kept,     \* history: the accounts there, and as they were, all along
  few       \* history: the requests whose query found no more than Cap rows

searchVars == <<nick, online, asking, wish, seenOn, result, kept, few>>

\* What the three requests ask for. by: a UIN (0x055F and 0x0569) or a
\* nickname (0x055F and 0x0FA0); onlyOnline is a choice of 0x055F.
ByUin == [by : {"uin"}, text : Uins, onlyOnline : BOOLEAN]
ByNick == [by : {"nick"}, text : Nicks, onlyOnline : BOOLEAN]
Wishes == ByUin \cup ByNick
NoWish == [by |-> "none", text |-> <<>>, onlyOnline |-> FALSE]

SearchInit ==
  /\ nick = [u \in Uins |-> NoAccount]
  /\ online = {}
  /\ asking = [a \in Askers |-> "new"]
  /\ wish = [a \in Askers |-> NoWish]
  /\ seenOn = [a \in Askers |-> {}]
  /\ result = [a \in Askers |-> {}]
  /\ kept = [a \in Askers |-> {}]
  /\ few = {}

Registered == {u \in Uins : nick[u] # NoAccount}

\* The accounts a change of u leaves as they were, for every request under way.
Disturb(u) == kept' = [a \in Askers |-> kept[a] \ {u}]

----------------------------------------------------------------------------
(* Others.                                                                 *)

\* Registration, or a save of the profile.
SetNick(u, n) ==
  /\ nick' = [nick EXCEPT ![u] = n]
  /\ Disturb(u)
  /\ UNCHANGED <<online, asking, wish, seenOn, result, few>>

ComeOnline(u) ==
  /\ u \in Registered \ online
  /\ online' = online \cup {u}
  /\ Disturb(u)
  /\ UNCHANGED <<nick, asking, wish, seenOn, result, few>>

GoOffline(u) ==
  /\ u \in online
  /\ online' = online \ {u}
  /\ Disturb(u)
  /\ UNCHANGED <<nick, asking, wish, seenOn, result, few>>

----------------------------------------------------------------------------
(* A search.                                                               *)

\* strings.ToLower knows every letter, LOWER and LIKE of SQLite those of ASCII.
GoLower(t) == [i \in DOMAIN t |-> [t[i] EXCEPT !.upper = FALSE]]
SqlLower(t) ==
  [i \in DOMAIN t |-> IF t[i].script = "latin" THEN [t[i] EXCEPT !.upper = FALSE]
                                               ELSE t[i]]

\* LIKE '%part%'
Inside(part, t) ==
  \E i \in 0 .. Len(t) - Len(part) :
    \A j \in DOMAIN part : t[i + j] = part[j]

Matches(q, u) ==
  CASE q.by = "uin" -> Inside(q.text, u)
    [] q.by = "nick" -> Inside(GoLower(q.text), SqlLower(nick[u]))

\* The parts of S that have as many members as n allows.
Within(S, n) ==
  LET size == IF Cardinality(S) < n THEN Cardinality(S) ELSE n IN
  {T \in SUBSET S : Cardinality(T) = size}

\* onlineUinSet
TakeOnline(a) ==
  /\ asking[a] = "new"
  /\ \E q \in Wishes : wish' = [wish EXCEPT ![a] = q]
  /\ seenOn' = [seenOn EXCEPT ![a] = online]
  /\ kept' = [kept EXCEPT ![a] = Registered]
  /\ asking' = [asking EXCEPT ![a] = "query"]
  /\ UNCHANGED <<nick, online, result, few>>

\* Which of the rows the client may see as results: those who are online, if
\* it asks for them only.
Passing_All(q, on, rows) == rows
Passing(q, on, rows) == IF q.onlyOnline THEN rows \cap on ELSE rows

\* handleMetaSearch and handleMetaSearchByUin2 keep the one UIN they asked for.
Exact(q, found) == IF q.by = "uin" THEN found \cap {q.text} ELSE found

\* SearchUsers: the rows of the query, cut at Limit; those who pass, cut at
\* Cap; then the handler's own filter.
Query(a) ==
  LET q == wish[a]
      candidates == {u \in Registered : Matches(q, u)} IN
  /\ asking[a] = "query"
  /\ \E rows \in Within(candidates, Limit) :
       \E found \in Within(Passing(q, seenOn[a], rows), Cap) :
         result' = [result EXCEPT ![a] = Exact(q, found)]
  /\ few' = IF Cardinality(candidates) <= Cap THEN few \cup {a} ELSE few
  /\ asking' = [asking EXCEPT ![a] = "done"]
  /\ UNCHANGED <<nick, online, wish, seenOn, kept>>

SearchNext ==
  \/ \E u \in Uins, n \in Nicks : SetNick(u, n)
  \/ \E u \in Uins : ComeOnline(u) \/ GoOffline(u)
  \/ \E a \in Askers : TakeOnline(a) \/ Query(a)

SearchSpec == SearchInit /\ [][SearchNext]_searchVars

----------------------------------------------------------------------------

\* What a reader of the protocol expects of a match: letters in either case.
Fits(q, u) ==
  IF q.by = "uin" THEN u = q.text ELSE Inside(GoLower(q.text), GoLower(nick[u]))

Wanted(a, u) == wish[a].onlyOnline => u \in online

\* The answer is right for the accounts that nothing has changed since the
\* request came in: those of them that are in it fit what was asked for, and are
\* online if only those were wanted, although the registry and the store are
\* looked at one after the other; and all of them that fit are in it, unless the
\* query found more than Cap rows, or the nickname has capitals that LOWER does
\* not know.
AnswerIsRight ==
  \A a \in Askers : asking[a] = "done" =>
    \A u \in kept[a] :
      LET fits == Fits(wish[a], u) /\ Wanted(a, u) IN
      /\ u \in result[a] => fits
      /\ fits /\ a \in few /\ GoLower(nick[u]) = SqlLower(nick[u]) => u \in result[a]

\* Search by UIN: the account with that UIN is found. ("search
\* (details/UIN/UTF8)" is among what the README says is supported.) The code
\* looks for the UIN inside others and may stop at others that hold it.
UinFound ==
  \A a \in Askers :
    /\ asking[a] = "done"
    /\ wish[a].by = "uin" /\ ~wish[a].onlyOnline
    /\ wish[a].text \in kept[a]
    => wish[a].text \in result[a]

\* Search by nickname: who bears the very nickname is found. ("nicknames and
\* profiles can now be written in Cyrillic", says the README.) The code compares
\* the nickname in lower case with what LOWER, which knows ASCII only, makes of
\* the stored one.
NickFound ==
  \A a \in Askers :
    asking[a] = "done" /\ wish[a].by = "nick" /\ ~wish[a].onlyOnline /\ a \in few =>
      \A u \in kept[a] : nick[u] = wish[a].text => u \in result[a]

=============================================================================
