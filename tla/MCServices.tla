----------------------------- MODULE MCServices -----------------------------
(***************************************************************************)
(* An instance of eight modules for TLC, for safety. No two of them share a*)
(* variable, so each of their properties holds when all move if it holds   *)
(* when the others rest: in a behaviour of this module one of them moves,  *)
(* and the others stay in an initial state.                                *)
(***************************************************************************)
EXTENDS StoragePool, Visibility, Typing, Rtf, Tlvs, Accounts, Profiles, Search, TLC

VARIABLE part   \* which of the eight moves

----------------------------------------------------------------------------
(* The shapes that the calls of Storage have: SetAuthRequired and its like,*)
(* of either table; GetUser, over several tables; AddOfflineMsg, a look at *)
(* one table before a change of another; EnsureDefaultGroups, which reads  *)
(* what it has changed; FixOrphanContacts, rows before changes; and        *)
(* SearchUsers, over either.                                               *)

This == CHOOSE t \in Tables : TRUE
Other == CHOOSE t \in Tables : t # This

Stmt(what, t) == [op |-> what, of |-> t]

Plain ==
  {<<Stmt("set", t)>> : t \in Tables}
    \cup {<<Stmt("get", This), Stmt("rows", Other), Stmt("rows", This)>>,
          <<Stmt("get", This), Stmt("set", Other)>>,
          <<Stmt("get", Other), Stmt("set", This)>>,
          <<Stmt("set", This), Stmt("rows", This), Stmt("set", This)>>,
          <<Stmt("rows", Other), Stmt("set", Other), Stmt("set", This)>>}

Searching == {<<Stmt("rows", t)>> : t \in Tables}

----------------------------------------------------------------------------
(* Search: one UIN and two that hold its digit; letters of both scripts,   *)
(* alone and inside a longer name. Profiles: two texts.                    *)

UinsOfOneDigit == {<<1>>, <<1, 2>>, <<2, 1>>}

Latin(upper) == [script |-> "latin", upper |-> upper]
Cyrillic(upper) == [script |-> "cyrillic", upper |-> upper]
AllLetters == {Latin(TRUE), Latin(FALSE), Cyrillic(TRUE), Cyrillic(FALSE)}
SomeNicks == {<<Latin(TRUE)>>, <<Latin(FALSE), Cyrillic(TRUE)>>}

SomeFields == {"nick", "about"}

----------------------------------------------------------------------------
\* Where several initial states exist, a part at rest stays in one of them.
VisibilityRests ==
  /\ contact = "none" /\ ~listed /\ ~guarded /\ ~registered
  /\ privacy = [mode |-> CHOOSE m \in Modes : TRUE, permitted |-> FALSE, denied |-> FALSE]
ProfilesRest == row.texts["nick"] = CHOOSE v \in Values : TRUE

ServicesInit ==
  /\ part \in {"store", "visibility", "typing", "rtf", "tlvs", "accounts", "profiles",
               "search"}
  /\ PoolInit /\ Init /\ TypingInit /\ RtfInit /\ TlvInit /\ AccountsInit
  /\ ProfilesInit /\ SearchInit
  /\ part # "visibility" => VisibilityRests
  /\ part # "profiles" => ProfilesRest

ServicesNext ==
  /\ UNCHANGED part
  /\ \/ part = "store" /\ PoolNext
     \/ part # "store" /\ UNCHANGED poolVars
  /\ \/ part = "visibility" /\ Next
     \/ part # "visibility" /\ UNCHANGED vars
  /\ \/ part = "typing" /\ TypingNext
     \/ part # "typing" /\ UNCHANGED typingVars
  /\ \/ part = "rtf" /\ RtfNext
     \/ part # "rtf" /\ UNCHANGED rtfVars
  /\ \/ part = "tlvs" /\ TlvNext
     \/ part # "tlvs" /\ UNCHANGED tlvs
  /\ \/ part = "accounts" /\ AccountsNext
     \/ part # "accounts" /\ UNCHANGED accountVars
  /\ \/ part = "profiles" /\ ProfilesNext
     \/ part # "profiles" /\ UNCHANGED profileVars
  /\ \/ part = "search" /\ SearchNext
     \/ part # "search" /\ UNCHANGED searchVars

Services ==
  ServicesInit /\ [][ServicesNext]_<<poolVars, vars, typingVars, rtfVars, tlvs,
                                      accountVars, profileVars, searchVars, part>>

=============================================================================
