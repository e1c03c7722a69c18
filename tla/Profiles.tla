------------------------------ MODULE Profiles ------------------------------
(***************************************************************************)
(* The profile of one account and those who write it: sessions of the      *)
(* account and adduser --force --nick. handleMetaSaveInfo reads the whole  *)
(* account, changes what the frame names and writes the whole profile      *)
(* back, in two calls of the store; handleMetaSetPerms writes auth_required*)
(* alone. Two sessions of one account run side by side while the older one *)
(* serves its last frame, or for good when the registry lost one of them   *)
(* (see Sessions, clobbered).                                              *)
(***************************************************************************)
CONSTANTS Sessions,   \* sessions of the account
          Fields,     \* texts of a profile; "nick" is one of them
          Values      \* what a text may be

ASSUME ProfilesAssumption == "nick" \in Fields

VARIABLES
  row,      \* the row of table profiles: the texts, and auth_required
  turn,     \* where a session stands
  copy,     \* user.Profile, as handleMetaSaveInfo has read it
  wanted,   \* history: the row, had every write changed only what it names
  missed,   \* history: texts others have written since a session read them
  lost,     \* history: texts last written by a save that had missed a write
  silenced  \* history: a save that said nothing of auth_required came after the
            \* last request that did

profileVars == <<row, turn, copy, wanted, missed, lost, silenced>>

\* A CLI_SET_FULLINFO frame: the texts it names, with their new values, and the
\* two TLVs about authorisation: absent, 1, or something else.
Tlv == {"absent", "one", "other"}
Frame == [texts : UNION {[S -> Values] : S \in SUBSET Fields}, auth : Tlv, auth2 : Tlv]

ProfilesInit ==
  /\ row \in [texts : {[f \in Fields |-> v] : v \in Values}, auth : {FALSE}]
  /\ turn = [s \in Sessions |-> "read"]
  /\ copy = [s \in Sessions |-> row]
  /\ wanted = row
  /\ missed = [s \in Sessions |-> {}]
  /\ lost = {}
  /\ silenced = FALSE

\* s, or adduser, writes the texts fs: the other sessions' copies are behind.
Overtake(s, fs) ==
  missed' = [d \in Sessions |->
              IF d # s /\ turn[d] = "save" THEN missed[d] \cup fs ELSE {}]

\* GetUser, at the start of handleMetaSaveInfo.
Load_OncePerSession(s) ==
  /\ turn[s] = "read"
  /\ turn' = [turn EXCEPT ![s] = "save"]
  /\ UNCHANGED <<row, copy, wanted, missed, lost, silenced>>
Load(s) ==
  /\ turn[s] = "read"
  /\ copy' = [copy EXCEPT ![s] = row]
  /\ turn' = [turn EXCEPT ![s] = "save"]
  /\ UNCHANGED <<row, wanted, missed, lost, silenced>>

\* What a frame makes of auth_required: the second TLV goes first, and a frame
\* with neither turns it off.
AuthAfter(f) == f.auth2 # "one" /\ f.auth = "other"

\* Does the frame say whether the owner wants to be asked?
Decides(f) == f.auth2 = "one" \/ f.auth # "absent"

\* The record with the frame's changes made to it.
Applied(r, f) ==
  [texts |-> [x \in Fields |-> IF x \in DOMAIN f.texts THEN f.texts[x] ELSE r.texts[x]],
   auth  |-> AuthAfter(f)]

\* What SaveProfile puts in the row: every column.
NewRow_KeepsAuth(s, f) == [Applied(copy[s], f) EXCEPT !.auth = copy[s].auth \/ @]
NewRow(s, f) == Applied(copy[s], f)

Save(s) ==
  /\ turn[s] = "save"
  /\ \E f \in Frame :
       LET named == DOMAIN f.texts IN
       /\ row' = NewRow(s, f)
       /\ wanted' = [Applied(wanted, f) EXCEPT !.auth = IF Decides(f) THEN @ ELSE wanted.auth]
       /\ silenced' = ~Decides(f)
       /\ lost' = (lost \cup missed[s]) \ named
  /\ Overtake(s, Fields)
  /\ turn' = [turn EXCEPT ![s] = "read"]
  /\ UNCHANGED copy

\* handleMetaSetPerms: SetAuthRequired.
SetPerms(s) ==
  /\ turn[s] = "read"
  /\ \E b \in BOOLEAN :
       /\ row' = [row EXCEPT !.auth = b]
       /\ wanted' = [wanted EXCEPT !.auth = b]
  /\ silenced' = FALSE
  /\ UNCHANGED <<turn, copy, missed, lost>>

\* adduser --force --nick, in its own process.
AdminNick ==
  /\ \E v \in Values :
       /\ row' = [row EXCEPT !.texts["nick"] = v]
       /\ wanted' = [wanted EXCEPT !.texts["nick"] = v]
  /\ missed' = [s \in Sessions |->
                 IF turn[s] = "save" THEN missed[s] \cup {"nick"} ELSE {}]
  /\ lost' = lost \ {"nick"}
  /\ UNCHANGED <<turn, copy, silenced>>

ProfilesNext == AdminNick \/ \E s \in Sessions : Load(s) \/ Save(s) \/ SetPerms(s)

ProfilesSpec == ProfilesInit /\ [][ProfilesNext]_profileVars

----------------------------------------------------------------------------

\* A change of a text is undone only by a save that had read the profile before
\* the change and wrote it after: with one session at work, and adduser at
\* rest, the profile always is what the owner last asked for.
LostToOverlapOnly ==
  \A f \in Fields : row.texts[f] # wanted.texts[f] => f \in lost

\* auth_required is what the last request that speaks of it said, whatever overlaps:
\* no save brings back the value it had read. The one exception is a save that does
\* not speak of it: it turns the requirement off, overlapped or not.
AuthIsLatest == row.auth = (wanted.auth /\ ~silenced)

\* The same without the exception, which the code does not ensure: auth_required is
\* what the last request that speaks of it said.
AuthAsSaid == row.auth = wanted.auth

=============================================================================
