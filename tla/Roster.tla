------------------------------- MODULE Roster -------------------------------
(***************************************************************************)
(* One account's server-stored roster (SSI): its groups and contacts in    *)
(* the store, the packets of edits its client sends, the repairs the       *)
(* server makes before it sends the roster, and the (date, count) by which *)
(* a client that kept a copy is told that the copy is up to date.          *)
(*                                                                         *)
(* A session that a newer sign-on replaced finishes the handler it is in,  *)
(* beside its successor's; other accounts reach in to clear the pending    *)
(* mark of a contact or to remove themselves. Every call into the store is *)
(* a step of its own. Nicks, item ids and group_items, which only lay the  *)
(* roster out, are left out; so is the master group 0, which every sign-on *)
(* creates and nothing deletes. For privacy see Visibility.                *)
(***************************************************************************)
EXTENDS Naturals, FiniteSets, FiniteSetsExt

CONSTANTS
  GroupIds,    \* ids clients give to groups; 1 is SsiGeneralGroupID
  Names,       \* names clients give to groups
  General,     \* SsiGeneralGroupName
  Spellings,   \* the names that EqualFold and TrimSpace take for General
  NoName,      \* no row: the group does not exist
  Peers,       \* UINs a client may add
  Accounts,    \* those of them that are registered
  Guarded,     \* those of them that must be asked first (auth_required)
  NoContact,   \* no row: not in the contacts
  Conns,       \* connections that sign on as the account
  MaxClock     \* bound: seconds of the clock

ASSUME RosterAssumption ==
  /\ GroupIds \subseteq Nat \ {0} /\ 1 \in GroupIds /\ IsFiniteSet(GroupIds)
  /\ General \in Spellings /\ Spellings \subseteq Names
  /\ NoName \notin Names
  /\ Guarded \subseteq Accounts /\ Accounts \subseteq Peers /\ IsFiniteSet(Peers)
  /\ MaxClock \in Nat

Contacts == [group : GroupIds \cup {0}, pending : BOOLEAN]
ASSUME NoContactAssumption == NoContact \notin Contacts

VARIABLES
  groups,     \* groups_tbl: id -> name
  contacts,   \* contacts: UIN -> group and pending_auth
  misc,       \* is there a row in misc_ssi_items?
  modDate,    \* users.ssi_mod_date, 0 when never touched
  itemCount,  \* users.ssi_item_count
  clock,      \* time.Now().Unix()
  phase,      \* where each session's handler stands
  task,       \* which handler it is
  remap,      \* Session.ssiGroupRemap: id -> id, 0 where there is none
  rosterSent, \* Session.rosterSent
  user,       \* the account the handler loaded
  info,       \* the date and count that sendRoster read before
  kicked,     \* sessions that a newer one stopped and closed
  crossed,    \* history: handlers beside which another session edited
  current,    \* history: <<date, count>> of rosters sent, alike to the store
  outdated,   \* history: those of rosters sent that no longer are
  excused     \* history: dates that stand for more than one content

store == <<groups, contacts, misc>>
modInfo == <<modDate, itemCount>>
local == <<remap, rosterSent, info, kicked>>
session == <<phase, task, local, user, crossed>>
copies == <<current, outdated, excused>>
vars == <<store, modInfo, clock, session, copies>>

NoGroups == [g \in GroupIds |-> NoName]
NoRemap == [g \in GroupIds |-> 0]
NoInfo == <<0, 0>>
Loaded(gs, cs, m) == [groups |-> gs, contacts |-> cs, misc |-> m]
Stored == Loaded(groups, contacts, misc)
Nothing == Loaded(NoGroups, [p \in Peers |-> NoContact], 0)

Init ==
  /\ groups = NoGroups
  /\ contacts = [p \in Peers |-> NoContact]
  /\ misc = 0
  /\ modDate = 0
  /\ itemCount = 0
  /\ clock = 1
  /\ phase = [s \in Conns |-> "signedOff"]
  /\ task = [s \in Conns |-> "none"]
  /\ remap = [s \in Conns |-> NoRemap]
  /\ rosterSent = [s \in Conns |-> FALSE]
  /\ user = [s \in Conns |-> Nothing]
  /\ info = [s \in Conns |-> NoInfo]
  /\ kicked = {}
  /\ crossed = {}
  /\ current = {}
  /\ outdated = {}
  /\ excused = {}

Kinds == {"add", "update", "delete"}

GoTo(s, place) == phase' = [phase EXCEPT ![s] = place]
Start(s, t, place) == task' = [task EXCEPT ![s] = t] /\ GoTo(s, place)

\* A session that is stopped reads no further frame.
Reads(s) == phase[s] = "idle" /\ s \notin kicked

\* Copies of the roster age with every change of its content.
Age ==
  IF store' = store THEN UNCHANGED <<current, outdated>>
                    ELSE current' = {} /\ outdated' = outdated \cup current

----------------------------------------------------------------------------
(* The repairs: EnsureDefaultGroups with its dedupe, FixOrphanContacts.    *)

Existing(gs) == {g \in GroupIds : gs[g] # NoName}
Key(name) == IF name \in Spellings THEN General ELSE name

\* INSERT OR IGNORE of the General group
WithGeneral(gs) == IF gs[1] = NoName THEN [gs EXCEPT ![1] = General] ELSE gs

\* Groups of one name are merged into the one of the least id; those named
\* General into group 1, whatever group 1 is called.
Alike(gs, g) == {h \in Existing(gs) : Key(gs[h]) = Key(gs[g])}
MergedInto(gs, g) ==
  IF Cardinality(Alike(gs, g)) = 1 THEN g
  ELSE IF Key(gs[g]) = General THEN 1 ELSE Min(Alike(gs, g))

Move(cs, to) ==
  [p \in Peers |-> IF cs[p] = NoContact THEN NoContact
                   ELSE [cs[p] EXCEPT !.group = to[cs[p].group]]]

EnsureDefaultGroups_NoDedupe ==
  /\ groups' = WithGeneral(groups)
  /\ UNCHANGED contacts
EnsureDefaultGroups ==
  LET gs == WithGeneral(groups)
      to == [g \in GroupIds \cup {0} |->
              IF g # 0 /\ g \in Existing(gs) THEN MergedInto(gs, g) ELSE g]
  IN  /\ groups' = [g \in GroupIds |-> IF to[g] = g THEN gs[g] ELSE NoName]
      /\ contacts' = Move(contacts, to)

\* Contacts whose group is gone go to the named group of the least id; or to
\* General, created anew where another session has just deleted the last one.
Orphans == {p \in Peers : contacts[p] # NoContact /\ contacts[p].group \notin Existing(groups) \cup {0}}
FixOrphanContacts ==
  LET gs == IF Orphans # {} /\ Existing(groups) = {} THEN WithGeneral(groups) ELSE groups
  IN  /\ groups' = gs
      /\ contacts' = [p \in Peers |->
           IF p \in Orphans THEN [contacts[p] EXCEPT !.group = Min(Existing(gs))]
                            ELSE contacts[p]]

\* What the repairs leave: a group for every contact, no two groups of one name,
\* and group 1.
Housed(u) == \A p \in Peers : u.contacts[p] # NoContact =>
               u.contacts[p].group \in Existing(u.groups) \cup {0}
Distinct(u) == \A g, h \in Existing(u.groups) : Key(u.groups[g]) = Key(u.groups[h]) => g = h
InOrder(u) == Housed(u) /\ Distinct(u) /\ 1 \in Existing(u.groups)

\* The first two calls of handleBosAuth, handleSsiCheckout and sendRoster.
Ensure(s) ==
  /\ phase[s] = "ensure"
  /\ EnsureDefaultGroups
  /\ GoTo(s, "fix")
  /\ crossed' = crossed \ ({s} \X {"ensured", "fixed"})
  /\ UNCHANGED <<misc, modInfo, clock, task, local, user, excused>>
  /\ Age

\* The other session that signed on, and has not signed off.
Older(s) == {t \in Conns \ {s} : phase[t] # "signedOff" /\ task[t] # "signOn"}

\* handleBosAuth goes on to replaceSession and ends the older session.
Fix(s) ==
  /\ phase[s] = "fix"
  /\ FixOrphanContacts
  /\ CASE task[s] = "signOn" -> Start(s, "none", "idle") /\ kicked' = kicked \cup Older(s)
       [] task[s] = "checkout" -> Start(s, "checkout", "decide") /\ UNCHANGED kicked
       [] task[s] = "roster" -> Start(s, "roster", "info") /\ UNCHANGED kicked
  /\ UNCHANGED <<misc, modInfo, clock, remap, rosterSent, info, user, crossed, excused>>
  /\ Age

----------------------------------------------------------------------------
(* Sign-on, and the end of a session or of the server at any moment.       *)

SignOn(s) ==
  /\ phase[s] = "signedOff"
  /\ Start(s, "signOn", "ensure")
  /\ UNCHANGED <<store, modInfo, clock, local, user, crossed, copies>>

\* The session ends between two frames. (Its fields go with it: the next one to
\* sign on finds them as NewSession makes them.)
SignOff(s) ==
  /\ phase[s] = "idle"
  /\ Start(s, "none", "signedOff")
  /\ kicked' = kicked \ {s}
  /\ remap' = [remap EXCEPT ![s] = NoRemap]
  /\ rosterSent' = [rosterSent EXCEPT ![s] = FALSE]
  /\ UNCHANGED <<store, modInfo, clock, info, user, crossed, copies>>

\* The server dies; every statement executed so far is in the file. A packet
\* cut short was never stamped.
Editing == \E s \in Conns : phase[s] \in {"packet", "stamp"}
Crash ==
  /\ \E s \in Conns : phase[s] # "signedOff"
  /\ phase' = [s \in Conns |-> "signedOff"]
  /\ task' = [s \in Conns |-> "none"]
  /\ user' = [s \in Conns |-> Nothing]
  /\ info' = [s \in Conns |-> NoInfo]
  /\ remap' = [s \in Conns |-> NoRemap]
  /\ rosterSent' = [s \in Conns |-> FALSE]
  /\ kicked' = {} /\ crossed' = {}
  /\ excused' = IF Editing THEN excused \cup {modDate} ELSE excused
  /\ UNCHANGED <<store, modInfo, clock, current, outdated>>

Tick ==
  /\ clock < MaxClock
  /\ clock' = clock + 1
  /\ UNCHANGED <<store, modInfo, session, copies>>

----------------------------------------------------------------------------
(* Sending the roster.                                                     *)

\* SNAC 13/05 with the date and count of the copy the client has kept;
\* SNAC 13/04 asks for the roster outright.
Checkout(s) ==
  /\ Reads(s)
  /\ Start(s, "checkout", "ensure")
  /\ UNCHANGED <<store, modInfo, clock, local, user, crossed, copies>>

RequestRoster(s) ==
  /\ Reads(s)
  /\ Start(s, "roster", "ensure")
  /\ UNCHANGED <<store, modInfo, clock, local, user, crossed, copies>>

\* Is the client's copy the one the store has the date and count of?
Decide(s, claim) ==
  /\ phase[s] = "decide"
  /\ IF modDate # 0 /\ (claim = modInfo \/ rosterSent[s])
       THEN Start(s, "none", "idle") ELSE Start(s, "roster", "ensure")
  /\ UNCHANGED <<store, modInfo, clock, local, user, crossed, copies>>

GetSsiModInfo(s) ==
  /\ phase[s] = "info"
  /\ info' = [info EXCEPT ![s] = modInfo]
  /\ GoTo(s, "load")
  /\ UNCHANGED <<store, modInfo, clock, task, remap, rosterSent, kicked, user, crossed, copies>>

Load(s) ==
  /\ phase[s] = "load"
  /\ user' = [user EXCEPT ![s] = Stored]
  /\ GoTo(s, "send")
  /\ UNCHANGED <<store, modInfo, clock, task, local, crossed, copies>>

\* What TouchSsiMod counts, the master group included, and buildSSIData.
Count(u) ==
  1 + Cardinality(Existing(u.groups))
    + Cardinality({p \in Peers : u.contacts[p] # NoContact})

\* buildSSIData, SetSsiModInfo where there was no date or the count differs
\* (with the date that was read before), and the roster. What is written to a
\* closed socket reaches no client. A date that is put back stands for two
\* contents, and so may the one it hides; and so will the date of a roster that
\* is not in order, for the next repair is not stamped.
Sent(pair, alike) ==
  /\ current' = IF alike THEN current \cup {pair} ELSE current
  /\ outdated' = IF alike THEN outdated ELSE outdated \cup {pair}

SendRoster(s) ==
  LET date == IF info[s][1] = 0 THEN clock ELSE info[s][1]
      realCount == Count(user[s]) + user[s].misc
      differs == info[s] # <<date, realCount>>
      alike == user[s] = Stored
      putBack == differs /\ info[s] # modInfo
  IN
  /\ phase[s] = "send"
  /\ IF differs THEN modDate' = date /\ itemCount' = realCount ELSE UNCHANGED modInfo
  /\ rosterSent' = [rosterSent EXCEPT ![s] = TRUE]
  /\ user' = [user EXCEPT ![s] = Nothing]
  /\ info' = [info EXCEPT ![s] = NoInfo]
  /\ IF s \in kicked THEN UNCHANGED <<current, outdated>> ELSE Sent(<<date, realCount>>, alike)
  /\ excused' = excused \cup (IF alike /\ InOrder(user[s]) THEN {} ELSE {date})
                        \cup (IF putBack THEN {date, modDate} ELSE {})
  /\ Start(s, "none", "idle")
  /\ UNCHANGED <<store, clock, remap, kicked, crossed>>

----------------------------------------------------------------------------
(* A packet of edits, parseAndModifySSI: the account is loaded once, every *)
(* item is applied to the store, and the whole is stamped if none failed.  *)

OpenPacket(s, kind) ==
  /\ Reads(s)
  /\ Start(s, kind, "packet")
  /\ user' = [user EXCEPT ![s] = Stored]
  /\ UNCHANGED <<store, modInfo, clock, local, crossed, copies>>

\* Handlers between a repair and the roster they send.
Repaired == {<<s, "ensured">> : s \in {t \in Conns : phase[t] = "fix"}} \cup
            {<<s, "fixed">> : s \in {t \in Conns : phase[t] \in {"info", "load"}}}

\* An item of a packet of that kind; the loop goes on, or is left for good.
Item(s, kind, place) ==
  /\ task[s] = kind
  /\ Start(s, IF place = "idle" THEN "none" ELSE kind, place)
  /\ crossed' = IF store' = store THEN crossed ELSE crossed \cup Repaired
  /\ Age
  /\ UNCHANGED <<modInfo, clock, rosterSent, info, kicked>>

Applied(s, kind) == Item(s, kind, "packet") /\ UNCHANGED excused

\* GetOrCreateGroupByName: a group of that name, or else this one.
AddGroup(s, g, name) ==
  LET same == {h \in GroupIds : groups[h] = name} IN
  /\ IF same = {} THEN groups' = [groups EXCEPT ![g] = name] /\ UNCHANGED remap
     ELSE \E h \in same :
       /\ remap' = IF h # g THEN [remap EXCEPT ![s][g] = h] ELSE remap
       /\ UNCHANGED groups
  /\ UNCHANGED <<contacts, misc, user>>
  /\ Applied(s, "add")

\* The last named group of the loaded account cannot be deleted if it is 1.
DeleteGroup(s, g) ==
  /\ groups' = IF g = 1 /\ Cardinality(Existing(user[s].groups)) <= 1
                 THEN groups ELSE [groups EXCEPT ![g] = NoName]
  /\ UNCHANGED <<contacts, misc, remap, user>>
  /\ Applied(s, "delete")

RenameGroup(s, g, name) ==
  /\ g \in Existing(user[s].groups)
  /\ groups' = IF name # user[s].groups[g] THEN [groups EXCEPT ![g] = name] ELSE groups
  /\ UNCHANGED <<contacts, misc, remap, user>>
  /\ Applied(s, "update")

\* The group a contact item names: an item for the master group is for the
\* first named group of the loaded account, or for a group General that is
\* looked up, or created, there and then (Settle).
Unnamed(s, g) == g = 0 /\ Existing(user[s].groups) = {}
Places(s, g) ==
  LET same == {h \in GroupIds : groups[h] = General} IN
  IF Unnamed(s, g) THEN (IF same = {} THEN {1} ELSE same)
  ELSE IF g = 0 THEN {Min(Existing(user[s].groups))} ELSE {g}
LookUpGeneral(s, g, h) ==
  groups' = IF Unnamed(s, g) THEN [groups EXCEPT ![h] = General] ELSE groups
Settle(s, g, h) ==
  /\ LookUpGeneral(s, g, h)
  /\ user' = IF Unnamed(s, g) THEN [user EXCEPT ![s].groups[h] = General] ELSE user

\* UpsertContact, in the group the id was mapped to.
Put_Swapped(s, p, h, pending) ==
  contacts' = [contacts EXCEPT ![p] =
    [group |-> p, pending |-> pending]]
Put(s, p, h, pending) ==
  contacts' = [contacts EXCEPT ![p] =
    [group |-> IF remap[s][h] # 0 THEN remap[s][h] ELSE h, pending |-> pending]]

AddContact(s, p, g, pending) ==
  /\ p \in Accounts
  /\ pending \/ p \notin Guarded
  /\ \E h \in Places(s, g) : Settle(s, g, h) /\ Put(s, p, h, pending)
  /\ UNCHANGED <<misc, remap>>
  /\ Applied(s, "add")

\* The UIN is not registered, or must be asked first: the rest of the packet
\* is dropped and nothing of it is stamped.
AddContactFails(s, p, g) ==
  /\ excused' = excused \cup {modDate}
  /\ user' = [user EXCEPT ![s] = Nothing]
  /\ \E h \in Places(s, g) :
       /\ LookUpGeneral(s, g, h)
       /\ \/ p \notin Accounts /\ UNCHANGED contacts
          \/ p \in Guarded /\ Put(s, p, h, TRUE)
  /\ UNCHANGED <<misc, remap>>
  /\ Item(s, "add", "idle")

DeleteContact(s, p, g) ==
  /\ \E h \in Places(s, g) : Settle(s, g, h)
  /\ contacts' = [contacts EXCEPT ![p] = NoContact]
  /\ UNCHANGED <<misc, remap>>
  /\ Applied(s, "delete")

UpdateContact(s, p, g, pending) ==
  /\ \E h \in Places(s, g) :
       /\ Settle(s, g, h)
       /\ IF user[s].contacts[p] # NoContact THEN Put(s, p, h, pending) ELSE UNCHANGED contacts
  /\ UNCHANGED <<misc, remap>>
  /\ Applied(s, "update")

\* Any other item; its rows are told apart by presence only.
SetMisc(s, kind) ==
  /\ misc' = IF kind = "delete" THEN 0 ELSE 1
  /\ UNCHANGED <<groups, contacts, remap, user>>
  /\ Applied(s, kind)

ClosePacket(s) ==
  /\ phase[s] = "packet"
  /\ GoTo(s, "stamp")
  /\ UNCHANGED <<store, modInfo, clock, task, local, user, crossed, copies>>

\* TouchSsiMod, which does not count misc_ssi_items.
TouchSsiMod_CountOnly == UNCHANGED modDate /\ itemCount' = Count(Stored)
TouchSsiMod ==
  /\ modDate' = clock
  /\ itemCount' = Count(Stored)

Stamp(s) ==
  /\ phase[s] = "stamp"
  /\ TouchSsiMod
  /\ excused' = IF clock = modDate THEN excused \cup {clock} ELSE excused
  /\ user' = [user EXCEPT ![s] = Nothing]
  /\ Start(s, "none", "idle")
  /\ UNCHANGED <<store, clock, local, crossed, current, outdated>>

----------------------------------------------------------------------------
(* Other accounts: handleAuthSendReply grants a request, handleDeleteYourself*)
(* removes its sender from the contacts. Neither stamps the roster.         *)

Reach(cs) ==
  /\ contacts' = cs
  /\ excused' = excused \cup {modDate}
  /\ UNCHANGED <<groups, misc, modInfo, clock, session>>
  /\ Age

ClearPendingAuth(p) ==
  /\ contacts[p] # NoContact /\ contacts[p].pending
  /\ Reach([contacts EXCEPT ![p].pending = FALSE])

DeleteYourself(p) ==
  /\ contacts[p] # NoContact
  /\ Reach([contacts EXCEPT ![p] = NoContact])

----------------------------------------------------------------------------
Repair(s) == Ensure(s) \/ Fix(s)

Edit(s) ==
  /\ phase[s] = "packet"
  /\ \/ \E g \in GroupIds :
          DeleteGroup(s, g) \/ \E n \in Names : AddGroup(s, g, n) \/ RenameGroup(s, g, n)
     \/ \E p \in Peers, g \in GroupIds \cup {0} :
          \/ AddContactFails(s, p, g) \/ DeleteContact(s, p, g)
          \/ \E pending \in BOOLEAN :
               AddContact(s, p, g, pending) \/ UpdateContact(s, p, g, pending)
     \/ \E kind \in Kinds : SetMisc(s, kind)

Handle(s) ==
  \/ SignOn(s) \/ SignOff(s)
  \/ Repair(s) \/ Checkout(s) \/ RequestRoster(s)
  \/ (\E claim \in current \cup outdated \cup {NoInfo} : Decide(s, claim))
  \/ GetSsiModInfo(s) \/ Load(s) \/ SendRoster(s)
  \/ (\E kind \in Kinds : OpenPacket(s, kind)) \/ Edit(s) \/ ClosePacket(s) \/ Stamp(s)

Next ==
  \/ \E s \in Conns : Handle(s)
  \/ Crash \/ Tick
  \/ \E p \in Accounts : ClearPendingAuth(p) \/ DeleteYourself(p)

Spec == Init /\ [][Next]_vars

----------------------------------------------------------------------------
(* Safety.                                                                 *)

Phases == {"signedOff", "ensure", "fix", "idle", "decide", "info", "load", "send",
           "packet", "stamp"}
Accounts_ == [groups : [GroupIds -> Names \cup {NoName}],
              contacts : [Peers -> Contacts \cup {NoContact}], misc : 0..1]

TypeOK ==
  /\ Stored \in Accounts_
  /\ modDate \in Nat /\ itemCount \in Nat /\ clock \in Nat
  /\ phase \in [Conns -> Phases]
  /\ task \in [Conns -> {"none", "signOn", "checkout", "roster"} \cup Kinds]
  /\ remap \in [Conns -> [GroupIds -> GroupIds \cup {0}]]
  /\ rosterSent \in [Conns -> BOOLEAN]
  /\ user \in [Conns -> Accounts_]
  /\ info \in [Conns -> Nat \X Nat]
  /\ kicked \subseteq Conns /\ crossed \subseteq Conns \X {"ensured", "fixed"}
  /\ current \subseteq Nat \X Nat /\ outdated \subseteq Nat \X Nat
  /\ excused \subseteq Nat

\* Whatever edits came before, applied to whichever stale copy of the account,
\* the roster a client is sent has a group for every contact, no two groups of
\* one name, and group 1; unless another session of the account, replaced or
\* replacing, edited after the repair that is there to see to it.
RosterSound == \A s \in Conns : phase[s] = "send" /\ <<s, "fixed">> \notin crossed =>
  /\ Housed(user[s])
  /\ <<s, "ensured">> \notin crossed => Distinct(user[s]) /\ 1 \in Existing(user[s].groups)

\* The date and count the store would compare a client's copy with are never
\* those of a roster sent earlier with another content, so that "up to date"
\* is true; except while a packet is being applied, and for a date that stands
\* for two contents: of two packets stamped in one second, of edits that are
\* never stamped (by other accounts, in a packet that failed or was cut short
\* by a crash), of the next repair of a roster that was sent out of order (see
\* RosterSound), or put back by a sendRoster that had read it before a session
\* it overlaps with stamped another.
UpToDateIsCurrent == modInfo \in outdated => Editing \/ modDate \in excused

=============================================================================
