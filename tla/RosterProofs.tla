---------------------------- MODULE RosterProofs ----------------------------
(***************************************************************************)
(* Safety of an account's roster, for any groups, names, contacts and      *)
(* sessions. The repairs and the edits work on the rows as they find them, *)
(* so the proof begins with what the operators make of any rows: a repair  *)
(* leaves them in order whatever they were. On that rest                   *)
(*   SoundInv  between a repair and the roster it is for, the rows are as  *)
(*             the repair left them, unless another session edited;        *)
(*   DateInv   a date is not ahead of the clock, and where it is the       *)
(*             present second, it is the store's or stands for two         *)
(*             contents; a roster that is not outdated is in order.        *)
(***************************************************************************)
EXTENDS Roster, FiniteSetTheorems, WellFoundedInduction, TLAPS

GroupRows == [GroupIds -> Names \cup {NoName}]
ContactRows == [Peers -> Contacts \cup {NoContact}]

\* Which handlers repair.
Repairing == {"signOn", "checkout", "roster"}
TaskInv == \A s \in Conns : phase[s] \in {"ensure", "fix"} => task[s] \in Repairing

TypeInv == TypeOK /\ TaskInv

----------------------------------------------------------------------------
(* Lemmas about the operators.                                             *)

\* The least of a set of naturals is one of them.
LEMMA LeastId ==
  ASSUME NEW S \in SUBSET Nat, S # {}
  PROVE  Min(S) \in S /\ \A x \in S : Min(S) <= x
<1>. DEFINE R == OpToRel(<, Nat)
<1>1. IsWellFoundedOn(R, Nat)  BY NatLessThanWellFounded
<1>2. \A x, y \in Nat : <<x, y>> \in R <=> x < y  BY DEF OpToRel
<1>. HIDE DEF R
<1>3. PICK x \in S : \A y \in S : ~(<<y, x>> \in R)
  BY <1>1, WFMin
<1>4. ASSUME NEW y \in S PROVE x =< y
  <2>1. ~(y < x)  BY <1>2, <1>3
  <2>. QED  BY <2>1
<1>. QED  BY <1>4 DEF Min

\* The rows of an account, apart and together.
LEMMA Rows ==
  ASSUME NEW gs \in GroupRows, NEW cs \in ContactRows, NEW m \in 0..1
  PROVE  /\ Loaded(gs, cs, m) \in Accounts_
         /\ Loaded(gs, cs, m).groups = gs /\ Loaded(gs, cs, m).contacts = cs
         /\ Loaded(gs, cs, m).misc = m
  BY DEF Loaded, Accounts_, GroupRows, ContactRows

LEMMA RowsOf ==
  ASSUME NEW u \in Accounts_
  PROVE  u.groups \in GroupRows /\ u.contacts \in ContactRows /\ u.misc \in 0..1
  BY DEF Accounts_, GroupRows, ContactRows

LEMMA StoredRows ==
  ASSUME Stored \in Accounts_
  PROVE  groups \in GroupRows /\ contacts \in ContactRows /\ misc \in 0..1
<1>1. Stored.groups = groups /\ Stored.contacts = contacts /\ Stored.misc = misc
  BY DEF Stored, Loaded
<1>. QED  BY <1>1, RowsOf

LEMMA Emptied == Nothing \in Accounts_ /\ NoGroups \in GroupRows /\ NoRemap \in [GroupIds -> GroupIds \cup {0}]
<1>1. NoGroups \in GroupRows  BY DEF NoGroups, GroupRows
<1>2. [p \in Peers |-> NoContact] \in ContactRows  BY DEF ContactRows
<1>3. 0 \in 0..1  OBVIOUS
<1>. QED  BY <1>1, <1>2, <1>3, Rows DEF Nothing, NoRemap

LEMMA ExistingFacts ==
  ASSUME NEW gs \in GroupRows
  PROVE  /\ Existing(gs) \subseteq GroupIds /\ Existing(gs) \subseteq Nat \ {0}
         /\ IsFiniteSet(Existing(gs))
         /\ Existing(gs) # {} => Min(Existing(gs)) \in Existing(gs)
<1>1. Existing(gs) \in SUBSET GroupIds  BY DEF Existing
<1>. QED  BY <1>1, RosterAssumption, FS_Subset, LeastId

\* TouchSsiMod and buildSSIData count rows.
LEMMA CountIsNat ==
  ASSUME NEW u \in Accounts_
  PROVE  Count(u) \in Nat
<1>1. u.groups \in GroupRows  BY RowsOf
<1>2. {p \in Peers : u.contacts[p] # NoContact} \in SUBSET Peers  OBVIOUS
<1>3. Cardinality({p \in Peers : u.contacts[p] # NoContact}) \in Nat
  BY <1>2, RosterAssumption, FS_Subset, FS_CardinalityType
<1>4. Cardinality(Existing(u.groups)) \in Nat
  BY <1>1, ExistingFacts, FS_CardinalityType
<1>. QED  BY <1>3, <1>4 DEF Count

\* The group General is there once it was inserted.
LEMMA Generalised ==
  ASSUME NEW gs \in GroupRows
  PROVE  /\ WithGeneral(gs) \in GroupRows
         /\ 1 \in Existing(WithGeneral(gs)) /\ Existing(gs) \subseteq Existing(WithGeneral(gs))
         /\ \A g \in Existing(gs) : WithGeneral(gs)[g] = gs[g]
  BY RosterAssumption DEF WithGeneral, GroupRows, Existing

\* Groups of one name have one group that they are merged into, which exists and
\* stays where it is; and group 1 stays.
LEMMA Merged ==
  ASSUME NEW gs \in GroupRows, 1 \in Existing(gs), NEW g \in Existing(gs)
  PROVE  /\ MergedInto(gs, g) \in Existing(gs)
         /\ MergedInto(gs, MergedInto(gs, g)) = MergedInto(gs, g)
         /\ MergedInto(gs, 1) = 1
         /\ \A h \in Existing(gs) :
              Key(gs[g]) = Key(gs[h]) /\ MergedInto(gs, g) = g /\ MergedInto(gs, h) = h => g = h
<1>1. \A h \in Existing(gs) :
        /\ h \in Alike(gs, h) /\ Alike(gs, h) \subseteq Existing(gs)
        /\ Alike(gs, h) \in SUBSET Nat /\ IsFiniteSet(Alike(gs, h))
  <2>. SUFFICES ASSUME NEW h \in Existing(gs)
                PROVE  /\ h \in Alike(gs, h) /\ Alike(gs, h) \subseteq Existing(gs)
                       /\ Alike(gs, h) \in SUBSET Nat /\ IsFiniteSet(Alike(gs, h))
    OBVIOUS
  <2>1. h \in Alike(gs, h) /\ Alike(gs, h) \in SUBSET Existing(gs)  BY DEF Alike
  <2>. QED  BY <2>1, ExistingFacts, FS_Subset
<1>2. \A h \in Existing(gs) : Min(Alike(gs, h)) \in Alike(gs, h)
                              /\ \A k \in Alike(gs, h) : Min(Alike(gs, h)) <= k
  <2>. SUFFICES ASSUME NEW h \in Existing(gs)
                PROVE  Min(Alike(gs, h)) \in Alike(gs, h)
                       /\ \A k \in Alike(gs, h) : Min(Alike(gs, h)) <= k
    OBVIOUS
  <2>1. Alike(gs, h) # {}  BY <1>1
  <2>. QED  BY <1>1, <2>1, LeastId
<1>3. \A h, k \in Existing(gs) : Key(gs[h]) = Key(gs[k]) => Alike(gs, h) = Alike(gs, k)
  BY DEF Alike
<1>4. \A h \in Existing(gs) : \A k \in Alike(gs, h) : Key(gs[k]) = Key(gs[h])
  BY DEF Alike
<1>5. \A h \in Existing(gs) : h >= 1  BY ExistingFacts
<1>6. MergedInto(gs, 1) = 1
  <2>1. Min(Alike(gs, 1)) = 1
    <3>1. Min(Alike(gs, 1)) \in Existing(gs) /\ Min(Alike(gs, 1)) <= 1
      BY <1>1, <1>2
    <3>2. Min(Alike(gs, 1)) \in Nat /\ Min(Alike(gs, 1)) >= 1
      BY <1>5, <3>1, ExistingFacts
    <3>. QED  BY <3>1, <3>2
  <2>. QED  BY <2>1 DEF MergedInto
<1>7. CASE Cardinality(Alike(gs, g)) = 1
  <2>1. MergedInto(gs, g) = g  BY <1>7 DEF MergedInto
  <2>2. PICK x : Alike(gs, g) = {x}  BY <1>1, <1>7, FS_Singleton
  <2>3. \A h \in Existing(gs) : Key(gs[g]) = Key(gs[h]) => g = h
    BY <1>1, <1>3, <2>2
  <2>. QED  BY <1>6, <2>1, <2>3
<1>8. CASE Cardinality(Alike(gs, g)) # 1 /\ Key(gs[g]) = General
  <2>1. MergedInto(gs, g) = 1  BY <1>8 DEF MergedInto
  <2>2. \A h \in Existing(gs) : Key(gs[g]) = Key(gs[h]) => MergedInto(gs, h) = 1
    <3>1. ASSUME NEW h \in Existing(gs), Key(gs[g]) = Key(gs[h])
          PROVE  Alike(gs, h) = Alike(gs, g) /\ Key(gs[h]) = General
      BY <1>3, <1>8, <3>1
    <3>. QED  BY <1>8, <3>1 DEF MergedInto
  <2>. QED  BY <1>6, <2>1, <2>2
<1>9. CASE Cardinality(Alike(gs, g)) # 1 /\ Key(gs[g]) # General
  <2>. DEFINE m == Min(Alike(gs, g))
  <2>1. MergedInto(gs, g) = m  BY <1>9 DEF MergedInto
  <2>2. m \in Existing(gs) /\ Key(gs[m]) = Key(gs[g])  BY <1>1, <1>2, <1>4
  <2>3. \A h \in Existing(gs) : Key(gs[g]) = Key(gs[h]) => MergedInto(gs, h) = m
    <3>. SUFFICES ASSUME NEW h \in Existing(gs), Key(gs[g]) = Key(gs[h])
                  PROVE  MergedInto(gs, h) = m
      OBVIOUS
    <3>1. Alike(gs, h) = Alike(gs, g) /\ Key(gs[h]) # General
      BY <1>3, <1>9
    <3>. QED  BY <1>9, <3>1 DEF MergedInto
  <2>. HIDE DEF m
  <2>. QED  BY <1>6, <2>1, <2>2, <2>3
<1>. QED  BY <1>7, <1>8, <1>9

----------------------------------------------------------------------------
(* What the repairs leave, whatever rows they find.                        *)

\* Two groups of one name are merged, and group 1 is there.
Whole(u) == Distinct(u) /\ 1 \in Existing(u.groups)

\* The conditions on an account are on its rows.
LEMMA OfRows ==
  ASSUME NEW gs, NEW cs, NEW m
  PROVE  /\ Housed(Loaded(gs, cs, m)) <=>
              \A p \in Peers : cs[p] # NoContact => cs[p].group \in Existing(gs) \cup {0}
         /\ Whole(Loaded(gs, cs, m)) <=>
              /\ \A g, h \in Existing(gs) : Key(gs[g]) = Key(gs[h]) => g = h
              /\ 1 \in Existing(gs)
  BY DEF Housed, Whole, Distinct, Loaded

LEMMA EnsureRepairs ==
  ASSUME Stored \in Accounts_, EnsureDefaultGroups
  PROVE  /\ groups' \in GroupRows /\ contacts' \in ContactRows
         /\ Whole(Stored)'
         /\ Housed(Stored) => Housed(Stored)'
<1>. DEFINE gs == WithGeneral(groups)
            to == [g \in GroupIds \cup {0} |->
                    IF g # 0 /\ g \in Existing(gs) THEN MergedInto(gs, g) ELSE g]
<1>1. groups \in GroupRows /\ contacts \in ContactRows  BY StoredRows
<1>2. /\ gs \in GroupRows /\ 1 \in Existing(gs) /\ Existing(groups) \subseteq Existing(gs)
      /\ Existing(gs) \subseteq GroupIds /\ 0 \notin Existing(gs)
  BY <1>1, Generalised, ExistingFacts
<1>3. /\ groups' = [g \in GroupIds |-> IF to[g] = g THEN gs[g] ELSE NoName]
      /\ contacts' = Move(contacts, to)
  BY DEF EnsureDefaultGroups
<1>4. \A g \in Existing(gs) : to[g] = MergedInto(gs, g)  BY <1>2
<1>. HIDE DEF gs
<1>5. \A g \in Existing(gs) : /\ to[g] \in Existing(gs) /\ to[to[g]] = to[g] /\ to[1] = 1
                              /\ \A h \in Existing(gs) : Key(gs[g]) = Key(gs[h])
                                   /\ to[g] = g /\ to[h] = h => g = h
  <2>. SUFFICES ASSUME NEW g \in Existing(gs)
                PROVE  /\ to[g] \in Existing(gs) /\ to[to[g]] = to[g] /\ to[1] = 1
                       /\ \A h \in Existing(gs) : Key(gs[g]) = Key(gs[h])
                            /\ to[g] = g /\ to[h] = h => g = h
    OBVIOUS
  <2>. HIDE DEF to
  <2>. QED  BY <1>2, <1>4, Merged
<1>6. to[0] = 0 /\ \A g \in GroupIds \cup {0} : to[g] \in GroupIds \cup {0}
  <2>1. to[0] = 0  OBVIOUS
  <2>2. ASSUME NEW g \in GroupIds \cup {0} PROVE to[g] \in GroupIds \cup {0}
    <3>1. CASE g \in Existing(gs)  BY <1>2, <1>5, <3>1
    <3>2. CASE g \notin Existing(gs)  BY <3>2
    <3>. QED  BY <3>1, <3>2
  <2>. QED  BY <2>1, <2>2
<1>. HIDE DEF to
<1>7. groups' \in GroupRows
  BY <1>2, <1>3 DEF GroupRows
<1>8. \A g \in GroupIds : g \in Existing(groups') <=> g \in Existing(gs) /\ to[g] = g
  BY <1>3 DEF Existing
<1>9. \A g \in Existing(groups') : g \in Existing(gs) /\ to[g] = g /\ groups'[g] = gs[g]
  BY <1>3 DEF Existing
<1>10. \A p \in Peers : contacts[p] # NoContact =>
         /\ contacts[p] \in Contacts /\ contacts'[p] \in Contacts
         /\ contacts'[p].group = to[contacts[p].group]
  BY <1>1, <1>3, <1>6 DEF ContactRows, Contacts, Move
<1>11. \A p \in Peers : contacts[p] = NoContact => contacts'[p] = NoContact
  BY <1>3 DEF Move
<1>12. contacts' \in ContactRows
  <2>1. contacts' = [p \in Peers |-> contacts'[p]]  BY <1>3 DEF Move
  <2>2. \A p \in Peers : contacts'[p] \in Contacts \cup {NoContact}  BY <1>10, <1>11
  <2>. QED  BY <2>1, <2>2 DEF ContactRows
<1>13. Whole(Loaded(groups', contacts', misc'))
  <2>1. \A g, h \in Existing(groups') : Key(groups'[g]) = Key(groups'[h]) => g = h
    BY <1>5, <1>9
  <2>2. 1 \in Existing(groups')  BY <1>2, <1>5, <1>8
  <2>. QED  BY <2>1, <2>2, OfRows
<1>14. ASSUME Housed(Loaded(groups, contacts, misc))
       PROVE  Housed(Loaded(groups', contacts', misc'))
  <2>. SUFFICES ASSUME NEW p \in Peers, contacts'[p] # NoContact
                PROVE  contacts'[p].group \in Existing(groups') \cup {0}
    BY OfRows
  <2>1. contacts[p] # NoContact  BY <1>11
  <2>2. contacts[p].group \in Existing(gs) \cup {0}  BY <1>2, <1>14, <2>1, OfRows
  <2>3. contacts'[p].group = to[contacts[p].group]  BY <1>10, <2>1
  <2>. QED  BY <1>2, <1>5, <1>6, <1>8, <2>2, <2>3
<1>. QED  BY <1>7, <1>12, <1>13, <1>14 DEF Stored

LEMMA FixRepairs ==
  ASSUME Stored \in Accounts_, FixOrphanContacts
  PROVE  /\ groups' \in GroupRows /\ contacts' \in ContactRows
         /\ Housed(Stored)'
         /\ Whole(Stored) => Whole(Stored)'
<1>. DEFINE gs == IF Orphans # {} /\ Existing(groups) = {} THEN WithGeneral(groups) ELSE groups
<1>1. groups \in GroupRows /\ contacts \in ContactRows  BY StoredRows
<1>2. /\ gs \in GroupRows /\ Existing(groups) \subseteq Existing(gs)
      /\ Orphans # {} => Existing(gs) # {}
      /\ 1 \in Existing(groups) => gs = groups
  BY <1>1, Generalised
<1>3. /\ groups' = gs
      /\ contacts' = [p \in Peers |->
           IF p \in Orphans THEN [contacts[p] EXCEPT !.group = Min(Existing(gs))]
                            ELSE contacts[p]]
  BY DEF FixOrphanContacts
<1>. HIDE DEF gs
<1>4. \A p \in Orphans : /\ p \in Peers /\ contacts[p] # NoContact
                         /\ Min(Existing(gs)) \in Existing(gs)
                         /\ Existing(gs) \subseteq GroupIds
  BY <1>2, ExistingFacts DEF Orphans
<1>5. \A p \in Orphans : /\ contacts'[p] \in Contacts
                         /\ contacts'[p].group = Min(Existing(gs))
  BY <1>1, <1>3, <1>4 DEF ContactRows, Contacts
<1>6. \A p \in Peers \ Orphans :
        /\ contacts'[p] = contacts[p]
        /\ contacts[p] # NoContact => contacts[p].group \in Existing(gs) \cup {0}
  BY <1>2, <1>3 DEF Orphans
<1>7. contacts' \in ContactRows
  <2>1. contacts' = [p \in Peers |-> contacts'[p]]  BY <1>3
  <2>2. \A p \in Peers : contacts'[p] \in Contacts \cup {NoContact}
    BY <1>1, <1>5, <1>6 DEF ContactRows
  <2>. QED  BY <2>1, <2>2 DEF ContactRows
<1>8. Housed(Loaded(groups', contacts', misc'))
  BY <1>3, <1>4, <1>5, <1>6, OfRows
<1>9. Whole(Loaded(groups, contacts, misc)) => Whole(Loaded(groups', contacts', misc'))
  BY <1>2, <1>3, OfRows
<1>. QED  BY <1>2, <1>3, <1>7, <1>8, <1>9 DEF Stored

\* Rows that are in order are left as they are.
LEMMA InOrderStays ==
  ASSUME Stored \in Accounts_, InOrder(Stored), EnsureDefaultGroups \/ FixOrphanContacts
  PROVE  groups' = groups /\ contacts' = contacts
<1>1. groups \in GroupRows /\ contacts \in ContactRows  BY StoredRows
<1>2. /\ \A p \in Peers : contacts[p] # NoContact =>
           contacts[p].group \in Existing(groups) \cup {0}
      /\ \A g, h \in Existing(groups) : Key(groups[g]) = Key(groups[h]) => g = h
      /\ 1 \in Existing(groups)
  BY OfRows DEF InOrder, Stored, Whole, Housed, Distinct, Loaded
<1>3. CASE FixOrphanContacts
  <2>1. Orphans = {}  BY <1>2 DEF Orphans
  <2>2. contacts = [p \in Peers |-> contacts[p]]  BY <1>1 DEF ContactRows
  <2>. QED  BY <1>3, <2>1, <2>2 DEF FixOrphanContacts
<1>4. CASE EnsureDefaultGroups
  <2>. DEFINE to == [g \in GroupIds \cup {0} |->
                      IF g # 0 /\ g \in Existing(groups) THEN MergedInto(groups, g) ELSE g]
  <2>1. WithGeneral(groups) = groups  BY <1>2 DEF WithGeneral, Existing
  <2>2. /\ groups' = [g \in GroupIds |-> IF to[g] = g THEN groups[g] ELSE NoName]
        /\ contacts' = Move(contacts, to)
    BY <1>4, <2>1 DEF EnsureDefaultGroups
  <2>3. \A g \in Existing(groups) : MergedInto(groups, g) = g
    <3>. SUFFICES ASSUME NEW g \in Existing(groups) PROVE MergedInto(groups, g) = g
      OBVIOUS
    <3>1. Alike(groups, g) = {g}  BY <1>2 DEF Alike
    <3>2. Cardinality({g}) = 1  BY FS_Singleton
    <3>. QED  BY <3>1, <3>2 DEF MergedInto
  <2>4. \A g \in GroupIds \cup {0} : to[g] = g  BY <2>3
  <2>. HIDE DEF to
  <2>5. groups' = groups  BY <1>1, <2>2, <2>4 DEF GroupRows
  <2>6. \A p \in Peers : contacts[p] # NoContact =>
          [contacts[p] EXCEPT !.group = to[contacts[p].group]] = contacts[p]
    <3>. SUFFICES ASSUME NEW p \in Peers, contacts[p] # NoContact
                  PROVE  [contacts[p] EXCEPT !.group = to[contacts[p].group]] = contacts[p]
      OBVIOUS
    <3>1. contacts[p] \in [group : GroupIds \cup {0}, pending : BOOLEAN]
      BY <1>1 DEF ContactRows, Contacts
    <3>2. to[contacts[p].group] = contacts[p].group  BY <2>4, <3>1
    <3>. QED  BY <3>1, <3>2
  <2>7. contacts' = contacts
    <3>1. contacts = [p \in Peers |-> contacts[p]]  BY <1>1 DEF ContactRows
    <3>. QED  BY <2>2, <2>6, <3>1 DEF Move
  <2>. QED  BY <2>5, <2>7
<1>. QED  BY <1>3, <1>4

----------------------------------------------------------------------------
(* Types.                                                                  *)

\* The account, the session's state, and the histories.
LEMMA Parts ==
  ASSUME TypeInv
  PROVE  /\ groups \in GroupRows /\ contacts \in ContactRows /\ misc \in 0..1
         /\ \A s \in Conns : /\ user[s].groups \in GroupRows /\ user[s].contacts \in ContactRows
                             /\ Existing(user[s].groups) \subseteq GroupIds
  BY StoredRows, RowsOf, ExistingFacts DEF TypeInv, TypeOK

LEMMA PlacesExist ==
  ASSUME TypeInv, NEW s \in Conns, NEW g \in GroupIds \cup {0}, NEW h \in Places(s, g)
  PROVE  h \in GroupIds
<1>1. user[s].groups \in GroupRows  BY Parts
<1>2. Existing(user[s].groups) # {} => Min(Existing(user[s].groups)) \in GroupIds
  BY <1>1, ExistingFacts
<1>3. 1 \in GroupIds  BY RosterAssumption
<1>. QED  BY <1>2, <1>3 DEF Places, Unnamed

LEMMA PutTypes ==
  ASSUME TypeInv, NEW s \in Conns, NEW p \in Peers, NEW h \in GroupIds, NEW pending \in BOOLEAN,
         Put(s, p, h, pending)
  PROVE  contacts' \in ContactRows
<1>1. contacts \in ContactRows /\ remap[s][h] \in GroupIds \cup {0}
  BY Parts DEF TypeInv, TypeOK
<1>2. [group |-> IF remap[s][h] # 0 THEN remap[s][h] ELSE h, pending |-> pending] \in Contacts
  BY <1>1 DEF Contacts
<1>. QED  BY <1>1, <1>2 DEF Put, ContactRows

LEMMA SettleTypes ==
  ASSUME TypeInv, NEW s \in Conns, NEW g \in GroupIds \cup {0}, NEW h \in GroupIds,
         LookUpGeneral(s, g, h)
  PROVE  /\ groups' \in GroupRows
         /\ Settle(s, g, h) => user' \in [Conns -> Accounts_]
<1>1. groups \in GroupRows /\ General \in Names /\ user \in [Conns -> Accounts_]
  BY Parts, RosterAssumption DEF TypeInv, TypeOK
<1>2. groups' \in GroupRows  BY <1>1 DEF LookUpGeneral, GroupRows
<1>3. ASSUME Settle(s, g, h) PROVE user' \in [Conns -> Accounts_]
  <2>1. [user[s] EXCEPT !.groups = [user[s].groups EXCEPT ![h] = General]] \in Accounts_
    BY <1>1 DEF Accounts_
  <2>2. [user EXCEPT ![s].groups[h] = General]
        = [user EXCEPT ![s] = [user[s] EXCEPT !.groups = [user[s].groups EXCEPT ![h] = General]]]
    BY <1>1
  <2>. QED  BY <1>1, <1>3, <2>1, <2>2 DEF Settle
<1>. QED  BY <1>2, <1>3

\* What an item of a packet leaves alone, and what it does to the session.
Edited(s) ==
  /\ groups' \in GroupRows /\ contacts' \in ContactRows /\ misc' \in 0..1
  /\ user' \in [Conns -> Accounts_]
  /\ remap' \in [Conns -> [GroupIds -> GroupIds \cup {0}]]
  /\ UNCHANGED <<modInfo, clock, rosterSent, info, kicked>>
  /\ \E t \in Kinds \cup {"none"} : task' = [task EXCEPT ![s] = t]
  /\ \/ phase' = [phase EXCEPT ![s] = "packet"] /\ excused' = excused
     \/ phase' = [phase EXCEPT ![s] = "idle"] /\ excused' = excused \cup {modDate}
  /\ crossed' = IF store' = store THEN crossed ELSE crossed \cup Repaired
  /\ Age

LEMMA EditTypes ==
  ASSUME TypeInv, NEW s \in Conns, Edit(s)
  PROVE  Edited(s)
<1>1. /\ groups \in GroupRows /\ contacts \in ContactRows /\ misc \in 0..1
      /\ user \in [Conns -> Accounts_] /\ user[s].groups \in GroupRows
      /\ remap \in [Conns -> [GroupIds -> GroupIds \cup {0}]]
  BY Parts DEF TypeInv, TypeOK
<1>. DEFINE Rest == /\ UNCHANGED <<modInfo, clock, rosterSent, info, kicked>>
                    /\ \E t \in Kinds \cup {"none"} : task' = [task EXCEPT ![s] = t]
                    /\ crossed' = IF store' = store THEN crossed ELSE crossed \cup Repaired
                    /\ Age
            Going == phase' = [phase EXCEPT ![s] = "packet"] /\ excused' = excused
            Left == phase' = [phase EXCEPT ![s] = "idle"] /\ excused' = excused \cup {modDate}
<1>2. ASSUME NEW kind \in Kinds, Applied(s, kind) PROVE Rest /\ Going
  BY <1>2 DEF Applied, Item, Start, GoTo
<1>3. ASSUME NEW kind \in Kinds, Item(s, kind, "idle"), excused' = excused \cup {modDate}
      PROVE  Rest /\ Left
  BY <1>3 DEF Item, Start, GoTo
<1>4. "add" \in Kinds /\ "update" \in Kinds /\ "delete" \in Kinds  BY DEF Kinds
<1>5. ASSUME NEW g \in GroupIds, DeleteGroup(s, g) PROVE Edited(s)
  <2>1. UNCHANGED <<contacts, misc, remap, user>> /\ groups' \in GroupRows
    BY <1>1, <1>5 DEF DeleteGroup, GroupRows
  <2>. QED  BY <1>1, <1>2, <1>4, <1>5, <2>1 DEF DeleteGroup, Edited
<1>6. ASSUME NEW g \in GroupIds, NEW n \in Names, AddGroup(s, g, n) PROVE Edited(s)
  <2>1. UNCHANGED <<contacts, misc, user>> /\ groups' \in GroupRows
        /\ remap' \in [Conns -> [GroupIds -> GroupIds \cup {0}]]
    <3>1. CASE {h \in GroupIds : groups[h] = n} = {}
      BY <1>1, <1>6, <3>1 DEF AddGroup, GroupRows
    <3>2. CASE {h \in GroupIds : groups[h] = n} # {}
      <4>1. PICK h \in GroupIds :
              /\ remap' = IF h # g THEN [remap EXCEPT ![s][g] = h] ELSE remap
              /\ UNCHANGED groups
        BY <1>6, <3>2 DEF AddGroup
      <4>. QED  BY <1>1, <1>6, <4>1 DEF AddGroup
    <3>. QED  BY <3>1, <3>2
  <2>. QED  BY <1>1, <1>2, <1>4, <1>6, <2>1 DEF AddGroup, Edited
<1>7. ASSUME NEW g \in GroupIds, NEW n \in Names, RenameGroup(s, g, n) PROVE Edited(s)
  <2>1. UNCHANGED <<contacts, misc, remap, user>> /\ groups' \in GroupRows
    BY <1>1, <1>7 DEF RenameGroup, GroupRows
  <2>. QED  BY <1>1, <1>2, <1>4, <1>7, <2>1 DEF RenameGroup, Edited
<1>8. ASSUME NEW p \in Peers, NEW g \in GroupIds \cup {0}, AddContactFails(s, p, g)
      PROVE  Edited(s)
  <2>1. PICK h \in Places(s, g) : /\ LookUpGeneral(s, g, h)
                                  /\ \/ UNCHANGED contacts
                                     \/ Put(s, p, h, TRUE)
    BY <1>8 DEF AddContactFails
  <2>2. h \in GroupIds  BY PlacesExist
  <2>3. groups' \in GroupRows  BY <2>1, <2>2, SettleTypes
  <2>4. contacts' \in ContactRows  BY <1>1, <2>1, <2>2, PutTypes
  <2>5. user' \in [Conns -> Accounts_]  BY <1>1, <1>8, Emptied DEF AddContactFails
  <2>6. Rest /\ Left  BY <1>3, <1>4, <1>8 DEF AddContactFails
  <2>. QED  BY <1>1, <1>8, <2>3, <2>4, <2>5, <2>6 DEF AddContactFails, Edited
<1>9. ASSUME NEW p \in Peers, NEW g \in GroupIds \cup {0}, DeleteContact(s, p, g)
      PROVE  Edited(s)
  <2>1. PICK h \in Places(s, g) : Settle(s, g, h)  BY <1>9 DEF DeleteContact
  <2>2. h \in GroupIds  BY PlacesExist
  <2>3. groups' \in GroupRows /\ user' \in [Conns -> Accounts_]
    BY <2>1, <2>2, SettleTypes DEF Settle
  <2>4. contacts' \in ContactRows  BY <1>1, <1>9 DEF DeleteContact, ContactRows
  <2>5. Rest /\ Going  BY <1>2, <1>4, <1>9 DEF DeleteContact
  <2>. QED  BY <1>1, <1>9, <2>3, <2>4, <2>5 DEF DeleteContact, Edited
<1>10. ASSUME NEW p \in Peers, NEW g \in GroupIds \cup {0}, NEW pending \in BOOLEAN,
              AddContact(s, p, g, pending)
       PROVE  Edited(s)
  <2>1. PICK h \in Places(s, g) : Settle(s, g, h) /\ Put(s, p, h, pending)
    BY <1>10 DEF AddContact
  <2>2. h \in GroupIds  BY PlacesExist
  <2>3. groups' \in GroupRows /\ user' \in [Conns -> Accounts_]
    BY <2>1, <2>2, SettleTypes DEF Settle
  <2>4. contacts' \in ContactRows  BY <2>1, <2>2, PutTypes
  <2>5. Rest /\ Going  BY <1>2, <1>4, <1>10 DEF AddContact
  <2>. QED  BY <1>1, <1>10, <2>3, <2>4, <2>5 DEF AddContact, Edited
<1>11. ASSUME NEW p \in Peers, NEW g \in GroupIds \cup {0}, NEW pending \in BOOLEAN,
              UpdateContact(s, p, g, pending)
       PROVE  Edited(s)
  <2>1. PICK h \in Places(s, g) : /\ Settle(s, g, h)
                                  /\ Put(s, p, h, pending) \/ UNCHANGED contacts
    BY <1>11 DEF UpdateContact
  <2>2. h \in GroupIds  BY PlacesExist
  <2>3. groups' \in GroupRows /\ user' \in [Conns -> Accounts_]
    BY <2>1, <2>2, SettleTypes DEF Settle
  <2>4. contacts' \in ContactRows  BY <1>1, <2>1, <2>2, PutTypes
  <2>5. Rest /\ Going  BY <1>2, <1>4, <1>11 DEF UpdateContact
  <2>. QED  BY <1>1, <1>11, <2>3, <2>4, <2>5 DEF UpdateContact, Edited
<1>12. ASSUME NEW kind \in Kinds, SetMisc(s, kind) PROVE Edited(s)
  <2>1. Rest /\ Going  BY <1>2, <1>12 DEF SetMisc
  <2>2. misc' \in 0..1 /\ UNCHANGED <<groups, contacts, remap, user>>
    BY <1>12 DEF SetMisc
  <2>. QED  BY <1>1, <2>1, <2>2 DEF Edited
<1>. QED
  BY <1>5, <1>6, <1>7, <1>8, <1>9, <1>10, <1>11, <1>12 DEF Edit

LEMMA AgeTypes ==
  ASSUME TypeInv, Age
  PROVE  current' \subseteq Nat \X Nat /\ outdated' \subseteq Nat \X Nat
  BY DEF Age, TypeInv, TypeOK

LEMMA TypeInitial == Init => TypeInv
<1>. SUFFICES ASSUME Init PROVE TypeInv  OBVIOUS
<1>1. Stored = Nothing  BY DEF Init, Stored, Nothing
<1>2. TypeOK
  BY <1>1, Emptied, RosterAssumption
  DEF Init, TypeOK, Phases, NoInfo
<1>3. TaskInv  BY DEF Init, TaskInv
<1>. QED  BY <1>2, <1>3 DEF TypeInv

\* The steps of a handler that leave the rows alone.
LEMMA TypeHandle ==
  ASSUME TypeInv, NEW s \in Conns, Handle(s), ~Edit(s), ~Repair(s)
  PROVE  TypeInv' /\ UNCHANGED store
<1>1. TypeOK /\ TaskInv /\ Nothing \in Accounts_ /\ NoInfo \in Nat \X Nat
      /\ NoRemap \in [GroupIds -> GroupIds \cup {0}]
  BY Emptied DEF TypeInv, NoInfo
<1>2. ASSUME UNCHANGED store PROVE Stored' = Stored
  BY <1>2 DEF store, Stored, Loaded
<1>3. ASSUME NEW place \in Phases, NEW t \in {"none"} \cup Repairing \cup Kinds, Start(s, t, place),
             place \in {"ensure", "fix"} => t \in Repairing
      PROVE  /\ phase' \in [Conns -> Phases] /\ TaskInv'
             /\ task' \in [Conns -> {"none", "signOn", "checkout", "roster"} \cup Kinds]
  BY <1>1, <1>3 DEF Start, GoTo, TypeOK, TaskInv, Repairing
<1>4. ASSUME NEW place \in Phases, GoTo(s, place), UNCHANGED task, place \notin {"ensure", "fix"}
      PROVE  phase' \in [Conns -> Phases] /\ TaskInv'
  BY <1>1, <1>4 DEF GoTo, TypeOK, TaskInv
<1>5. \A t \in {"ensure", "idle", "signedOff", "load", "send", "packet", "stamp"} : t \in Phases
  BY DEF Phases
<1>6. /\ \A t \in {"none", "signOn", "checkout", "roster"} : t \in {"none"} \cup Repairing \cup Kinds
      /\ \A t \in {"signOn", "checkout", "roster"} : t \in Repairing
  BY DEF Repairing
<1>7. CASE SignOn(s)
  <2>1. Start(s, "signOn", "ensure")
        /\ UNCHANGED <<store, modInfo, clock, local, user, crossed, copies>>
    BY <1>7 DEF SignOn
  <2>2. TypeOK'
    BY <1>1, <1>2, <1>3, <1>5, <1>6, <2>1 DEF TypeOK, modInfo, local, copies
  <2>. QED  BY <1>3, <1>5, <1>6, <2>1, <2>2 DEF TypeInv
<1>8. CASE SignOff(s)
  <2>1. Start(s, "none", "signedOff") /\ UNCHANGED <<store, modInfo, clock, info, user, crossed, copies>>
        /\ kicked' = kicked \ {s} /\ remap' = [remap EXCEPT ![s] = NoRemap]
        /\ rosterSent' = [rosterSent EXCEPT ![s] = FALSE]
    BY <1>8 DEF SignOff
  <2>2. TypeOK'
    BY <1>1, <1>2, <1>3, <1>5, <1>6, <2>1 DEF TypeOK, modInfo, copies
  <2>. QED  BY <1>3, <1>5, <1>6, <2>1, <2>2 DEF TypeInv
<1>9. CASE Checkout(s) \/ RequestRoster(s) \/ \E claim : Decide(s, claim)
  <2>1. /\ \/ Start(s, "checkout", "ensure") \/ Start(s, "roster", "ensure") \/ Start(s, "none", "idle")
        /\ UNCHANGED <<store, modInfo, clock, local, user, crossed, copies>>
    BY <1>9 DEF Checkout, RequestRoster, Decide
  <2>2. phase' \in [Conns -> Phases] /\ TaskInv'
        /\ task' \in [Conns -> {"none", "signOn", "checkout", "roster"} \cup Kinds]
    BY <1>3, <1>5, <1>6, <2>1
  <2>3. TypeOK'
    BY <1>1, <1>2, <2>1, <2>2 DEF TypeOK, modInfo, local, copies
  <2>. QED  BY <2>1, <2>2, <2>3 DEF TypeInv
<1>10. CASE GetSsiModInfo(s)
  <2>1. GoTo(s, "load") /\ info' = [info EXCEPT ![s] = <<modDate, itemCount>>]
        /\ UNCHANGED <<store, modInfo, clock, task, remap, rosterSent, kicked, user, crossed, copies>>
    BY <1>10 DEF GetSsiModInfo, modInfo
  <2>2. TypeOK'
    BY <1>1, <1>2, <1>4, <1>5, <2>1 DEF TypeOK, modInfo, copies
  <2>. QED  BY <1>4, <1>5, <2>1, <2>2 DEF TypeInv
<1>11. CASE Load(s)
  <2>1. GoTo(s, "send") /\ user' = [user EXCEPT ![s] = Stored]
        /\ UNCHANGED <<store, modInfo, clock, task, local, crossed, copies>>
    BY <1>11 DEF Load
  <2>2. TypeOK'
    BY <1>1, <1>2, <1>4, <1>5, <2>1 DEF TypeOK, modInfo, local, copies
  <2>. QED  BY <1>4, <1>5, <2>1, <2>2 DEF TypeInv
<1>12. CASE SendRoster(s)
  <2>. DEFINE date == IF info[s][1] = 0 THEN clock ELSE info[s][1]
              realCount == Count(user[s]) + user[s].misc
  <2>1. date \in Nat /\ realCount \in Nat /\ modDate \in Nat
    <3>1. user[s] \in Accounts_ /\ info[s] \in Nat \X Nat /\ clock \in Nat
      BY <1>1 DEF TypeOK
    <3>2. Count(user[s]) \in Nat /\ user[s].misc \in Nat  BY <3>1, CountIsNat, RowsOf
    <3>. QED  BY <1>1, <3>1, <3>2 DEF TypeOK
  <2>2. /\ modDate' \in {modDate, date} /\ itemCount' \in {itemCount, realCount}
        /\ rosterSent' = [rosterSent EXCEPT ![s] = TRUE]
        /\ user' = [user EXCEPT ![s] = Nothing] /\ info' = [info EXCEPT ![s] = NoInfo]
        /\ current' \subseteq current \cup {<<date, realCount>>}
        /\ outdated' \subseteq outdated \cup {<<date, realCount>>}
        /\ excused' \subseteq excused \cup {date, modDate}
        /\ Start(s, "none", "idle")
        /\ UNCHANGED <<store, clock, remap, kicked, crossed>>
    BY <1>12 DEF SendRoster, Sent, modInfo
  <2>. HIDE DEF date, realCount
  <2>3. TypeOK'
    BY <1>1, <1>2, <1>3, <1>5, <1>6, <2>1, <2>2 DEF TypeOK
  <2>. QED  BY <1>3, <1>5, <1>6, <2>2, <2>3 DEF TypeInv
<1>13. ASSUME NEW kind \in Kinds, OpenPacket(s, kind) PROVE TypeInv' /\ UNCHANGED store
  <2>1. Start(s, kind, "packet") /\ user' = [user EXCEPT ![s] = Stored]
        /\ UNCHANGED <<store, modInfo, clock, local, crossed, copies>>
    BY <1>13 DEF OpenPacket
  <2>2. TypeOK'
    BY <1>1, <1>2, <1>3, <1>5, <2>1 DEF TypeOK, modInfo, local, copies
  <2>. QED  BY <1>3, <1>5, <2>1, <2>2 DEF TypeInv
<1>14. CASE ClosePacket(s)
  <2>1. GoTo(s, "stamp")
        /\ UNCHANGED <<store, modInfo, clock, task, local, user, crossed, copies>>
    BY <1>14 DEF ClosePacket
  <2>2. TypeOK'
    BY <1>1, <1>2, <1>4, <1>5, <2>1 DEF TypeOK, modInfo, local, copies
  <2>. QED  BY <1>4, <1>5, <2>1, <2>2 DEF TypeInv
<1>15. CASE Stamp(s)
  <2>1. /\ modDate' = clock /\ itemCount' = Count(Stored)
        /\ excused' \subseteq excused \cup {clock}
        /\ user' = [user EXCEPT ![s] = Nothing]
        /\ Start(s, "none", "idle")
        /\ UNCHANGED <<store, clock, local, crossed, current, outdated>>
    BY <1>15 DEF Stamp, TouchSsiMod
  <2>2. Count(Stored) \in Nat  BY <1>1, CountIsNat DEF TypeOK
  <2>3. TypeOK'
    BY <1>1, <1>2, <1>3, <1>5, <1>6, <2>1, <2>2 DEF TypeOK, local
  <2>. QED  BY <1>3, <1>5, <1>6, <2>1, <2>3 DEF TypeInv
<1>. QED
  BY <1>7, <1>8, <1>9, <1>10, <1>11, <1>12, <1>13, <1>14, <1>15 DEF Handle

LEMMA TypeRepair ==
  ASSUME TypeInv, NEW s \in Conns, Repair(s)
  PROVE  TypeInv'
<1>1. TypeOK /\ TaskInv /\ misc \in 0..1 /\ Stored \in Accounts_
  BY Parts DEF TypeInv, TypeOK
<1>2. groups' \in GroupRows /\ contacts' \in ContactRows /\ misc' = misc
  BY <1>1, EnsureRepairs, FixRepairs DEF Repair, Ensure, Fix
<1>3. Stored' \in Accounts_
  <2>1. Loaded(groups', contacts', misc') \in Accounts_  BY <1>1, <1>2, Rows
  <2>. QED  BY <2>1 DEF Stored
<1>4. current' \subseteq Nat \X Nat /\ outdated' \subseteq Nat \X Nat
  BY AgeTypes DEF Repair, Ensure, Fix
<1>5. "fix" \in Phases /\ "idle" \in Phases /\ "decide" \in Phases /\ "info" \in Phases
  BY DEF Phases
<1>6. CASE Ensure(s)
  <2>1. /\ phase' = [phase EXCEPT ![s] = "fix"] /\ phase[s] = "ensure"
        /\ crossed' \subseteq crossed
        /\ UNCHANGED <<modDate, itemCount, clock, task, remap, rosterSent, info, kicked, user, excused>>
    BY <1>6 DEF Ensure, GoTo, modInfo, local
  <2>2. TaskInv'  BY <1>1, <2>1 DEF TaskInv, TypeOK
  <2>3. TypeOK'  BY <1>1, <1>3, <1>4, <1>5, <2>1 DEF TypeOK
  <2>. QED  BY <2>2, <2>3 DEF TypeInv
<1>7. CASE Fix(s)
  <2>1. task[s] \in Repairing /\ phase[s] = "fix"  BY <1>1, <1>7 DEF Fix, TaskInv
  <2>2. UNCHANGED <<modDate, itemCount, clock, remap, rosterSent, info, user, crossed, excused>>
    BY <1>7 DEF Fix, modInfo
  <2>3. \E place \in {"idle", "decide", "info"}, t \in {"none", "checkout", "roster"} :
          phase' = [phase EXCEPT ![s] = place] /\ task' = [task EXCEPT ![s] = t]
    <3>1. CASE task[s] = "signOn"
      BY <1>7, <3>1 DEF Fix, Start, GoTo
    <3>2. CASE task[s] = "checkout"
      BY <1>7, <3>2 DEF Fix, Start, GoTo
    <3>3. CASE task[s] = "roster"
      BY <1>7, <3>3 DEF Fix, Start, GoTo
    <3>. QED  BY <2>1, <3>1, <3>2, <3>3 DEF Repairing
  <2>4. kicked' \subseteq Conns
    <3>1. Older(s) \subseteq Conns  BY DEF Older
    <3>2. CASE task[s] = "signOn"
      BY <1>1, <1>7, <3>1, <3>2 DEF Fix, TypeOK
    <3>3. CASE task[s] = "checkout"  BY <1>1, <1>7, <3>3 DEF Fix, TypeOK
    <3>4. CASE task[s] = "roster"  BY <1>1, <1>7, <3>4 DEF Fix, TypeOK
    <3>. QED  BY <2>1, <3>2, <3>3, <3>4 DEF Repairing
  <2>5. TaskInv'  BY <1>1, <2>3 DEF TaskInv, TypeOK
  <2>6. TypeOK'
    <3>1. phase' \in [Conns -> Phases]
          /\ task' \in [Conns -> {"none", "signOn", "checkout", "roster"} \cup Kinds]
      BY <1>1, <1>5, <2>3 DEF TypeOK
    <3>. QED  BY <1>1, <1>3, <1>4, <2>2, <2>4, <3>1 DEF TypeOK
  <2>. QED  BY <2>5, <2>6 DEF TypeInv
<1>. QED  BY <1>6, <1>7 DEF Repair

LEMMA TypeEdit ==
  ASSUME TypeInv, NEW s \in Conns, Edit(s)
  PROVE  TypeInv'
<1>1. TypeOK /\ TaskInv /\ Edited(s)  BY EditTypes DEF TypeInv
<1>2. Stored' \in Accounts_
  <2>1. Loaded(groups', contacts', misc') \in Accounts_  BY <1>1, Rows DEF Edited
  <2>. QED  BY <2>1 DEF Stored
<1>3. current' \subseteq Nat \X Nat /\ outdated' \subseteq Nat \X Nat
  BY <1>1, AgeTypes DEF Edited
<1>4. /\ "packet" \in Phases /\ "idle" \in Phases
      /\ phase' \in {[phase EXCEPT ![s] = "packet"], [phase EXCEPT ![s] = "idle"]}
      /\ excused' \subseteq excused \cup {modDate}
  BY <1>1 DEF Edited, Phases
<1>5. crossed' \subseteq Conns \X {"ensured", "fixed"}
  BY <1>1 DEF Edited, Repaired, TypeOK
<1>6. TaskInv'  BY <1>1, <1>4 DEF TaskInv, TypeOK, Edited
<1>7. /\ phase' \in [Conns -> Phases]
      /\ task' \in [Conns -> {"none", "signOn", "checkout", "roster"} \cup Kinds]
  BY <1>1, <1>4 DEF TypeOK, Edited
<1>8. TypeOK'
  BY <1>1, <1>2, <1>3, <1>4, <1>5, <1>7 DEF TypeOK, Edited, modInfo
<1>. QED  BY <1>6, <1>8 DEF TypeInv

LEMMA TypeNext ==
  ASSUME TypeInv, [Next]_vars
  PROVE  TypeInv'
<1>1. TypeOK /\ TaskInv  BY DEF TypeInv
<1>2. ASSUME UNCHANGED store PROVE Stored' = Stored
  BY <1>2 DEF store, Stored, Loaded
<1>3. CASE Crash
  <2>1. /\ phase' = [s \in Conns |-> "signedOff"] /\ task' = [s \in Conns |-> "none"]
        /\ user' = [s \in Conns |-> Nothing] /\ info' = [s \in Conns |-> NoInfo]
        /\ remap' = [s \in Conns |-> NoRemap] /\ rosterSent' = [s \in Conns |-> FALSE]
        /\ kicked' = {} /\ crossed' = {} /\ excused' \subseteq excused \cup {modDate}
        /\ UNCHANGED <<store, modDate, itemCount, clock, current, outdated>>
    BY <1>3 DEF Crash, modInfo
  <2>2. TypeOK'
    BY <1>1, <1>2, <2>1, Emptied DEF TypeOK, Phases, NoInfo
  <2>. QED  BY <2>1, <2>2 DEF TypeInv, TaskInv
<1>4. CASE Tick
  <2>1. UNCHANGED <<store, modDate, itemCount, phase, task, remap, rosterSent, info, kicked, user,
                    crossed, current, outdated, excused>> /\ clock' = clock + 1
    BY <1>4 DEF Tick, modInfo, session, local, copies
  <2>2. TypeOK'  BY <1>1, <1>2, <2>1 DEF TypeOK
  <2>. QED  BY <1>1, <2>1, <2>2 DEF TypeInv, TaskInv
<1>5. ASSUME NEW p \in Accounts, ClearPendingAuth(p) \/ DeleteYourself(p) PROVE TypeInv'
  <2>0. /\ groups \in GroupRows /\ contacts \in ContactRows /\ misc \in 0..1
        /\ p \in Peers
    BY Parts, RosterAssumption
  <2>1. \E cs \in ContactRows : Reach(cs)
    <3>1. CASE ClearPendingAuth(p)
      <4>1. [contacts[p] EXCEPT !.pending = FALSE] \in Contacts
        BY <2>0, <3>1 DEF ClearPendingAuth, ContactRows, Contacts
      <4>2. [contacts EXCEPT ![p].pending = FALSE]
            = [contacts EXCEPT ![p] = [contacts[p] EXCEPT !.pending = FALSE]]
        BY <2>0 DEF ContactRows
      <4>3. [contacts EXCEPT ![p].pending = FALSE] \in ContactRows
        BY <2>0, <4>1, <4>2 DEF ContactRows
      <4>. QED  BY <3>1, <4>3 DEF ClearPendingAuth
    <3>2. CASE DeleteYourself(p)
      <4>1. [contacts EXCEPT ![p] = NoContact] \in ContactRows  BY <2>0 DEF ContactRows
      <4>. QED  BY <3>2, <4>1 DEF DeleteYourself
    <3>. QED  BY <1>5, <3>1, <3>2
  <2>2. /\ contacts' \in ContactRows /\ excused' = excused \cup {modDate} /\ Age
        /\ UNCHANGED <<groups, misc, modDate, itemCount, clock, phase, task, remap, rosterSent,
                       info, kicked, user, crossed>>
    BY <2>1 DEF Reach, modInfo, session, local
  <2>3. Stored' \in Accounts_
    <3>1. Loaded(groups', contacts', misc') \in Accounts_  BY <2>0, <2>2, Rows
    <3>. QED  BY <3>1 DEF Stored
  <2>4. TypeOK'  BY <1>1, <2>2, <2>3, AgeTypes DEF TypeOK
  <2>. QED  BY <1>1, <2>2, <2>4 DEF TypeInv, TaskInv
<1>6. CASE UNCHANGED vars
  <2>1. UNCHANGED <<store, modDate, itemCount, clock, phase, task, remap, rosterSent, info, kicked,
                    user, crossed, current, outdated, excused>>
    BY <1>6 DEF vars, modInfo, session, local, copies
  <2>. QED  BY <1>1, <1>2, <2>1 DEF TypeInv, TaskInv, TypeOK
<1>7. ASSUME NEW s \in Conns, Handle(s) PROVE TypeInv'
  BY <1>7, TypeHandle, TypeRepair, TypeEdit
<1>. QED  BY <1>3, <1>4, <1>5, <1>6, <1>7 DEF Next

\* Every reachable state of the roster has the types TypeOK gives it: no repair, no
\* edit of a stale copy and no mapped group makes a group or a contact that is none.
THEOREM TypeCorrect == Spec => []TypeOK
<1>1. TypeInv => TypeOK  BY DEF TypeInv
<1>2. TypeInv /\ [Next]_vars => TypeInv'  BY TypeNext
<1>. QED  BY <1>1, <1>2, TypeInitial, PTL DEF Spec

----------------------------------------------------------------------------
(* The roster that is sent is in order.                                    *)

\* Since the repair, the rows (or what was loaded of them) are as it left them,
\* but for what another session's edits, noted in crossed, took away again.
SoundAt(s) ==
  /\ phase[s] = "fix" /\ <<s, "ensured">> \notin crossed => Whole(Stored)
  /\ phase[s] \in {"info", "load"} /\ <<s, "fixed">> \notin crossed =>
       Housed(Stored) /\ (<<s, "ensured">> \notin crossed => Whole(Stored))
  /\ phase[s] = "send" /\ <<s, "fixed">> \notin crossed =>
       Housed(user[s]) /\ (<<s, "ensured">> \notin crossed => Whole(user[s]))
SoundInv == \A s \in Conns : SoundAt(s)

\* A handler that neither repairs nor edits leaves the other sessions alone, and a
\* roster that comes to be sent is the rows it loaded.
LEMMA HandleQuiet ==
  ASSUME TypeInv, NEW s \in Conns, Handle(s), ~Edit(s), ~Repair(s)
  PROVE  /\ UNCHANGED crossed /\ Stored' = Stored
         /\ \A t \in Conns \ {s} : phase'[t] = phase[t] /\ user'[t] = user[t]
         /\ phase'[s] # "fix"
         /\ phase'[s] \in {"info", "load"} => phase[s] = "info"
         /\ phase'[s] = "send" => phase[s] = "load" /\ user'[s] = Stored
<1>1. phase \in [Conns -> Phases] /\ user \in [Conns -> Accounts_]
  BY DEF TypeInv, TypeOK
<1>2. Stored' = Stored
  <2>1. UNCHANGED store  BY TypeHandle
  <2>. QED  BY <2>1 DEF store, Stored, Loaded
<1>3. CASE SignOn(s) \/ SignOff(s) \/ Checkout(s) \/ RequestRoster(s) \/ \E claim : Decide(s, claim)
  BY <1>1, <1>2, <1>3
  DEF SignOn, SignOff, Checkout, RequestRoster, Decide, Start, GoTo
<1>4. CASE GetSsiModInfo(s)  BY <1>1, <1>2, <1>4 DEF GetSsiModInfo, GoTo
<1>5. CASE Load(s)  BY <1>1, <1>2, <1>5 DEF Load, GoTo
<1>6. CASE SendRoster(s)  BY <1>1, <1>2, <1>6 DEF SendRoster, Start, GoTo
<1>7. ASSUME NEW kind \in Kinds, OpenPacket(s, kind)
      PROVE  /\ UNCHANGED crossed
             /\ \A t \in Conns \ {s} : phase'[t] = phase[t] /\ user'[t] = user[t]
             /\ phase'[s] = "packet"
  BY <1>1, <1>7 DEF OpenPacket, Start, GoTo
<1>8. CASE ClosePacket(s) \/ Stamp(s)
  BY <1>1, <1>2, <1>8 DEF ClosePacket, Stamp, Start, GoTo
<1>. QED
  BY <1>2, <1>3, <1>4, <1>5, <1>6, <1>7, <1>8 DEF Handle

\* A packet changes the account that its own handler loaded, and no other.
LEMMA EditsOwn ==
  ASSUME TypeInv, NEW s \in Conns, Edit(s), NEW t \in Conns \ {s}
  PROVE  user'[t] = user[t]
<1>1. user \in [Conns -> Accounts_]  BY DEF TypeInv, TypeOK
<1>2. \A g, h : Settle(s, g, h) => user'[t] = user[t]  BY <1>1 DEF Settle
<1>3. ASSUME NEW p \in Peers, NEW g \in GroupIds \cup {0}, NEW pending \in BOOLEAN,
             AddContact(s, p, g, pending) \/ UpdateContact(s, p, g, pending)
             \/ DeleteContact(s, p, g)
      PROVE  user'[t] = user[t]
  BY <1>2, <1>3 DEF AddContact, UpdateContact, DeleteContact
<1>4. ASSUME NEW p \in Peers, NEW g \in GroupIds \cup {0}, AddContactFails(s, p, g)
      PROVE  user'[t] = user[t]
  BY <1>1, <1>4 DEF AddContactFails
<1>5. ASSUME NEW g \in GroupIds, NEW n \in Names,
             DeleteGroup(s, g) \/ AddGroup(s, g, n) \/ RenameGroup(s, g, n)
      PROVE  user'[t] = user[t]
  BY <1>5 DEF DeleteGroup, AddGroup, RenameGroup
<1>6. ASSUME NEW kind \in Kinds, SetMisc(s, kind) PROVE user'[t] = user[t]
  BY <1>6 DEF SetMisc
<1>7. TRUE \in BOOLEAN /\ General \in Names  BY RosterAssumption
<1>. QED  BY <1>3, <1>4, <1>5, <1>6, <1>7 DEF Edit

\* What other accounts do to the contacts houses nobody elsewhere.
LEMMA ReachKeeps ==
  ASSUME TypeInv, NEW p \in Accounts, ClearPendingAuth(p) \/ DeleteYourself(p)
  PROVE  /\ Housed(Stored) => Housed(Stored)'
         /\ Whole(Stored) => Whole(Stored)'
         /\ UNCHANGED session
<1>1. contacts \in ContactRows /\ p \in Peers  BY Parts, RosterAssumption
<1>2. UNCHANGED <<groups, misc, session>>
  BY DEF ClearPendingAuth, DeleteYourself, Reach
<1>3. \A q \in Peers : contacts'[q] # NoContact =>
        contacts[q] # NoContact /\ contacts'[q].group = contacts[q].group
  <2>1. CASE ClearPendingAuth(p)
    <3>1. /\ contacts' = [contacts EXCEPT ![p] = [contacts[p] EXCEPT !.pending = FALSE]]
          /\ contacts[p] \in Contacts /\ contacts[p] # NoContact
      BY <1>1, <2>1 DEF ClearPendingAuth, Reach, ContactRows
    <3>2. [contacts[p] EXCEPT !.pending = FALSE].group = contacts[p].group
      BY <3>1 DEF Contacts
    <3>. QED  BY <1>1, <3>1, <3>2 DEF ContactRows
  <2>2. CASE DeleteYourself(p)
    BY <1>1, <2>2 DEF DeleteYourself, Reach, ContactRows
  <2>. QED  BY <2>1, <2>2
<1>4. Housed(Loaded(groups, contacts, misc)) => Housed(Loaded(groups', contacts', misc'))
  BY <1>2, <1>3, OfRows
<1>5. Whole(Loaded(groups, contacts, misc)) => Whole(Loaded(groups', contacts', misc'))
  BY <1>2, OfRows
<1>. QED  BY <1>2, <1>4, <1>5 DEF Stored

LEMMA SoundNext ==
  ASSUME TypeInv, SoundInv, [Next]_vars
  PROVE  SoundInv'
<1>. SUFFICES ASSUME NEW t \in Conns PROVE SoundAt(t)'
  BY DEF SoundInv
<1>1. SoundAt(t) /\ phase \in [Conns -> Phases] /\ Stored \in Accounts_
  BY DEF SoundInv, TypeInv, TypeOK
<1>2. ASSUME UNCHANGED <<phase, crossed, user>>,
             Housed(Stored) => Housed(Stored)', Whole(Stored) => Whole(Stored)'
      PROVE  SoundAt(t)'
  <2>1. Housed(user[t])' = Housed(user[t]) /\ Whole(user[t])' = Whole(user[t])
    BY <1>2 DEF Housed, Whole, Distinct
  <2>. QED  BY <1>1, <1>2, <2>1 DEF SoundAt
<1>3. ASSUME UNCHANGED store
      PROVE  Stored' = Stored /\ (Housed(Stored)' <=> Housed(Stored))
             /\ (Whole(Stored)' <=> Whole(Stored))
  BY <1>3 DEF store, Stored, Housed, Whole, Distinct, Loaded
<1>4. ASSUME NEW s \in Conns, Handle(s), ~Edit(s), ~Repair(s) PROVE SoundAt(t)'
  <2>1. /\ UNCHANGED <<crossed, store>>
        /\ \A d \in Conns \ {s} : phase'[d] = phase[d] /\ user'[d] = user[d]
        /\ phase'[s] # "fix"
        /\ phase'[s] \in {"info", "load"} => phase[s] = "info"
        /\ phase'[s] = "send" => phase[s] = "load" /\ user'[s] = Stored
    BY <1>4, HandleQuiet, TypeHandle
  <2>2. CASE t # s
    <3>1. phase'[t] = phase[t] /\ user'[t] = user[t]  BY <2>1, <2>2
    <3>2. Housed(user[t])' = Housed(user[t]) /\ Whole(user[t])' = Whole(user[t])
      BY <3>1 DEF Housed, Whole, Distinct
    <3>. QED  BY <1>1, <1>3, <2>1, <3>1, <3>2 DEF SoundAt
  <2>3. CASE t = s /\ phase'[s] = "send"
    <3>1. (Housed(user[s])' <=> Housed(Stored)) /\ (Whole(user[s])' <=> Whole(Stored))
      BY <2>1, <2>3 DEF Housed, Whole, Distinct
    <3>. QED  BY <1>1, <2>1, <2>3, <3>1 DEF SoundAt
  <2>4. CASE t = s /\ phase'[s] # "send"
    BY <1>1, <1>3, <2>1, <2>4 DEF SoundAt
  <2>. QED  BY <2>2, <2>3, <2>4
<1>5. ASSUME NEW s \in Conns, Ensure(s) PROVE SoundAt(t)'
  <2>1. Whole(Stored)' /\ (Housed(Stored) => Housed(Stored)')
    BY <1>1, <1>5, EnsureRepairs DEF Ensure
  <2>2. /\ phase' = [phase EXCEPT ![s] = "fix"] /\ user' = user
        /\ crossed' = crossed \ ({s} \X {"ensured", "fixed"})
    BY <1>5 DEF Ensure, GoTo
  <2>3. CASE t = s  BY <1>1, <2>1, <2>2, <2>3 DEF SoundAt
  <2>4. CASE t # s
    <3>1. /\ phase'[t] = phase[t]
          /\ \A x : <<t, x>> \in crossed' <=> <<t, x>> \in crossed
      BY <1>1, <2>2, <2>4
    <3>2. Housed(user[t])' = Housed(user[t]) /\ Whole(user[t])' = Whole(user[t])
      BY <2>2 DEF Housed, Whole, Distinct
    <3>. QED  BY <1>1, <2>1, <3>1, <3>2 DEF SoundAt
  <2>. QED  BY <2>3, <2>4
<1>6. ASSUME NEW s \in Conns, Fix(s) PROVE SoundAt(t)'
  <2>1. Housed(Stored)' /\ (Whole(Stored) => Whole(Stored)')
    BY <1>1, <1>6, FixRepairs DEF Fix
  <2>2. task[s] \in Repairing /\ phase[s] = "fix"  BY <1>6 DEF Fix, TypeInv, TaskInv
  <2>3. \E place \in {"idle", "decide", "info"} : phase' = [phase EXCEPT ![s] = place]
    BY <1>6, <2>2 DEF Fix, Start, GoTo, Repairing
  <2>4. user' = user /\ crossed' = crossed  BY <1>6 DEF Fix
  <2>5. Housed(user[t])' = Housed(user[t]) /\ Whole(user[t])' = Whole(user[t])
    BY <2>4 DEF Housed, Whole, Distinct
  <2>. QED  BY <1>1, <2>1, <2>2, <2>3, <2>4, <2>5 DEF SoundAt
<1>7. ASSUME NEW s \in Conns, Edit(s) PROVE SoundAt(t)'
  <2>1. /\ phase[s] = "packet" /\ \E place \in {"packet", "idle"} : phase' = [phase EXCEPT ![s] = place]
        /\ crossed' = IF store' = store THEN crossed ELSE crossed \cup Repaired
    BY <1>7, EditTypes DEF Edit, Edited
  <2>2. CASE t = s  BY <1>1, <2>1, <2>2 DEF SoundAt
  <2>3. CASE t # s
    <3>1. phase'[t] = phase[t] /\ user'[t] = user[t]
      BY <1>1, <1>7, <2>1, <2>3, EditsOwn
    <3>2. Housed(user[t])' = Housed(user[t]) /\ Whole(user[t])' = Whole(user[t])
      BY <3>1 DEF Housed, Whole, Distinct
    <3>3. CASE store' = store  BY <1>1, <1>3, <2>1, <3>1, <3>2, <3>3 DEF SoundAt
    <3>4. CASE store' # store
      <4>1. /\ phase[t] = "fix" => <<t, "ensured">> \in crossed'
            /\ phase[t] \in {"info", "load"} => <<t, "fixed">> \in crossed'
            /\ crossed \subseteq crossed'
        BY <2>1, <3>4 DEF Repaired
      <4>. QED  BY <1>1, <3>1, <3>2, <4>1 DEF SoundAt
    <3>. QED  BY <3>3, <3>4
  <2>. QED  BY <2>2, <2>3
<1>8. CASE Crash
  <2>1. phase'[t] = "signedOff"  BY <1>8 DEF Crash
  <2>. QED  BY <2>1 DEF SoundAt
<1>9. CASE Tick \/ UNCHANGED vars
  <2>1. UNCHANGED <<phase, crossed, user, store>>
    BY <1>9 DEF Tick, vars, session
  <2>. QED  BY <1>2, <1>3, <2>1
<1>10. ASSUME NEW p \in Accounts, ClearPendingAuth(p) \/ DeleteYourself(p) PROVE SoundAt(t)'
  <2>1. UNCHANGED session /\ (Housed(Stored) => Housed(Stored)')
        /\ (Whole(Stored) => Whole(Stored)')
    BY <1>10, ReachKeeps
  <2>. QED  BY <1>2, <2>1 DEF session
<1>. QED
  BY <1>4, <1>5, <1>6, <1>7, <1>8, <1>9, <1>10 DEF Next, Repair

\* Whatever the edits before it made of the rows, out of whichever copy of the
\* account, the roster that is sent has a group for every contact, no two groups of
\* one name, and group 1, unless another session edited after the repair.
THEOREM SentInOrder == Spec => []RosterSound
<1>1. Init => SoundInv
  <2>1. Init => \A s \in Conns : phase[s] = "signedOff"  BY DEF Init
  <2>. QED  BY <2>1 DEF SoundInv, SoundAt
<1>2. SoundInv => RosterSound
  BY DEF SoundInv, SoundAt, RosterSound, Whole
<1>. QED  BY <1>1, <1>2, TypeInitial, TypeNext, SoundNext, PTL DEF Spec

----------------------------------------------------------------------------
(* "Up to date" is true.                                                   *)

\* A roster sent this second has the store's date, or one that stands for more.
Fresh(d) == d = clock => modDate = clock \/ clock \in excused

\* A copy that was sent with a date: not ahead of the clock, and fresh.
Dated(d) == d <= clock /\ Fresh(d)
DateInv ==
  /\ modDate <= clock /\ clock >= 1
  /\ \A s \in Conns : Dated(info[s][1])
  /\ \A pair \in current \cup outdated : Dated(pair[1])
  /\ \A pair \in outdated : pair[1] = modDate => Editing \/ modDate \in excused
  /\ \A pair \in current : pair[1] \in excused \/ InOrder(Stored)

\* Steps that change no row, no date and no copy, and close no packet unnoticed.
LEMMA DateQuiet ==
  ASSUME TypeInv, DateInv, UNCHANGED <<store, modInfo, clock, current, outdated>>,
         excused \subseteq excused',
         Editing => Editing' \/ modDate \in excused',
         \A s \in Conns : info'[s] \in {info[s], NoInfo, modInfo}
  PROVE  DateInv'
<1>1. modDate \in Nat /\ clock \in Nat /\ UNCHANGED <<modDate, itemCount>>
  BY DEF TypeInv, TypeOK, modInfo
<1>2. Stored' = Stored /\ (InOrder(Stored)' <=> InOrder(Stored))
  BY DEF store, Stored, InOrder, Housed, Distinct, Loaded
<1>3. \A d : Dated(d) => Dated(d)'  BY <1>1 DEF Dated, Fresh
<1>4. Dated(modDate) /\ Dated(0)  BY <1>1 DEF Dated, Fresh, DateInv
<1>5. \A s \in Conns : Dated(info'[s][1])
  BY <1>4 DEF DateInv, NoInfo, modInfo
<1>6. \A s \in Conns : Dated(info[s][1])'
  BY <1>1, <1>5 DEF Dated, Fresh
<1>. QED  BY <1>1, <1>2, <1>3, <1>6 DEF DateInv

\* Steps that may change rows, and with them age the copies that were sent.
LEMMA DateAges ==
  ASSUME TypeInv, DateInv, Age, UNCHANGED <<modInfo, clock, info>>,
         excused \subseteq excused',
         Editing => Editing' \/ modDate \in excused',
         store' # store => \A pair \in current :
                             pair[1] = modDate => Editing' \/ modDate \in excused'
  PROVE  DateInv'
<1>1. modDate \in Nat /\ clock \in Nat /\ UNCHANGED <<modDate, itemCount>>
  BY DEF TypeInv, TypeOK, modInfo
<1>2. \A d : Dated(d) => Dated(d)'  BY <1>1 DEF Dated, Fresh
<1>3. /\ modDate' <= clock' /\ clock' >= 1
      /\ \A s \in Conns : Dated(info[s][1])'
  BY <1>1, <1>2 DEF DateInv
<1>4. CASE store' = store
  <2>1. UNCHANGED <<current, outdated>>  BY <1>4 DEF Age
  <2>2. Stored' = Stored /\ (InOrder(Stored)' <=> InOrder(Stored))
    BY <1>4 DEF store, Stored, InOrder, Housed, Distinct, Loaded
  <2>. QED  BY <1>1, <1>2, <1>3, <2>1, <2>2 DEF DateInv
<1>5. CASE store' # store
  <2>1. current' = {} /\ outdated' = outdated \cup current  BY <1>5 DEF Age
  <2>2. \A pair \in outdated' : pair[1] = modDate' => Editing' \/ modDate' \in excused'
    BY <1>1, <1>5, <2>1 DEF DateInv
  <2>3. \A pair \in current' \cup outdated' : Dated(pair[1])'
    BY <1>2, <2>1 DEF DateInv
  <2>. QED  BY <1>3, <2>1, <2>2, <2>3 DEF DateInv
<1>. QED  BY <1>4, <1>5

\* A handler that is in the middle of a packet goes on beside another's step.
LEMMA EditingStays ==
  ASSUME TypeInv, NEW s \in Conns, phase[s] \notin {"packet", "stamp"}, NEW place,
         phase' = [phase EXCEPT ![s] = place], Editing
  PROVE  Editing'
BY DEF Editing, TypeInv, TypeOK

LEMMA DateRepair ==
  ASSUME TypeInv, DateInv, NEW s \in Conns, Repair(s)
  PROVE  DateInv'
<1>1. /\ UNCHANGED <<misc, modInfo, clock, info, excused>> /\ Age
      /\ EnsureDefaultGroups \/ FixOrphanContacts
      /\ phase[s] \in {"ensure", "fix"}
  BY DEF Repair, Ensure, Fix, local
<1>2. \E place : phase' = [phase EXCEPT ![s] = place]
  <2>1. CASE Ensure(s)  BY <2>1 DEF Ensure, GoTo
  <2>2. CASE Fix(s)
    <3>1. task[s] \in Repairing  BY <2>2 DEF Fix, TypeInv, TaskInv
    <3>. QED  BY <2>2, <3>1 DEF Fix, Start, GoTo, Repairing
  <2>. QED  BY <2>1, <2>2 DEF Repair
<1>3. Editing => Editing'  BY <1>1, <1>2, EditingStays
<1>4. InOrder(Stored) => store' = store
  BY <1>1, InOrderStays DEF TypeInv, TypeOK, store
<1>5. store' # store => \A pair \in current : pair[1] \in excused
  BY <1>4 DEF DateInv
<1>. QED  BY <1>1, <1>3, <1>5, DateAges

LEMMA DateEdit ==
  ASSUME TypeInv, DateInv, NEW s \in Conns, Edit(s)
  PROVE  DateInv'
<1>1. Edited(s) /\ phase \in [Conns -> Phases]  BY EditTypes DEF TypeInv, TypeOK
<1>2. Editing' \/ modDate \in excused'
  <2>1. CASE phase' = [phase EXCEPT ![s] = "packet"]
    <3>1. phase'[s] = "packet"  BY <1>1, <2>1
    <3>. QED  BY <3>1 DEF Editing
  <2>. QED  BY <1>1, <2>1 DEF Edited
<1>. QED  BY <1>1, <1>2, DateAges DEF Edited

\* A packet is stamped: with a date no copy has, unless that stands for two contents.
LEMMA DateStamp ==
  ASSUME TypeInv, DateInv, NEW s \in Conns, Stamp(s)
  PROVE  DateInv'
<1>1. /\ modDate' = clock
      /\ clock = modDate => clock \in excused'
      /\ excused \subseteq excused'
      /\ UNCHANGED <<store, clock, info, current, outdated>>
  BY DEF Stamp, TouchSsiMod, local
<1>2. clock \in Nat  BY DEF TypeInv, TypeOK
<1>3. Stored' = Stored /\ (InOrder(Stored)' <=> InOrder(Stored))
  BY <1>1 DEF store, Stored, InOrder, Housed, Distinct, Loaded
<1>4. \A d : Dated(d) => Dated(d)'  BY <1>1 DEF Dated, Fresh
<1>5. \A pair \in outdated : pair[1] = clock => clock \in excused'
  BY <1>1 DEF DateInv, Dated, Fresh
<1>. QED  BY <1>1, <1>2, <1>3, <1>4, <1>5 DEF DateInv

\* The date a roster is sent with: the one that was read before, or this second.
LEMMA DateSend ==
  ASSUME TypeInv, DateInv, NEW s \in Conns, SendRoster(s)
  PROVE  DateInv'
<1>. DEFINE date == IF info[s][1] = 0 THEN clock ELSE info[s][1]
            realCount == Count(user[s]) + user[s].misc
            differs == info[s] # <<date, realCount>>
            putBack == differs /\ info[s] # modInfo
            alike == user[s] = Stored
            sent == <<date, realCount>>
<1>1. /\ IF differs THEN modDate' = date ELSE modDate' = modDate
      /\ info' = [info EXCEPT ![s] = NoInfo]
      /\ current' \subseteq IF alike THEN current \cup {sent} ELSE current
      /\ outdated' \subseteq IF alike THEN outdated ELSE outdated \cup {sent}
      /\ excused \subseteq excused'
      /\ ~alike \/ ~InOrder(user[s]) => date \in excused'
      /\ putBack => date \in excused' /\ modDate \in excused'
      /\ phase' = [phase EXCEPT ![s] = "idle"] /\ phase[s] = "send"
      /\ UNCHANGED <<store, clock>>
  BY DEF SendRoster, Sent, Start, GoTo, modInfo
<1>2. /\ modDate \in Nat /\ clock \in Nat /\ clock >= 1 /\ modDate <= clock
      /\ info \in [Conns -> Nat \X Nat] /\ info[s][1] \in Nat
      /\ phase \in [Conns -> Phases]
  BY DEF TypeInv, TypeOK, DateInv
<1>3. sent[1] = date /\ date \in Nat /\ date <= clock /\ date # 0
  BY <1>2 DEF DateInv, Dated
<1>4. info[s][1] = 0 => differs  BY <1>3
<1>5. info[s] = modInfo => info[s][1] = modDate  BY DEF modInfo
<1>6. info[s][1] # 0 => date = info[s][1]  OBVIOUS
<1>7. info[s][1] = 0 => date = clock  OBVIOUS
<1>. HIDE DEF realCount
<1>8. Dated(info[s][1])  BY DEF DateInv
<1>9. UNCHANGED store => Stored' = Stored /\ (InOrder(Stored)' <=> InOrder(Stored))
  BY DEF store, Stored, InOrder, Housed, Distinct, Loaded
<1>. HIDE DEF date, differs, sent, alike
<1>10. ASSUME modDate' # modDate
       PROVE  modDate' = date /\ (putBack \/ (modDate = 0 /\ date = clock))
  BY <1>1, <1>5, <1>6, <1>7, <1>10
<1>11. ASSUME NEW d, Dated(d) PROVE Dated(d)'
  <2>1. ASSUME d = clock, modDate = clock PROVE modDate' = clock \/ clock \in excused'
    BY <1>1, <1>2, <1>10, <2>1
  <2>. QED  BY <1>1, <1>11, <2>1 DEF Dated, Fresh
<1>12. ASSUME NEW d, d = date PROVE Dated(d)'
  <2>1. CASE info[s][1] = 0
    BY <1>1, <1>2, <1>4, <1>7, <1>12, <2>1 DEF Dated, Fresh
  <2>2. CASE info[s][1] # 0  BY <1>6, <1>8, <1>11, <1>12, <2>2
  <2>. QED  BY <2>1, <2>2
<1>13. modDate' <= clock' /\ clock' >= 1
  BY <1>1, <1>2, <1>3
<1>14. ASSUME NEW t \in Conns PROVE Dated(info[t][1])'
  <2>1. Dated(0)'  BY <1>1, <1>2 DEF Dated, Fresh
  <2>2. info'[t] \in {info[t], NoInfo}  BY <1>1, <1>2
  <2>3. info'[t][1] \in {info[t][1], 0}  BY <2>2 DEF NoInfo
  <2>4. Dated(info[t][1])  BY DEF DateInv
  <2>5. \A d \in {info[t][1], 0} : d <= clock' /\ (d = clock' => modDate' = clock' \/ clock' \in excused')
    BY <1>11, <2>1, <2>4 DEF Dated, Fresh
  <2>. QED  BY <2>3, <2>5 DEF Dated, Fresh
<1>15. ASSUME NEW pair \in current' \cup outdated' PROVE Dated(pair[1])'
  <2>1. pair \in current \cup outdated \/ pair = sent  BY <1>1, <1>15
  <2>. QED  BY <1>3, <1>11, <1>12, <2>1 DEF DateInv
<1>16. Editing => Editing'  BY <1>1, EditingStays
<1>17. ASSUME NEW pair \in outdated', pair[1] = modDate'
       PROVE  Editing' \/ modDate' \in excused'
  <2>1. CASE pair \notin outdated
    <3>1. pair = sent /\ ~alike  BY <1>1, <1>17, <2>1
    <3>. QED  BY <1>1, <1>3, <1>17, <3>1
  <2>2. CASE pair \in outdated /\ modDate' = modDate
    BY <1>1, <1>16, <1>17, <2>2 DEF DateInv
  <2>3. CASE pair \in outdated /\ modDate' # modDate
    <3>1. CASE putBack  BY <1>1, <1>10, <2>3, <3>1
    <3>2. CASE modDate = 0 /\ date = clock
      <4>1. Fresh(pair[1]) /\ pair[1] = clock
        BY <1>10, <1>17, <2>3, <3>2 DEF DateInv, Dated
      <4>2. clock \in excused  BY <1>2, <3>2, <4>1 DEF Fresh
      <4>. QED  BY <1>1, <1>17, <4>1, <4>2
    <3>. QED  BY <1>10, <2>3, <3>1, <3>2
  <2>. QED  BY <2>1, <2>2, <2>3
<1>18. ASSUME NEW pair \in current' PROVE pair[1] \in excused' \/ InOrder(Stored)'
  <2>1. CASE pair \in current  BY <1>1, <1>9, <2>1 DEF DateInv
  <2>2. CASE pair \notin current
    <3>1. alike /\ pair = sent  BY <1>1, <1>18, <2>2
    <3>2. InOrder(user[s]) => InOrder(Stored)  BY <3>1 DEF alike
    <3>. QED  BY <1>1, <1>3, <1>9, <3>1, <3>2
  <2>. QED  BY <2>1, <2>2
<1>. QED  BY <1>13, <1>14, <1>15, <1>17, <1>18 DEF DateInv

LEMMA DateHandle ==
  ASSUME TypeInv, DateInv, NEW s \in Conns, Handle(s), ~Edit(s), ~Repair(s)
  PROVE  DateInv'
<1>1. UNCHANGED store  BY TypeHandle
<1>2. /\ phase \in [Conns -> Phases] /\ info \in [Conns -> Nat \X Nat]
  BY DEF TypeInv, TypeOK
<1>3. CASE SignOn(s) \/ SignOff(s) \/ Checkout(s) \/ RequestRoster(s) \/ Load(s)
           \/ (\E claim : Decide(s, claim)) \/ (\E kind \in Kinds : OpenPacket(s, kind))
  <2>1. /\ \E place : phase' = [phase EXCEPT ![s] = place]
        /\ phase[s] \notin {"packet", "stamp"}
        /\ UNCHANGED <<modInfo, clock, info, current, outdated, excused>>
    BY <1>3 DEF SignOn, SignOff, Checkout, RequestRoster, Load, Decide, OpenPacket, Reads,
                Start, GoTo, local, copies
  <2>2. Editing => Editing'  BY <2>1, EditingStays
  <2>. QED  BY <1>1, <2>1, <2>2, DateQuiet
<1>4. CASE GetSsiModInfo(s)
  <2>1. /\ phase' = [phase EXCEPT ![s] = "load"] /\ phase[s] = "info"
        /\ UNCHANGED <<modInfo, clock, current, outdated, excused>>
        /\ info' = [info EXCEPT ![s] = modInfo]
    BY <1>4 DEF GetSsiModInfo, GoTo, copies
  <2>2. Editing => Editing'  BY <2>1, EditingStays
  <2>. QED  BY <1>1, <1>2, <2>1, <2>2, DateQuiet
<1>5. CASE ClosePacket(s)
  <2>1. /\ phase' = [phase EXCEPT ![s] = "stamp"]
        /\ UNCHANGED <<modInfo, clock, info, current, outdated, excused>>
    BY <1>5 DEF ClosePacket, GoTo, local, copies
  <2>2. Editing'
    <3>1. phase'[s] = "stamp"  BY <1>2, <2>1
    <3>. QED  BY <3>1 DEF Editing
  <2>. QED  BY <1>1, <2>1, <2>2, DateQuiet
<1>6. CASE SendRoster(s)  BY <1>6, DateSend
<1>7. CASE Stamp(s)  BY <1>7, DateStamp
<1>. QED  BY <1>3, <1>4, <1>5, <1>6, <1>7 DEF Handle

LEMMA DateNext ==
  ASSUME TypeInv, DateInv, [Next]_vars
  PROVE  DateInv'
<1>1. CASE Crash
  <2>1. /\ UNCHANGED <<store, modInfo, clock, current, outdated>>
        /\ excused \subseteq excused' /\ (Editing => modDate \in excused')
        /\ \A s \in Conns : info'[s] = NoInfo
    BY <1>1 DEF Crash
  <2>. QED  BY <2>1, DateQuiet
<1>2. CASE Tick
  <2>1. /\ clock' = clock + 1
        /\ UNCHANGED <<store, modDate, phase, info, current, outdated, excused>>
    BY <1>2 DEF Tick, modInfo, session, local, copies
  <2>2. /\ modDate \in Nat /\ clock \in Nat
        /\ \A s \in Conns : info[s][1] \in Nat
        /\ \A pair \in current \cup outdated : pair[1] \in Nat
    BY DEF TypeInv, TypeOK
  <2>3. Stored' = Stored /\ (InOrder(Stored)' <=> InOrder(Stored)) /\ (Editing' <=> Editing)
    BY <2>1 DEF store, Stored, InOrder, Housed, Distinct, Loaded, Editing
  <2>4. \A d \in Nat : Dated(d) => Dated(d)'  BY <2>1, <2>2 DEF Dated, Fresh
  <2>5. \A s \in Conns : Dated(info[s][1])'  BY <2>1, <2>2, <2>4 DEF DateInv
  <2>. QED  BY <2>1, <2>2, <2>3, <2>4, <2>5 DEF DateInv
<1>3. ASSUME NEW p \in Accounts, ClearPendingAuth(p) \/ DeleteYourself(p) PROVE DateInv'
  <2>1. /\ UNCHANGED <<modInfo, clock, info>> /\ Age
        /\ excused' = excused \cup {modDate}
    BY <1>3 DEF ClearPendingAuth, DeleteYourself, Reach, session, local
  <2>. QED  BY <2>1, DateAges
<1>4. CASE UNCHANGED vars
  <2>1. UNCHANGED <<store, modInfo, clock, current, outdated, excused, phase, info>>
    BY <1>4 DEF vars, session, local, copies
  <2>2. Editing' <=> Editing  BY <2>1 DEF Editing
  <2>. QED  BY <2>1, <2>2, DateQuiet
<1>. QED
  BY <1>1, <1>2, <1>3, <1>4, DateHandle, DateRepair, DateEdit DEF Next

\* When the server takes a copy of the roster for up to date, the rows have that
\* content: no roster sent with the store's date and count had another, outside a
\* packet that is being applied and but for a date that stands for two contents.
THEOREM UpToDateIsTrue == Spec => []UpToDateIsCurrent
<1>1. Init => DateInv
  <2>1. Init => /\ modDate = 0 /\ clock = 1 /\ current = {} /\ outdated = {}
                /\ \A s \in Conns : info[s] = <<0, 0>>
    BY DEF Init, NoInfo
  <2>. QED  BY <2>1 DEF DateInv, Dated, Fresh
<1>2. DateInv => UpToDateIsCurrent
  <2>1. modInfo[1] = modDate  BY DEF modInfo
  <2>. QED  BY <2>1 DEF DateInv, UpToDateIsCurrent
<1>. QED  BY <1>1, <1>2, TypeInitial, TypeNext, DateNext, PTL DEF Spec

=============================================================================
