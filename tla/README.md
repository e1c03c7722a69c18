# A TLA+ model of icqserver

icqserver is an ICQ (OSCAR) server in Go: one goroutine per client connection,
two maps shared under one mutex, an SQLite store behind another, and clients
that sign on, show each other their presence, keep their contact lists on the
server and exchange messages. This directory holds TLA+ modules that model it,
TLC configurations that check them on small instances, and TLAPS proofs.

Paths such as `session.go:163` are relative to the repository's root.

## 1. The system

### Components

| component | state | operations | talks to |
|---|---|---|---|
| **Session life** (`session.go:20-188`, `server.go:39-119`) | `Session.running`, `uin`, `authenticated`, `conn`; `Server.sessions` | `Start` accepts, `Run` reads frames, `cleanup` unregisters; `getSession`, `replaceSession`, `deleteSession`, `forEachSession` | everything that looks a UIN up |
| **Two-stage login** (`session.go:190-298`, `registration.go:20-80`, `server.go:121-135`) | `Server.pendingCookies`, `md5AuthKey` | three login handlers issue a cookie and stop the connection; `handleBosAuth` redeems it on a new one, replaces and ends the UIN's old session | registry, store |
| **Messaging** (`session.go:726-933`) | none of its own | `handleSendMessage`, `relayGenericICBM`, `handleServerRelay`, `handleTyping`: look the target up, `spawn` a goroutine that writes to it | registry, offline store |
| **Offline messages** (`meta.go:605-635`, `storage.go:703-735`) | `offline_messages`, `offlineDelivered` | store, fetch in order with an end mark, acknowledge (clear) | messaging |
| **Presence and privacy** (`session.go:597-724`, `ssi.go:357-381`) | `status`, `caps`, `xstatusRaw`, `ssiActivated`; privacy items | five broadcasts that walk a copy of the registry | registry, roster |
| **Roster, SSI** (`ssi.go:16-355`, `storage.go:426-701`) | groups, contacts, misc items, `(ssi_mod_date, ssi_item_count)`, `ssiGroupRemap`, `rosterSent` | packets of edits, repairs, checkout, roster | store |
| **Authorisation** (`ssi.go:383-501`, `storage.go:737-769`) | `pending_auth`, `pending_auth_requests`, `auth_required` | ask, keep or relay, sweep at client-ready, reply, remove oneself | registry, roster |
| **Accounts** (`storage.go:156-164,314-388`, `registration.go:94-158`, `adduser`) | `users`, `profiles` | register, set password, default accounts, the external `adduser` | login |
| **Profile and search** (`meta.go:93-600`) | `profiles` | save, permissions, three searches; info replies | store, registry |
| **Storage lock** (`storage.go:110-133`) | `Storage.mu`, a pool of one connection | every call | all |
| **FLAP writer** (`session.go:87-104`) | `writeMu`, `seq`, `snacReqID` | `sendFlap`, `sendSnac` | sockets |
| **Codec** (`protocol.go`, `util.go`) | none | TLVs and RTF; FLAP layout, CP1251, MD5 | all |
| Start-up (`main.go`) | none | flags, listen | |

### What is hard about it

* A session is touched by goroutines other than its own: a newer sign-on stops
  it and closes its socket, broadcasts read its status, spawned deliveries
  write to it after it may have gone. None of this is under a lock.
* The registry's mutex covers single look-ups and updates. Every decision taken
  on a look-up (cleanup, message or store, request or store) is a second step.
* `spawn` runs deliveries in no order, and some closures read the sender's
  `uin` only when they run.
* A packet of roster edits is a series of statements without a transaction,
  decided on an account loaded before the first; it may fail, or the process
  may die, in the middle.
* A client is told "your copy is up to date" by a date in seconds and a count.
* Writes have no deadline, and any goroutine may write to any client: one that
  does not read holds up whoever has something to say to it.
* The store is shared with a second program, `adduser`, that does not know the
  server's mutex; and `SearchUsers` gives that mutex back while its rows still
  hold the only connection.
* `icbmFlags` is a Go map that one goroutine writes and others read.

### What makes each component correct

* Session life: an entry names a session that acts for its UIN, or one that has
  passed on to another; a live session is findable; a superseded or broken one goes
  away.
* Login: only a redeemed cookie gives an identity; it works once, for the UIN
  whose password was proved; one guess per connection.
* Messaging: nobody gets another's mail; the sender shown is the writer; one
  message goes one way; offline messages come in order, once, and are not
  deleted unseen (they are: see the findings).
* Presence: two who sign on together do not overlook each other; the denied see
  nothing; who left is seen to leave; what is shown in the end is current (it
  need not be: see the findings).
* Roster: what is sent is well-formed whatever was edited; "up to date" is true.
* Visibility: who is hidden from, or pending, all along is shown nothing,
  however late it is told.
* Authorisation: nothing is open without the owner's consent (an update that leaves
  the pending mark out does it: see below); requests are genuine and are not lost
  unseen.
* Accounts: who made one keeps it; clients are told their own UIN; accounts are
  whole.
* Profile: only a save that overlaps another undoes it, and no save brings an old
  `auth_required` back. Search: the answer fits
  accounts that did not change meanwhile, and misses none within its cap.
* Store: calls are atomic and return. Writer: frames are numbered in order, no
  id is lost, and a stalled client holds up only those who write to it.
* Codec: what is skipped is what RTF says; a message completed for its recipient
  carries the text that would be stored.

The hazards behind these, line by line, are in `PROJECT.json`.

## 2. The modules

```
   Directory  <---- implemented by ----  Sessions  ---- implements ---->  Tickets
      ^   (abstract registry)          (detailed)                   (abstract login)
      |
      +-- EXTENDS --  Messaging  ---- implements ---->  Mailbox (one message's fate)
      +-- EXTENDS --  Presence
      +-- EXTENDS --  AuthRequests

   Store  <---- implemented by ----  StoragePool
      (atomic calls: what every other module takes the store for)

   Roster   Visibility   FlapWriter   Accounts   Profiles   Search   Typing   Rtf   Tlvs
      (each stands alone: it shares no variable with another)
```

**Sessions** is the detailed model of a connection's life. `pc[c]` is the place
of the connection's goroutine: `read` (in `recvFlap`), then the places between
two accesses to shared state: `replace`, `stopOld`, `closeOld` inside
`handleBosAuth` and `cleanup`, `delete`, `clear`, `close` inside `cleanup`.
`running`, `open`, `uin`, `authenticated` are fields of `Session`, `old` the
local variable, `sessions` and `pendingCookies` the server's maps. `PeerClose`
may happen at any moment; frames still buffered are served after it. The MD5
and the plain handlers decide alike, so the verdict is a choice between
`LoginRefused` and `LoginAccepted`. `ledger`, `attempts` and `clobbered` are
history: who issued and redeemed a cookie, how many checks a connection
answered, whose entry was removed by another's cleanup. A connection that
is signed on may redeem a second cookie, also for another UIN: the server lets it,
clients open one connection per sign-on. `Switched(c)` names such a connection in
`RegistrySound` and `BrokenEventuallyUnregistered`, because the entry of its first
UIN stays behind; everything else that is stated of `Sessions` holds of it as of any
other.

**Directory** is what `Sessions` promises the rest: which connection is
registered under a UIN, and the `uin`, `running` flag and socket that others
look at. `life` coarsens `pc`. Its `Unregister` removes whatever entry is there,
as the code does, and its `Assume` takes any UIN at any time. That no connection
passes from one UIN to another is a habit of the clients, stated as a condition on
steps (`OneUinEach`): `Presence` and `AuthRequests` assume it, `Sessions` and
`Messaging` do not. **Tickets** is what the login promises.

**Messaging** adds to `Directory` the letters, the spawned deliveries
(`flying`), the clients' `inbox`es and the offline table with its row ids. A
handler that calls the store after the look-up (`SendAbsent`, then `Store`)
keeps its goroutine busy between the two (`Busy`). `Deliver` picks any spawned
delivery and writes to the session found at the look-up, whatever became of it.
`held[c]` are the UINs a connection has signed on as. The server takes an
acknowledgement (`AckOffline`) whenever it comes.
**Mailbox** is the fate of one message seen from outside; it counts how often each
session was written it, live and from the store.

**Presence** has one mechanism for all broadcasts: a handler starts a list of
loops (`Begin`), each copies the registry (`Copy`) and visits the entries one by
one (`Notify`, `Peek`/`Say`, `Farewell`, `Privacy`), other goroutines in
between; `Read`/`Deliver` are the goroutines that `Privacy` spawns. `hidden` is
the set of viewers the loaded account denies, `peeked` a status that was read and
not yet written. `view[c][u]` is what a client was last told. `late` records a
presence written after its subject left, `lost` a session whose entry another took
(`Ousted`: a newer sign-on, or the cleanup of another) or removed. A status stands
for status, capabilities and xstatus.

**Visibility** looks at one viewer and one owner that stay signed on, and at
everything that decides whether the one may see the other: the five modes and
the items of `privacyVisible`, the contact and its pending mark, grants and
removals. Nine handlers tell the viewer something; each is split where it reads
an account, looks a session up or leaves the telling to a goroutine (`flying`).
`Visible(settings, inContacts)` is `privacyVisible` line by line. `everShown`
and `everOpen` say whether a permission was there at some time.

**Roster** is one account's rows, the packets of its sessions, and the copies
clients hold. A packet is `OpenPacket` (the account is loaded), any number of
items, and `ClosePacket`, `Stamp`; a failing item ends it without a stamp. Every
roster is preceded by `Ensure` and `Fix`, as in `sendRoster`, and written back
by `GetSsiModInfo`, `Load`, `SendRoster`, each a call of its own. A session
that was replaced serves the frame it is in beside its successor. `current` and
`outdated` are the (date, count) pairs under which a roster was sent that still
is, or no longer is, what the store holds; `excused` are dates that stand for two
contents, among them that of a roster that was sent out of order (`InOrder`)
because another session edited after the repair: the next repair changes the rows
and stamps nothing. The clock does not run backwards. Names of groups are not empty.

**AuthRequests** models one step per call to the store or the registry in the
handlers of requests and replies and in adds and updates of contacts;
`handler[c]` is what is left to do. An item that is added gets the pending mark if
the owner asks for it; an item that is updated gets the mark of the frame, present
or not. `trusts[c]` are the owners a client was told are open, and `presumed` the
contacts whose update left the mark out without that. (A roster is read and
sent in one step here; see Roster for what it holds.)

**FlapWriter**: a member of `Writers` is one run of a goroutine that sends,
replies or closes, on any connection. `place[w]` is where it is in `sendSnac`
and `sendFlap`: an id is drawn outside the lock (`DrawId`), the number is taken
under it (`Acquire`), and `Write` returns when the kernel has taken the frame
(`Room`) or fails when the socket is closed. `wire[c]` is what reached the
client.

**StoragePool**: a call of `Storage` is a plan of statements over tables; every
call holds `mu` to its end but `SearchUsers`, which releases it with its rows
open. A table's value is the call that changed it last, and `seen` what a call
read. **Store** is a call at one moment.

**Accounts**: registrations (`SelectMax`, `InsertUser`, `InsertProfile`, under
`Storage.mu`), runs of `adduser` (`AdminLook`, then `AdminInsert` or
`AdminForce`, under no lock of the server's), writes that fail, a crash of the
server at any step, and the default accounts of its start. `Wrap` and `OnWire`
are the widths: the count is an int64, the answer has 32 bits. Both are scaled
down. **Profiles**: `handleMetaSaveInfo` as load and save, `SetPerms`, and
`adduser --nick`; `wanted` is the row had every write changed only what it
names, and `silenced` says that a save came last that does not speak of
`auth_required`. **Search**: `TakeOnline`, then `Query` with its limit, its cap, its
filters and no order; UINs are sequences of digits and nicknames of letters of
two scripts, since LIKE looks for one inside another and lower case is computed
by two programs. **Typing**: the flags, read and written in two halves each, and
the marks, each a goroutine. **Rtf**: `depth` and `skipFrom` beside a stack of
groups. **Tlvs**: all short lists of items, lengths that lie included; the code
moves an offset through its data, the module takes items off the front of what is
left (`Cut`, `Value`, `Behind`).

The `MC*` modules instantiate these for TLC: symmetry, later initial states,
compositions and the bounds of a run. Definitions named `X_Something` just before
a definition `X` are what a plausible bug would make of `X`; nothing refers to
them. They exist to show that each property notices one (`PROJECT.json`,
"mutants").

**MCServices and MCLive** hold several modules that share no variable. A step of
one leaves the others' variables alone, so a safety property of one, which
mentions its variables only, holds of every interleaving if it holds while the
others rest, and the same goes for the liveness properties, whose fairness is per
module. A behaviour of these two therefore moves one module (`part`); the states
are the sum of the modules' states and not their product. **MCRoster** has two
families of behaviours (`scope`): one session with a richer roster, or two that
overlap with a smaller one; its constraints say which states of each are looked
at, and its views which of them need not be told apart.

## 3. The runs

| run | instance | states | properties |
|---|---|---|---|
| `sessions_registry` | 4 connections, 2 UINs, 2 cookies | 123 k | `RegistrySound OnlyClobberedUnregistered EntryGranted OneAttemptPerConnection ImplementsDirectory ImplementsTickets` |
| `live` | 2 sign-ons of one UIN; 3 writers, one client that does not read; 3 calls of the store | 4.5 + 4.8 + 2.2 k | `SupersededEventuallyEnds BrokenEventuallyUnregistered SequenceUnbroken NoIdLost OthersNotHeldUp CloseFreesWriters EveryCallReturns` |
| `sessions_toctou` | 4 connections, 1 UIN | violation | `CleanupSparesSuccessor` |
| `messaging_order` | 2 connections, 2 UINs, 2 messages | 2.0 M | `NoCrossDelivery SenderIdentity OfflineInOrder` |
| `messaging_mail` | a writer, 2 sessions of the addressee, 1 message | 295 k | `ImplementsMailbox` |
| `messaging_loss` | a writer, the addressee signing on | violation | `StoredUntilSent` |
| `presence` | viewer and owner, 1 status | 1.1 M | `TypeOK NobodyOverlooked DeniedSeeNothing GoneIsSeen` |
| `presence_race` | viewer and owner, 2 statuses | violation | `SettledViewIsCurrent` |
| `roster` | 1 group, 2 peers (one guarded), 2 seconds, 2 copies, 1 or 2 sessions | 690 k | `TypeOK UpToDateIsCurrent` |
| `roster_sound` | 2 groups, 3 names, 1 peer, 1 or 2 sessions | 472 k | `RosterSound` |
| `auth_requests` | viewer and owner | 2.5 M | `TypeOK UngrantedStayPending RequestsGenuine RequestShownOrOvertaken` |
| `services` | eight modules, one at a time (below) | 630 k | `ImplementsStore`; `HiddenSeeNothing PendingSeeNothing`; `AskedFor`; `SkipsExactly`; `SameTextLiveAndStored`; `CreatorsKeepAccount ToldItsOwn HalfMadeOnlyWhenBroken`; `LostToOverlapOnly AuthIsLatest`; `AnswerIsRight` |

Each ends within five minutes on two workers. What a run shows is its entry
"about" in `PROJECT.json`.

**Bounds.** *Connections.* A member of `Conns` is one accept; it is not reused.
Four are what the login needs for a race: two earn a cookie and stop, two redeem
them, for one UIN (kick, cleanup race) or two. The other modules start from
`Directory`, where a sign-on needs no cookie, so two connections give a sender
and a recipient, two sessions of one UIN in turn, or two at once;
`messaging_mail` has three, for a writer and two sessions of the addressee. A
third session of one UIN adds no pair of steps that two do not have: kicks and
cleanups only look at the entry and at one other session. *Messages.* Each is
sent once; two give the order. `SecondUinOrMessage` keeps `messaging_order` small:
one connection that signs on as a second UIN, or a second message. `SomebodyListens`
cuts the behaviours there in which every socket is closed and handlers or deliveries
are still under way, when no client is told anything more. `AcksWhatItSaw`,
in `messaging_order` and `messaging_loss`, takes the client to acknowledge on an end
mark only, which makes the loss of the second the stronger; `messaging_mail` and the
proofs take acknowledgements at any time. *Symmetry* is used in the safety runs that have
interchangeable constants and in no liveness run. `live` and the `messaging`
runs with `Early` start at a later reachable moment, named in the MC module.
In `presence` and `auth_requests` `Cast` fixes which connection signs on as
whom; `OneAskerOrNoContacts` lets a second request be made (the viewer's, and one
that a client sends before it signs on) where there are no contacts, so that a
request stored during a sweep, and lost, occurs; two connections of one UIN are
covered by the modules below. In `presence`
`ViewerLast` cuts behaviours where the viewer's connection is already dead, when
nothing it was told can change, and `TwoFlights` bounds the closures that wait at
one time to two, enough for one denial and one permission to overtake each
other.

*Roster.* One group and two contacts give every way for count and date
to disagree: the count compares numbers only. Two seconds let a packet share a
second with the last one or not. Two groups are the least that can be merged,
and three names the least with two alike and one not. `MaxCopies` bounds how
many different rosters are remembered as sent. Two sessions that overlap share
one group without contacts in `roster`, where neither checks its copy; that is
enough for packets, repairs and stamps of the two to pass each other. In
`roster_sound` they have contacts too, and one edits at a time if it is to
rename. Two views keep the runs small. `Dates` leaves out what only `RosterSound`
or a checkout looks at. `Rows` leaves out the clock, the stamps and the clients'
copies, none of which steers a step once checkouts are left out. Dates and checkouts
are the business of `roster`.

*Services.*

| part | instance | states |
|---|---|---|
| store | 3 calls, 2 tables, plans of the shapes the code has | 52 k |
| visibility | modes 2 and 5 (nobody, buddies), 1 goroutine in flight | 281 k |
| typing | 1 writer, 2 channels, 2 marks | 25 k |
| rtf | 5 groups deep, 3 characters | 2.5 k |
| tlvs | 8 cells of 4 values | 87 k |
| accounts | 2 registrations, 2 runs of `adduser`, 1 crash; floor 2, 5 and 7 for the two widths | 101 k |
| profiles | 2 sessions, 2 texts of 2 values | 24 k |
| search | UINs 1, 12, 21, 2 nicknames: a Latin capital, and its small letter before a Cyrillic capital; 1 request, limit 2, cap 1 | 57 k |

Three calls let one wait for the mutex, one hold it and one search. Mode 2 hides
from everybody and mode 5 shows to buddies, whatever the items: changing between
them gives hidden and shown; the proof has all modes. The widths of `accounts`
are near enough to be reached and passed. A cap of one is passed by UIN 1, which
the other two contain. The proofs of section 4 have no such bounds.

**Deadlock.** Every run checks it. The last state, all connections over or all
work done, is a step (`AllGone`, `AllWritten`, `AllReturned`, `Rest`) that
changes nothing: the server waits in `Accept`.

**Fairness** (`live` only). *Sessions.* `WF(Proceed(c))`: a goroutine that waits
for nothing but `Server.mu`, held for a map operation only, goes on; the Go
scheduler is fair to runnable goroutines and the mutex does not starve.
`WF(ReadError(c))`: a read of a closed socket returns. Nothing is assumed of the
peers, who may stay silent for ever, of timeouts, or of the part of `cleanup`
after the broadcast (`WindUp`): writes have no deadline. A connection at `read`
is taken to wait for a frame; a handler held up by a client that does not read is
in FlapWriter. *FlapWriter.* `WF(WriterGo(w))`: a goroutine that can run does;
`SF(Acquire(w))`: `sync.Mutex` hands itself to a waiter of more than a
millisecond, so nobody waits for ever for a mutex that is free again and again;
the clients in `Readers` read. Nothing is assumed of the one that does not.
*StoragePool.* The same for its goroutines and its mutex; statements end.

### What the violations show

1. `sessions_toctou`. `cleanup` compares and then removes, in two critical
   sections (`session.go:167-170`). A sign-on between them is removed: the
   session lives, but nobody finds it, and no later sign-on ends it.
   `deleteSessionIfSame` (`server.go:93`), never called, would do it right.
   `OnlyClobberedUnregistered` shows it to be the only way to lose a session.
2. `messaging_loss`. A sender looks the recipient up (absent), the recipient
   signs on and fetches its offline messages, the sender stores the message, the
   recipient acknowledges: the row is deleted, unseen (`meta.go:633`,
   `storage.go:731`). For a client that acknowledges on an end mark it is the only
   way: what was stored when it asked is never lost so (`FetchedIsShown`, section
   4). An acknowledgement out of turn deletes whatever there is.
3. `presence_race`. A viewer's `sendPresenceFull` reads a status, the owner
   changes it and broadcasts, and then the viewer is sent the older one
   (`session.go:662`).

### What the code does not ensure

These are stated in the modules, and TLC refutes each: put `INVARIANT X` into
`services.cfg` (for the first, `auth_requests.cfg`) in place of its properties.

| property | what happens | source |
|---|---|---|
| `OpenByLeaveOnly` (AuthRequests) | an update that leaves the pending mark out opens the contact of an owner that wants to be asked | `ssi.go:298` |
| `AuthAsSaid` (Profiles) | a save that does not speak of `auth_required` turns it off | `meta.go:342` |
| `UinFound` (Search) | a search by UIN asks for all UINs that contain the digits and stops at a cap before it looks for the very one | `storage.go:818` |
| `NickFound` (Search) | Go lowers Cyrillic, SQLite's `LOWER` does not: a nickname with a Cyrillic capital is not found by its own spelling | `storage.go:779` |
| `ServerStaysUp` (Typing) | a mark read while the owner sets its flags: concurrent map read and map write, which no `recover` catches | `session.go:923` |
| `SettledMarkIsLast` (Typing) | "begun" is delivered after the "finished" sent later | `session.go:932` |
| `SettledHiddenSeeNothing` (Visibility) | show, then hide: the goroutine of the first is the last to run | `ssi.go:376` |
| `SettledOnlineIsSeen` (Visibility) | an added contact is found absent, signs on and says so, and then "absent" is sent | `ssi.go:290` |
| `OnlyBuddiesSee` (Visibility) | the mode that permits buddies is judged by the viewer's contacts, except when a contact is added | `protocol.go:449` |
| `TextIntact` (Rtf) | `\uN` is written as UTF-8 and decoded as a code page | `protocol.go:168` |
| `FragmentsKept` (Tlvs) | of a text in several items the last is stored (with `MaxCells = 10`, `Cells = {1, 2, 3, 8}`) | `session.go:944` |

The properties of the passing runs excuse by name what else the code does not
exclude: the entry that a connection leaves behind when it signs on as a second UIN
(`Switched`, `session.go:272`) and the other UIN that a late delivery may then
show as its sender (`session.go:814`); requests stored during a sweep (`overtaken`,
`ssi.go:414`); presence written late (`late`, `session.go:712`); roster dates that
stand for two contents after a failed packet, a crash, an overlap or within one
second (`excused`). And three things are outside every property: a checkout after
the roster was sent on the same session is answered "up to date" without a
comparison (`ssi.go:79`); a denial or a contact that changes while a broadcast
judges by the account it has loaded (`session.go:614`); a connection whose handler
is blocked in a write to another client that does not read (`session.go:91`),
which stays registered until that client goes.

## 4. The proofs

TLAPS checks these for every value of the constants: any number of connections,
UINs, cookies, messages, goroutines, calls and tables, any modulus, width, depth
and set of modes, any contacts, groups, names and privacy settings. The
assumptions are those on the constants, each named beside them in its module
(`NoConn`, `NoUin` are not members; the floor of a new UIN is below the
widths; an account has finitely many contacts; a UIN is a
sequence of digits; and the like).

*Sessions* (`SessionsProofs`).

* `TypeCorrect`. `TypeOK` alone is not inductive: `sessions[uin[c]]` has a type
  only where the connection has an identity. `Identified` says at which places
  it has one and at which it has none; the two together are inductive.
* `RegistryIsSound`: inductive, on top of the types and the ledger, with `Removed` (who
  is past the removal of its entry is not registered): a session that takes a second
  identity has redeemed cookies of two UINs, and grants only grow.
* `OnlyClobberedAreLost`. Needs `KickInv`: the session a sign-on found
  registered had been accepted, so it cannot start anew while it is being ended,
  and by the time its socket is closed it is stopped.
* `KicksAreFinal`, the safety under `SupersededEventuallyEnds`, from the same
  invariant: `BeingKicked(c) => []CutOff(c)`. A session that is being ended stays
  so until it is stopped and its socket closed, and neither is ever undone.
* `EntriesAreGranted`. Needs `LedgerInv`: a pending cookie has an issuer, its
  owner, and no redeemer; one that was never issued is not pending; and an
  identity comes with a cookie redeemed for it. Grants only grow (`GrantsGrow`).
* `OneAttempt`. Needs `AttemptInv`: a connection that still reads, or may read
  again, has answered no check. It is why `stop` must come on every path.
* `DirectoryImplemented`, `TicketsImplemented`: initial states map to initial
  states, and every step to a step of the abstract module or a stutter. Neither
  assumes anything of the clients.

*Directory* (`DirectoryProofs`). `DirBase`, the types with the places of an
identity, is inductive (`DirNextBase`). `DirectoryIsSound` adds `EntrySound`, which
holds as long as no step passes a connection from one UIN to another
(`OneUinEach`); `DirNextInv` is its step. `Messaging` rests on the first, `Presence`
and `AuthRequests`, whose sessions have that habit, on the second.
Each of the three proves that its sessions do what
`Directory` allows and nothing else (`SessionsUnderneath`: `Spec => DirSpec`), which
with `DirectoryImplemented` joins them to the detailed sessions. In `Presence` it
takes an argument, for there sign-on and cleanup broadcast on the way; in the
other two it is a look at the actions.

*Messaging* (`MessagingProofs`), three invariants in layers, and two on top.

* `TypeInv`: types, the directory's base, `HeldInv` (what a connection acts for, and
  what it is registered under, it has signed on as), and `SentInv`: what is
  flying, stored, in a batch or in an inbox was sent. Gives `TypeCorrect` and
  `EntriesWereSignedOn`.
* `MailInv`: a connection that is about to get, or got, a message has signed on as
  its addressee, and the sender as the UIN it wrote under. Gives
  `NobodyReadsAnothersMail` and `SendersAreGenuine`. It rests on the fact that what
  a connection has signed on as only grows (`HeldGrows`), and that an identity is
  given up for good only by departing (`IdentityKept`).
* `OrderInv`: row ids are bounded by the counter and distinct, a connection has
  one batch, and what a client got from the store has smaller ids than what the
  batch still holds. Gives `OfflineOrderKept`.
* `MailboxImplemented`, the refinement. On top of the three, `WayInv`: a message
  is with one handler or one delivery at most, before it has a row and before it
  reached anybody, and what has a row was handed to nobody. Each action has a
  lemma that says what it does to one message's way (`WaySend`, `WayStore`, and
  so on), and each lemma gives a step of `Mailbox` or a stutter. `Mailbox` counts
  writes: that a row is not written a second time to a session comes from
  `OrderInv` (what a batch still holds is newer than what was shown) and from the
  one batch of a connection.
* `FetchedIsShown`: `m \in batch[c] => [](c \in sawEof => c \in ShownTo(m))`. An
  acknowledgement given on an end mark deletes nothing unseen of what was stored
  when the client asked; one given before it does, and the server takes it.
  `Kept(c, m)`, once true, stays true:
  the message is in the batch, or was shown, or the socket closed before the end
  mark, and a connection is accepted only once. `EofInv` ties the mark to
  `offlineDelivered`.

*Presence* (`PresenceProofs`). A broadcast walks a copy of the registry while
sessions come and go, so the invariant says what such a copy is worth.

* `TypeInv`: types, the directory's invariant, and what a handler holds while it
  walks. `TypeCorrect`.
* `KnownInv`: a connection that a copy, a closure or a view is about is
  registered, has lost its entry, or is on its way out, and never becomes another
  UIN's. Everything below needs it.
* `AllowedInv`: what is about to be shown was allowed when the loop began, when
  the status was peeked at, or when the closure was spawned. `DeniedAlways`.
* `MeetInv`, with `HiddenInv` (the denials a loop works with were settings): once
  the owner's walk has begun, the viewer was told, or is in the owner's copy still
  to be visited, or has the owner before it in its own walk. This is the argument
  why both copying the registry after both have registered is enough. `TwoMeet`.
* `GoneInv`: who is seen online is registered, or its farewell has yet to copy
  the registry or to come to the viewer. `GoneSeenOffline`.

*Roster* (`RosterProofs`). The rows may be anything, so the proof starts with what
the operators make of any rows: groups of one name are merged into one of them,
which exists (`Merged`); the first repair leaves no two of one name and group 1,
and houses nobody worse (`EnsureRepairs`); the second houses everybody
(`FixRepairs`).

* `TypeInv`: types, and which handlers repair. `TypeCorrect`.
* `SoundInv`: from the repair to the roster, the rows and the account loaded from
  them are as the repair left them, unless another session edited (`crossed`).
  `SentInOrder`.
* `DateInv`: no date is ahead of the clock; where a roster was sent with the
  present second as its date, that is the store's date or one that stands for two
  contents, so the next stamp cannot meet it with another content; and a roster
  that is still current is in order, so a repair that follows changes nothing.
  `UpToDateIsTrue`.

The proofs corrected the model. `GoneIsSeen` was false where a viewer has two
connections: the one whose entry the other took is told nothing more, and this
was not counted as lost. `UpToDateIsCurrent` was false where two sessions overlap
on contacts and two groups: a roster sent out of order is repaired later without
a stamp. TLC confirmed both on larger instances; both are what the code does.
`RosterSound` now also says that group 1 is there.

*Authorisation* (`AuthRequestsProofs`). `AuthInv` says of everything under way
what the properties say of its result: of a handler between two calls
(`WorkInv`), of a frame not yet sent (`FlyingInv`), of a sweep's batch
(`SweepInv`), of what a client was told (`CopyInv`), of the tables (`StoreInv`),
with the directory's invariant and the types; `FreshInv`: a connection that has
not signed on yet holds nothing of an earlier UIN. It gives `TypeCorrect`,
`PendingUntilGranted` and `NoForgedRequest`. `NoRequestDroppedUnseen` is about
steps and needs `SweptInv`: while a session sweeps, each request to its UIN was
shown, is still to be, or came meanwhile.

*Writer* (`LocksProofs`). `NumbersRunOn`, `IdsDiffer`, `NoFrameDropped`,
`LocksNotNested`, `WriterTypeCorrect`, from one invariant: `WriterLockInv` (a mutex
is where the places say, one per goroutine), `SeqInv` (while the connection is open the
counter is that of the last frame, or one on between `Acquire` and `Write`),
`IdInv` (ids in hand and on the wire are below the counter and differ).
`OnlyItsTargetHoldsUp` is the safety that `OthersNotHeldUp` and `CloseFreesWriters`
rest on: who cannot go on waits for room at its own target, or for one goroutine,
which writes to that target.

*Store* (`LocksProofs`). `StoreImplemented`: with `mu` and `pool` as the plans
say (`PoolLockInv`, `PlanInv`), a call under way has seen the tables it touched as
they are (`SeenInv`), and the holder of the mutex has changed what its statements
changed and nothing else (`DataInv`). Why `SearchUsers` may release the mutex:
until its rows are closed no other call gets a connection, so it is over before
the next one's first statement. `LocksOneWay`, `SeenStays`, `PoolTypeCorrect`
follow, and `SomeCallGoesOn`, on which `EveryCallReturns` rests: a call that
cannot go on waits for the holder of the mutex or of the connection, and one of
these can. Both theorems spell the guards out (`MayGo`, `CallMayGo`), since ENABLED
is beyond the prover.

*Visibility* (in `ServicesProofs`). `HiddenStayHidden` and `PendingStayOut`:
whatever a handler, an account it has loaded or a goroutine in flight is about to
say rests on a permission that was there (`ShownInv`) and on a contact that was
open or a grant (`OpenInv`).

*Services* (`ServicesProofs`), six more parts.

* Rtf: `StackInv` says what the two integers stand for: the depth is the stack's,
  and `skipFrom` is the lowest group on it that is to be skipped. `SkipsWhereDue`,
  `NoLeak`, `ScannerTypes`.
* Typing: a flag that is set or about to be was asked for (`TypingInv`).
  `MarksWereAskedFor`.
* Profiles: a session's copy differs from the row only in texts that others have
  written since (`ProfilesInv`). `OnlyOverlapsLose`, `AuthHasLastWord`.
* Accounts (`AccountsInv`): those who have made an account hold different UINs,
  each with a password that is theirs unless it was changed since; `adduser
  --force` meets an account that is there. `NobodyTakesAnAccount`,
  `ClientsToldTheirOwn`, `AccountsAreWhole`. That a new UIN is a number at all
  needs the greatest of the taken ones to exist: `LargestIsMember`, by the
  well-foundedness of finite sets.
* Search (`SearchInv`): as long as nothing changes an account (`kept`), it is
  registered, and online as it was when the answer began, so that what the query
  finds is right of it. A query that fits is not cut (`NotCut`), a UIN contains
  itself (`OwnUin`), and lower case keeps lengths (`LowerCase`).
  `SearchAnswersRight`.
* Tlvs. `SameTextLiveAndStored` compares recursive functions over the items of a
  message, for lists of every length (`TextSurvives`). That the recursive
  definitions define functions at all is `Recursion`: an item is never shorter
  than its header, so what is left gets shorter. The induction is not over a
  predicate, which the provers cannot instantiate, but over a set of lists:
  one that holds a list whenever it holds what is behind its first item holds all
  (`ItemByItem`, from the well-foundedness of the naturals). A list reads as its
  first item laid over what is behind it (`Parsing`). Hence the features put before the
  first text change no other item (`Inserting`, `TextStays`), a completed block
  reads as before but for the features (`CompletedReads`), and the last block of the
  completed list is the completed last block (`Ensuring`, `BlockCompleted`).

Every property of a passing run is stated by a theorem, but for the five liveness
properties of `live`, which are **model-checked only**: fairness and ENABLED are
beyond the prover.

## 5. What is not modelled

* Wording, layout and encoding of frames other than RTF and the items of a
  message; the digest of a password; code pages; dates. These conversions have no
  state and are best tested.
* Lengths in bytes: the 16-bit length of a frame and of an item, which the code
  does not check before it cuts a value to it (`protocol.go:33,57`).
* Replies to the client's own requests that share nothing (rights, rate, self
  information, message of the day, info replies, the acknowledgement of a
  message).
* `Server.Stop`, `setSession`, `deleteSessionIfSame`: nobody calls them.
* The start-up, apart from what it puts in the tables; the migration of old
  tables.
* A cookie that is never redeemed: it stays, as it does in the code (`Tickets`
  has no expiry), and nothing promises otherwise.
* In `Presence`: the privacy modes and contacts that change during a broadcast
  (they are in `Visibility`, for one pair), one's own UIN among the contacts.
* In `Roster`: nicks, item ids and `group_items`, which only lay the roster out;
  the master group; privacy items (in `Visibility`).
* In `Search`: the wildcards of LIKE, and the texts other than the nickname,
  which are searched as it is. In `Accounts`: UINs with leading zeros.

## 6. What is left

* A frame length in `FlapWriter`, once the code has a limit to state.
* The contacts and privacy modes of `Visibility` inside the walks of `Presence`:
  the two are proved apart, and a broadcast whose account changes on the way is in
  the first for one pair only.
* A client's copy of the roster in `AuthRequests` is read in one step; `Roster` has
  the steps.

## 7. Running it

In this directory: `tlc -workers 2 -config sessions_registry.cfg MCSessions`,
and so on for the module and configuration of each entry of "runs" in
`PROJECT.json`; `tlapm SessionsProofs.tla` for the proofs, and the same for each
module named `*Proofs`.
