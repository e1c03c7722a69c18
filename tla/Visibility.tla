----------------------------- MODULE Visibility -----------------------------
(***************************************************************************)
(* May this viewer see that owner? The owner's privacy settings (a mode,   *)
(* permit and deny items) and the pending mark of the viewer's contact,    *)
(* and every way by which the one session is told of the other once it is  *)
(* signed on: a changed status, changed settings, a contact added, a       *)
(* request granted, a removal, a request for the presence of all contacts. *)
(* Each reads the two accounts in steps of its own, and three of them leave*)
(* the telling to a goroutine that runs later.                             *)
(*                                                                         *)
(* Sessions that end, and walks over several of them, are in Presence;     *)
(* how a request comes to be granted is in AuthRequests.                   *)
(***************************************************************************)
EXTENDS Naturals

CONSTANTS Modes,     \* the values of pd_mode that clients set
          MaxFlying  \* bound: goroutines that wait to tell something

PermitAll == 1
DenyAll == 2
PermitSome == 3
DenySome == 4
PermitBuddies == 5

ASSUME VisibilityAssumption == Modes \subseteq Nat /\ MaxFlying \in Nat

VARIABLES
  contact,   \* the viewer's contact for the owner: none, pending or open
  listed,    \* is the viewer in the owner's contacts?
  guarded,   \* auth_required of the owner
  privacy,   \* the owner's settings: pd_mode, and its items for the viewer
  registered, \* has the owner signed on?
  vJob,      \* what the viewer's handler has yet to do
  oJob,      \* what the owner's handler has yet to do
  loaded,    \* the owner's settings as its handler loaded them
  flying,    \* spawned and not yet sent: nr -> on, off, or nothing
  view,      \* what the viewer was last told of the owner since it added it
  granted,   \* history: did the owner ever grant a request?
  everOpen,  \* history: was the contact ever open?
  everShown, \* history: was the viewer ever allowed by the settings?
  everBuddy  \* history: and were buddies those that the owner has?

stored == <<contact, listed, guarded, privacy, registered>>
history == <<granted, everOpen, everShown, everBuddy>>
vars == <<stored, vJob, oJob, loaded, flying, view, history>>

\* privacyVisible; mode 0 is no row, or a client's 0.
Visible(p, inContacts) ==
  LET mode == IF p.mode = 0 THEN PermitAll ELSE p.mode IN
  /\ ~p.denied
  /\ \/ p.permitted
     \/ mode \notin {DenyAll, PermitSome} /\ (mode = PermitBuddies => inContacts)

Settings == [mode : Modes, permitted : BOOLEAN, denied : BOOLEAN]

Init ==
  /\ contact \in {"none", "pending", "open"}
  /\ listed \in BOOLEAN
  /\ guarded \in BOOLEAN
  /\ privacy \in Settings
  /\ registered \in BOOLEAN
  /\ vJob = "idle" /\ oJob = "idle"
  /\ loaded = privacy
  /\ flying = [i \in 1..MaxFlying |-> "nothing"]
  /\ view = "untold"
  /\ granted = FALSE
  /\ everOpen = (contact = "open")
  /\ everShown = Visible(privacy, TRUE)
  /\ everBuddy = Visible(privacy, listed)

Tell(what) == view' = what

\* spawn; the goroutines are told apart, since they may overtake each other.
Spawn(what) ==
  \E i \in 1..MaxFlying :
    /\ flying[i] = "nothing"
    /\ flying' = [flying EXCEPT ![i] = what]

Deliver(i) ==
  /\ flying[i] # "nothing"
  /\ flying' = [flying EXCEPT ![i] = "nothing"]
  /\ Tell(flying[i])
  /\ UNCHANGED <<stored, vJob, oJob, loaded, history>>

----------------------------------------------------------------------------
(* The viewer's handlers.                                                  *)

Viewer(from, to) == vJob = from /\ vJob' = to

\* UpsertContact
Put(state) ==
  /\ contact' = state
  /\ everOpen' = (everOpen \/ state = "open")
  /\ UNCHANGED <<listed, guarded, privacy, registered, granted, everShown, everBuddy>>

\* parseAndModifySSI: an item that is to be added, with a pending mark or
\* without one. Without one GetAuthRequired decides between open and pending.
AddPending ==
  /\ Viewer("idle", "idle") /\ Put("pending") /\ Tell("untold")
  /\ UNCHANGED <<oJob, loaded, flying>>
AddAsk ==
  /\ Viewer("idle", IF guarded THEN "putPending" ELSE "putOpen")
  /\ Tell("untold")
  /\ UNCHANGED <<stored, oJob, loaded, flying, history>>
AddRefused ==
  /\ Viewer("putPending", "idle") /\ Put("pending")
  /\ UNCHANGED <<oJob, loaded, flying, view>>
AddOpen ==
  /\ Viewer("putOpen", "look") /\ Put("open")
  /\ UNCHANGED <<oJob, loaded, flying, view>>

\* Is the owner there? If so it is judged, with what its own contacts are;
\* after the acknowledgement and the stamp the viewer is told.
AddLook ==
  /\ Viewer("look", IF registered THEN "judge" ELSE "pushOff")
  /\ UNCHANGED <<stored, oJob, loaded, flying, view, history>>
AddJudge ==
  /\ Viewer("judge", IF Visible(privacy, listed) THEN "push" ELSE "idle")
  /\ UNCHANGED <<stored, oJob, loaded, flying, view, history>>
Push ==
  /\ Viewer("push", "idle") /\ Tell("on")
  /\ UNCHANGED <<stored, oJob, loaded, flying, history>>
PushOff ==
  /\ Viewer("pushOff", "idle") /\ Tell("off")
  /\ UNCHANGED <<stored, oJob, loaded, flying, history>>

\* An item that is updated: the mark is the client's.
Update(state) ==
  /\ Viewer("idle", "idle") /\ contact # "none" /\ Put(state)
  /\ UNCHANGED <<oJob, loaded, flying, view>>

Delete ==
  /\ Viewer("idle", "idle") /\ Put("none")
  /\ UNCHANGED <<oJob, loaded, flying, view>>

\* sendPresenceFull: the viewer's account is loaded, then the owner's, and
\* then the viewer is told.
Activate ==
  /\ Viewer("idle", IF contact = "open" /\ registered THEN "peek" ELSE "idle")
  /\ UNCHANGED <<stored, oJob, loaded, flying, view, history>>
Peek_DenyOnly ==
  /\ Viewer("peek", IF ~privacy.denied THEN "push" ELSE "idle")
  /\ UNCHANGED <<stored, oJob, loaded, flying, view, history>>
Peek ==
  /\ Viewer("peek", IF Visible(privacy, TRUE) THEN "push" ELSE "idle")
  /\ UNCHANGED <<stored, oJob, loaded, flying, view, history>>

----------------------------------------------------------------------------
(* The owner's handlers.                                                   *)

Owner(from, to) == registered /\ oJob = from /\ oJob' = to

\* handleBosAuth; the client's first frame, or any later one, is for a broadcast.
SignOn ==
  /\ ~registered
  /\ registered' = TRUE
  /\ oJob' = "ready"
  /\ UNCHANGED <<contact, listed, guarded, privacy, vJob, loaded, flying, view, history>>

\* SNAC 13/08-0A with an item of privacy, or with the mode.
SetPrivacy(p) ==
  /\ Owner("idle", "applyLoad")
  /\ privacy' = p
  /\ everShown' = (everShown \/ Visible(p, TRUE))
  /\ everBuddy' = (everBuddy \/ Visible(p, listed))
  /\ UNCHANGED <<contact, listed, guarded, registered, vJob, loaded, flying, view,
                 granted, everOpen>>

\* GetUser of its own account: in applyPrivacyChange, broadcastPresence and
\* notifyOthersOnline.
LoadOwn(from, to) ==
  /\ Owner(from, to)
  /\ loaded' = privacy
  /\ UNCHANGED <<stored, vJob, flying, view, history>>

\* The viewer's account is loaded, judged with the owner's, and it is told by
\* a goroutine: the one or the other.
Apply ==
  /\ Owner("apply", "idle")
  /\ IF contact = "none" THEN UNCHANGED flying
     ELSE Spawn(IF Visible(loaded, TRUE) /\ contact # "pending" THEN "on" ELSE "off")
  /\ UNCHANGED <<stored, vJob, loaded, view, history>>

\* A broadcast: judged likewise, and told at once.
Notify_Unmarked ==
  /\ Owner("notify", IF contact # "none" /\ Visible(loaded, TRUE) THEN "say" ELSE "idle")
  /\ UNCHANGED <<stored, vJob, loaded, flying, view, history>>
Notify ==
  /\ Owner("notify", IF contact = "open" /\ Visible(loaded, TRUE) THEN "say" ELSE "idle")
  /\ UNCHANGED <<stored, vJob, loaded, flying, view, history>>
Say ==
  /\ Owner("say", "idle") /\ Tell("on")
  /\ UNCHANGED <<stored, vJob, loaded, flying, history>>

\* handleAuthSendReply, granted: ClearPendingAuth, and the viewer is told by a
\* goroutine, whether or not the owner is among its contacts.
Grant ==
  /\ Owner("idle", "judge")
  /\ IF contact = "pending" THEN contact' = "open" ELSE UNCHANGED contact
  /\ granted' = TRUE
  /\ everOpen' = (everOpen \/ contact' = "open")
  /\ UNCHANGED <<listed, guarded, privacy, registered, vJob, loaded, flying, view, everShown, everBuddy>>
GrantJudge ==
  /\ Owner("judge", "idle")
  /\ IF Visible(privacy, TRUE) THEN Spawn("on") ELSE UNCHANGED flying
  /\ UNCHANGED <<stored, vJob, loaded, view, history>>

\* handleDeleteYourself: the viewer's account is loaded, and its contact deleted.
Leave ==
  /\ Owner("idle", IF contact # "none" THEN "dropHad" ELSE "drop")
  /\ UNCHANGED <<stored, vJob, loaded, flying, view, history>>
Drop(had) ==
  /\ Owner(IF had THEN "dropHad" ELSE "drop", "idle")
  /\ Put("none")
  /\ IF had THEN Spawn("off") ELSE UNCHANGED flying
  /\ UNCHANGED <<vJob, loaded, view>>

\* The owner's own contacts, and whether it wants to be asked.
SetListed ==
  /\ Owner("idle", "idle")
  /\ listed' = ~listed
  /\ everBuddy' = (everBuddy \/ Visible(privacy, listed'))
  /\ UNCHANGED <<contact, guarded, privacy, registered, vJob, loaded, flying, view,
                 granted, everOpen, everShown>>
SetAuthRequired ==
  /\ Owner("idle", "idle")
  /\ guarded' = ~guarded
  /\ UNCHANGED <<contact, listed, privacy, registered, vJob, loaded, flying, view, history>>

----------------------------------------------------------------------------
ViewerNext ==
  \/ AddPending \/ AddAsk \/ AddRefused \/ AddOpen \/ AddLook
  \/ AddJudge \/ Push \/ PushOff
  \/ (\E state \in {"pending", "open"} : Update(state)) \/ Delete
  \/ Activate \/ Peek

OwnerNext ==
  \/ (\E p \in Settings : SetPrivacy(p))
  \/ LoadOwn("applyLoad", "apply") \/ Apply
  \/ SignOn \/ LoadOwn("ready", "notify") \/ LoadOwn("idle", "notify") \/ Notify \/ Say
  \/ Grant \/ GrantJudge \/ Leave \/ (\E had \in BOOLEAN : Drop(had))
  \/ SetListed \/ SetAuthRequired

Next == ViewerNext \/ OwnerNext \/ \E i \in 1..MaxFlying : Deliver(i)

Spec == Init /\ [][Next]_vars

----------------------------------------------------------------------------
(* Safety.                                                                 *)

TypeOK ==
  /\ contact \in {"none", "pending", "open"}
  /\ listed \in BOOLEAN /\ guarded \in BOOLEAN /\ registered \in BOOLEAN
  /\ privacy \in Settings /\ loaded \in Settings
  /\ vJob \in {"idle", "putPending", "putOpen", "look", "judge", "push", "pushOff",
              "peek"}
  /\ oJob \in {"idle", "applyLoad", "apply", "notify", "say", "judge", "dropHad", "drop",
              "ready"}
  /\ flying \in [1..MaxFlying -> {"nothing", "on", "off"}]
  /\ view \in {"untold", "on", "off"}
  /\ granted \in BOOLEAN /\ everOpen \in BOOLEAN
  /\ everShown \in BOOLEAN /\ everBuddy \in BOOLEAN

\* A viewer whom the settings hid all along, by whichever of mode and items,
\* is not shown the owner, by whichever of the ways it is told.
HiddenSeeNothing == view = "on" => everShown

\* A viewer whose contact was pending all along is not shown the owner, unless
\* the owner granted a request; whatever adds, updates and settings cross.
PendingSeeNothing == view = "on" => everOpen \/ granted

\* Settings that hide the owner take effect: with nothing under way, a viewer
\* they hide the owner from does not go on being shown it. ("privacy" is among
\* the supported, README:78.) The code does not ensure it.
Settled == vJob = "idle" /\ oJob = "idle" /\ \A i \in 1..MaxFlying : flying[i] = "nothing"
SettledHiddenSeeNothing ==
  Settled /\ contact = "open" /\ ~Visible(privacy, TRUE)
    => view # "on"

\* Who is added and signs on is seen: with nothing under way, an owner that is
\* there and visible is not shown as gone. ("presence" is among the supported,
\* README:78.) The code does not ensure it: the owner may announce itself
\* between AddLook, which found it absent, and PushOff.
SettledOnlineIsSeen ==
  Settled /\ contact = "open" /\ registered /\ Visible(privacy, TRUE) => view # "off"

\* Who is not, and never was, in the contacts of an owner that permits its
\* buddies only is not shown it, except for a grant (PDModePermitBuddies,
\* constants.go:80). AddJudge keeps to that; the others take the viewer's
\* having the owner for the owner's having the viewer.
OnlyBuddiesSee == view = "on" => everBuddy \/ granted

=============================================================================
