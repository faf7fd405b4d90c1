----------------------------- MODULE Shortcuts -----------------------------
(***************************************************************************)
(* The keyboard shortcuts: app/core/keybindings.py, the editor of          *)
(* app/ui/shortcuts_dialog.py, the application's part in app/main.py, and  *)
(* the keybindings of bridge-extension/extension.js.                       *)
(*                                                                         *)
(* Shortcuts of the app and of its tabs are kept in shortcuts.json.  The   *)
(* global ones are kept by the bridge in GSettings: the app caches what    *)
(* the bridge last reported and sends it the user's edits.  A shortcut has *)
(* a set of accelerators, one unless it is a default with two.             *)
(***************************************************************************)
EXTENDS Integers, Sequences, FiniteSets, SequencesExt

CONSTANTS
  Actions, NoAction,   \* CATALOG
  Kind, Scope,         \* of each action
  Default,             \* accelerators of each action
  Accels,              \* the keys the user may press
  MaxClicks,           \* bound: what the user does
  MaxLosses,           \* bound: connections lost
  MaxRestarts,         \* bound: starts of the app after the first
  MaxWriteErrors       \* bound: failing writes of shortcuts.json

Global == {a \in Actions : Kind[a] = "global"}
Local == Actions \ Global

ASSUME ShortcutsAssumption ==
  /\ IsFiniteSet(Actions) /\ NoAction \notin Actions
  /\ Kind \in [Actions -> {"app", "tab", "global"}] /\ Global # {}
  /\ DOMAIN Scope = Actions
  /\ Default \in [Actions -> (SUBSET Accels) \ {{}}]
  /\ MaxClicks \in Nat /\ MaxLosses \in Nat /\ MaxRestarts \in Nat /\ MaxWriteErrors \in Nat

VARIABLES
  overrides,          \* _overrides: {} stands for an action that has none
  file,               \* shortcuts.json
  cache,              \* _global_cache, {} likewise
  available,          \* _global_available
  live,               \* accelerators the app and its tabs react to
  dialog,             \* the editor is open
  capturing,          \* _capturing_id
  label, sensitive,   \* what the editor's rows show, and whether they can be clicked
  connected, toBridge, toApp,
  lateWrites,         \* writes of connections that have ended that have not returned yet
  lost,               \* history: a late write left nothing on its way, and nothing was sent since
  settings,           \* the bridge's GSettings
  schema,             \* it could load their schema
  writeErrors,
  unsaved,            \* history: the last write of the file failed
  clicks, losses, restarts

managerVars == <<overrides, file, cache, available, live, unsaved, writeErrors>>
dialogVars == <<dialog, capturing, label, sensitive>>
linkVars == <<connected, toBridge, toApp, lateWrites, lost>>
bridgeVars == <<settings, schema>>
boundVars == <<clicks, losses, restarts>>
vars == <<managerVars, dialogVars, linkVars, bridgeVars, boundVars>>

-----------------------------------------------------------------------------
(* KeybindingManager *)

AccelsOf(a, over, glob) ==
  LET set == IF a \in Global THEN glob[a] ELSE over[a]
  IN  IF set = {} THEN Default[a] ELSE set

GetAccels(a) == AccelsOf(a, overrides, cache)

\* _domain_ids that has a shortcut of the app meet those of the app only.
DomainIdsOfKind(a) ==
  CASE Kind[a] = "global" -> Global
    [] Kind[a] = "app" -> {b \in Local : Kind[b] = "app"}
    [] Kind[a] = "tab" -> {b \in Local : Kind[b] = "app" \/ Scope[b] = Scope[a]}

\* _domain_ids: a global shortcut meets the other global ones, one of the app every one of the
\* app and of the tabs, one of a tab those of the app and of the same tab.
DomainIds(a) ==
  CASE Kind[a] = "global" -> Global
    [] Kind[a] = "app" -> Local
    [] Kind[a] = "tab" -> {b \in Local : Kind[b] = "app" \/ Scope[b] = Scope[a]}

\* find_conflict
Conflicts(a, accel) == {b \in DomainIds(a) \ {a} : accel \in GetAccels(b)}

\* _persist: another file is written and put in the place of shortcuts.json; an error is logged
\* and the old file stays.
Persist ==
  \/ file' = overrides' /\ unsaved' = FALSE /\ UNCHANGED writeErrors
  \/ /\ writeErrors < MaxWriteErrors /\ writeErrors' = writeErrors + 1
     /\ unsaved' = TRUE /\ UNCHANGED file

\* _emit_changed: the app's actions and the tabs' controllers take their accelerators anew and
\* the editor refreshes its rows, but for the one that is being captured.
EmitChanged ==
  /\ live' = [a \in Local |-> AccelsOf(a, overrides', cache')]
  /\ label' = [a \in Actions |-> IF dialog /\ a # capturing'
                                  THEN AccelsOf(a, overrides', cache') ELSE label[a]]
  /\ sensitive' = [a \in Actions |-> IF dialog /\ a # capturing' /\ a \in Global
                                      THEN available' ELSE sensitive[a]]

Send(messages) ==
  /\ toBridge' = IF connected THEN toBridge \o messages ELSE toBridge
  /\ lost' = (lost /\ ~connected)

SetMessage(a, accels) == [type |-> "set_keybinding", action |-> a, accels |-> accels]

\* set_accels, with _on_global_edit for a global shortcut
SetAccels(a, accels) ==
  /\ IF a \in Global
     THEN /\ cache' = [cache EXCEPT ![a] = accels]
          /\ Send(<<SetMessage(a, accels)>>)
          /\ UNCHANGED <<overrides, file, unsaved, writeErrors>>
     ELSE /\ overrides' = [overrides EXCEPT ![a] = IF accels = Default[a] THEN {} ELSE accels]
          /\ Persist
          /\ UNCHANGED <<cache, toBridge, lost>>
  /\ UNCHANGED available
  /\ EmitChanged

\* reset_all: the edits of the global shortcuts are sent one by one.
ResetAllAccels ==
  /\ overrides' = [a \in Local |-> {}]
  /\ Persist
  /\ cache' = [a \in Global |-> Default[a]]
  /\ LET order == SetToSeq(Global)
     IN  Send([i \in DOMAIN order |-> SetMessage(order[i], Default[order[i]])])
  /\ UNCHANGED available
  /\ EmitChanged

-----------------------------------------------------------------------------
(* The editor *)

Click == clicks < MaxClicks /\ clicks' = clicks + 1 /\ UNCHANGED <<losses, restarts>>

OpenDialog ==
  /\ Click
  /\ ~dialog /\ dialog' = TRUE
  /\ capturing' = NoAction
  /\ label' = [a \in Actions |-> GetAccels(a)]
  /\ sensitive' = [a \in Actions |-> a \in Global => available]
  /\ UNCHANGED <<managerVars, linkVars, bridgeVars>>

CloseDialog ==
  /\ Click
  /\ dialog /\ dialog' = FALSE
  /\ UNCHANGED <<managerVars, capturing, label, sensitive, linkVars, bridgeVars>>

\* _cancel_capture that puts the label back the capture began with.
RefreshRowNot(a) == UNCHANGED <<label, sensitive>>

\* _refresh_row, for the row whose capture is called off
RefreshRow(a) ==
  /\ label' = [label EXCEPT ![a] = GetAccels(a)]
  /\ sensitive' = [sensitive EXCEPT ![a] = a \in Global => available]

\* _on_capture_clicked: a capture that is under way is called off first.
OnCaptureClicked(a) ==
  /\ Click
  /\ dialog /\ sensitive[a]
  /\ a \in Global => available
  /\ a # capturing /\ capturing' = a
  /\ IF capturing = NoAction THEN UNCHANGED <<label, sensitive>> ELSE RefreshRow(capturing)
  /\ UNCHANGED <<managerVars, dialog, linkVars, bridgeVars>>

\* _on_key_pressed: Escape calls the capture off, a key some other shortcut of the domain has is
\* refused and the capture goes on.
OnEscape ==
  /\ Click
  /\ dialog /\ capturing # NoAction
  /\ capturing' = NoAction /\ RefreshRow(capturing)
  /\ UNCHANGED <<managerVars, dialog, linkVars, bridgeVars>>

OnKeyPressed(accel) ==
  /\ Click
  /\ dialog /\ capturing # NoAction
  /\ Conflicts(capturing, accel) = {}
  /\ capturing' = NoAction
  /\ SetAccels(capturing, {accel})
  /\ UNCHANGED <<dialog, connected, toApp, lateWrites, bridgeVars>>

\* _on_reset_clicked.  The button is there while the row's label is not the default.
OnResetClicked(a) ==
  /\ Click
  /\ dialog /\ label[a] # Default[a]
  /\ capturing' = IF capturing = a THEN NoAction ELSE capturing
  /\ SetAccels(a, Default[a])
  /\ UNCHANGED <<dialog, connected, toApp, lateWrites, bridgeVars>>

OnResetAllClicked ==
  /\ Click
  /\ dialog
  /\ capturing' = NoAction
  /\ ResetAllAccels
  /\ UNCHANGED <<dialog, connected, toApp, lateWrites, bridgeVars>>

-----------------------------------------------------------------------------
(* The connection *)

\* extension.js, _readKeybindings: nothing when the schema could not be loaded.
ReadKeybindings(values) == IF schema THEN values ELSE <<>>

\* extension.js, _onMessage: get_keybindings and set_keybinding (_setKeybinding)
BridgeAnswers ==
  /\ toBridge # <<>>
  /\ LET msg == Head(toBridge)
     IN  settings' = IF schema /\ msg.type = "set_keybinding"
                     THEN [settings EXCEPT ![msg.action] = msg.accels] ELSE settings
  /\ toBridge' = Tail(toBridge)
  /\ toApp' = Append(toApp, ReadKeybindings(settings'))
  /\ UNCHANGED <<managerVars, dialogVars, connected, lateWrites, lost, schema, boundVars>>

\* update_global_from_bridge, set_global_available.  Listeners are told when something changed;
\* that availability came with a snapshot that changes nothing is not told.
OnKeybindingsMessage ==
  /\ toApp # <<>>
  /\ toApp' = Tail(toApp)
  /\ UNCHANGED <<overrides, file, unsaved, writeErrors, dialog, connected, toBridge, lateWrites,
                 lost, bridgeVars, boundVars>>
  /\ LET bindings == Head(toApp)
     IN  /\ available' = (bindings # <<>>)
         /\ cache' = IF bindings = <<>> THEN cache ELSE bindings
         /\ capturing' = capturing
         /\ IF cache' # cache \/ (bindings = <<>> /\ available)
            THEN EmitChanged ELSE UNCHANGED <<live, label, sensitive>>

\* _on_bridge_socket_connected that counts on the cache.
OnConnectedQuietly ==
  /\ ~connected /\ connected' = TRUE
  /\ UNCHANGED <<toBridge, managerVars, dialogVars, toApp, lateWrites, lost, bridgeVars, boundVars>>

\* _on_bridge_socket_connected
OnConnected ==
  /\ ~connected /\ connected' = TRUE
  /\ toBridge' = <<[type |-> "get_keybindings"]>>
  /\ UNCHANGED <<managerVars, dialogVars, toApp, lateWrites, lost, bridgeVars, boundVars>>

\* _on_bridge_socket_disconnected (set_global_available), of a connection that may have its own
\* write still under way.
Disconnect ==
  /\ losses < MaxLosses /\ losses' = losses + 1
  /\ lateWrites' \in {lateWrites, lateWrites + 1}
  /\ lost' = FALSE
  /\ toApp' = <<>>
  /\ available' = FALSE
  /\ UNCHANGED <<overrides, file, cache, unsaved, writeErrors, dialog, bridgeVars, clicks, restarts>>
  /\ capturing' = capturing
  /\ IF available THEN EmitChanged ELSE UNCHANGED <<live, label, sensitive>>

\* What was on its way is lost.
OnDisconnected == connected /\ connected' = FALSE /\ toBridge' = <<>> /\ Disconnect

\* A new connection replaces one whose end was not read (_on_incoming): the bridge goes and comes,
\* and the keybindings are asked for.  What waits behind a write of the old connection that has
\* not returned goes to the new one.
Replaced ==
  /\ connected /\ UNCHANGED connected
  /\ Disconnect
  /\ \E k \in 1..(Len(toBridge) + 1) :
       LET kept == SubSeq(toBridge, k, Len(toBridge))
       IN  /\ kept # <<>> => lateWrites' = lateWrites + 1
           /\ toBridge' = Append(kept, [type |-> "get_keybindings"])

\* _on_write_done of a write made on an earlier connection: a failed one clears the lines of the
\* present connection that are still queued, which may be any number of the last.
LateWriteReturns ==
  /\ lateWrites > 0 /\ lateWrites' = lateWrites - 1
  /\ \/ UNCHANGED <<toBridge, lost>>
     \/ /\ connected
        /\ \E k \in 0..(Len(toBridge) - 1) : toBridge' = SubSeq(toBridge, 1, k)
        /\ lost' = (toBridge' = <<>> /\ toApp = <<>>)
  /\ UNCHANGED <<managerVars, dialogVars, connected, toApp, bridgeVars, boundVars>>

\* The app ends, in whatever way, and starts again (_load).
Restart ==
  /\ restarts < MaxRestarts /\ restarts' = restarts + 1
  /\ overrides' = file /\ unsaved' = FALSE
  /\ cache' = [a \in Global |-> {}] /\ available' = FALSE
  /\ live' = [a \in Local |-> IF file[a] = {} THEN Default[a] ELSE file[a]]
  /\ dialog' = FALSE /\ capturing' = NoAction
  /\ connected' = FALSE /\ toBridge' = <<>> /\ toApp' = <<>> /\ lateWrites' = 0 /\ lost' = FALSE
  /\ UNCHANGED <<file, writeErrors, label, sensitive, bridgeVars, clicks, losses>>

-----------------------------------------------------------------------------
Init ==
  /\ overrides = [a \in Local |-> {}] /\ file = overrides
  /\ cache = [a \in Global |-> {}] /\ available = FALSE
  /\ live = [a \in Local |-> Default[a]]
  /\ dialog = FALSE /\ capturing = NoAction
  /\ label = Default /\ sensitive = [a \in Actions |-> FALSE]
  /\ connected = FALSE /\ toBridge = <<>> /\ toApp = <<>> /\ lateWrites = 0 /\ lost = FALSE
  /\ settings = [a \in Global |-> Default[a]] /\ schema \in BOOLEAN
  /\ unsaved = FALSE /\ writeErrors = 0
  /\ clicks = 0 /\ losses = 0 /\ restarts = 0

Next ==
  \/ OpenDialog \/ CloseDialog \/ OnEscape \/ OnResetAllClicked
  \/ \E a \in Actions : OnCaptureClicked(a) \/ OnResetClicked(a)
  \/ \E accel \in Accels : OnKeyPressed(accel)
  \/ BridgeAnswers \/ OnKeybindingsMessage \/ OnConnected \/ OnDisconnected \/ Replaced \/ LateWriteReturns
  \/ Restart

Spec == Init /\ [][Next]_vars
-----------------------------------------------------------------------------
(* Properties *)

Overrides == {over \in [Local -> SUBSET Accels] : \A a \in Local : over[a] # Default[a]}

Request == [type : {"get_keybindings"}]
             \cup [type : {"set_keybinding"}, action : Global, accels : SUBSET Accels]
Report == {<<>>} \cup [Global -> SUBSET Accels]

ManagerTypes ==
  /\ overrides \in Overrides /\ file \in Overrides
  /\ cache \in [Global -> SUBSET Accels] /\ live \in [Local -> SUBSET Accels]

DialogTypes ==
  /\ capturing \in Actions \cup {NoAction}
  /\ label \in [Actions -> SUBSET Accels] /\ DOMAIN sensitive = Actions

LinkTypes ==
  /\ toBridge \in Seq(Request) /\ toApp \in Seq(Report)
  /\ settings \in [Global -> SUBSET Accels]
  /\ lateWrites \in Nat

FlagTypes ==
  /\ available \in BOOLEAN /\ dialog \in BOOLEAN /\ connected \in BOOLEAN
  /\ schema \in BOOLEAN /\ unsaved \in BOOLEAN /\ lost \in BOOLEAN
  /\ \A a \in Actions : sensitive[a] \in BOOLEAN

\* The ranges of the variables; an action that has its default accelerators has no override.
TypeOK == ManagerTypes /\ DialogTypes /\ LinkTypes /\ FlagTypes

\* The editor, the keys and the manager agree: every row but the one being captured shows the
\* accelerators its action has, and those are the ones that work, whatever edits, resets and
\* reports of the bridge come in between, also while another row is being captured
\* (_on_manager_changed, _cancel_capture, _apply_app_accels, populate_shortcut_controller).  While
\* the bridge has no settings to write to, or is not there, the button that captures a key for a
\* global shortcut is greyed out (_refresh_row); its Reset is not.
RowsShowAccels ==
  /\ live = [a \in Local |-> GetAccels(a)]
  /\ dialog => \A a \in Actions \ {capturing} :
       label[a] = GetAccels(a) /\ (a \in Global /\ sensitive[a] => available)

\* When nothing is on its way the cache holds what the bridge has in GSettings and global
\* shortcuts can be edited: edits lost with a connection, and the bridge's answers to older edits,
\* which overwrite the cache for a while, are made good (_on_bridge_socket_connected), and so is an
\* edit that a late failing write of an earlier connection takes with it when another line or
\* answer is still on its way.  The exception is a late write that leaves none: the code does not
\* ask again, and the cache is wrong, or global shortcuts stay unavailable, until the next edit or
\* connection.  And the file holds the user's other shortcuts, so that they survive the app,
\* unless it could not be written (_persist, _load).
CachesAgree ==
  /\ connected /\ toBridge = <<>> /\ toApp = <<>> /\ ~lost =>
       IF schema THEN available /\ cache = settings ELSE ~available
  /\ available => schema /\ connected
  /\ ~unsaved => file = overrides

\* Two shortcuts the user has chosen keys for never share one where both are live: each key was
\* compared with all that were live with it, from either side (find_conflict, _domain_ids).
\* A shortcut that is reset to its default is not compared and may share it.
OverridesApart ==
  \A a, b \in Local :
    a # b /\ (Kind[a] = "app" \/ Kind[b] = "app" \/ Scope[a] = Scope[b]) =>
      overrides[a] \cap overrides[b] = {}

=============================================================================
