-------------------------- MODULE ShellExtensions --------------------------
(***************************************************************************)
(* The extensions as the app sees them: app/core/dbus_client.py, the       *)
(* sidebar (app/ui/extension_list.py), the switch, the star and the        *)
(* uninstall button of the details page (app/ui/details_view.py),          *)
(* the main window's selection (app/main.py) and the installation of the   *)
(* bridge (app/core/bridge_manager.py, app/core/shell_restart.py).         *)
(*                                                                         *)
(* GNOME Shell is external, as the app relies on it: calls, their replies  *)
(* and the signals travel on one D-Bus connection, so each direction is    *)
(* first in, first out.  (dbus_client.py:246-250 tells of a list made      *)
(* before a change that stays in the cache after it; in this order the     *)
(* change's signal comes later and puts it right.)  EnableExtension and    *)
(* DisableExtension return at once and the state changes follow; a         *)
(* DisableExtension may be followed by a spurious signal that the          *)
(* extension is enabled.  Any call may fail.                               *)
(***************************************************************************)
EXTENDS Integers, Sequences, FiniteSets, SequencesExt

CONSTANTS
  Bridge,          \* BRIDGE_UUID
  Others, NoUuid,  \* the other extensions
  MaxClicks,       \* bound: what the user does in the app
  MaxTroubles,     \* bound: changes of extensions outside the app, calls of D-Bus that fail and
                   \* removals of directories that fail
  MaxSessions      \* bound: logins after the first

Uuids == Others \cup {Bridge}

ASSUME ShellExtensionsAssumption ==
  /\ Bridge \notin Others /\ NoUuid \notin Uuids
  /\ MaxClicks \in Nat /\ MaxTroubles \in Nat /\ MaxSessions \in Nat

VARIABLES
  shell,              \* the shell's state of each extension it knows
  wanted,             \* the shell's setting enabled-extensions
  dirs,               \* extensions with a directory on disk
  bridgeCurrent,      \* the bridge on disk is the one the app brings (_is_up_to_date)
  toShell, fromShell, \* calls; replies and signals
  extensions,         \* _extensions of the D-Bus client
  idleLists,          \* list_extensions queued by idle_add
  selected,           \* _active_uuid of the main window
  detail,             \* _active_uuid of the details page
  switch, sensitive,  \* its switch
  pendingDisable,     \* _pending_disable
  star,
  favorites, saved,   \* _favorites and favorites.json
  highlighted,        \* _active_uuid of the sidebar
  rows,               \* the sidebar: the section of each extension
  idleRebuild,        \* _rebuild_from_cache is queued
  bootstrapped,       \* ensure_installed has run
  prompts,            \* dialogs that are open, the last one on top
  disableLost,        \* history: the last use of the switch was a disable, which failed, was taken
                      \* back by another program while the shell was at work, or had nothing to do
                      \* and was taken back later
  listed,             \* history: a list has come in since the app started
  listLost,           \* history: a list failed, and the page was not refreshed since
  returned,           \* history: with nothing selected, the highlighted extension came back
  clicks, outside, errors, sessions

shellVars == <<shell, wanted>>
diskVars == <<dirs, bridgeCurrent>>
busVars == <<toShell, fromShell>>
pageVars == <<detail, switch, sensitive, pendingDisable, star>>
detailVars == <<pageVars, disableLost, listLost>>
cacheVars == <<extensions, listed, returned>>
listVars == <<favorites, saved, highlighted, rows, idleRebuild>>
bridgeVars == <<bootstrapped, prompts>>
boundVars == <<clicks, outside, errors, sessions>>
vars == <<shellVars, diskVars, busVars, cacheVars, idleLists, selected, detailVars, listVars,
          bridgeVars, boundVars>>

Transient == {"ENABLING", "DISABLING"}
States == {"ENABLED", "DISABLED"} \cup Transient

-----------------------------------------------------------------------------
(* GNOME Shell *)

Signal(u, state) == [type |-> "signal", uuid |-> u, state |-> state]

ListReply(ok) == [type |-> "list", ok |-> ok, states |-> IF ok THEN shell ELSE <<>>]

DoneReply(call, ok) == [type |-> "done", uuid |-> call.uuid, method |-> call.method, ok |-> ok,
                        follow |-> call.follow]

Begun == \A u \in DOMAIN shell :
  (u \in wanted => shell[u] # "DISABLED") /\ (u \notin wanted => shell[u] # "ENABLED")

\* The shell takes the next call; it has begun to do what the calls before asked for.
TakeCall ==
  /\ toShell # <<>> /\ toShell' = Tail(toShell)
  /\ Begun
  /\ LET call == Head(toShell)
     IN  \/ /\ call.method = "list"
            /\ fromShell' = Append(fromShell, ListReply(TRUE))
            /\ UNCHANGED <<wanted, errors>>
         \/ /\ call.method # "list" /\ call.uuid \in DOMAIN shell
            /\ wanted' = IF call.method = "enable" THEN wanted \cup {call.uuid}
                         ELSE wanted \ {call.uuid}
            /\ \E spurious \in
                 {<<>>} \cup (IF call.method = "disable" /\ shell[call.uuid] = "ENABLED"
                              THEN {<<Signal(call.uuid, "ENABLED")>>} ELSE {}) :
                 fromShell' = fromShell \o <<DoneReply(call, TRUE)>> \o spurious
            /\ UNCHANGED errors
         \/ /\ outside + errors < MaxTroubles /\ errors' = errors + 1
            /\ fromShell' = Append(fromShell, IF call.method = "list" THEN ListReply(FALSE)
                                             ELSE DoneReply(call, FALSE))
            /\ UNCHANGED wanted
         \/ /\ call.method # "list" /\ call.uuid \notin DOMAIN shell
            /\ fromShell' = Append(fromShell, DoneReply(call, TRUE))
            /\ UNCHANGED <<wanted, errors>>
  /\ UNCHANGED <<shell, diskVars, cacheVars, idleLists, selected, detailVars, listVars,
                 bridgeVars, clicks, outside, sessions>>

SetState(u, state) ==
  /\ shell' = [shell EXCEPT ![u] = state]
  /\ fromShell' = Append(fromShell, Signal(u, state))

\* Extensions follow the setting, in two steps.
FollowSetting(u) ==
  /\ u \in DOMAIN shell
  /\ CASE shell[u] = "ENABLING" -> SetState(u, "ENABLED")
       [] shell[u] = "DISABLING" -> SetState(u, "DISABLED")
       [] shell[u] = "DISABLED" /\ u \in wanted -> SetState(u, "ENABLING")
       [] shell[u] = "ENABLED" /\ u \notin wanted -> SetState(u, "DISABLING")
       [] OTHER -> FALSE
  /\ UNCHANGED <<wanted, diskVars, toShell, cacheVars, idleLists, selected, detailVars, listVars,
                 bridgeVars, boundVars>>

\* Another program switches an extension, removes it or adds it.
ChangeOutside(u) ==
  /\ Begun
  /\ outside + errors < MaxTroubles /\ outside' = outside + 1
  /\ \/ /\ u \in DOMAIN shell
        /\ wanted' = SymDiff(wanted, {u})
        /\ disableLost' = \/ disableLost
                          \/ /\ u = detail /\ pendingDisable
                             /\ shell[u] \in Transient \/ extensions[u] = "DISABLED"
        /\ UNCHANGED <<shell, dirs, fromShell>>
     \/ /\ u \in DOMAIN shell \cap Others
        /\ shell' = [v \in DOMAIN shell \ {u} |-> shell[v]]
        /\ dirs' = dirs \ {u}
        /\ fromShell' = Append(fromShell, Signal(u, "UNINSTALLED"))
        /\ UNCHANGED <<wanted, disableLost>>
     \/ /\ u \in Others \ DOMAIN shell
        /\ shell' = [v \in DOMAIN shell \cup {u} |-> IF v = u THEN "DISABLED" ELSE shell[v]]
        /\ dirs' = dirs \cup {u}
        /\ fromShell' = Append(fromShell, Signal(u, "DISABLED"))
        /\ UNCHANGED <<wanted, disableLost>>
  /\ UNCHANGED <<bridgeCurrent, toShell, cacheVars, idleLists, selected, pageVars, listLost, listVars,
                 bridgeVars, clicks, errors, sessions>>

-----------------------------------------------------------------------------
(* dbus_client.py and those who listen to extensions-changed *)

Call(method, u, follow) == [method |-> method, uuid |-> u, follow |-> follow]
ListCall == Call("list", NoUuid, "nothing")

\* _refresh_in_place that waits for the extension to be disabled and misses that it is enabled.
RefreshInPlaceOnce ==
  IF detail # NoUuid /\ detail \in DOMAIN extensions'
  THEN LET state == extensions'[detail]
       IN  /\ pendingDisable' = pendingDisable
           /\ switch' = (state = "ENABLED" /\ ~pendingDisable)
           /\ sensitive' = (state \notin Transient)
  ELSE UNCHANGED <<pendingDisable, switch, sensitive>>

\* DetailsView._refresh_in_place: the spurious state is kept off the switch.
RefreshInPlace ==
  IF detail # NoUuid /\ detail \in DOMAIN extensions'
  THEN LET state == extensions'[detail]
           pending == pendingDisable /\ state \notin {"DISABLING", "DISABLED"}
       IN  /\ pendingDisable' = pending
           /\ switch' = (state = "ENABLED" /\ ~pending)
           /\ sensitive' = (state \notin Transient)
  ELSE UNCHANGED <<pendingDisable, switch, sensitive>>

\* ExtensionListView._rebuild: a row in one of the sections for each extension but the bridge.
Sections(known) ==
  [u \in DOMAIN known \ {Bridge} |->
     CASE u \in favorites' -> "favorites"
       [] u \notin favorites' /\ known[u] = "ENABLED" -> "enabled"
       [] OTHER -> "disabled"]

\* BridgeManager.ensure_installed, with what the client knows now
EnsureInstalled ==
  CASE Bridge \notin dirs -> prompts' = Append(prompts, "install") /\ UNCHANGED toShell
    [] Bridge \in dirs /\ ~bridgeCurrent -> prompts' = Append(prompts, "update") /\ UNCHANGED toShell
    [] Bridge \in dirs /\ bridgeCurrent /\ Bridge \notin DOMAIN extensions' ->
         prompts' = Append(prompts, "logout") /\ UNCHANGED toShell
    [] OTHER ->
         /\ toShell' = IF extensions'[Bridge] = "ENABLED" THEN toShell
                       ELSE Append(toShell, Call("enable", Bridge, "nothing"))
         /\ UNCHANGED prompts

\* emit extensions-changed: the details page, the sidebar, the main window, which lets go of an
\* extension that is gone, and once the bootstrap of the bridge.
EmitChanged ==
  /\ UNCHANGED <<favorites, saved, highlighted, idleRebuild>>
  /\ rows' = Sections(extensions')
  /\ IF selected # NoUuid /\ selected \notin DOMAIN extensions'
     THEN /\ selected' = NoUuid /\ detail' = NoUuid /\ pendingDisable' = FALSE /\ disableLost' = FALSE
          /\ UNCHANGED <<switch, sensitive, star>>
     ELSE RefreshInPlace /\ UNCHANGED <<selected, detail, star, disableLost>>
  /\ listLost' = FALSE
  /\ returned' = (selected = NoUuid /\ (returned \/ highlighted \in DOMAIN extensions' \ DOMAIN extensions))
  /\ IF bootstrapped THEN UNCHANGED <<toShell, prompts>> ELSE EnsureInstalled
  /\ bootstrapped' = TRUE

\* _on_dbus_signal that only updates extensions it has listed before.
OnSignalOfKnown ==
  /\ fromShell # <<>> /\ Head(fromShell).type = "signal"
  /\ fromShell' = Tail(fromShell)
  /\ LET msg == Head(fromShell)
     IN  extensions' = IF msg.state = "UNINSTALLED"
                       THEN [u \in DOMAIN extensions \ {msg.uuid} |-> extensions[u]]
                       ELSE [u \in DOMAIN extensions |->
                               IF u = msg.uuid THEN msg.state ELSE extensions[u]]
  /\ EmitChanged
  /\ UNCHANGED <<shellVars, diskVars, idleLists, listed, boundVars>>

\* _on_dbus_signal
OnSignal ==
  /\ fromShell # <<>> /\ Head(fromShell).type = "signal"
  /\ fromShell' = Tail(fromShell)
  /\ LET msg == Head(fromShell)
     IN  extensions' = IF msg.state = "UNINSTALLED"
                       THEN [u \in DOMAIN extensions \ {msg.uuid} |-> extensions[u]]
                       ELSE [u \in DOMAIN extensions \cup {msg.uuid} |->
                               IF u = msg.uuid THEN msg.state ELSE extensions[u]]
  /\ EmitChanged
  /\ UNCHANGED <<shellVars, diskVars, idleLists, listed, boundVars>>

\* _on_list_done: a list that failed is logged, and not asked for again.
OnListDone ==
  /\ fromShell # <<>> /\ Head(fromShell).type = "list"
  /\ fromShell' = Tail(fromShell)
  /\ \/ /\ Head(fromShell).ok
        /\ extensions' = Head(fromShell).states /\ listed' = TRUE
        /\ EmitChanged
     \/ /\ ~Head(fromShell).ok
        /\ listLost' = TRUE
        /\ UNCHANGED <<toShell, cacheVars, selected, pageVars, disableLost, listVars, bridgeVars>>
  /\ UNCHANGED <<shellVars, diskVars, idleLists, boundVars>>

Removes(u) ==
  \/ dirs' = dirs \ {u} /\ UNCHANGED errors
  \/ u \in dirs /\ outside + errors < MaxTroubles /\ errors' = errors + 1 /\ UNCHANGED dirs

\* DetailsView._do_uninstall, remove_extension
DoUninstall(u) ==
  /\ Removes(u)
  /\ IF u \in dirs'
     THEN UNCHANGED <<toShell, prompts, detail, pendingDisable, disableLost>>
     ELSE /\ toShell' = Append(toShell, ListCall)
          /\ prompts' = Append(prompts, "logout")
          /\ IF detail = u
             THEN detail' = NoUuid /\ pendingDisable' = FALSE /\ disableLost' = FALSE
             ELSE UNCHANGED <<detail, pendingDisable, disableLost>>
  /\ UNCHANGED bridgeCurrent

\* BridgeManager._finish_uninstall
FinishUninstall ==
  /\ Removes(Bridge)
  /\ prompts' = Append(prompts, IF Bridge \in dirs' THEN "error" ELSE "logout")
  /\ UNCHANGED <<bridgeCurrent, toShell, detail, pendingDisable, disableLost>>

\* _on_toggle_done: what was to follow the call, and after an error another list.
OnToggleDone ==
  /\ fromShell # <<>> /\ Head(fromShell).type = "done"
  /\ fromShell' = Tail(fromShell)
  /\ LET msg == Head(fromShell)
     IN  /\ CASE msg.follow = "uninstall" -> DoUninstall(msg.uuid)
              [] msg.follow = "bridge" -> FinishUninstall
              [] OTHER -> /\ disableLost' = \/ disableLost
                                            \/ ~msg.ok /\ pendingDisable /\ msg.uuid = detail
                          /\ UNCHANGED <<diskVars, toShell, prompts, detail, pendingDisable, errors>>
         /\ idleLists' = IF msg.ok THEN idleLists ELSE idleLists + 1
  /\ UNCHANGED <<shellVars, cacheVars, selected, switch, sensitive, star, listLost, listVars,
                 bootstrapped, clicks, outside, sessions>>

OnIdleList ==
  /\ idleLists > 0 /\ idleLists' = idleLists - 1
  /\ toShell' = Append(toShell, ListCall)
  /\ UNCHANGED <<shellVars, diskVars, fromShell, cacheVars, selected, detailVars, listVars,
                 bridgeVars, boundVars>>

-----------------------------------------------------------------------------
(* The user.  A dialog keeps the window from being used. *)

Click ==
  /\ clicks < MaxClicks /\ clicks' = clicks + 1
  /\ prompts = <<>>
  /\ UNCHANGED <<shellVars, fromShell, cacheVars, idleLists, outside, errors, sessions>>

\* A row that is not highlighted is clicked: ExtensionListView._on_row_selected,
\* MainWindow._on_extension_activated, DetailsView.set_active_extension.
ClickRow(u) ==
  /\ Click
  /\ u \in DOMAIN rows /\ u # highlighted
  /\ highlighted' = u /\ selected' = u /\ detail' = u
  /\ pendingDisable' = FALSE /\ disableLost' = FALSE /\ listLost' = FALSE
  /\ switch' = (u \in DOMAIN extensions /\ extensions[u] = "ENABLED")
  /\ sensitive' = (u \in DOMAIN extensions => extensions[u] \notin Transient)
  /\ star' = (u \in favorites)
  /\ UNCHANGED <<diskVars, toShell, favorites, saved, rows, idleRebuild, bridgeVars>>

\* DetailsView._on_switch_toggled
ToggleSwitch ==
  /\ Click
  /\ detail # NoUuid /\ sensitive
  /\ switch' = ~switch /\ pendingDisable' = ~switch' /\ disableLost' = FALSE
  /\ toShell' = Append(toShell, Call(IF switch' THEN "enable" ELSE "disable", detail, "nothing"))
  /\ UNCHANGED <<diskVars, selected, detail, sensitive, star, listLost, listVars, bridgeVars>>

\* toggle_favorite that leaves the sidebar as it is.
ToggleStarOnly ==
  /\ Click
  /\ detail # NoUuid
  /\ star' = ~star
  /\ favorites' = IF selected = NoUuid THEN favorites ELSE SymDiff(favorites, {selected})
  /\ saved' = favorites'
  /\ UNCHANGED <<diskVars, toShell, selected, detail, switch, sensitive, pendingDisable, disableLost,
                 listLost, highlighted, rows, idleRebuild, bridgeVars>>

\* DetailsView._on_star_toggled, MainWindow._on_favorite_toggled, toggle_favorite
ToggleStar ==
  /\ Click
  /\ detail # NoUuid
  /\ star' = ~star
  /\ favorites' = IF selected = NoUuid THEN favorites ELSE SymDiff(favorites, {selected})
  /\ saved' = favorites' /\ idleRebuild' = TRUE
  /\ UNCHANGED <<diskVars, toShell, selected, detail, switch, sensitive, pendingDisable, disableLost,
                 listLost, highlighted, rows, bridgeVars>>

RebuildFromCache ==
  /\ idleRebuild /\ idleRebuild' = FALSE
  /\ UNCHANGED <<favorites, saved, highlighted>>
  /\ rows' = Sections(extensions)
  /\ UNCHANGED <<shellVars, diskVars, busVars, cacheVars, idleLists, selected, detailVars,
                 bridgeVars, boundVars>>

\* DetailsView._on_uninstall_clicked, confirmed
Uninstall ==
  /\ Click
  /\ detail \in DOMAIN extensions
  /\ toShell' = Append(toShell, Call("disable", detail, "uninstall"))
  /\ UNCHANGED <<diskVars, selected, detailVars, listVars, bridgeVars>>

\* MainWindow._update_bridge_actions disables what does not apply.
InstallBridge == Click /\ Bridge \notin dirs /\ prompts' = <<"logout">>
                 /\ dirs' = dirs \cup {Bridge} /\ bridgeCurrent' = TRUE
                 /\ UNCHANGED <<toShell, selected, detailVars, listVars, bootstrapped>>

ReinstallBridge == Click /\ Bridge \in dirs /\ prompts' = <<"logout">>
                   /\ bridgeCurrent' = TRUE
                   /\ UNCHANGED <<dirs, toShell, selected, detailVars, listVars, bootstrapped>>

\* BridgeManager.uninstall: the bridge is disabled first, unless it is already.
UninstallBridge ==
  /\ clicks < MaxClicks /\ clicks' = clicks + 1
  /\ prompts = <<>>
  /\ Bridge \in dirs
  /\ IF Bridge \in DOMAIN extensions /\ extensions[Bridge] # "DISABLED"
     THEN /\ toShell' = Append(toShell, Call("disable", Bridge, "bridge"))
          /\ UNCHANGED <<diskVars, prompts, detail, pendingDisable, disableLost, errors>>
     ELSE FinishUninstall
  /\ UNCHANGED <<shellVars, fromShell, cacheVars, idleLists, selected, switch, sensitive, star,
                 listLost, listVars, bootstrapped, outside, sessions>>

\* The user answers the dialog on top: _on_install_response, _on_update_response.
AnswerPrompt(yes) ==
  /\ prompts # <<>>
  /\ LET rest == Front(prompts)
     IN  IF yes /\ Last(prompts) \in {"install", "update"}
         THEN /\ dirs' = dirs \cup {Bridge} /\ bridgeCurrent' = TRUE
              /\ prompts' = Append(rest, "logout")
         ELSE prompts' = rest /\ UNCHANGED diskVars
  /\ UNCHANGED <<shellVars, busVars, cacheVars, idleLists, selected, detailVars, listVars,
                 bootstrapped, boundVars>>

\* The user logs out, asked to or not, and in again: the app asks to disable the bridge as it
\* ends (do_shutdown, which may come too late), the shell finds the extensions on disk, and the
\* app starts.
NewSession ==
  /\ sessions < MaxSessions /\ sessions' = sessions + 1
  /\ wanted' \in {wanted, wanted \ {Bridge}}
  /\ shell' = [u \in dirs |-> IF u \in wanted' THEN "ENABLED" ELSE "DISABLED"]
  /\ toShell' = <<ListCall>> /\ fromShell' = <<>>
  /\ extensions' = <<>> /\ idleLists' = 0
  /\ selected' = NoUuid /\ detail' = NoUuid /\ highlighted' = NoUuid
  /\ switch' = FALSE /\ sensitive' = TRUE /\ pendingDisable' = FALSE /\ star' = FALSE
  /\ disableLost' = FALSE /\ listed' = FALSE /\ listLost' = FALSE /\ returned' = FALSE
  /\ favorites' = saved /\ rows' = <<>> /\ idleRebuild' = FALSE
  /\ bootstrapped' = FALSE /\ prompts' = <<>>
  /\ UNCHANGED <<diskVars, saved, clicks, outside, errors>>

-----------------------------------------------------------------------------
Init ==
  /\ dirs \in SUBSET Uuids /\ Others \subseteq dirs /\ bridgeCurrent \in BOOLEAN
  /\ wanted \in SUBSET Uuids
  /\ shell = [u \in dirs |-> IF u \in wanted THEN "ENABLED" ELSE "DISABLED"]
  /\ toShell = <<ListCall>> /\ fromShell = <<>>
  /\ extensions = <<>> /\ idleLists = 0
  /\ selected = NoUuid /\ detail = NoUuid /\ highlighted = NoUuid
  /\ switch = FALSE /\ sensitive = TRUE /\ pendingDisable = FALSE /\ star = FALSE
  /\ disableLost = FALSE /\ listed = FALSE /\ listLost = FALSE /\ returned = FALSE
  /\ favorites = {} /\ saved = {} /\ rows = <<>> /\ idleRebuild = FALSE
  /\ bootstrapped = FALSE /\ prompts = <<>>
  /\ clicks = 0 /\ outside = 0 /\ errors = 0 /\ sessions = 0

Next ==
  \/ TakeCall
  \/ \E u \in Uuids : FollowSetting(u) \/ ChangeOutside(u) \/ ClickRow(u)
  \/ OnSignal \/ OnListDone \/ OnToggleDone \/ OnIdleList
  \/ ToggleSwitch \/ ToggleStar \/ RebuildFromCache \/ Uninstall
  \/ InstallBridge \/ ReinstallBridge \/ UninstallBridge
  \/ \E yes \in BOOLEAN : AnswerPrompt(yes)
  \/ NewSession

Spec == Init /\ [][Next]_vars
-----------------------------------------------------------------------------
(* Properties *)

Quiet == toShell = <<>> /\ fromShell = <<>> /\ idleLists = 0

Followed == \A u \in DOMAIN shell : shell[u] = IF u \in wanted THEN "ENABLED" ELSE "DISABLED"

\* When nothing is on its way every extension the client knows is one the shell has, in its state,
\* and once a list has come in since the app started it knows all of them: a list made before a
\* change cannot undo the change's signal, which comes after it, whatever calls fail and whatever
\* other programs do (_on_dbus_signal, _on_list_done, _on_toggle_done).  When the first list fails
\* the client knows only what signals tell it of, until a later list.
CacheAgrees ==
  Quiet => /\ \A u \in DOMAIN extensions : u \in DOMAIN shell /\ extensions[u] = shell[u]
           /\ listed => DOMAIN extensions = DOMAIN shell

\* And once the shell has done what it was asked to, the switch of the details page shows whether
\* the extension is enabled and can be used: the spurious signal after a disable is kept off it,
\* what is kept off is not kept off for longer (_pending_disable), and an enable that failed is
\* taken back by the list that follows (_on_toggle_done), whatever other programs do.  The
\* exceptions are a disable asked for on the page that failed, was taken back half way, or had
\* nothing to do (the enable before it failed) so that no signal of it ever came; and a list that
\* failed, after which the switch stays as it is until the next signal of any extension.
SwitchSettles ==
  Quiet /\ Followed /\ detail \in DOMAIN extensions /\ ~disableLost /\ ~listLost =>
    sensitive /\ switch = (extensions[detail] = "ENABLED")

\* Sidebar, details page and main window agree: the selected extension is a known one, is the one
\* highlighted, and the details page shows that one with the star it has, or nothing once it was
\* removed; with nothing selected no row is highlighted; each row is in the section its state and
\* the favorites call for.  The exception is an extension that comes back after it was removed
\* while selected: the window lets go of it (_on_extensions_changed) and the sidebar does not, so
\* _restore_selection highlights it again over the blank page.
WindowAgrees ==
  /\ IF selected = NoUuid THEN detail = NoUuid /\ (highlighted \in DOMAIN rows => returned)
     ELSE selected \in DOMAIN extensions /\ highlighted = selected /\ detail \in {selected, NoUuid}
  /\ detail # NoUuid => star = (detail \in favorites)
  /\ DOMAIN rows = DOMAIN extensions \ {Bridge}
  /\ ~idleRebuild => \A u \in DOMAIN rows :
       rows[u] = IF u \in favorites THEN "favorites"
                 ELSE IF extensions[u] = "ENABLED" THEN "enabled" ELSE "disabled"

=============================================================================
