----------------------------- MODULE Installer -----------------------------
(***************************************************************************)
(* Installing, updating, checking and uninstalling extensions:             *)
(* app/core/github_installer.py, ego_installer.py, extension_install.py,   *)
(* extension_remover.py and source_registry.py, driven by the install      *)
(* dialog, the details page and the extension list.                        *)
(*                                                                         *)
(* An install is a pipeline: HTTP replies on the main loop, then a worker  *)
(* thread that replaces the extension's directory, then an idle callback   *)
(* that records where the extension came from.  Meanwhile gnome-shell's    *)
(* signals make the extension list prune the registry, the user may        *)
(* uninstall, and the app may end at any moment.                           *)
(*                                                                         *)
(* A version stands for a commit of a GitHub repository or a version       *)
(* number on extensions.gnome.org; an archive holds the extension it was   *)
(* asked for.                                                              *)
(***************************************************************************)
EXTENDS Integers, Sequences, FiniteSets

CONSTANTS Uuids, NoUuid,
          Kinds,          \* where extensions come from: "github", "ego"
          MaxVersion,     \* bound: versions published
          MaxJobs,        \* bound: installs and updates
          MaxChecks,      \* bound: checks asked for on the page under way at once
          MaxFaults,      \* bound: crashes, failed writes, moves and D-Bus calls
          OneAtATime,     \* the user waits for an install before starting one of the same extension
          Uninstalls      \* the user may uninstall

ASSUME InstallerAssumption ==
  /\ NoUuid \notin Uuids
  /\ Kinds \subseteq {"github", "ego"}
  /\ MaxVersion \in Nat \ {0} /\ MaxJobs \in Nat /\ MaxChecks \in Nat /\ MaxFaults \in Nat
  /\ OneAtATime \in BOOLEAN /\ Uninstalls \in BOOLEAN

VARIABLES
  newest,      \* the newest version each kind of source offers
  dir,         \* what stands in the extensions directory
  sources,     \* SourceRegistry._sources
  saved,       \* sources.json
  known,       \* the installers' _known_updates, 0 for none
  marked,      \* the list's _updates: rows with a blue dot
  listed,      \* extensions gnome-shell knows of
  listing,     \* a ListExtensions call is under way
  startup,     \* the update checks of the start are still to be sent
  activeUuid, activeSource,  \* the extension on the details page and its source when it was shown
  offered,     \* kinds whose Update row is visible on the details page
  checks,      \* update checks under way
  removals,    \* uninstalls waiting for the extension to be disabled
  jobs,        \* installs begun, each with the step it has reached
  idle,        \* idle callbacks of worker threads: a job and whether it succeeded
  faults

shellVars == <<newest, listed, listing>>
noteVars == <<known, marked, startup, checks, removals>>
pageVars == <<activeUuid, activeSource, offered>>
registryVars == <<sources, saved>>
vars == <<newest, dir, sources, saved, known, marked, listed, listing, startup, activeUuid,
          activeSource, offered, checks, removals, jobs, idle, faults>>

NoDir == [kind |-> "none", version |-> 0]
Broken == [kind |-> "broken", version |-> 0]    \* half removed or half copied
ByHand == [kind |-> "by hand", version |-> 0]   \* put there by the user
NoSource == [kind |-> "none", version |-> 0, since |-> 0]

\* An install that succeeded, failed or was cut off.
Settled == [kind |-> "none", uuid |-> NoUuid, pc |-> "done", version |-> 0, update |-> FALSE, since |-> 0]

Unsettled(j) == jobs[j] # Settled
Settle(j) == jobs' = [jobs EXCEPT ![j] = Settled]
Busy(u) == \E j \in DOMAIN jobs : jobs[j].uuid = u /\ Unsettled(j)
At(j, pc) == j \in DOMAIN jobs /\ jobs[j].pc = pc
Fault == faults < MaxFaults /\ faults' = faults + 1

\* _persist: an error is logged and the file stays as it was.
Persist(registry) ==
  /\ sources' = registry
  /\ \/ saved' = registry /\ UNCHANGED faults
     \/ UNCHANGED saved /\ Fault

-----------------------------------------------------------------------------
(* The user: install dialog and details page *)

Begin(k, u, pc, update) ==
  /\ Len(jobs) < MaxJobs
  /\ OneAtATime => ~Busy(u)
  /\ jobs' = Append(jobs, [kind |-> k, uuid |-> u, pc |-> pc, version |-> 0,
                           update |-> update, since |-> sources[u].since])

\* install: GitHub asks for the default branch first unless the URL names one.
Install(k, u) ==
  /\ \/ Begin(k, u, "lookup", FALSE)
     \/ k = "github" /\ Begin(k, u, "branch", FALSE)
  /\ UNCHANGED <<shellVars, dir, registryVars, noteVars, pageVars, idle, faults>>

\* update: its button is insensitive until the last update answered.
Update(k) ==
  /\ activeUuid # NoUuid /\ activeSource.kind = k /\ k \in offered
  /\ ~\E j \in DOMAIN jobs : jobs[j].kind = k /\ jobs[j].update /\ Unsettled(j)
  /\ Begin(k, activeUuid, "lookup", TRUE)
  /\ UNCHANGED <<shellVars, dir, registryVars, noteVars, pageVars, idle, faults>>

\* set_active_extension: the page keeps the source until another extension is shown.
Show(u) ==
  /\ u \in listed
  /\ activeUuid' = u
  /\ activeSource' = sources[u]
  /\ LET k == sources[u].kind
     IN  offered' = IF k \notin Kinds THEN offered
                    ELSE IF known[k][u] # 0 THEN offered \cup {k} ELSE offered \ {k}
  /\ UNCHANGED <<shellVars, dir, registryVars, noteVars, jobs, idle, faults>>

\* The Check button; the source to compare with is the page's.
CheckFromPage ==
  /\ activeUuid # NoUuid /\ activeSource # NoSource
  /\ Cardinality(checks) < MaxChecks
  /\ checks' = checks \cup {[uuid |-> activeUuid, source |-> activeSource, manual |-> TRUE]}
  /\ UNCHANGED <<shellVars, dir, registryVars, known, marked, startup, removals, pageVars, jobs,
                 idle, faults>>

Uninstall ==
  /\ Uninstalls /\ activeUuid \in listed
  /\ removals' = removals \cup {activeUuid}
  /\ UNCHANGED <<shellVars, dir, registryVars, known, marked, startup, checks, pageVars, jobs,
                 idle, faults>>

-----------------------------------------------------------------------------
(* Replies on the main loop *)

Move(j, pc) == jobs' = [jobs EXCEPT ![j].pc = pc]

\* Requests fail: network, HTTP status, bad JSON, missing fields, no compatible download.
RequestFails(j) ==
  /\ At(j, "branch") \/ At(j, "lookup") \/ At(j, "download")
  /\ Settle(j)
  /\ UNCHANGED <<shellVars, dir, registryVars, noteVars, pageVars, idle, faults>>

OnRepoInfo(j) == At(j, "branch") /\ Move(j, "lookup")

\* The commit, or the version and its download, are pinned here.
OnLookup(j) ==
  /\ At(j, "lookup")
  /\ jobs' = [jobs EXCEPT ![j].pc = "download", ![j].version = newest[jobs[j].kind][jobs[j].uuid]]

\* The archive is handed to a worker thread.
OnArchive(j) == At(j, "download") /\ Move(j, "staging")

ReplyStep(j) ==
  /\ OnRepoInfo(j) \/ OnLookup(j) \/ OnArchive(j)
  /\ UNCHANGED <<shellVars, dir, registryVars, noteVars, pageVars, idle, faults>>

IsNewer(k, version, source) ==
  IF k = "ego" THEN version > source.version ELSE version # source.version

\* update-available: the installer, the list and the page note it.  Only a check asked for
\* on the page hides the row again.
OnCheckDone(c) ==
  LET k == c.source.kind
      version == newest[k][c.uuid]
  IN  /\ checks' = checks \ {c}
      /\ IF IsNewer(k, version, c.source)
         THEN /\ known' = [known EXCEPT ![k][c.uuid] = version]
              /\ marked' = marked \cup {c.uuid}
              /\ offered' = IF c.manual \/ c.uuid = activeUuid THEN offered \cup {k} ELSE offered
         ELSE /\ offered' = IF c.manual THEN offered \ {k} ELSE offered
              /\ UNCHANGED <<known, marked>>
      /\ UNCHANGED <<shellVars, dir, registryVars, startup, removals, activeUuid, activeSource,
                     jobs, idle, faults>>

CheckFails(c) ==
  /\ checks' = checks \ {c}
  /\ UNCHANGED <<shellVars, dir, registryVars, known, marked, startup, removals, pageVars, jobs,
                 idle, faults>>

\* _do_uninstall, when the extension is disabled (or could not be).
DoUninstall(u) ==
  /\ u \in removals
  /\ removals' = removals \ {u}
  /\ \/ /\ dir' = [dir EXCEPT ![u] = NoDir]
        /\ listing' = TRUE
        /\ activeUuid' = IF activeUuid = u THEN NoUuid ELSE activeUuid
        /\ IF sources[u] # NoSource THEN Persist([sources EXCEPT ![u] = NoSource])
           ELSE UNCHANGED <<registryVars, faults>>
     \/ /\ dir[u] # NoDir /\ Fault
        /\ \E left \in {dir[u], Broken} : dir' = [dir EXCEPT ![u] = left]
        /\ UNCHANGED <<listing, registryVars, activeUuid>>
  /\ UNCHANGED <<newest, listed, known, marked, startup, checks, activeSource, offered, jobs, idle>>

-----------------------------------------------------------------------------
(* A worker thread *)

\* Variant: the error is only logged.
StageFailsSilently(j) ==
  /\ At(j, "staging")
  /\ Move(j, "idle")
  /\ UNCHANGED <<shellVars, dir, registryVars, noteVars, pageVars, idle, faults>>

\* A bad archive, no metadata, schemas that do not compile: nothing was touched yet.
StageFails(j) ==
  /\ At(j, "staging")
  /\ Move(j, "idle")
  /\ idle' = Append(idle, [job |-> j, ok |-> FALSE])
  /\ UNCHANGED <<shellVars, dir, registryVars, noteVars, pageVars, faults>>

Stage(j) == At(j, "staging") /\ Move(j, "clearing") /\ UNCHANGED <<dir, idle, faults>>

ClearTarget(j) ==
  /\ At(j, "clearing")
  /\ \/ /\ dir' = [dir EXCEPT ![jobs[j].uuid] = NoDir]
        /\ Move(j, "moving")
        /\ UNCHANGED <<idle, faults>>
     \/ /\ dir[jobs[j].uuid] # NoDir /\ Fault
        /\ \E left \in {dir[jobs[j].uuid], Broken} : dir' = [dir EXCEPT ![jobs[j].uuid] = left]
        /\ Move(j, "idle")
        /\ idle' = Append(idle, [job |-> j, ok |-> FALSE])

\* shutil.move puts the staged tree inside a directory that is there already.
MoveIn(j) ==
  LET u == jobs[j].uuid
      staged == [kind |-> jobs[j].kind, version |-> jobs[j].version]
  IN  /\ At(j, "moving")
      /\ \/ /\ dir' = [dir EXCEPT ![u] = IF @ = NoDir THEN staged ELSE @]
            /\ Move(j, "moved")
            /\ UNCHANGED <<idle, faults>>
         \/ /\ Fault
            /\ \E left \in {dir[u], Broken} : dir' = [dir EXCEPT ![u] = left]
            /\ Move(j, "idle")
            /\ idle' = Append(idle, [job |-> j, ok |-> FALSE])

Report(j) ==
  /\ At(j, "moved")
  /\ Move(j, "idle")
  /\ idle' = Append(idle, [job |-> j, ok |-> TRUE])
  /\ UNCHANGED <<dir, faults>>

WorkerStep(j) ==
  /\ Stage(j) \/ ClearTarget(j) \/ MoveIn(j) \/ Report(j)
  /\ UNCHANGED <<shellVars, registryVars, noteVars, pageVars>>

-----------------------------------------------------------------------------
(* Idle callbacks of the workers *)

\* The install time is kept; EGO keeps only that of an EGO install.
KeptSince(k, u, now) ==
  IF sources[u] # NoSource /\ (k = "github" \/ sources[u].kind = "ego") THEN sources[u].since ELSE now

Finish(j, version, refresh) ==
  LET u == jobs[j].uuid
      k == jobs[j].kind
  IN  /\ Persist([sources EXCEPT ![u] =
                    [kind |-> k, version |-> version, since |-> KeptSince(k, u, j)]])
      /\ known' = [known EXCEPT ![k][u] = 0]
      /\ listing' = (listing \/ refresh)
      /\ offered' = IF jobs[j].update THEN offered \ {k} ELSE offered

NextIdle(j) == idle # <<>> /\ Head(idle).job = j /\ idle' = Tail(idle) /\ Settle(j)

\* Variant: records what is the newest now.
FinishInstallNewest(j) ==
  /\ NextIdle(j) /\ Head(idle).ok
  /\ Finish(j, newest[jobs[j].kind][jobs[j].uuid], TRUE)
  /\ UNCHANGED <<newest, listed, dir, marked, startup, checks, removals, activeUuid, activeSource>>

\* Variant: nobody is told of the install.
FinishInstallQuietly(j) ==
  /\ NextIdle(j) /\ Head(idle).ok
  /\ Finish(j, jobs[j].version, FALSE)
  /\ UNCHANGED <<newest, listed, dir, marked, startup, checks, removals, activeUuid, activeSource>>

\* _finish_install: records the source, emits installed, and the window lists again.
FinishInstall(j) ==
  /\ NextIdle(j) /\ Head(idle).ok
  /\ Finish(j, jobs[j].version, TRUE)
  /\ UNCHANGED <<newest, listed, dir, marked, startup, checks, removals, activeUuid, activeSource>>

Fail(j) ==
  /\ NextIdle(j) /\ ~Head(idle).ok
  /\ UNCHANGED <<shellVars, dir, registryVars, noteVars, pageVars, faults>>

-----------------------------------------------------------------------------
(* gnome-shell *)

\* check_updates: a check for every extension with a source that gnome-shell knows.
StartupChecks(registry) ==
  {[uuid |-> u, source |-> registry[u], manual |-> FALSE] : u \in {v \in listed : registry[v] # NoSource}}

\* extensions-changed: the list reconciles the registry with the directories and drops marks
\* of extensions without a source, the window forgets an active extension that is gone, and
\* the first one sends the update checks.
ExtensionsChanged ==
  LET stale == {u \in Uuids : sources[u] # NoSource /\ dir[u] = NoDir}
      kept == [u \in Uuids |-> IF u \in stale THEN NoSource ELSE sources[u]]
  IN  /\ IF stale # {} THEN Persist(kept) ELSE UNCHANGED <<registryVars, faults>>
      /\ marked' = {u \in marked : kept[u] # NoSource /\ u \in listed}
      /\ activeUuid' = IF activeUuid \in listed THEN activeUuid ELSE NoUuid
      /\ startup' = FALSE
      /\ checks' = IF startup THEN checks \cup StartupChecks(kept) ELSE checks
      /\ UNCHANGED <<newest, listed, dir, known, removals, activeSource, offered, jobs, idle>>

OnListDone == listing /\ listing' = FALSE /\ ExtensionsChanged

\* ExtensionStateChanged: some extension was enabled, disabled or failed.
OnSignal == UNCHANGED listing /\ ExtensionsChanged

ListFails ==
  /\ listing /\ listing' = FALSE /\ Fault
  /\ UNCHANGED <<newest, listed, dir, registryVars, noteVars, pageVars, jobs, idle>>

Present == {u \in Uuids : dir[u] # NoDir}

\* gnome-shell reads the extensions directory when it starts.
ShellRestarts ==
  /\ listed' = Present
  /\ UNCHANGED <<newest, listing, dir, registryVars, noteVars, pageVars, jobs, idle, faults>>

Publish(k, u) ==
  /\ newest[k][u] < MaxVersion
  /\ newest' = [newest EXCEPT ![k][u] = @ + 1]
  /\ UNCHANGED <<listed, listing, dir, registryVars, noteVars, pageVars, jobs, idle, faults>>

\* The app ends, by a crash or with its window, and is started again.  Worker threads end
\* with it, perhaps half way through a removal or a copy.
AppEnds ==
  /\ Fault
  /\ \E torn \in SUBSET {jobs[j].uuid : j \in {i \in DOMAIN jobs : At(i, "clearing") \/ At(i, "moving")}} :
       dir' = [u \in Uuids |-> IF u \in torn THEN Broken ELSE dir[u]]
  /\ sources' = saved
  /\ known' = [k \in Kinds |-> [u \in Uuids |-> 0]]
  /\ marked' = {} /\ listing' = TRUE /\ startup' = TRUE
  /\ activeUuid' = NoUuid /\ activeSource' = NoSource /\ offered' = {}
  /\ checks' = {} /\ removals' = {} /\ idle' = <<>>
  /\ jobs' = [j \in DOMAIN jobs |-> Settled]
  /\ UNCHANGED <<newest, listed, saved>>

-----------------------------------------------------------------------------
Init ==
  /\ newest = [k \in Kinds |-> [u \in Uuids |-> 1]]
  /\ dir \in [Uuids -> {NoDir, ByHand} \cup [kind : Kinds, version : {1}]]
  /\ sources = [u \in Uuids |-> IF dir[u].kind \in Kinds
                                THEN [kind |-> dir[u].kind, version |-> 1, since |-> 0] ELSE NoSource]
  /\ saved = sources
  /\ known = [k \in Kinds |-> [u \in Uuids |-> 0]]
  /\ marked = {} /\ listed = Present /\ listing = TRUE /\ startup = TRUE
  /\ activeUuid = NoUuid /\ activeSource = NoSource /\ offered = {}
  /\ checks = {} /\ removals = {} /\ jobs = <<>> /\ idle = <<>> /\ faults = 0

JobStep(j) ==
  \/ RequestFails(j) \/ ReplyStep(j) \/ StageFails(j) \/ WorkerStep(j)
  \/ FinishInstall(j) \/ Fail(j)

Next ==
  \/ \E k \in Kinds, u \in Uuids : Install(k, u) \/ Publish(k, u)
  \/ \E k \in Kinds : Update(k)
  \/ \E u \in Uuids : Show(u) \/ DoUninstall(u)
  \/ CheckFromPage \/ Uninstall
  \/ \E c \in checks : OnCheckDone(c) \/ CheckFails(c)
  \/ \E j \in 1..MaxJobs : JobStep(j)
  \/ OnListDone \/ OnSignal \/ ListFails \/ ShellRestarts \/ AppEnds

\* Requests are answered or fail, worker threads run, idle callbacks are called.
Fairness == \A j \in 1..MaxJobs : WF_vars(JobStep(j))

Spec == Init /\ [][Next]_vars
FairSpec == Spec /\ Fairness

-----------------------------------------------------------------------------
(* Properties *)

Source == [kind : Kinds, version : 1..MaxVersion, since : 0..MaxJobs]
Directory == {NoDir, Broken, ByHand} \cup [kind : Kinds, version : 1..MaxVersion]
Check == [uuid : Uuids, source : Source, manual : BOOLEAN]

\* The version is pinned by the lookup.
Job ==
  [kind : Kinds, uuid : Uuids, update : BOOLEAN, since : 0..MaxJobs,
   version : {0}, pc : {"branch", "lookup"}]
    \cup [kind : Kinds, uuid : Uuids, update : BOOLEAN, since : 0..MaxJobs,
          version : 1..MaxVersion, pc : {"download", "staging", "clearing", "moving", "moved", "idle"}]

Completion == [job : 1..MaxJobs, ok : BOOLEAN]

Registry == [Uuids -> {NoSource} \cup Source]

DirTypes ==
  /\ newest \in [Kinds -> [Uuids -> 1..MaxVersion]] /\ dir \in [Uuids -> Directory]
  /\ sources \in Registry /\ saved \in Registry

PageTypes ==
  /\ known \in [Kinds -> [Uuids -> 0..MaxVersion]]
  /\ marked \subseteq Uuids /\ listed \subseteq Uuids /\ removals \subseteq Uuids
  /\ activeUuid \in Uuids \cup {NoUuid} /\ activeSource \in {NoSource} \cup Source
  /\ offered \subseteq Kinds /\ checks \subseteq Check

JobTypes ==
  /\ jobs \in Seq({Settled} \cup Job) /\ Len(jobs) <= MaxJobs
  /\ idle \in Seq(Completion)

FlagTypes == listing \in BOOLEAN /\ startup \in BOOLEAN

TypeOK == DirTypes /\ PageTypes /\ JobTypes /\ FlagTypes /\ faults \in 0..MaxFaults

\* When no install of an extension and no list is under way and nothing went wrong below the
\* app, the registry names a source for exactly the extensions the app installed, and the
\* version that stands in the directory: whatever installs, uninstalls, reconciliations
\* and checks came before, in whatever order.
InStep ==
  \A u \in Uuids :
    (faults = 0 /\ ~Busy(u) /\ ~listing) =>
      IF dir[u].kind \in Kinds
      THEN sources[u].kind = dir[u].kind /\ sources[u].version = dir[u].version
      ELSE sources[u] = NoSource

\* Even after crashes, failed writes and half-done moves, the registry never claims a
\* later version than the one that is installed: an update is not hidden.
NeverAhead ==
  \A u \in Uuids :
    (dir[u].kind \in Kinds /\ sources[u].kind = dir[u].kind) => sources[u].version <= dir[u].version

\* The dialog and the page are answered: every install succeeds, fails, or ends with the app.
InstallsSettle == \A j \in 1..MaxJobs : (j \in DOMAIN jobs) ~> (j \in DOMAIN jobs /\ ~Unsettled(j))

\* The list marks an extension only while its source has something newer.
MarkedHasUpdate ==
  \A u \in marked :
    (~Busy(u) /\ ~listing /\ sources[u] # NoSource) =>
      IsNewer(sources[u].kind, newest[sources[u].kind][u], sources[u])
=============================================================================
