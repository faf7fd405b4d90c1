--------------------------- MODULE InstallerProofs ---------------------------
(***************************************************************************)
(* Theorems about installing, updating and removing extensions (module     *)
(* Installer), for any extensions, versions, installs and faults.          *)
(***************************************************************************)
EXTENDS Installer, SequenceTheorems, TLAPS

-----------------------------------------------------------------------------
(* Types *)

\* The kinds of the directories and sources the app did not make are none of the app's.
LEMMA Kinds_ ==
  /\ \A k \in Kinds : k # "none" /\ k # "broken" /\ k # "by hand"
  /\ NoDir.kind \notin Kinds /\ Broken.kind \notin Kinds /\ ByHand.kind \notin Kinds
  /\ NoSource.kind \notin Kinds /\ NoSource \notin Source
  /\ NoDir # Broken /\ NoDir # ByHand /\ Broken # ByHand
  /\ Settled \notin Job
<1>1. \A k \in Kinds : k = "github" \/ k = "ego"
  BY InstallerAssumption
<1>2. \A k \in Kinds : k # "none" /\ k # "broken" /\ k # "by hand"
  BY <1>1
<1>3. /\ NoDir.kind \notin Kinds /\ Broken.kind \notin Kinds /\ ByHand.kind \notin Kinds
      /\ NoSource.kind \notin Kinds
  BY <1>2 DEF NoDir, Broken, ByHand, NoSource
<1>4. NoDir # Broken /\ NoDir # ByHand /\ Broken # ByHand
  <2>1. NoDir.kind = "none" /\ Broken.kind = "broken" /\ ByHand.kind = "by hand"
    BY DEF NoDir, Broken, ByHand
  <2> QED BY <2>1
<1>5. \A s \in Source : s.kind \in Kinds
  BY DEF Source
<1>6. \A j \in Job : j.kind \in Kinds
  BY DEF Job
<1>7. Settled.kind \notin Kinds
  BY <1>2 DEF Settled
<1> QED BY <1>2, <1>3, <1>4, <1>5, <1>6, <1>7

\* The steps of an install that follow the lookup, and all of them.
Pinned == {"download", "staging", "clearing", "moving", "moved", "idle"}
Steps == {"branch", "lookup"} \cup Pinned

\* An install that has reached a step is under way and has its parts.
LEMMA JobAt ==
  ASSUME JobTypes, NEW j, NEW pc, At(j, pc), pc # "done"
  PROVE  /\ j \in 1..Len(jobs) /\ j \in 1..MaxJobs /\ jobs[j] \in Job
         /\ jobs[j].kind \in Kinds /\ jobs[j].uuid \in Uuids /\ Unsettled(j)
         /\ pc \in Pinned => jobs[j].version \in 1..MaxVersion
<1>1. j \in 1..Len(jobs) /\ Len(jobs) \in Nat /\ Len(jobs) <= MaxJobs /\ MaxJobs \in Nat
  BY LenProperties, InstallerAssumption DEF At, JobTypes
<1>2. jobs[j] \in {Settled} \cup Job
  BY <1>1, ElementOfSeq DEF JobTypes
<1>3. jobs[j] # Settled
  BY DEF At, Settled
<1>4. jobs[j] \in Job
  BY <1>2, <1>3
<1>5. jobs[j].kind \in Kinds /\ jobs[j].uuid \in Uuids
      /\ (pc \in Pinned => jobs[j].version \in 1..MaxVersion)
  BY <1>4 DEF Job, At, Pinned
<1> QED BY <1>1, <1>3, <1>4, <1>5 DEF Unsettled

\* One job is replaced.
LEMMA ReplaceJob ==
  ASSUME JobTypes, NEW j \in DOMAIN jobs, NEW new \in {Settled} \cup Job,
         jobs' = [jobs EXCEPT ![j] = new]
  PROVE  /\ jobs' \in Seq({Settled} \cup Job) /\ Len(jobs') = Len(jobs)
         /\ DOMAIN jobs' = DOMAIN jobs
         /\ \A i \in DOMAIN jobs : jobs'[i] = IF i = j THEN new ELSE jobs[i]
BY ExceptSeq, LenProperties DEF JobTypes

LEMMA MoveProperties ==
  ASSUME JobTypes, NEW j, NEW from \in Steps, NEW pc \in Steps, At(j, from), Move(j, pc),
         from \in Pinned <=> pc \in Pinned
  PROVE  /\ jobs' \in Seq({Settled} \cup Job) /\ Len(jobs') = Len(jobs)
         /\ DOMAIN jobs' = DOMAIN jobs
         /\ jobs'[j] = [jobs[j] EXCEPT !.pc = pc]
         /\ \A i \in DOMAIN jobs : i # j => jobs'[i] = jobs[i]
<1>1. jobs[j] \in Job /\ j \in DOMAIN jobs
  <2>1. from # "done"
    BY DEF Steps, Pinned
  <2> QED BY <2>1, JobAt DEF At
<1>2. [jobs[j] EXCEPT !.pc = pc] \in Job
  <2>1. jobs[j].pc = from
    BY DEF At
  <2> QED BY <1>1, <2>1 DEF Job, Steps, Pinned
<1>3. jobs' = [jobs EXCEPT ![j] = [jobs[j] EXCEPT !.pc = pc]]
  BY <1>1 DEF Move
<1> QED BY <1>1, <1>2, <1>3, ReplaceJob

LEMMA PersistTypes ==
  ASSUME DirTypes, NEW registry \in Registry, faults \in 0..MaxFaults, Persist(registry)
  PROVE  sources' \in Registry /\ saved' \in Registry /\ faults' \in 0..MaxFaults
BY InstallerAssumption DEF DirTypes, Persist, Fault

LEMMA FaultTypes == ASSUME faults \in 0..MaxFaults, Fault PROVE faults' \in 0..MaxFaults
BY InstallerAssumption DEF Fault

LEMMA BeginTypes ==
  ASSUME TypeOK, NEW k \in Kinds, NEW u \in Uuids, NEW pc \in {"branch", "lookup"}, NEW update \in BOOLEAN,
         Begin(k, u, pc, update)
  PROVE  jobs' \in Seq({Settled} \cup Job) /\ Len(jobs') <= MaxJobs
<1> DEFINE job == [kind |-> k, uuid |-> u, pc |-> pc, version |-> 0,
                   update |-> update, since |-> sources[u].since]
<1>1. sources[u].since \in 0..MaxJobs
  BY InstallerAssumption DEF TypeOK, DirTypes, Registry, Source, NoSource
<1>2. job \in Job
  BY <1>1, InstallerAssumption DEF Job
<1>3. jobs' = Append(jobs, job) /\ Len(jobs) < MaxJobs
  BY DEF Begin
<1> HIDE DEF job
<1>4. jobs \in Seq({Settled} \cup Job) /\ Len(jobs) \in Nat
  BY LenProperties DEF TypeOK, JobTypes
<1> QED BY <1>2, <1>3, <1>4, AppendProperties, InstallerAssumption

LEMMA UserTypes ==
  ASSUME TypeOK,
         \/ \E k \in Kinds, u \in Uuids : Install(k, u) \/ Publish(k, u)
         \/ \E k \in Kinds : Update(k)
         \/ \E u \in Uuids : Show(u)
         \/ CheckFromPage \/ Uninstall
  PROVE  TypeOK'
<1>0. DirTypes /\ PageTypes /\ JobTypes /\ FlagTypes /\ faults \in 0..MaxFaults
  BY DEF TypeOK
<1>1. ASSUME NEW k \in Kinds, NEW u \in Uuids, Install(k, u)
      PROVE  TypeOK'
  <2>1. jobs' \in Seq({Settled} \cup Job) /\ Len(jobs') <= MaxJobs
    BY <1>1, BeginTypes DEF Install
  <2> QED BY <1>0, <1>1, <2>1 DEF Install, shellVars, registryVars, noteVars, pageVars, TypeOK,
        DirTypes, PageTypes, JobTypes, FlagTypes
<1>2. ASSUME NEW k \in Kinds, NEW u \in Uuids, Publish(k, u)
      PROVE  TypeOK'
  <2>1. newest' \in [Kinds -> [Uuids -> 1..MaxVersion]]
    BY <1>0, <1>2, InstallerAssumption DEF Publish, DirTypes
  <2> QED BY <1>0, <1>2, <2>1 DEF Publish, registryVars, noteVars, pageVars, TypeOK,
        DirTypes, PageTypes, JobTypes, FlagTypes
<1>3. ASSUME NEW k \in Kinds, Update(k)
      PROVE  TypeOK'
  <2>1. activeUuid \in Uuids
    BY <1>0, <1>3 DEF Update, PageTypes
  <2>2. jobs' \in Seq({Settled} \cup Job) /\ Len(jobs') <= MaxJobs
    BY <1>3, <2>1, BeginTypes DEF Update
  <2> QED BY <1>0, <1>3, <2>2 DEF Update, shellVars, registryVars, noteVars, pageVars, TypeOK,
        DirTypes, PageTypes, JobTypes, FlagTypes
<1>4. ASSUME NEW u \in Uuids, Show(u)
      PROVE  TypeOK'
  <2>1. sources[u] \in {NoSource} \cup Source
    BY <1>0 DEF DirTypes, Registry
  <2>2. activeUuid' \in Uuids \cup {NoUuid} /\ activeSource' \in {NoSource} \cup Source
    BY <1>4, <2>1 DEF Show
  <2>3. offered' \subseteq Kinds
    BY <1>0, <1>4 DEF Show, PageTypes
  <2> QED BY <1>0, <1>4, <2>2, <2>3 DEF Show, shellVars, registryVars, noteVars, TypeOK,
        DirTypes, PageTypes, JobTypes, FlagTypes
<1>5. CASE CheckFromPage
  <2>1. [uuid |-> activeUuid, source |-> activeSource, manual |-> TRUE] \in Check
    BY <1>0, <1>5 DEF CheckFromPage, PageTypes, Check
  <2>2. checks' \subseteq Check
    BY <1>0, <1>5, <2>1 DEF CheckFromPage, PageTypes
  <2> QED BY <1>0, <1>5, <2>2 DEF CheckFromPage, shellVars, registryVars, pageVars, TypeOK,
        DirTypes, PageTypes, JobTypes, FlagTypes
<1>6. CASE Uninstall
  <2>1. removals' \subseteq Uuids
    BY <1>0, <1>6 DEF Uninstall, PageTypes
  <2> QED BY <1>0, <1>6, <2>1 DEF Uninstall, shellVars, registryVars, pageVars, TypeOK,
        DirTypes, PageTypes, JobTypes, FlagTypes
<1> QED BY <1>1, <1>2, <1>3, <1>4, <1>5, <1>6

LEMMA CheckTypes ==
  ASSUME TypeOK, NEW c \in checks, OnCheckDone(c) \/ CheckFails(c)
  PROVE  TypeOK'
<1>0. DirTypes /\ PageTypes /\ JobTypes /\ FlagTypes /\ faults \in 0..MaxFaults
  BY DEF TypeOK
<1>1. c \in Check /\ c.source.kind \in Kinds /\ c.uuid \in Uuids
  BY <1>0 DEF PageTypes, Check, Source
<1>2. CASE OnCheckDone(c)
  <2>1. checks' \subseteq Check /\ marked' \subseteq Uuids /\ offered' \subseteq Kinds
    BY <1>0, <1>1, <1>2 DEF OnCheckDone, PageTypes
  <2>2. newest[c.source.kind][c.uuid] \in 0..MaxVersion
    <3>1. newest[c.source.kind] \in [Uuids -> 1..MaxVersion]
      BY <1>0, <1>1 DEF DirTypes
    <3>2. newest[c.source.kind][c.uuid] \in 1..MaxVersion
      BY <1>1, <3>1
    <3> QED BY <3>2, InstallerAssumption
  <2>3. known' \in [Kinds -> [Uuids -> 0..MaxVersion]]
    BY <1>0, <1>1, <1>2, <2>2 DEF OnCheckDone, PageTypes
  <2> QED BY <1>0, <1>2, <2>1, <2>3 DEF OnCheckDone, shellVars, registryVars, TypeOK,
        DirTypes, PageTypes, JobTypes, FlagTypes
<1>3. CASE CheckFails(c)
  <2>1. checks' \subseteq Check
    BY <1>0, <1>3 DEF CheckFails, PageTypes
  <2> QED BY <1>0, <1>3, <2>1 DEF CheckFails, shellVars, registryVars, pageVars, TypeOK,
        DirTypes, PageTypes, JobTypes, FlagTypes
<1> QED BY <1>2, <1>3

LEMMA RemovalTypes ==
  ASSUME TypeOK, NEW u \in Uuids, DoUninstall(u)
  PROVE  TypeOK'
<1>0. DirTypes /\ PageTypes /\ JobTypes /\ FlagTypes /\ faults \in 0..MaxFaults
  BY DEF TypeOK
<1>1. dir' \in [Uuids -> Directory]
  BY <1>0 DEF DoUninstall, DirTypes, Directory
<1>2. sources' \in Registry /\ saved' \in Registry /\ faults' \in 0..MaxFaults
  <2>1. [sources EXCEPT ![u] = NoSource] \in Registry
    BY <1>0 DEF DirTypes, Registry
  <2>2. CASE Persist([sources EXCEPT ![u] = NoSource])
    BY <1>0, <2>1, <2>2, PersistTypes
  <2>3. CASE UNCHANGED <<registryVars, faults>>
    BY <1>0, <2>3 DEF registryVars, DirTypes
  <2>4. CASE UNCHANGED registryVars /\ Fault
    BY <1>0, <2>4, FaultTypes DEF registryVars, DirTypes
  <2> QED BY <2>2, <2>3, <2>4 DEF DoUninstall
<1>3. removals' \subseteq Uuids /\ activeUuid' \in Uuids \cup {NoUuid}
  BY <1>0 DEF DoUninstall, PageTypes
<1>4. listing' \in BOOLEAN
  BY <1>0 DEF DoUninstall, FlagTypes
<1> QED BY <1>0, <1>1, <1>2, <1>3, <1>4 DEF DoUninstall, TypeOK, DirTypes, PageTypes, JobTypes, FlagTypes

LEMMA ReplyTypes ==
  ASSUME TypeOK, NEW j \in 1..MaxJobs, RequestFails(j) \/ ReplyStep(j) \/ StageFails(j)
  PROVE  TypeOK'
<1>0. DirTypes /\ PageTypes /\ JobTypes /\ FlagTypes /\ faults \in 0..MaxFaults
  BY DEF TypeOK
<1>1. jobs' \in Seq({Settled} \cup Job) /\ Len(jobs') = Len(jobs)
  <2>1. CASE RequestFails(j)
    BY <1>0, <2>1, ReplaceJob DEF RequestFails, Settle, At
  <2>2. CASE OnRepoInfo(j)
    BY <1>0, <2>2, MoveProperties DEF OnRepoInfo, Steps, Pinned
  <2>3. CASE OnLookup(j)
    <3>1. jobs[j] \in Job /\ j \in DOMAIN jobs /\ jobs[j].kind \in Kinds /\ jobs[j].uuid \in Uuids
      BY <1>0, <2>3, JobAt DEF OnLookup, At
    <3>2. newest[jobs[j].kind] \in [Uuids -> 1..MaxVersion]
      BY <1>0, <3>1 DEF DirTypes
    <3>3. newest[jobs[j].kind][jobs[j].uuid] \in 1..MaxVersion
      BY <3>1, <3>2
    <3> DEFINE new == [jobs[j] EXCEPT !.pc = "download", !.version = newest[jobs[j].kind][jobs[j].uuid]]
    <3>4. new \in Job
      BY <2>3, <3>1, <3>3 DEF Job, OnLookup, At
    <3>5. jobs' = [jobs EXCEPT ![j] = new]
      BY <2>3, <3>1 DEF OnLookup
    <3> QED BY <1>0, <3>1, <3>4, <3>5, ReplaceJob
  <2>4. CASE OnArchive(j)
    BY <1>0, <2>4, MoveProperties DEF OnArchive, Steps, Pinned
  <2>5. CASE StageFails(j)
    BY <1>0, <2>5, MoveProperties DEF StageFails, Steps, Pinned
  <2> QED BY <2>1, <2>2, <2>3, <2>4, <2>5 DEF ReplyStep
<1>2. idle' \in Seq(Completion)
  <2>1. CASE StageFails(j)
    <3>1. [job |-> j, ok |-> FALSE] \in Completion
      BY DEF Completion
    <3> QED BY <1>0, <2>1, <3>1, AppendProperties DEF StageFails, JobTypes
  <2> QED BY <1>0, <2>1 DEF RequestFails, ReplyStep, JobTypes
<1>3. /\ UNCHANGED <<newest, dir, sources, saved, known, marked, listed, removals, listing, startup,
                     activeUuid, activeSource, offered, checks, faults>>
  BY DEF RequestFails, ReplyStep, StageFails, shellVars, registryVars, noteVars, pageVars
<1> QED BY <1>0, <1>1, <1>2, <1>3 DEF TypeOK, DirTypes, PageTypes, JobTypes, FlagTypes

LEMMA WorkerTypes ==
  ASSUME TypeOK, NEW j \in 1..MaxJobs, WorkerStep(j)
  PROVE  TypeOK'
<1>0. DirTypes /\ PageTypes /\ JobTypes /\ FlagTypes /\ faults \in 0..MaxFaults
  BY DEF TypeOK
<1>1. jobs' \in Seq({Settled} \cup Job) /\ Len(jobs') = Len(jobs)
  BY <1>0, MoveProperties DEF WorkerStep, Stage, ClearTarget, MoveIn, Report, Steps, Pinned
<1>2. idle' \in Seq(Completion)
  <2>1. [job |-> j, ok |-> FALSE] \in Completion
        /\ [job |-> j, ok |-> TRUE] \in Completion
    BY DEF Completion
  <2>2. idle \in Seq(Completion)
    BY <1>0 DEF JobTypes
  <2>3. \/ idle' = idle
        \/ idle' = Append(idle, [job |-> j, ok |-> FALSE])
        \/ idle' = Append(idle, [job |-> j, ok |-> TRUE])
    BY DEF WorkerStep, Stage, ClearTarget, MoveIn, Report
  <2> QED BY <2>1, <2>2, <2>3, AppendProperties
<1>3. dir' \in [Uuids -> Directory]
  <2>1. CASE Stage(j) \/ Report(j)
    BY <1>0, <2>1 DEF Stage, Report, DirTypes
  <2>2. CASE ClearTarget(j)
    BY <1>0, <2>2 DEF ClearTarget, DirTypes, Directory
  <2>3. CASE MoveIn(j)
    <3>1. jobs[j].kind \in Kinds /\ jobs[j].uuid \in Uuids /\ jobs[j].version \in 1..MaxVersion
      BY <1>0, <2>3, JobAt DEF MoveIn, Pinned
    <3>2. [kind |-> jobs[j].kind, version |-> jobs[j].version] \in Directory
      BY <3>1 DEF Directory
    <3> QED BY <1>0, <2>3, <3>1, <3>2 DEF MoveIn, DirTypes, Directory
  <2> QED BY <2>1, <2>2, <2>3 DEF WorkerStep
<1>4. faults' \in 0..MaxFaults
  BY <1>0, FaultTypes DEF WorkerStep, Stage, ClearTarget, MoveIn, Report
<1>5. /\ UNCHANGED <<newest, sources, saved, known, marked, listed, removals, listing, startup,
                     activeUuid, activeSource, offered, checks>>
  BY DEF WorkerStep, shellVars, registryVars, noteVars, pageVars
<1> QED BY <1>0, <1>1, <1>2, <1>3, <1>4, <1>5 DEF TypeOK, DirTypes, PageTypes, JobTypes, FlagTypes

\* A callback waits for each install a worker is done with, and one only.
IdleInv ==
  /\ \A i \in 1..Len(idle) : At(idle[i].job, "idle")
  /\ \A i, h \in 1..Len(idle) : idle[i].job = idle[h].job => i = h

LEMMA NextIdleProperties ==
  ASSUME TypeOK, IdleInv, NEW j, NextIdle(j)
  PROVE  /\ At(j, "idle") /\ jobs[j] \in Job /\ j \in 1..MaxJobs /\ j \in DOMAIN jobs
         /\ jobs[j].kind \in Kinds /\ jobs[j].uuid \in Uuids /\ jobs[j].version \in 1..MaxVersion
         /\ jobs' \in Seq({Settled} \cup Job) /\ Len(jobs') = Len(jobs) /\ DOMAIN jobs' = DOMAIN jobs
         /\ \A i \in DOMAIN jobs : jobs'[i] = IF i = j THEN Settled ELSE jobs[i]
         /\ idle' \in Seq(Completion) /\ Len(idle) # 0 /\ Head(idle) = idle[1] /\ idle[1].job = j
<1>0. JobTypes
  BY DEF TypeOK
<1>1. /\ idle' \in Seq(Completion) /\ Head(idle) = idle[1] /\ Len(idle) \in Nat /\ Len(idle) # 0
      /\ idle[1].job = j
  BY <1>0, HeadTailProperties, LenProperties, EmptySeq DEF NextIdle, JobTypes
<1>2. 1 \in 1..Len(idle)
  BY <1>1
<1>3. At(j, "idle")
  BY <1>1, <1>2 DEF IdleInv
<1>4. /\ jobs[j] \in Job /\ j \in 1..MaxJobs /\ j \in DOMAIN jobs
      /\ jobs[j].kind \in Kinds /\ jobs[j].uuid \in Uuids /\ jobs[j].version \in 1..MaxVersion
  BY <1>0, <1>3, JobAt DEF Pinned, At
<1>5. jobs' = [jobs EXCEPT ![j] = Settled]
  BY DEF NextIdle, Settle
<1>6. /\ jobs' \in Seq({Settled} \cup Job) /\ Len(jobs') = Len(jobs) /\ DOMAIN jobs' = DOMAIN jobs
      /\ \A i \in DOMAIN jobs : jobs'[i] = IF i = j THEN Settled ELSE jobs[i]
  BY <1>0, <1>4, <1>5, ReplaceJob
<1> QED BY <1>1, <1>3, <1>4, <1>6

LEMMA CallbackTypes ==
  ASSUME TypeOK, IdleInv, NEW j, FinishInstall(j) \/ Fail(j)
  PROVE  TypeOK'
<1>0. DirTypes /\ PageTypes /\ JobTypes /\ FlagTypes /\ faults \in 0..MaxFaults
  BY DEF TypeOK
<1>1. /\ jobs[j].kind \in Kinds /\ jobs[j].uuid \in Uuids /\ jobs[j].version \in 1..MaxVersion
      /\ j \in 1..MaxJobs
      /\ jobs' \in Seq({Settled} \cup Job) /\ Len(jobs') = Len(jobs) /\ idle' \in Seq(Completion)
  BY NextIdleProperties DEF FinishInstall, Fail
<1>2. CASE FinishInstall(j)
  <2> DEFINE u == jobs[j].uuid
             k == jobs[j].kind
             new == [kind |-> k, version |-> jobs[j].version, since |-> KeptSince(k, u, j)]
  <2>1. sources[u] \in {NoSource} \cup Source /\ sources \in Registry
    BY <1>0, <1>1 DEF DirTypes, Registry
  <2>2. KeptSince(k, u, j) \in 0..MaxJobs
    BY <1>1, <2>1, InstallerAssumption DEF KeptSince, Source
  <2>3. new \in Source
    BY <1>1, <2>2 DEF Source
  <2>4. [sources EXCEPT ![u] = new] \in Registry
    BY <2>1, <2>3 DEF Registry
  <2>5. Persist([sources EXCEPT ![u] = new])
    BY <1>2 DEF FinishInstall, Finish
  <2>6. sources' \in Registry /\ saved' \in Registry /\ faults' \in 0..MaxFaults
    BY <1>0, <2>4, <2>5, PersistTypes
  <2>7. known' \in [Kinds -> [Uuids -> 0..MaxVersion]]
    <3>1. known' = [known EXCEPT ![k][u] = 0] /\ 0 \in 0..MaxVersion
      BY <1>2, InstallerAssumption DEF FinishInstall, Finish
    <3> QED BY <1>0, <1>1, <3>1 DEF PageTypes
  <2>8. listing' \in BOOLEAN
    <3>1. listing' = (listing \/ TRUE)
      BY <1>2 DEF FinishInstall, Finish
    <3> QED BY <3>1
  <2>9. offered' \subseteq Kinds
    BY <1>0, <1>2 DEF FinishInstall, Finish, PageTypes
  <2> QED BY <1>0, <1>1, <1>2, <2>6, <2>7, <2>8, <2>9
        DEF FinishInstall, TypeOK, DirTypes, PageTypes, JobTypes, FlagTypes
<1>3. CASE Fail(j)
  BY <1>0, <1>1, <1>3 DEF Fail, shellVars, registryVars, noteVars, pageVars,
    TypeOK, DirTypes, PageTypes, JobTypes, FlagTypes
<1> QED BY <1>2, <1>3

Stale == {u \in Uuids : sources[u] # NoSource /\ dir[u] = NoDir}
Kept == [u \in Uuids |-> IF u \in Stale THEN NoSource ELSE sources[u]]

LEMMA ChangedProperties ==
  ASSUME TypeOK, ExtensionsChanged
  PROVE  /\ Kept \in Registry
         /\ IF Stale # {} THEN Persist(Kept) ELSE UNCHANGED <<registryVars, faults>>
         /\ sources' = Kept
<1>1. Kept \in Registry
  BY DEF TypeOK, DirTypes, Registry, Kept
<1>2. IF Stale # {} THEN Persist(Kept) ELSE UNCHANGED <<registryVars, faults>>
  BY DEF ExtensionsChanged, Stale, Kept
<1>3. sources' = Kept
  <2>1. CASE Stale # {}
    BY <1>2, <2>1 DEF Persist
  <2>2. CASE Stale = {}
    <3>1. sources \in Registry /\ sources' = sources
      BY <1>2, <2>2 DEF TypeOK, DirTypes, registryVars
    <3>2. Kept = sources
      BY <2>2, <3>1 DEF Kept, Registry
    <3> QED BY <3>1, <3>2
  <2> QED BY <2>1, <2>2
<1> QED BY <1>1, <1>2, <1>3

LEMMA ChangedTypes ==
  ASSUME TypeOK, ExtensionsChanged, listing' \in BOOLEAN
  PROVE  TypeOK'
<1>0. DirTypes /\ PageTypes /\ JobTypes /\ FlagTypes /\ faults \in 0..MaxFaults
  BY DEF TypeOK
<1>1. Kept \in Registry /\ IF Stale # {} THEN Persist(Kept) ELSE UNCHANGED <<registryVars, faults>>
  BY ChangedProperties
<1>2. sources' \in Registry /\ saved' \in Registry /\ faults' \in 0..MaxFaults
  BY <1>0, <1>1, PersistTypes DEF registryVars, DirTypes
<1>3. marked' \subseteq Uuids /\ activeUuid' \in Uuids \cup {NoUuid}
  BY <1>0 DEF ExtensionsChanged, PageTypes
<1>4. checks' \subseteq Check
  <2>1. \A u \in listed : Kept[u] # NoSource => [uuid |-> u, source |-> Kept[u], manual |-> FALSE] \in Check
    BY <1>0, <1>1 DEF Registry, PageTypes, Check
  <2>2. StartupChecks(Kept) \subseteq Check
    BY <2>1 DEF StartupChecks
  <2>3. checks' = IF startup THEN checks \cup StartupChecks(Kept) ELSE checks
    BY DEF ExtensionsChanged, Stale, Kept
  <2> QED BY <1>0, <2>2, <2>3 DEF PageTypes
<1>5. startup' = FALSE
  BY DEF ExtensionsChanged
<1> QED BY <1>0, <1>2, <1>3, <1>4, <1>5
      DEF ExtensionsChanged, TypeOK, DirTypes, PageTypes, JobTypes, FlagTypes

LEMMA AllSettled ==
  ASSUME JobTypes, jobs' = [j \in DOMAIN jobs |-> Settled]
  PROVE  /\ jobs' \in Seq({Settled} \cup Job) /\ Len(jobs') = Len(jobs)
         /\ DOMAIN jobs' = DOMAIN jobs /\ \A j \in DOMAIN jobs : jobs'[j] = Settled
<1>1. DOMAIN jobs = 1..Len(jobs) /\ Len(jobs) \in Nat
  BY LenProperties DEF JobTypes
<1>2. jobs' = [j \in 1..Len(jobs) |-> Settled]
  BY <1>1
<1>3. jobs' \in Seq({Settled} \cup Job)
  BY <1>1, <1>2, IsASeq
<1> QED BY <1>1, <1>2, <1>3, LenProperties

LEMMA ShellTypes ==
  ASSUME TypeOK, OnListDone \/ OnSignal \/ ListFails \/ ShellRestarts \/ AppEnds \/ UNCHANGED vars
  PROVE  TypeOK'
<1>0. DirTypes /\ PageTypes /\ JobTypes /\ FlagTypes /\ faults \in 0..MaxFaults
  BY DEF TypeOK
<1>1. CASE OnListDone \/ OnSignal
  BY <1>0, <1>1, ChangedTypes DEF OnListDone, OnSignal, FlagTypes
<1>2. CASE ListFails
  BY <1>0, <1>2, FaultTypes DEF ListFails, registryVars, noteVars, pageVars,
    TypeOK, DirTypes, PageTypes, JobTypes, FlagTypes
<1>3. CASE ShellRestarts
  BY <1>0, <1>3 DEF ShellRestarts, Present, registryVars, noteVars, pageVars,
    TypeOK, DirTypes, PageTypes, JobTypes, FlagTypes
<1>4. CASE AppEnds
  <2>1. jobs' \in Seq({Settled} \cup Job) /\ Len(jobs') = Len(jobs)
    BY <1>0, <1>4, AllSettled DEF AppEnds
  <2>2. faults' \in 0..MaxFaults
    BY <1>0, <1>4, FaultTypes DEF AppEnds
  <2>3. dir' \in [Uuids -> Directory]
    BY <1>0, <1>4 DEF AppEnds, DirTypes, Directory
  <2>4. known' \in [Kinds -> [Uuids -> 0..MaxVersion]]
    <3>1. 0 \in 0..MaxVersion
      BY InstallerAssumption
    <3> QED BY <1>4, <3>1 DEF AppEnds
  <2>5. idle' \in Seq(Completion)
    BY <1>4, EmptySeq DEF AppEnds
  <2>6. listing' = TRUE /\ startup' = TRUE
    BY <1>4 DEF AppEnds
  <2>7. PageTypes'
    BY <1>0, <1>4, <2>4 DEF AppEnds, PageTypes
  <2> QED BY <1>0, <1>4, <2>1, <2>2, <2>3, <2>5, <2>6, <2>7
        DEF AppEnds, TypeOK, DirTypes, JobTypes, FlagTypes
<1>5. CASE UNCHANGED vars
  BY <1>0, <1>5 DEF vars, TypeOK, DirTypes, PageTypes, JobTypes, FlagTypes
<1> QED BY <1>1, <1>2, <1>3, <1>4, <1>5

LEMMA TypesStep ==
  ASSUME TypeOK, IdleInv, [Next]_vars
  PROVE  TypeOK'
<1>1. ASSUME NEW j \in 1..MaxJobs, JobStep(j)
      PROVE  TypeOK'
  BY <1>1, ReplyTypes, WorkerTypes, CallbackTypes DEF JobStep
<1>2. CASE \E c \in checks : OnCheckDone(c) \/ CheckFails(c)
  BY <1>2, CheckTypes
<1>3. CASE \E u \in Uuids : DoUninstall(u)
  BY <1>3, RemovalTypes
<1> QED BY <1>1, <1>2, <1>3, UserTypes, ShellTypes DEF Next

LEMMA TypesInit == Init => TypeOK
<1> SUFFICES ASSUME Init PROVE TypeOK
  OBVIOUS
<1>1. 1 \in 1..MaxVersion /\ 0 \in 0..MaxVersion /\ 0 \in 0..MaxJobs /\ 0 \in 0..MaxFaults
  BY InstallerAssumption
<1>2. newest \in [Kinds -> [Uuids -> 1..MaxVersion]] /\ known \in [Kinds -> [Uuids -> 0..MaxVersion]]
  BY <1>1 DEF Init
<1>3. dir \in [Uuids -> Directory]
  BY <1>1 DEF Init, Directory
<1>4. sources \in Registry
  <2>1. \A u \in Uuids : dir[u].kind \in Kinds =>
          [kind |-> dir[u].kind, version |-> 1, since |-> 0] \in Source
    BY <1>1 DEF Source
  <2> QED BY <2>1 DEF Init, Registry
<1>5. PageTypes
  BY <1>2 DEF Init, Present, PageTypes
<1>6. JobTypes
  BY InstallerAssumption, EmptySeq DEF Init, JobTypes
<1>7. FlagTypes
  BY DEF Init, FlagTypes
<1> QED BY <1>1, <1>2, <1>3, <1>4, <1>5, <1>6, <1>7 DEF Init, TypeOK, DirTypes

-----------------------------------------------------------------------------
(* What a step does to the installs *)

\* An install goes on: it stays of the same extension and source, and its version is pinned once,
\* to the newest there is.
Continues(i) ==
  /\ i \in DOMAIN jobs /\ Unsettled(i)
  /\ jobs'[i].kind = jobs[i].kind /\ jobs'[i].uuid = jobs[i].uuid
  /\ jobs'[i].pc \in Pinned =>
       \/ jobs[i].pc \in Pinned /\ jobs'[i].version = jobs[i].version
       \/ jobs'[i].pc = "download" /\ jobs'[i].version = newest[jobs[i].kind][jobs[i].uuid]

Begins(i) ==
  /\ i = Len(jobs) + 1
  /\ jobs'[i].pc \notin Pinned
  /\ OneAtATime => ~Busy(jobs'[i].uuid)

LEMMA BeginProperties ==
  ASSUME TypeOK, NEW k \in Kinds, NEW u \in Uuids, NEW pc \in {"branch", "lookup"},
         NEW update \in BOOLEAN, Begin(k, u, pc, update)
  PROVE  /\ Begins(Len(jobs) + 1) /\ DOMAIN jobs' = 1..(Len(jobs) + 1)
         /\ Len(jobs) \in Nat /\ DOMAIN jobs = 1..Len(jobs)
         /\ \A i \in DOMAIN jobs : jobs'[i] = jobs[i]
<1> DEFINE job == [kind |-> k, uuid |-> u, pc |-> pc, version |-> 0,
                   update |-> update, since |-> sources[u].since]
<1>1. jobs' = Append(jobs, job) /\ (OneAtATime => ~Busy(u))
  BY DEF Begin
<1>2. job.pc \notin Pinned /\ job.uuid = u
  BY DEF Pinned
<1> HIDE DEF job
<1>3. jobs \in Seq({Settled} \cup Job)
  BY DEF TypeOK, JobTypes
<1>4. jobs \in Seq({Settled} \cup Job \cup {job})
  <2>1. \A i \in 1..Len(jobs) : jobs[i] \in {Settled} \cup Job \cup {job}
    BY <1>3, ElementOfSeq
  <2> QED BY <1>3, <2>1, LenProperties
<1>5. PICK n \in Nat : n = Len(jobs)
  BY <1>3, LenProperties
<1>6. Len(jobs') = n + 1 /\ jobs'[n + 1] = job /\ \A i \in 1..n : jobs'[i] = jobs[i]
      /\ jobs' \in Seq({Settled} \cup Job \cup {job})
  BY <1>1, <1>4, <1>5, AppendProperties
<1>7. DOMAIN jobs' = 1..(n + 1) /\ DOMAIN jobs = 1..n
  BY <1>3, <1>5, <1>6, LenProperties
<1> QED BY <1>1, <1>2, <1>5, <1>6, <1>7 DEF Begins

LEMMA Beginnings ==
  ASSUME TypeOK,
         \/ \E k \in Kinds, u \in Uuids : Install(k, u)
         \/ \E k \in Kinds : Update(k)
  PROVE  /\ Begins(Len(jobs) + 1) /\ DOMAIN jobs' = 1..(Len(jobs) + 1)
         /\ Len(jobs) \in Nat /\ DOMAIN jobs = 1..Len(jobs)
         /\ \A i \in DOMAIN jobs : jobs'[i] = jobs[i]
         /\ UNCHANGED <<shellVars, dir, registryVars, idle, faults>>
<1>1. ASSUME NEW k \in Kinds, NEW u \in Uuids, Install(k, u)
      PROVE  \E pc \in {"branch", "lookup"} : Begin(k, u, pc, FALSE)
  BY <1>1 DEF Install
<1>2. ASSUME NEW k \in Kinds, Update(k)
      PROVE  activeUuid \in Uuids /\ Begin(k, activeUuid, "lookup", TRUE)
  BY <1>2 DEF Update, TypeOK, PageTypes
<1> QED BY <1>1, <1>2, BeginProperties DEF Install, Update

\* Steps that leave the installs alone.
Elsewhere ==
  \/ \E k \in Kinds, u \in Uuids : Publish(k, u)
  \/ \E u \in Uuids : Show(u) \/ DoUninstall(u)
  \/ CheckFromPage \/ Uninstall
  \/ \E c \in checks : OnCheckDone(c) \/ CheckFails(c)
  \/ OnListDone \/ OnSignal \/ ListFails \/ ShellRestarts
  \/ UNCHANGED vars

LEMMA ElsewhereJobs == ASSUME Elsewhere PROVE UNCHANGED <<jobs, idle>>
BY DEF Elsewhere, Publish, Show, DoUninstall, CheckFromPage, Uninstall, OnCheckDone, CheckFails,
  OnListDone, OnSignal, ExtensionsChanged, ListFails, ShellRestarts, vars

LEMMA NextCases ==
  ASSUME [Next]_vars
  PROVE  \/ \E k \in Kinds, u \in Uuids : Install(k, u)
         \/ \E k \in Kinds : Update(k)
         \/ \E j \in 1..MaxJobs : JobStep(j)
         \/ AppEnds
         \/ Elsewhere
BY DEF Next, Elsewhere

\* The install that moves on, before its callback.
Advances(j) == RequestFails(j) \/ ReplyStep(j) \/ StageFails(j) \/ WorkerStep(j)

LEMMA Advancing ==
  ASSUME TypeOK, NEW j, Advances(j)
  PROVE  /\ j \in DOMAIN jobs /\ jobs[j] \in Job /\ jobs[j].pc # "idle"
         /\ DOMAIN jobs' = DOMAIN jobs
         /\ \A i \in DOMAIN jobs : i # j => jobs'[i] = jobs[i]
         /\ jobs'[j] = Settled \/ Continues(j)
<1>0. JobTypes
  BY DEF TypeOK
<1>1. ASSUME NEW from \in Steps, NEW pc \in Steps, At(j, from), Move(j, pc),
             from \in Pinned <=> pc \in Pinned
      PROVE  /\ j \in DOMAIN jobs /\ jobs[j] \in Job /\ jobs[j].pc = from
             /\ DOMAIN jobs' = DOMAIN jobs
             /\ \A i \in DOMAIN jobs : i # j => jobs'[i] = jobs[i]
             /\ Continues(j)
  <2>1. from # "done"
    BY DEF Steps, Pinned
  <2>2. j \in DOMAIN jobs /\ jobs[j] \in Job /\ jobs[j].pc = from /\ Unsettled(j)
    BY <1>0, <1>1, <2>1, JobAt DEF At
  <2>3. /\ DOMAIN jobs' = DOMAIN jobs /\ jobs'[j] = [jobs[j] EXCEPT !.pc = pc]
        /\ \A i \in DOMAIN jobs : i # j => jobs'[i] = jobs[i]
    BY <1>0, <1>1, MoveProperties
  <2>4. /\ jobs'[j].kind = jobs[j].kind /\ jobs'[j].uuid = jobs[j].uuid
        /\ jobs'[j].version = jobs[j].version /\ jobs'[j].pc = pc
    BY <2>2, <2>3 DEF Job
  <2> QED BY <1>1, <2>2, <2>3, <2>4 DEF Continues
<1>2. CASE RequestFails(j)
  <2>1. j \in DOMAIN jobs /\ jobs[j] \in Job /\ jobs[j].pc # "idle"
    BY <1>0, <1>2, JobAt DEF RequestFails, At
  <2> QED BY <1>0, <1>2, <2>1, ReplaceJob DEF RequestFails, Settle
<1>3. CASE OnRepoInfo(j)
  BY <1>1, <1>3 DEF OnRepoInfo, Steps, Pinned
<1>4. CASE OnArchive(j)
  BY <1>1, <1>4 DEF OnArchive, Steps, Pinned
<1>5. CASE StageFails(j)
  BY <1>1, <1>5 DEF StageFails, Steps, Pinned
<1>6. CASE WorkerStep(j)
  BY <1>1, <1>6 DEF WorkerStep, Stage, ClearTarget, MoveIn, Report, Steps, Pinned
<1>7. CASE OnLookup(j)
  <2>1. /\ j \in DOMAIN jobs /\ jobs[j] \in Job /\ jobs[j].pc = "lookup" /\ Unsettled(j)
        /\ jobs[j].kind \in Kinds /\ jobs[j].uuid \in Uuids
    BY <1>0, <1>7, JobAt DEF OnLookup, At
  <2> DEFINE v == newest[jobs[j].kind][jobs[j].uuid]
             new == [jobs[j] EXCEPT !.pc = "download", !.version = v]
  <2>2. v \in 1..MaxVersion
    <3>1. newest[jobs[j].kind] \in [Uuids -> 1..MaxVersion]
      BY <2>1 DEF TypeOK, DirTypes
    <3> QED BY <2>1, <3>1
  <2>3. new \in Job
    BY <2>1, <2>2 DEF Job
  <2>4. jobs' = [jobs EXCEPT ![j] = new]
    BY <1>7, <2>1 DEF OnLookup
  <2>5. /\ DOMAIN jobs' = DOMAIN jobs /\ jobs'[j] = new
        /\ \A i \in DOMAIN jobs : i # j => jobs'[i] = jobs[i]
    BY <1>0, <2>1, <2>3, <2>4, ReplaceJob
  <2>6. new.kind = jobs[j].kind /\ new.uuid = jobs[j].uuid /\ new.version = v
        /\ new.pc = "download"
    BY <2>1 DEF Job
  <2> QED BY <2>1, <2>5, <2>6 DEF Continues
<1> QED BY <1>2, <1>3, <1>4, <1>5, <1>6, <1>7 DEF Advances, ReplyStep

\* Every install under way after a step was under way before, or begins with it.
LEMMA JobsStep ==
  ASSUME TypeOK, IdleInv, [Next]_vars, NEW i \in DOMAIN jobs', jobs'[i] # Settled
  PROVE  Continues(i) \/ Begins(i)
<1>1. ASSUME i \in DOMAIN jobs, jobs'[i] = jobs[i] PROVE Continues(i)
  BY <1>1 DEF Continues, Unsettled
<1>2. CASE (\E k \in Kinds, u \in Uuids : Install(k, u)) \/ (\E k \in Kinds : Update(k))
  BY <1>1, <1>2, Beginnings
<1>3. ASSUME NEW j \in 1..MaxJobs, Advances(j)
      PROVE  Continues(i)
  BY <1>1, <1>3, Advancing
<1>4. ASSUME NEW j \in 1..MaxJobs, FinishInstall(j) \/ Fail(j)
      PROVE  Continues(i)
  BY <1>1, <1>4, NextIdleProperties DEF FinishInstall, Fail
<1>5. CASE AppEnds
  BY <1>5, AllSettled DEF AppEnds, TypeOK
<1>6. CASE Elsewhere
  BY <1>1, <1>6, ElsewhereJobs
<1> QED BY <1>2, <1>3, <1>4, <1>5, <1>6, NextCases DEF JobStep, Advances

\* While the user waits for an install before starting another of the same extension, there is
\* one install of an extension at most.
AloneInv ==
  \A i, j \in DOMAIN jobs :
    Unsettled(i) /\ Unsettled(j) /\ jobs[i].uuid = jobs[j].uuid => i = j

LEMMA AloneStep ==
  ASSUME OneAtATime, TypeOK, IdleInv, AloneInv, [Next]_vars
  PROVE  AloneInv'
<1> SUFFICES ASSUME NEW i \in DOMAIN jobs', NEW j \in DOMAIN jobs', jobs'[i] # Settled,
                    jobs'[j] # Settled, jobs'[i].uuid = jobs'[j].uuid
             PROVE  i = j
  BY DEF AloneInv, Unsettled
<1>1. Continues(i) \/ Begins(i)
  BY JobsStep
<1>2. Continues(j) \/ Begins(j)
  BY JobsStep
<1> QED BY <1>1, <1>2 DEF Continues, Begins, Busy, AloneInv

-----------------------------------------------------------------------------
(* Callbacks *)

LEMMA IdleKept ==
  ASSUME TypeOK, IdleInv, idle' = idle, DOMAIN jobs \subseteq DOMAIN jobs',
         \A i \in DOMAIN jobs : jobs[i].pc = "idle" => jobs'[i].pc = "idle"
  PROVE  IdleInv'
BY DEF IdleInv, At

LEMMA IdleAppended ==
  ASSUME TypeOK, IdleInv, NEW j \in 1..MaxJobs, NEW ok \in BOOLEAN,
         idle' = Append(idle, [job |-> j, ok |-> ok]),
         j \in DOMAIN jobs, jobs[j].pc # "idle", jobs'[j].pc = "idle", DOMAIN jobs' = DOMAIN jobs,
         \A i \in DOMAIN jobs : i # j => jobs'[i] = jobs[i]
  PROVE  IdleInv'
<1> DEFINE e == [job |-> j, ok |-> ok]
<1>1. e \in Completion /\ e.job = j
  BY DEF Completion
<1>2. idle \in Seq(Completion)
  BY DEF TypeOK, JobTypes
<1> HIDE DEF e
<1>3. PICK n \in Nat : n = Len(idle)
  BY <1>2, LenProperties
<1>4. Len(idle') = n + 1 /\ idle'[n + 1] = e /\ \A i \in 1..n : idle'[i] = idle[i]
  BY <1>1, <1>2, <1>3, AppendProperties DEF e
<1>5. ASSUME NEW i \in 1..n
      PROVE  idle[i].job # j /\ idle[i].job \in DOMAIN jobs' /\ jobs'[idle[i].job].pc = "idle"
  BY <1>3, <1>5 DEF IdleInv, At
<1>6. \A i \in 1..(n + 1) : idle'[i].job \in DOMAIN jobs' /\ jobs'[idle'[i].job].pc = "idle"
  BY <1>1, <1>3, <1>4, <1>5
<1>7. \A i, h \in 1..(n + 1) : idle'[i].job = idle'[h].job => i = h
  BY <1>1, <1>3, <1>4, <1>5 DEF IdleInv
<1> QED BY <1>4, <1>6, <1>7 DEF IdleInv, At

LEMMA IdleTail ==
  ASSUME TypeOK, IdleInv, NEW j, NextIdle(j)
  PROVE  /\ IdleInv'
         /\ \A i \in 1..Len(idle') : i + 1 \in 1..Len(idle) /\ idle'[i] = idle[i + 1]
         /\ \A i \in 1..Len(idle) : i # 1 => i - 1 \in 1..Len(idle') /\ idle'[i - 1] = idle[i]
<1>1. /\ At(j, "idle") /\ DOMAIN jobs' = DOMAIN jobs
      /\ \A i \in DOMAIN jobs : jobs'[i] = IF i = j THEN Settled ELSE jobs[i]
      /\ idle[1].job = j /\ Len(idle) # 0
  BY NextIdleProperties
<1>2. idle \in Seq(Completion) /\ idle' = Tail(idle)
  BY DEF TypeOK, JobTypes, NextIdle
<1>3. PICK n \in Nat : n = Len(idle)
  BY <1>2, LenProperties
<1>4. Len(idle') = n - 1 /\ \A i \in 1..(n - 1) : idle'[i] = idle[i + 1]
  BY <1>1, <1>2, <1>3, EmptySeq, HeadTailProperties
<1>5. \A i \in 1..(n - 1) : i + 1 \in 1..n /\ idle'[i] = idle[i + 1]
  BY <1>4
<1>6. \A i \in 1..n : i # 1 => i - 1 \in 1..(n - 1) /\ idle'[i - 1] = idle[i]
  <2> SUFFICES ASSUME NEW i \in 1..n, i # 1
               PROVE  i - 1 \in 1..(n - 1) /\ idle'[i - 1] = idle[i]
    OBVIOUS
  <2>1. PICK h \in 1..(n - 1) : i = h + 1
    OBVIOUS
  <2> QED BY <1>4, <2>1
<1>7. \A i \in 1..(n - 1) : idle'[i].job \in DOMAIN jobs' /\ jobs'[idle'[i].job].pc = "idle"
  <2> SUFFICES ASSUME NEW i \in 1..(n - 1)
               PROVE  idle'[i].job \in DOMAIN jobs' /\ jobs'[idle'[i].job].pc = "idle"
    OBVIOUS
  <2>1. i + 1 \in 1..n /\ 1 \in 1..n /\ i + 1 # 1 /\ idle'[i] = idle[i + 1]
    BY <1>5
  <2>2. At(idle[i + 1].job, "idle") /\ idle[i + 1].job # j
    BY <1>1, <1>3, <2>1 DEF IdleInv
  <2> QED BY <1>1, <2>1, <2>2 DEF At
<1>8. \A i, h \in 1..(n - 1) : idle'[i].job = idle'[h].job => i = h
  <2> SUFFICES ASSUME NEW i \in 1..(n - 1), NEW h \in 1..(n - 1), idle'[i].job = idle'[h].job
               PROVE  i = h
    OBVIOUS
  <2>1. i + 1 \in 1..n /\ h + 1 \in 1..n /\ idle'[i] = idle[i + 1] /\ idle'[h] = idle[h + 1]
    BY <1>5
  <2>2. i + 1 = h + 1
    BY <1>3, <2>1 DEF IdleInv
  <2> QED BY <2>2
<1> QED BY <1>3, <1>4, <1>5, <1>6, <1>7, <1>8 DEF IdleInv, At

LEMMA IdleStep ==
  ASSUME TypeOK, IdleInv, [Next]_vars
  PROVE  IdleInv'
<1>1. CASE (\E k \in Kinds, u \in Uuids : Install(k, u)) \/ (\E k \in Kinds : Update(k))
  BY <1>1, Beginnings, IdleKept
<1>2. ASSUME NEW j \in 1..MaxJobs, Advances(j), idle' = idle
      PROVE  IdleInv'
  BY <1>2, Advancing, IdleKept
<1>3. ASSUME NEW j \in 1..MaxJobs, Advances(j), idle' # idle
      PROVE  IdleInv'
  <2>1. \E ok \in BOOLEAN : idle' = Append(idle, [job |-> j, ok |-> ok])
    BY <1>3 DEF Advances, RequestFails, ReplyStep, StageFails, WorkerStep, Stage, ClearTarget,
      MoveIn, Report
  <2>2. Move(j, "idle")
    BY <1>3 DEF Advances, RequestFails, ReplyStep, StageFails, WorkerStep, Stage, ClearTarget,
      MoveIn, Report
  <2>3. /\ j \in DOMAIN jobs /\ jobs[j] \in Job /\ jobs[j].pc # "idle" /\ DOMAIN jobs' = DOMAIN jobs
        /\ \A i \in DOMAIN jobs : i # j => jobs'[i] = jobs[i]
    BY <1>3, Advancing
  <2>4. jobs'[j].pc = "idle"
    BY <2>2, <2>3 DEF Move, Job
  <2> QED BY <2>1, <2>3, <2>4, IdleAppended
<1>4. ASSUME NEW j \in 1..MaxJobs, FinishInstall(j) \/ Fail(j)
      PROVE  IdleInv'
  BY <1>4, IdleTail DEF FinishInstall, Fail
<1>5. CASE AppEnds
  BY <1>5 DEF AppEnds, IdleInv
<1>6. CASE Elsewhere
  BY <1>6, ElsewhereJobs, IdleKept
<1> QED BY <1>1, <1>2, <1>3, <1>4, <1>5, <1>6, NextCases DEF JobStep, Advances

-----------------------------------------------------------------------------
(* What the registry claims *)

\* Neither the registry nor its file claims a version of k's later than v.
NotNewer(v, k, u) == \A s \in {sources[u], saved[u]} : s.kind = k => s.version <= v

\* Nothing later than what is published, than what an install under way has pinned, or than what
\* stands in the directory is claimed.
PublishedInv == \A k \in Kinds, u \in Uuids : NotNewer(newest[k][u], k, u)
PinnedInv ==
  \A j \in DOMAIN jobs : jobs[j] # Settled /\ jobs[j].pc \in Pinned =>
    /\ jobs[j].version <= newest[jobs[j].kind][jobs[j].uuid]
    /\ NotNewer(jobs[j].version, jobs[j].kind, jobs[j].uuid)
DirInv == \A u \in Uuids : dir[u].kind \in Kinds => NotNewer(dir[u].version, dir[u].kind, u)

\* Nothing is claimed that was not claimed in memory or on disk.
Shrinks(u) ==
  {sources'[u], saved'[u]} \subseteq {sources[u], saved[u], NoSource}

LEMMA StillNotNewer ==
  ASSUME NEW k \in Kinds, NEW u, NEW v, NotNewer(v, k, u), Shrinks(u)
  PROVE  \A s \in {sources'[u], saved'[u]} : s.kind = k => s.version <= v
BY Kinds_ DEF NotNewer, Shrinks

LEMMA ShrinksStep ==
  ASSUME TypeOK, [Next]_vars, NEW u \in Uuids, ~\E j \in 1..MaxJobs : FinishInstall(j)
  PROVE  Shrinks(u)
<1>1. CASE OnListDone \/ OnSignal
  <2>1. ExtensionsChanged
    BY <1>1 DEF OnListDone, OnSignal
  <2>2. sources' = Kept /\ Kept \in Registry /\ saved' \in {saved, Kept}
    BY <2>1, ChangedProperties DEF Persist, registryVars
  <2>3. Kept[u] \in {NoSource, sources[u]}
    BY DEF Kept
  <2> QED BY <2>2, <2>3 DEF Shrinks
<1>2. ASSUME NEW w \in Uuids, DoUninstall(w)
      PROVE  Shrinks(u)
  <2>1. \/ UNCHANGED registryVars
        \/ Persist([sources EXCEPT ![w] = NoSource])
    BY <1>2 DEF DoUninstall
  <2>2. [sources EXCEPT ![w] = NoSource][u] \in {NoSource, sources[u]}
    BY DEF TypeOK, DirTypes, Registry
  <2> QED BY <2>1, <2>2 DEF Persist, registryVars, Shrinks
<1>3. CASE AppEnds
  BY <1>3 DEF AppEnds, Shrinks
<1>4. CASE UNCHANGED registryVars
  BY <1>4 DEF registryVars, Shrinks
<1>5. CASE ~(OnListDone \/ OnSignal \/ AppEnds \/ \E w \in Uuids : DoUninstall(w))
  <2>1. CASE \E j \in 1..MaxJobs : JobStep(j)
    BY <1>4, <2>1 DEF JobStep, RequestFails, ReplyStep, StageFails, WorkerStep, Fail
  <2>2. CASE ~\E j \in 1..MaxJobs : JobStep(j)
    BY <1>4, <1>5, <2>2 DEF Next, vars, registryVars, Install, Update, Publish, Show, CheckFromPage, Uninstall,
      OnCheckDone, CheckFails, ListFails, ShellRestarts
  <2> QED BY <2>1, <2>2
<1> QED BY <1>1, <1>2, <1>3, <1>5

\* The callback that records an install.
LEMMA RecordedProperties ==
  ASSUME TypeOK, IdleInv, NEW j, FinishInstall(j)
  PROVE  /\ jobs[j].uuid \in Uuids /\ jobs[j].kind \in Kinds
         /\ sources'[jobs[j].uuid].kind = jobs[j].kind
         /\ sources'[jobs[j].uuid].version = jobs[j].version
         /\ \A u \in Uuids : u # jobs[j].uuid => sources'[u] = sources[u]
         /\ \A u \in Uuids : saved'[u] \in {saved[u], sources'[u]}
         /\ UNCHANGED <<newest, dir>> /\ listing' = TRUE
<1> DEFINE u == jobs[j].uuid
           new == [kind |-> jobs[j].kind, version |-> jobs[j].version,
                   since |-> KeptSince(jobs[j].kind, u, j)]
<1>1. u \in Uuids /\ jobs[j].kind \in Kinds
  BY NextIdleProperties DEF FinishInstall
<1>2. Persist([sources EXCEPT ![u] = new]) /\ listing' = (listing \/ TRUE)
  BY DEF FinishInstall, Finish
<1>3. sources \in Registry
  BY DEF TypeOK, DirTypes
<1>4. sources' = [sources EXCEPT ![u] = new]
  BY <1>2 DEF Persist
<1>5. saved' = sources' \/ saved' = saved
  BY <1>2 DEF Persist
<1>6. sources'[u] = new /\ \A w \in Uuids : w # u => sources'[w] = sources[w]
  BY <1>1, <1>3, <1>4 DEF Registry
<1>7. UNCHANGED <<newest, dir>>
  BY DEF FinishInstall
<1>8. listing' = TRUE
  BY <1>2
<1> QED BY <1>1, <1>5, <1>6, <1>7, <1>8

-----------------------------------------------------------------------------
(* What stands in the directory *)

Placed(j) ==
  dir[jobs[j].uuid] \in {NoDir, Broken, [kind |-> jobs[j].kind, version |-> jobs[j].version]}

\* The install has replaced the directory and will be recorded.
Replaced(j) ==
  \/ At(j, "moved")
  \/ \E i \in 1..Len(idle) : idle[i].ok /\ idle[i].job = j

\* Between the removal and the move nothing stands in the way; after the move the directory is
\* what the install put there, unless it was removed.
PlaceInv ==
  /\ \A j \in DOMAIN jobs : At(j, "moving") => dir[jobs[j].uuid] = NoDir
  /\ \A j \in DOMAIN jobs : Replaced(j) => Placed(j)

AheadInv == PublishedInv /\ PinnedInv /\ DirInv

LEMMA ClaimTypes ==
  ASSUME TypeOK, NEW u \in Uuids, NEW s \in {sources[u], saved[u]}, s.kind \in Kinds
  PROVE  s \in Source /\ s.version \in 1..MaxVersion
<1>1. s # NoSource
  BY Kinds_, Zenon
<1>2. s \in Source \cup {NoSource}
  BY DEF TypeOK, DirTypes, Registry
<1>3. s \in Source
  BY <1>1, <1>2
<1> QED BY <1>3 DEF Source

LEMMA NewestStep ==
  ASSUME TypeOK, TypeOK', [Next]_vars, NEW k \in Kinds, NEW u \in Uuids
  PROVE  /\ newest[k][u] \in 1..MaxVersion /\ newest'[k][u] \in 1..MaxVersion
         /\ \A v \in Nat : v <= newest[k][u] => v <= newest'[k][u]
<1>1. newest[k] \in [Uuids -> 1..MaxVersion] /\ newest \in [Kinds -> [Uuids -> 1..MaxVersion]]
  BY DEF TypeOK, DirTypes
<1>2. newest[k][u] \in 1..MaxVersion
  BY <1>1
<1>3. ASSUME NEW l \in Kinds, NEW w \in Uuids, Publish(l, w)
      PROVE  newest'[k][u] >= newest[k][u]
  <2>1. newest' = [newest EXCEPT ![l] = [newest[l] EXCEPT ![w] = newest[l][w] + 1]]
    BY <1>1, <1>3 DEF Publish
  <2>2. CASE k = l /\ u = w
    BY <1>1, <1>2, <2>1, <2>2
  <2>3. CASE ~(k = l /\ u = w)
    BY <1>1, <1>2, <2>1, <2>3
  <2> QED BY <2>2, <2>3
<1>4. CASE newest' = newest
  BY <1>2, <1>4
<1>5. CASE ~\E l \in Kinds, w \in Uuids : Publish(l, w)
  <2>1. CASE \E j \in 1..MaxJobs : JobStep(j)
    BY <1>4, <2>1 DEF JobStep, RequestFails, ReplyStep, StageFails, WorkerStep, FinishInstall,
      Fail, shellVars
  <2>2. CASE ~\E j \in 1..MaxJobs : JobStep(j)
    BY <1>4, <1>5, <2>2 DEF Next, vars, shellVars, Install, Update, Show, CheckFromPage, Uninstall,
      OnCheckDone, CheckFails, ListFails, ShellRestarts, OnListDone, OnSignal, ExtensionsChanged,
      DoUninstall, AppEnds
  <2> QED BY <2>1, <2>2
<1>6. newest'[k][u] >= newest[k][u]
  BY <1>3, <1>5
<1>7. newest'[k][u] \in 1..MaxVersion
  <2>1. newest'[k] \in [Uuids -> 1..MaxVersion]
    BY DEF TypeOK, DirTypes
  <2> QED BY <2>1
<1> QED BY <1>2, <1>6, <1>7, InstallerAssumption

LEMMA PublishedStep ==
  ASSUME TypeOK, TypeOK', IdleInv, PublishedInv, PinnedInv, [Next]_vars
  PROVE  PublishedInv'
<1> SUFFICES ASSUME NEW k \in Kinds, NEW u \in Uuids,
                    NEW s \in {sources'[u], saved'[u]}, s.kind = k
             PROVE  s.version <= newest'[k][u]
  BY DEF PublishedInv, NotNewer
<1>1. \A v \in Nat : v <= newest[k][u] => v <= newest'[k][u]
  BY NewestStep
<1>2. \A c \in {sources[u], saved[u]} : c.kind = k => c.version <= newest[k][u] /\ c.version \in Nat
  BY ClaimTypes, InstallerAssumption DEF PublishedInv, NotNewer
<1>3. \A c \in {sources[u], saved[u]} : c.kind = k => c.version <= newest'[k][u]
  BY <1>1, <1>2
<1>4. ASSUME NEW j \in 1..MaxJobs, FinishInstall(j)
      PROVE  s.version <= newest'[k][u]
  <2>1. CASE u # jobs[j].uuid
    BY <1>3, <1>4, <2>1, RecordedProperties
  <2>2. CASE u = jobs[j].uuid
    <3>1. jobs[j] \in Job /\ j \in DOMAIN jobs /\ jobs[j].pc = "idle" /\ jobs[j].version \in 1..MaxVersion
      BY <1>4, NextIdleProperties DEF FinishInstall, At
    <3>2. jobs[j].version <= newest[jobs[j].kind][u]
      BY <2>2, <3>1, Kinds_ DEF PinnedInv, Pinned
    <3>3. s \in {saved[u], sources'[u]}
      BY <1>4, RecordedProperties
    <3>4. CASE s = saved[u]
      BY <1>3, <3>4
    <3>5. CASE s = sources'[u]
      <4>1. s.kind = jobs[j].kind /\ s.version = jobs[j].version
        BY <1>4, <2>2, <3>5, RecordedProperties
      <4>2. s.version \in Nat
        BY <3>1, <4>1, InstallerAssumption
      <4> QED BY <1>1, <3>2, <4>1, <4>2
    <3> QED BY <3>3, <3>4, <3>5
  <2> QED BY <2>1, <2>2
<1>5. CASE ~\E j \in 1..MaxJobs : FinishInstall(j)
  BY <1>3, <1>5, ShrinksStep, Kinds_ DEF Shrinks
<1> QED BY <1>4, <1>5

LEMMA PinnedStep ==
  ASSUME TypeOK, TypeOK', IdleInv, AloneInv, PublishedInv, PinnedInv, [Next]_vars
  PROVE  PinnedInv'
<1> SUFFICES ASSUME NEW i \in DOMAIN jobs', jobs'[i] # Settled, jobs'[i].pc \in Pinned
             PROVE  /\ jobs'[i].version <= newest'[jobs'[i].kind][jobs'[i].uuid]
                    /\ \A s \in {sources'[jobs'[i].uuid], saved'[jobs'[i].uuid]} :
                         s.kind = jobs'[i].kind => s.version <= jobs'[i].version
  BY DEF PinnedInv, NotNewer
<1>1. Continues(i)
  BY JobsStep DEF Begins
<1>2. i \in DOMAIN jobs /\ Unsettled(i)
  BY <1>1 DEF Continues
<1>3. jobs[i] \in Job /\ jobs'[i] \in Job
  BY <1>2, ElementOfSeq, LenProperties DEF TypeOK, JobTypes, Unsettled
<1>4. PICK k \in Kinds, u \in Uuids, v \in Nat :
        k = jobs[i].kind /\ u = jobs[i].uuid /\ v = jobs'[i].version
  <2>1. jobs[i].kind \in Kinds /\ jobs[i].uuid \in Uuids
    BY <1>3 DEF Job
  <2>2. jobs'[i].version \in Nat
    BY <1>3, InstallerAssumption DEF Job
  <2> QED BY <2>1, <2>2
<1>5. /\ jobs'[i].kind = k /\ jobs'[i].uuid = u
      /\ \/ jobs[i].pc \in Pinned /\ v = jobs[i].version
         \/ v = newest[k][u]
  BY <1>1, <1>4 DEF Continues
<1>6. v <= newest[k][u] /\ NotNewer(v, k, u)
  <2>1. newest[k][u] \in 1..MaxVersion
    BY NewestStep
  <2> QED BY <1>2, <1>4, <1>5, <2>1 DEF PublishedInv, PinnedInv, Unsettled
<1>7. v <= newest'[k][u]
  BY <1>6, NewestStep
<1>8. ASSUME NEW j \in 1..MaxJobs, FinishInstall(j)
      PROVE  \A s \in {sources'[u], saved'[u]} : s.kind = k => s.version <= v
  <2>1. j \in DOMAIN jobs /\ jobs'[j] = Settled /\ jobs[j] # Settled
    BY <1>8, NextIdleProperties, Kinds_ DEF FinishInstall
  <2>2. u # jobs[j].uuid
    BY <1>2, <1>4, <2>1 DEF AloneInv, Unsettled
  <2>3. sources'[u] = sources[u] /\ saved'[u] \in {saved[u], sources'[u]}
    BY <1>8, <2>2, RecordedProperties
  <2> QED BY <1>6, <2>3 DEF NotNewer
<1>9. CASE ~\E j \in 1..MaxJobs : FinishInstall(j)
  <2>1. Shrinks(u)
    BY <1>9, ShrinksStep
  <2>2. \A s \in {sources'[u], saved'[u]} : s.kind = k => s.version <= v
    BY <1>6, <2>1, StillNotNewer
  <2> QED BY <1>4, <1>5, <1>7, <2>2
<1> QED BY <1>4, <1>5, <1>7, <1>8, <1>9

\* The steps that change what stands in an extension's directory, but for the move of an install,
\* remove it or break it.
LEMMA DirStep ==
  ASSUME TypeOK, [Next]_vars, NEW u \in Uuids
  PROVE  \/ dir'[u] \in {dir[u], NoDir, Broken}
         \/ \E j \in 1..MaxJobs :
              /\ MoveIn(j) /\ jobs[j].uuid = u
              /\ dir'[u] = [kind |-> jobs[j].kind, version |-> jobs[j].version]
<1>0. dir \in [Uuids -> Directory]
  BY DEF TypeOK, DirTypes
<1>1. ASSUME NEW j \in 1..MaxJobs, MoveIn(j)
      PROVE  \/ dir'[u] = dir[u] \/ dir'[u] = Broken
             \/ jobs[j].uuid = u /\ dir'[u] = [kind |-> jobs[j].kind, version |-> jobs[j].version]
  BY <1>0, <1>1 DEF MoveIn
<1>2. ASSUME NEW j \in 1..MaxJobs, ClearTarget(j)
      PROVE  dir'[u] \in {dir[u], NoDir, Broken}
  BY <1>0, <1>2 DEF ClearTarget
<1>3. ASSUME NEW w \in Uuids, DoUninstall(w)
      PROVE  dir'[u] \in {dir[u], NoDir, Broken}
  BY <1>0, <1>3 DEF DoUninstall
<1>4. CASE AppEnds
  BY <1>4 DEF AppEnds
<1>5. CASE ~(AppEnds \/ (\E w \in Uuids : DoUninstall(w)) \/ (\E j \in 1..MaxJobs : MoveIn(j))
             \/ (\E j \in 1..MaxJobs : ClearTarget(j)))
  <2>1. CASE \E j \in 1..MaxJobs : JobStep(j)
    BY <1>5, <2>1 DEF JobStep, RequestFails, ReplyStep, StageFails, WorkerStep, FinishInstall,
      Fail, Stage, Report
  <2>2. CASE ~\E j \in 1..MaxJobs : JobStep(j)
    BY <1>5, <2>2 DEF Next, vars, Install, Update, Publish, Show, CheckFromPage,
      Uninstall, OnCheckDone, CheckFails, ListFails, ShellRestarts, OnListDone, OnSignal,
      ExtensionsChanged
  <2> QED BY <2>1, <2>2
<1> QED BY <1>1, <1>2, <1>3, <1>4, <1>5

LEMMA DirClaimsStep ==
  ASSUME TypeOK, TypeOK', IdleInv, PlaceInv, DirInv, PinnedInv, [Next]_vars
  PROVE  DirInv'
<1> SUFFICES ASSUME NEW u \in Uuids, dir'[u].kind \in Kinds
             PROVE  \A s \in {sources'[u], saved'[u]} :
                      s.kind = dir'[u].kind => s.version <= dir'[u].version
  BY DEF DirInv, NotNewer
<1>1. ASSUME NEW j \in 1..MaxJobs, FinishInstall(j)
      PROVE  \A s \in {sources'[u], saved'[u]} : s.kind = dir'[u].kind => s.version <= dir'[u].version
  <2>1. dir'[u] = dir[u]
    BY <1>1, RecordedProperties
  <2>2. \A s \in {sources[u], saved[u]} : s.kind = dir[u].kind => s.version <= dir[u].version
    BY <2>1 DEF DirInv, NotNewer
  <2>3. CASE u # jobs[j].uuid
    BY <1>1, <2>1, <2>2, <2>3, RecordedProperties
  <2>4. CASE u = jobs[j].uuid
    <3>1. j \in DOMAIN jobs /\ Len(idle) # 0 /\ Head(idle) = idle[1] /\ idle[1].job = j
      BY <1>1, NextIdleProperties DEF FinishInstall
    <3>2. 1 \in 1..Len(idle)
      BY <3>1, LenProperties DEF TypeOK, JobTypes
    <3>3. Replaced(j)
      BY <1>1, <3>1, <3>2 DEF FinishInstall, Replaced
    <3>4. Placed(j)
      BY <3>1, <3>3 DEF PlaceInv
    <3>5. dir[u].version = jobs[j].version
      <4>1. dir[u] \in {NoDir, Broken, [kind |-> jobs[j].kind, version |-> jobs[j].version]}
        BY <2>4, <3>4 DEF Placed
      <4>2. dir[u].kind \in Kinds
        BY <2>1
      <4>3. dir[u] # NoDir /\ dir[u] # Broken
        BY <4>2, Kinds_
      <4>4. dir[u] = [kind |-> jobs[j].kind, version |-> jobs[j].version]
        BY <4>1, <4>3
      <4> QED BY <4>4
    <3>6. sources'[u].version = dir[u].version /\ saved'[u] \in {saved[u], sources'[u]}
      BY <1>1, <2>4, <3>5, RecordedProperties
    <3>7. dir[u].version \in 1..MaxVersion
      <4>1. dir[u] \in Directory
        BY DEF TypeOK, DirTypes
      <4> QED BY <2>1, <4>1, Kinds_ DEF Directory
    <3> QED BY <2>1, <2>2, <3>6, <3>7
  <2> QED BY <2>3, <2>4
<1>2. CASE ~\E j \in 1..MaxJobs : FinishInstall(j)
  <2>1. Shrinks(u)
    BY <1>2, ShrinksStep
  <2>2. CASE dir'[u] = dir[u]
    BY <2>1, <2>2, StillNotNewer DEF DirInv
  <2>3. CASE dir'[u] \in {NoDir, Broken}
    BY <2>3, Kinds_
  <2>4. ASSUME NEW j \in 1..MaxJobs, MoveIn(j), jobs[j].uuid = u,
               dir'[u] = [kind |-> jobs[j].kind, version |-> jobs[j].version]
        PROVE  \A s \in {sources'[u], saved'[u]} : s.kind = dir'[u].kind => s.version <= dir'[u].version
    <3>1. j \in DOMAIN jobs /\ jobs[j] # Settled /\ jobs[j].pc = "moving" /\ jobs[j].kind \in Kinds
      BY <2>4, JobAt DEF MoveIn, At, TypeOK, Unsettled
    <3>2. NotNewer(jobs[j].version, jobs[j].kind, u)
      BY <2>4, <3>1 DEF PinnedInv, Pinned
    <3> QED BY <2>1, <2>4, <3>1, <3>2, StillNotNewer
  <2> QED BY <2>2, <2>3, <2>4, DirStep
<1> QED BY <1>1, <1>2

LEMMA EntryIdle ==
  ASSUME IdleInv, NEW j, Replaced(j)
  PROVE  At(j, "moved") \/ At(j, "idle")
BY DEF Replaced, IdleInv

\* An install that has reached the move, or is past it, is the same as before the step.
LEMMA SameInstall ==
  ASSUME TypeOK, IdleInv, [Next]_vars, NEW j \in DOMAIN jobs',
         jobs'[j].pc \in {"moving", "moved", "idle"}
  PROVE  /\ j \in DOMAIN jobs /\ jobs[j] \in Job /\ jobs[j].uuid \in Uuids
         /\ jobs'[j].kind = jobs[j].kind /\ jobs'[j].uuid = jobs[j].uuid
         /\ jobs'[j].version = jobs[j].version
<1>1. jobs'[j] # Settled /\ jobs'[j].pc \in Pinned /\ jobs'[j].pc # "download"
  <2>1. Settled.pc = "done"
    BY DEF Settled
  <2> QED BY <2>1 DEF Pinned
<1>2. Continues(j)
  BY <1>1, JobsStep DEF Begins
<1>3. j \in DOMAIN jobs /\ jobs[j] # Settled
  BY <1>2 DEF Continues, Unsettled
<1>4. jobs[j] \in Job
  BY <1>3, ElementOfSeq, LenProperties DEF TypeOK, JobTypes
<1>5. jobs[j].uuid \in Uuids
  BY <1>4 DEF Job
<1> QED BY <1>1, <1>2, <1>3, <1>4, <1>5 DEF Continues

\* An install keeps its place when it was there before and nothing was put in its way.
LEMMA PlaceKept ==
  ASSUME TypeOK, IdleInv, IdleInv', PlaceInv, [Next]_vars,
         NEW j \in DOMAIN jobs',
         At(j, "moving")' => At(j, "moving"), Replaced(j)' => Replaced(j),
         dir'[jobs[j].uuid] \in {dir[jobs[j].uuid], NoDir, Broken},
         dir[jobs[j].uuid] = NoDir => dir'[jobs[j].uuid] = NoDir
  PROVE  /\ At(j, "moving")' => dir'[jobs'[j].uuid] = NoDir
         /\ Replaced(j)' => Placed(j)'
<1>1. ASSUME At(j, "moving")'
      PROVE  dir'[jobs'[j].uuid] = NoDir
  <2>1. jobs'[j].pc \in {"moving", "moved", "idle"}
    BY <1>1 DEF At
  <2>2. j \in DOMAIN jobs /\ jobs'[j].uuid = jobs[j].uuid
    BY <2>1, SameInstall
  <2>3. dir[jobs[j].uuid] = NoDir
    BY <1>1, <2>2 DEF PlaceInv
  <2> QED BY <2>2, <2>3
<1>2. ASSUME Replaced(j)'
      PROVE  Placed(j)'
  <2>1. jobs'[j].pc \in {"moving", "moved", "idle"}
    BY <1>2 DEF Replaced, IdleInv, At
  <2>2. /\ j \in DOMAIN jobs /\ jobs'[j].uuid = jobs[j].uuid /\ jobs'[j].kind = jobs[j].kind
        /\ jobs'[j].version = jobs[j].version
    BY <2>1, SameInstall
  <2>3. Placed(j)
    BY <1>2, <2>2 DEF PlaceInv
  <2>4. dir'[jobs[j].uuid] \in {NoDir, Broken, [kind |-> jobs[j].kind, version |-> jobs[j].version]}
    BY <2>3 DEF Placed
  <2> QED BY <2>2, <2>4 DEF Placed
<1> QED BY <1>1, <1>2

\* Only ClearTarget and MoveIn bring an install to the move and past it.
LEMMA StatusStep ==
  ASSUME TypeOK, IdleInv, [Next]_vars, ~\E j \in 1..MaxJobs : ClearTarget(j) \/ MoveIn(j), NEW i
  PROVE  /\ At(i, "moving")' => At(i, "moving")
         /\ Replaced(i)' => Replaced(i)
<1>1. ASSUME DOMAIN jobs' = DOMAIN jobs, \A j \in DOMAIN jobs : jobs'[j] = jobs[j] \/ jobs'[j] = Settled
      PROVE  /\ At(i, "moving")' => At(i, "moving")
             /\ At(i, "moved")' => At(i, "moved")
  <2>1. Settled.pc = "done"
    BY DEF Settled
  <2> QED BY <1>1, <2>1 DEF At
<1>2. CASE (\E k \in Kinds, u \in Uuids : Install(k, u)) \/ (\E k \in Kinds : Update(k))
  <2>1. /\ Begins(Len(jobs) + 1) /\ DOMAIN jobs' = 1..(Len(jobs) + 1)
        /\ Len(jobs) \in Nat /\ DOMAIN jobs = 1..Len(jobs)
        /\ \A j \in DOMAIN jobs : jobs'[j] = jobs[j]
        /\ idle' = idle
    BY <1>2, Beginnings
  <2>2. ASSUME At(i, "moving")' \/ At(i, "moved")'
        PROVE  i \in DOMAIN jobs /\ jobs'[i] = jobs[i]
    BY <2>1, <2>2 DEF At, Begins, Pinned
  <2> QED BY <2>1, <2>2 DEF At, Replaced
<1>3. CASE Elsewhere
  BY <1>3, ElsewhereJobs DEF At, Replaced
<1>4. CASE AppEnds
  <2>1. idle' = <<>> /\ DOMAIN jobs' = DOMAIN jobs /\ \A j \in DOMAIN jobs : jobs'[j] = Settled
    BY <1>4, AllSettled DEF AppEnds, TypeOK
  <2> QED BY <1>1, <2>1 DEF Replaced
<1>5. ASSUME NEW j \in 1..MaxJobs, FinishInstall(j) \/ Fail(j)
      PROVE  /\ At(i, "moving")' => At(i, "moving")
             /\ Replaced(i)' => Replaced(i)
  <2>1. NextIdle(j)
    BY <1>5 DEF FinishInstall, Fail
  <2>2. DOMAIN jobs' = DOMAIN jobs /\ \A h \in DOMAIN jobs : jobs'[h] = jobs[h] \/ jobs'[h] = Settled
    BY <2>1, NextIdleProperties
  <2>3. \A h \in 1..Len(idle') : h + 1 \in 1..Len(idle) /\ idle'[h] = idle[h + 1]
    BY <2>1, IdleTail
  <2> QED BY <1>1, <2>2, <2>3 DEF Replaced
<1>6. ASSUME NEW j \in 1..MaxJobs, NEW pc \in Pinned \cup {"lookup"}, NEW from \in Steps, At(j, from),
             Move(j, pc), from \in Pinned <=> pc \in Pinned, pc # "moving", pc # "moved"
      PROVE  /\ At(i, "moving")' => At(i, "moving")
             /\ At(i, "moved")' => At(i, "moved")
  <2>1. pc \in Steps /\ from # "done" /\ JobTypes
    BY DEF Steps, Pinned, TypeOK
  <2>2. /\ DOMAIN jobs' = DOMAIN jobs /\ jobs'[j] = [jobs[j] EXCEPT !.pc = pc]
        /\ \A h \in DOMAIN jobs : h # j => jobs'[h] = jobs[h]
    BY <1>6, <2>1, MoveProperties
  <2>3. jobs'[j].pc = pc
    <3>1. jobs[j] \in Job
      BY <1>6, <2>1, JobAt
    <3> QED BY <2>2, <3>1 DEF Job
  <2> QED BY <1>6, <2>2, <2>3 DEF At
<1>7. ASSUME NEW j \in 1..MaxJobs, RequestFails(j) \/ ReplyStep(j)
      PROVE  /\ At(i, "moving")' => At(i, "moving")
             /\ Replaced(i)' => Replaced(i)
  <2>1. idle' = idle
    BY <1>7 DEF RequestFails, ReplyStep
  <2>2. CASE RequestFails(j)
    <3>1. j \in DOMAIN jobs /\ jobs' = [jobs EXCEPT ![j] = Settled]
      BY <2>2 DEF RequestFails, At, Settle
    <3>2. DOMAIN jobs' = DOMAIN jobs /\ \A h \in DOMAIN jobs : jobs'[h] = jobs[h] \/ jobs'[h] = Settled
      BY <3>1, ReplaceJob DEF TypeOK
    <3> QED BY <1>1, <2>1, <3>2 DEF Replaced
  <2>3. CASE OnRepoInfo(j)
    BY <1>6, <2>1, <2>3 DEF OnRepoInfo, Steps, Pinned, Replaced
  <2>4. CASE OnArchive(j)
    BY <1>6, <2>1, <2>4 DEF OnArchive, Steps, Pinned, Replaced
  <2>5. CASE OnLookup(j)
    <3>1. /\ DOMAIN jobs' = DOMAIN jobs
          /\ \A h \in DOMAIN jobs : h # j => jobs'[h] = jobs[h]
      BY <1>7, Advancing DEF Advances
    <3>2. j \in DOMAIN jobs /\ jobs[j] \in Job
      BY <1>7, Advancing DEF Advances
    <3>3. jobs'[j].pc = "download"
      BY <2>5, <3>2 DEF OnLookup, Job
    <3> QED BY <2>1, <3>1, <3>3 DEF At, Replaced
  <2> QED BY <1>7, <2>2, <2>3, <2>4, <2>5 DEF ReplyStep
<1>8. ASSUME NEW j \in 1..MaxJobs, StageFails(j) \/ Stage(j) \/ Report(j)
      PROVE  /\ At(i, "moving")' => At(i, "moving")
             /\ Replaced(i)' => Replaced(i)
  <2>1. /\ At(i, "moving")' => At(i, "moving")
        /\ At(i, "moved")' => At(i, "moved")
    BY <1>6, <1>8 DEF StageFails, Stage, Report, Steps, Pinned
  <2>2. idle \in Seq(Completion)
    BY DEF TypeOK, JobTypes
  <2>3. PICK n \in Nat : n = Len(idle)
    BY <2>2, LenProperties
  <2>4. CASE idle' = idle
    BY <2>1, <2>4 DEF Replaced
  <2>5. ASSUME NEW ok \in BOOLEAN, idle' = Append(idle, [job |-> j, ok |-> ok]), ok => At(j, "moved")
        PROVE  Replaced(i)' => Replaced(i)
    <3> DEFINE e == [job |-> j, ok |-> ok]
    <3>1. e \in Completion /\ e.job = j /\ e.ok = ok
      BY DEF Completion
    <3> HIDE DEF e
    <3>2. Len(idle') = n + 1 /\ idle'[n + 1] = e /\ \A h \in 1..n : idle'[h] = idle[h]
      BY <2>2, <2>3, <2>5, <3>1, AppendProperties DEF e
    <3>3. \A h \in 1..(n + 1) : idle'[h].ok /\ idle'[h].job = i => Replaced(i)
      <4> SUFFICES ASSUME NEW h \in 1..(n + 1), idle'[h].ok, idle'[h].job = i
                   PROVE  Replaced(i)
        OBVIOUS
      <4>1. CASE h = n + 1
        BY <2>5, <3>1, <3>2, <4>1 DEF Replaced
      <4>2. CASE h \in 1..n
        BY <2>3, <3>2, <4>2 DEF Replaced
      <4> QED BY <4>1, <4>2
    <3> QED BY <2>1, <3>2, <3>3 DEF Replaced
  <2>6. \/ idle' = idle
        \/ \E ok \in BOOLEAN : idle' = Append(idle, [job |-> j, ok |-> ok]) /\ (ok => At(j, "moved"))
    BY <1>8 DEF StageFails, Stage, Report
  <2> QED BY <2>1, <2>4, <2>5, <2>6
<1> QED BY <1>2, <1>3, <1>4, <1>5, <1>7, <1>8, NextCases DEF JobStep, WorkerStep

\* Nothing is put in a directory that is empty but by the move of an install.
LEMMA EmptyKept ==
  ASSUME TypeOK, [Next]_vars, NEW u \in Uuids, dir[u] = NoDir, ~AppEnds,
         ~\E j \in 1..MaxJobs : MoveIn(j)
  PROVE  dir'[u] = NoDir
<1>0. dir \in [Uuids -> Directory]
  BY DEF TypeOK, DirTypes
<1>1. ASSUME NEW j \in 1..MaxJobs, ClearTarget(j)
      PROVE  dir'[u] = NoDir
  BY <1>0, <1>1 DEF ClearTarget
<1>2. ASSUME NEW w \in Uuids, DoUninstall(w)
      PROVE  dir'[u] = NoDir
  BY <1>0, <1>2 DEF DoUninstall
<1>3. CASE ~((\E w \in Uuids : DoUninstall(w)) \/ (\E j \in 1..MaxJobs : ClearTarget(j)))
  <2>1. CASE \E j \in 1..MaxJobs : JobStep(j)
    BY <1>3, <2>1 DEF JobStep, RequestFails, ReplyStep, StageFails, WorkerStep, FinishInstall,
      Fail, Stage, Report
  <2>2. CASE ~\E j \in 1..MaxJobs : JobStep(j)
    BY <1>3, <2>2 DEF Next, vars, Install, Update, Publish, Show, CheckFromPage,
      Uninstall, OnCheckDone, CheckFails, ListFails, ShellRestarts, OnListDone, OnSignal,
      ExtensionsChanged
  <2> QED BY <2>1, <2>2
<1> QED BY <1>1, <1>2, <1>3

\* A callback that tells of a failure says of no install that it is replaced.
LEMMA EntryKept ==
  ASSUME TypeOK, NEW h \in 1..MaxJobs, NEW i,
         idle' = idle \/ idle' = Append(idle, [job |-> h, ok |-> FALSE]),
         NEW x \in 1..Len(idle'), idle'[x].ok, idle'[x].job = i
  PROVE  x \in 1..Len(idle) /\ idle'[x] = idle[x]
<1> DEFINE e == [job |-> h, ok |-> FALSE]
<1>1. e \in Completion /\ e.ok = FALSE
  BY DEF Completion
<1> HIDE DEF e
<1>2. idle \in Seq(Completion)
  BY DEF TypeOK, JobTypes
<1>3. PICK n \in Nat : n = Len(idle)
  BY <1>2, LenProperties
<1>4. CASE idle' = Append(idle, [job |-> h, ok |-> FALSE])
  <2>1. Len(idle') = n + 1 /\ idle'[n + 1] = e /\ \A y \in 1..n : idle'[y] = idle[y]
    BY <1>1, <1>2, <1>3, <1>4, AppendProperties DEF e
  <2>2. x # n + 1
    BY <1>1, <2>1
  <2> QED BY <1>3, <2>1, <2>2
<1> QED BY <1>4

LEMMA PlacingProperties ==
  ASSUME TypeOK, IdleInv, NEW h \in 1..MaxJobs, ClearTarget(h) \/ MoveIn(h)
  PROVE  /\ h \in DOMAIN jobs /\ jobs[h] \in Job /\ jobs[h].uuid \in Uuids /\ Unsettled(h)
         /\ DOMAIN jobs' = DOMAIN jobs /\ \A i \in DOMAIN jobs : i # h => jobs'[i] = jobs[i]
         /\ jobs'[h].uuid = jobs[h].uuid /\ jobs'[h].kind = jobs[h].kind
         /\ jobs'[h].version = jobs[h].version
         /\ idle' = idle \/ (idle' = Append(idle, [job |-> h, ok |-> FALSE]) /\ jobs'[h].pc = "idle")
         /\ ~\E x \in 1..Len(idle') : idle'[x].ok /\ idle'[x].job = h
<1>1. /\ h \in DOMAIN jobs /\ jobs[h] \in Job /\ jobs[h].pc # "idle"
      /\ DOMAIN jobs' = DOMAIN jobs /\ \A i \in DOMAIN jobs : i # h => jobs'[i] = jobs[i]
  <2>2. PICK from \in Steps, pc \in Steps :
          At(h, from) /\ Move(h, pc) /\ (from \in Pinned <=> pc \in Pinned) /\ from # "idle"
    BY DEF ClearTarget, MoveIn, Steps, Pinned
  <2>3. from # "done" /\ JobTypes
    BY <2>2 DEF Steps, Pinned, TypeOK
  <2> QED BY <2>2, <2>3, MoveProperties, JobAt DEF At
<1>2. PICK pc \in Pinned : Move(h, pc) /\ (pc = "idle" \/ idle' = idle)
  BY DEF ClearTarget, MoveIn, Pinned
<1>3. jobs'[h] = [jobs[h] EXCEPT !.pc = pc]
  BY <1>1, <1>2 DEF Move
<1>4. jobs[h].uuid \in Uuids /\ Unsettled(h)
  BY <1>1, Kinds_ DEF Unsettled, Job
<1>5. /\ jobs'[h].uuid = jobs[h].uuid /\ jobs'[h].kind = jobs[h].kind
      /\ jobs'[h].version = jobs[h].version /\ jobs'[h].pc = pc
  BY <1>1, <1>3 DEF Job
<1>6. idle' = idle \/ idle' = Append(idle, [job |-> h, ok |-> FALSE])
  BY DEF ClearTarget, MoveIn
<1>7. ASSUME NEW x \in 1..Len(idle'), idle'[x].ok, idle'[x].job = h
      PROVE  FALSE
  <2>1. x \in 1..Len(idle) /\ idle[x].job = h
    BY <1>6, <1>7, EntryKept
  <2> QED BY <1>1, <2>1 DEF IdleInv, At
<1> QED BY <1>1, <1>2, <1>4, <1>5, <1>6, <1>7

LEMMA PlaceStep ==
  ASSUME TypeOK, IdleInv, IdleInv', AloneInv, PlaceInv, [Next]_vars
  PROVE  PlaceInv'
<1> SUFFICES ASSUME NEW j \in DOMAIN jobs', At(j, "moving")' \/ Replaced(j)'
             PROVE  /\ At(j, "moving")' => dir'[jobs'[j].uuid] = NoDir
                    /\ Replaced(j)' => Placed(j)'
  BY DEF PlaceInv
<1>0. jobs'[j].pc \in {"moving", "moved", "idle"}
  BY DEF Replaced, IdleInv, At
<1>1. /\ j \in DOMAIN jobs /\ jobs[j] \in Job /\ jobs[j].uuid \in Uuids
      /\ jobs'[j].kind = jobs[j].kind /\ jobs'[j].uuid = jobs[j].uuid
      /\ jobs'[j].version = jobs[j].version
  BY <1>0, SameInstall
<1>2. CASE ~\E h \in 1..MaxJobs : ClearTarget(h) \/ MoveIn(h)
  <2>1. (At(j, "moving")' => At(j, "moving")) /\ (Replaced(j)' => Replaced(j))
    BY <1>2, StatusStep
  <2>2. ~AppEnds
    <3>1. ASSUME AppEnds PROVE FALSE
      <4>1. jobs'[j] = Settled
        BY <1>1, <3>1, AllSettled DEF AppEnds, TypeOK
      <4> QED BY <1>0, <4>1 DEF Settled
    <3> QED BY <3>1
  <2>3. dir'[jobs[j].uuid] \in {dir[jobs[j].uuid], NoDir, Broken}
    BY <1>1, <1>2, DirStep
  <2>4. dir[jobs[j].uuid] = NoDir => dir'[jobs[j].uuid] = NoDir
    BY <1>1, <1>2, <2>2, EmptyKept
  <2> QED BY <2>1, <2>3, <2>4, PlaceKept
<1>3. ASSUME NEW h \in 1..MaxJobs, ClearTarget(h) \/ MoveIn(h), j # h
      PROVE  /\ At(j, "moving")' => dir'[jobs'[j].uuid] = NoDir
             /\ Replaced(j)' => Placed(j)'
  <2>1. jobs'[j] = jobs[j]
    BY <1>1, <1>3, PlacingProperties
  <2>2. At(j, "moving")' => At(j, "moving")
    BY <1>1, <2>1 DEF At
  <2>3. ASSUME NEW x \in 1..Len(idle'), idle'[x].ok, idle'[x].job = j
        PROVE  \E y \in 1..Len(idle) : idle[y].ok /\ idle[y].job = j
    <3>1. x \in 1..Len(idle) /\ idle'[x] = idle[x]
      BY <1>3, <2>3, PlacingProperties, EntryKept
    <3> QED BY <2>3, <3>1
  <2>4. Replaced(j)' => Replaced(j)
    BY <1>1, <2>1, <2>3 DEF Replaced, At
  <2>5. dir \in [Uuids -> Directory]
    BY DEF TypeOK, DirTypes
  <2>6. CASE ClearTarget(h)
    <3>1. dir'[jobs[j].uuid] \in {dir[jobs[j].uuid], NoDir, Broken}
      BY <1>1, <2>5, <2>6 DEF ClearTarget
    <3>2. dir[jobs[j].uuid] = NoDir => dir'[jobs[j].uuid] = NoDir
      BY <1>1, <2>5, <2>6 DEF ClearTarget
    <3> QED BY <2>2, <2>4, <3>1, <3>2, PlaceKept
  <2>7. CASE MoveIn(h)
    <3>1. jobs[j] # Settled
      BY <1>0, <2>1 DEF Settled
    <3>2. jobs[j].uuid # jobs[h].uuid
      BY <1>1, <1>3, <3>1, PlacingProperties DEF AloneInv, Unsettled
    <3>3. dir'[jobs[j].uuid] = dir[jobs[j].uuid]
      BY <1>1, <2>5, <2>7, <3>2 DEF MoveIn
    <3> QED BY <2>2, <2>4, <3>3, PlaceKept
  <2> QED BY <1>3, <2>6, <2>7
<1>4. ASSUME NEW h \in 1..MaxJobs, ClearTarget(h) \/ MoveIn(h), j = h
      PROVE  /\ At(j, "moving")' => dir'[jobs'[j].uuid] = NoDir
             /\ Replaced(j)' => Placed(j)'
  <2>1. dir \in [Uuids -> Directory]
    BY DEF TypeOK, DirTypes
  <2>2. Replaced(j)' => jobs'[j].pc = "moved"
    BY <1>4, PlacingProperties DEF Replaced, At
  <2>3. \A pc : Move(j, pc) => jobs'[j].pc = pc
    BY <1>1 DEF Move, Job
  <2>4. CASE ClearTarget(j)
    BY <1>1, <2>1, <2>2, <2>3, <2>4 DEF ClearTarget, At
  <2>5. CASE MoveIn(j)
    <3>1. dir[jobs[j].uuid] = NoDir
      BY <1>1, <2>5 DEF MoveIn, PlaceInv
    <3>2. jobs'[j].pc # "moving"
      BY <2>3, <2>5 DEF MoveIn
    <3>3. jobs'[j].pc = "moved" => dir'[jobs[j].uuid] = [kind |-> jobs[j].kind, version |-> jobs[j].version]
      BY <1>1, <2>1, <2>3, <2>5, <3>1 DEF MoveIn
    <3> QED BY <1>1, <2>2, <3>2, <3>3 DEF At, Placed
  <2> QED BY <1>4, <2>4, <2>5
<1> QED BY <1>2, <1>3, <1>4

-----------------------------------------------------------------------------
(* The registry and the directory *)

\* While nothing has gone wrong no directory is half removed or half copied.
WholeInv == faults = 0 => \A u \in Uuids : dir[u] # Broken

\* What the registry says of u is what stands in the directory, but for a source whose directory is
\* gone and that the list under way will drop.
Core(u) ==
  IF dir[u].kind \in Kinds
  THEN sources[u].kind = dir[u].kind /\ sources[u].version = dir[u].version
  ELSE sources[u] = NoSource \/ (listing /\ dir[u] = NoDir)

\* An install of u has begun to replace its directory and has not been recorded.
Replacing(u) == \E j \in DOMAIN jobs : jobs[j].uuid = u /\ (At(j, "moving") \/ Replaced(j))

CoreInv == faults = 0 => \A u \in Uuids : Core(u) \/ Replacing(u)

LEMMA NoFaultStep ==
  ASSUME TypeOK, [Next]_vars, faults' = 0
  PROVE  faults = 0 /\ ~Fault /\ ~AppEnds /\ ~ListFails
<1>1. faults \in Nat
  BY InstallerAssumption DEF TypeOK
<1>2. ~Fault
  BY <1>1 DEF Fault
<1>3. faults' = faults
  <2>1. CASE \E j \in 1..MaxJobs : JobStep(j)
    BY <1>2, <2>1 DEF JobStep, RequestFails, ReplyStep, StageFails, WorkerStep, FinishInstall,
      Fail, Stage, ClearTarget, MoveIn, Report, Finish, Persist
  <2>2. CASE ~\E j \in 1..MaxJobs : JobStep(j)
    BY <1>2, <2>2 DEF Next, vars, Install, Update, Publish, Show, CheckFromPage,
      Uninstall, OnCheckDone, CheckFails, ListFails, ShellRestarts, OnListDone, OnSignal,
      ExtensionsChanged, DoUninstall, AppEnds, Persist
  <2> QED BY <2>1, <2>2
<1> QED BY <1>2, <1>3 DEF AppEnds, ListFails

LEMMA WholeStep ==
  ASSUME TypeOK, WholeInv, [Next]_vars
  PROVE  WholeInv'
<1> SUFFICES ASSUME faults' = 0, NEW u \in Uuids
             PROVE  dir'[u] # Broken
  BY DEF WholeInv
<1>1. faults = 0 /\ ~Fault /\ ~AppEnds /\ dir[u] # Broken
  BY NoFaultStep DEF WholeInv
<1>2. dir \in [Uuids -> Directory] /\ NoDir # Broken
  BY Kinds_ DEF TypeOK, DirTypes
<1>3. ASSUME NEW j \in 1..MaxJobs, MoveIn(j)
      PROVE  dir'[u] # Broken
  <2>1. jobs[j].kind \in Kinds
    BY <1>3, JobAt DEF MoveIn, TypeOK
  <2>2. [kind |-> jobs[j].kind, version |-> jobs[j].version] # Broken
    <3>1. [kind |-> jobs[j].kind, version |-> jobs[j].version].kind # Broken.kind
      BY <2>1, Kinds_
    <3> QED BY <3>1
  <2>3. dir' = [dir EXCEPT ![jobs[j].uuid] =
                  IF @ = NoDir THEN [kind |-> jobs[j].kind, version |-> jobs[j].version] ELSE @]
    BY <1>1, <1>3 DEF MoveIn
  <2> QED BY <1>1, <1>2, <2>2, <2>3
<1>4. ASSUME NEW j \in 1..MaxJobs, ClearTarget(j)
      PROVE  dir'[u] # Broken
  BY <1>1, <1>2, <1>4 DEF ClearTarget
<1>5. ASSUME NEW w \in Uuids, DoUninstall(w)
      PROVE  dir'[u] # Broken
  BY <1>1, <1>2, <1>5 DEF DoUninstall
<1>6. CASE ~((\E w \in Uuids : DoUninstall(w)) \/ (\E j \in 1..MaxJobs : MoveIn(j) \/ ClearTarget(j)))
  <2>1. CASE \E j \in 1..MaxJobs : JobStep(j)
    BY <1>1, <1>6, <2>1 DEF JobStep, RequestFails, ReplyStep, StageFails, WorkerStep, FinishInstall,
      Fail, Stage, Report
  <2>2. CASE ~\E j \in 1..MaxJobs : JobStep(j)
    BY <1>1, <1>6, <2>2 DEF Next, vars, Install, Update, Publish, Show, CheckFromPage,
      Uninstall, OnCheckDone, CheckFails, ListFails, ShellRestarts, OnListDone, OnSignal,
      ExtensionsChanged
  <2> QED BY <2>1, <2>2
<1> QED BY <1>3, <1>4, <1>5, <1>6

LEMMA FinishedCore ==
  ASSUME TypeOK, IdleInv, PlaceInv, WholeInv, faults = 0, NEW j, FinishInstall(j),
         NEW u \in Uuids, u = jobs[j].uuid
  PROVE  Core(u)'
<1>1. /\ j \in DOMAIN jobs /\ jobs[j].kind \in Kinds
      /\ Len(idle) # 0 /\ Head(idle) = idle[1] /\ idle[1].job = j
  BY NextIdleProperties DEF FinishInstall
<1>2. 1 \in 1..Len(idle)
  BY <1>1, LenProperties DEF TypeOK, JobTypes
<1>3. Replaced(j)
  BY <1>1, <1>2 DEF FinishInstall, Replaced
<1>4. dir[u] = NoDir \/ dir[u] = [kind |-> jobs[j].kind, version |-> jobs[j].version]
  BY <1>1, <1>3 DEF PlaceInv, Placed, WholeInv
<1>5. /\ sources'[u].kind = jobs[j].kind /\ sources'[u].version = jobs[j].version
      /\ dir'[u] = dir[u] /\ listing' = TRUE
  BY RecordedProperties
<1>6. CASE dir[u] = NoDir
  BY <1>5, <1>6, Kinds_ DEF Core
<1>7. CASE dir[u] = [kind |-> jobs[j].kind, version |-> jobs[j].version]
  <2>1. dir'[u].kind = jobs[j].kind /\ dir'[u].version = jobs[j].version
    BY <1>5, <1>7
  <2> QED BY <1>1, <1>5, <2>1 DEF Core
<1> QED BY <1>4, <1>6, <1>7

\* An install that has begun to replace the directory goes on to do so until it is recorded.
LEMMA ReplacingStep ==
  ASSUME TypeOK, IdleInv, [Next]_vars, faults' = 0, NEW u, Replacing(u),
         ~\E j \in 1..MaxJobs : FinishInstall(j) /\ jobs[j].uuid = u
  PROVE  Replacing(u)'
<1>1. PICK j \in DOMAIN jobs : jobs[j].uuid = u /\ (At(j, "moving") \/ Replaced(j))
  BY DEF Replacing
<1>2. At(j, "moving") \/ At(j, "moved") \/ At(j, "idle")
  BY <1>1, EntryIdle
<1>3. j \in 1..MaxJobs /\ jobs[j] \in Job /\ Unsettled(j)
  BY <1>2, JobAt DEF TypeOK
<1>4. faults = 0 /\ ~Fault /\ ~AppEnds
  BY NoFaultStep
<1>5. idle \in Seq(Completion)
  BY DEF TypeOK, JobTypes
<1>6. ASSUME j \in DOMAIN jobs', jobs'[j].uuid = u, At(j, "moving")' \/ Replaced(j)'
      PROVE  Replacing(u)'
  BY <1>6 DEF Replacing
<1>7. ASSUME j \in DOMAIN jobs', jobs'[j] = jobs[j], idle' = idle
      PROVE  Replacing(u)'
  BY <1>1, <1>7 DEF Replacing, Replaced, At
<1>8. CASE (\E k \in Kinds, w \in Uuids : Install(k, w)) \/ (\E k \in Kinds : Update(k))
  BY <1>1, <1>7, <1>8, Beginnings
<1>9. CASE Elsewhere
  BY <1>1, <1>7, <1>9, ElsewhereJobs
<1>10. ASSUME NEW h \in 1..MaxJobs, FinishInstall(h) \/ Fail(h)
       PROVE  Replacing(u)'
  <2>1. NextIdle(h)
    BY <1>10 DEF FinishInstall, Fail
  <2>2. /\ DOMAIN jobs' = DOMAIN jobs /\ \A i \in DOMAIN jobs : i # h => jobs'[i] = jobs[i]
        /\ Head(idle) = idle[1] /\ idle[1].job = h /\ At(h, "idle") /\ Len(idle) # 0
    BY <2>1, NextIdleProperties
  <2>3. 1 \in 1..Len(idle)
    BY <1>5, <2>2, LenProperties
  <2>4. j # h
    <3>1. CASE FinishInstall(h)
      BY <1>1, <3>1, <1>10
    <3>2. CASE Fail(h)
      <4>1. ~idle[1].ok
        BY <2>2, <3>2 DEF Fail
      <4>2. ASSUME NEW i \in 1..Len(idle), idle[i].ok, idle[i].job = h
            PROVE  FALSE
        BY <2>2, <2>3, <4>1, <4>2 DEF IdleInv
      <4> QED BY <1>1, <2>2, <4>2 DEF Replaced, At
    <3> QED BY <1>10, <3>1, <3>2
  <2>5. jobs'[j] = jobs[j] /\ j \in DOMAIN jobs'
    BY <1>1, <2>2, <2>4
  <2>6. ASSUME NEW i \in 1..Len(idle), idle[i].ok, idle[i].job = j
        PROVE  \E y \in 1..Len(idle') : idle'[y].ok /\ idle'[y].job = j
    <3>1. i # 1
      BY <2>2, <2>4, <2>6
    <3>2. i - 1 \in 1..Len(idle') /\ idle'[i - 1] = idle[i]
      BY <2>1, <3>1, IdleTail
    <3> QED BY <2>6, <3>2
  <2> QED BY <1>1, <1>6, <2>5, <2>6 DEF Replaced, At
<1>11. ASSUME NEW h \in 1..MaxJobs, Advances(h)
       PROVE  Replacing(u)'
  <2>1. /\ h \in DOMAIN jobs /\ jobs[h] \in Job /\ jobs[h].pc # "idle"
        /\ DOMAIN jobs' = DOMAIN jobs /\ \A i \in DOMAIN jobs : i # h => jobs'[i] = jobs[i]
    BY <1>11, Advancing
  <2>2. idle' = idle \/ \E ok \in BOOLEAN : idle' = Append(idle, [job |-> h, ok |-> ok])
    BY <1>11 DEF Advances, RequestFails, ReplyStep, StageFails, WorkerStep, Stage, ClearTarget,
      MoveIn, Report
  <2>3. \A i \in 1..Len(idle) : i \in 1..Len(idle') /\ idle'[i] = idle[i]
    <3>1. \A ok \in BOOLEAN : [job |-> h, ok |-> ok] \in Completion
      BY DEF Completion
    <3>2. PICK n \in Nat : n = Len(idle)
      BY <1>5, LenProperties
    <3>3. CASE idle' = idle
      BY <3>3
    <3>4. ASSUME NEW e \in Completion, idle' = Append(idle, e)
          PROVE  \A i \in 1..Len(idle) : i \in 1..Len(idle') /\ idle'[i] = idle[i]
      <4>1. Len(idle') = n + 1 /\ \A i \in 1..n : idle'[i] = idle[i]
        BY <1>5, <3>2, <3>4, AppendProperties
      <4>2. 1..n \subseteq 1..(n + 1)
        OBVIOUS
      <4> QED BY <3>2, <4>1, <4>2
    <3> QED BY <2>2, <3>1, <3>3, <3>4
  <2>4. CASE j # h
    <3>1. jobs'[j] = jobs[j] /\ j \in DOMAIN jobs'
      BY <1>1, <2>1, <2>4
    <3> QED BY <1>1, <1>6, <2>3, <3>1 DEF Replaced, At
  <2>5. CASE j = h
    <3>1. At(j, "moving") \/ At(j, "moved")
      BY <1>2, <2>1, <2>5 DEF At
    <3>2. \A pc : Move(j, pc) => jobs'[j].pc = pc /\ jobs'[j].uuid = u
      BY <1>1, <1>3 DEF Move, Job
    <3>3. CASE At(j, "moving")
      <4>1. MoveIn(j) /\ Move(j, "moved")
        BY <1>4, <1>11, <2>5, <3>3 DEF Advances, RequestFails, ReplyStep, OnRepoInfo, OnLookup,
          OnArchive, StageFails, WorkerStep, Stage, ClearTarget, MoveIn, Report, At
      <4> QED BY <1>1, <1>6, <2>1, <3>2, <4>1 DEF Replaced, At
    <3>4. CASE At(j, "moved")
      <4>1. Report(j)
        BY <1>11, <2>5, <3>4 DEF Advances, RequestFails, ReplyStep, OnRepoInfo, OnLookup,
          OnArchive, StageFails, WorkerStep, Stage, ClearTarget, MoveIn, Report, At
      <4> DEFINE e == [job |-> j, ok |-> TRUE]
      <4>2. e \in Completion /\ e.job = j /\ e.ok
        BY <1>3 DEF Completion
      <4>3. idle' = Append(idle, e) /\ Move(j, "idle")
        BY <4>1 DEF Report
      <4> HIDE DEF e
      <4>4. PICK n \in Nat : n = Len(idle)
        BY <1>5, LenProperties
      <4>5. Len(idle') = n + 1 /\ idle'[n + 1] = e
        BY <1>5, <4>2, <4>3, <4>4, AppendProperties
      <4>6. n + 1 \in 1..Len(idle')
        BY <4>4, <4>5
      <4>7. Replaced(j)'
        BY <4>2, <4>5, <4>6 DEF Replaced
      <4> QED BY <1>1, <1>6, <2>1, <3>2, <4>3, <4>7
    <3> QED BY <3>1, <3>3, <3>4
  <2> QED BY <2>4, <2>5
<1> QED BY <1>4, <1>8, <1>9, <1>10, <1>11, NextCases DEF JobStep, Advances

LEMMA CoreStep ==
  ASSUME TypeOK, IdleInv, PlaceInv, WholeInv, CoreInv, [Next]_vars
  PROVE  CoreInv'
<1> SUFFICES ASSUME faults' = 0, NEW u \in Uuids
             PROVE  Core(u)' \/ Replacing(u)'
  BY DEF CoreInv
<1>1. faults = 0 /\ ~Fault /\ ~AppEnds /\ ~ListFails /\ (Core(u) \/ Replacing(u))
  BY NoFaultStep DEF CoreInv
<1>2. dir \in [Uuids -> Directory] /\ sources \in Registry
  BY DEF TypeOK, DirTypes
<1>3. ASSUME NEW j \in 1..MaxJobs, FinishInstall(j), jobs[j].uuid = u
      PROVE  Core(u)'
  BY <1>1, <1>3, FinishedCore
<1>4. CASE Replacing(u) /\ ~\E j \in 1..MaxJobs : FinishInstall(j) /\ jobs[j].uuid = u
  BY <1>4, ReplacingStep
<1>5. ASSUME Core(u), dir'[u] = dir[u], sources'[u] = sources[u], listing => listing'
      PROVE  Core(u)'
  BY <1>5 DEF Core
<1>6. ASSUME Core(u), NEW j \in 1..MaxJobs, FinishInstall(j), jobs[j].uuid # u
      PROVE  Core(u)'
  BY <1>5, <1>6, RecordedProperties
<1>7. ASSUME Core(u), NEW w \in Uuids, DoUninstall(w)
      PROVE  Core(u)'
  <2>1. dir' = [dir EXCEPT ![w] = NoDir] /\ listing' = TRUE
    BY <1>1, <1>7 DEF DoUninstall
  <2>2. sources' = [sources EXCEPT ![w] = NoSource] \/ (sources' = sources /\ sources[w] = NoSource)
    BY <1>1, <1>7 DEF DoUninstall, Persist, registryVars
  <2>3. CASE u = w
    <3>1. dir'[u] = NoDir /\ sources'[u] = NoSource
      BY <1>2, <2>1, <2>2, <2>3 DEF Registry
    <3> QED BY <3>1, Kinds_ DEF Core
  <2>4. CASE u # w
    <3>1. dir'[u] = dir[u] /\ sources'[u] = sources[u]
      BY <1>2, <2>1, <2>2, <2>4 DEF Registry
    <3> QED BY <1>5, <1>7, <2>1, <3>1
  <2> QED BY <2>3, <2>4
<1>8. ASSUME Core(u), OnListDone \/ OnSignal
      PROVE  Core(u)'
  <2>1. sources' = Kept /\ dir' = dir
    BY <1>8, ChangedProperties DEF OnListDone, OnSignal, ExtensionsChanged
  <2>2. sources'[u] = IF sources[u] # NoSource /\ dir[u] = NoDir THEN NoSource ELSE sources[u]
    BY <2>1 DEF Kept, Stale
  <2> QED BY <1>8, <2>1, <2>2, Kinds_ DEF Core
<1>9. ASSUME Core(u), NEW j \in 1..MaxJobs, WorkerStep(j), ClearTarget(j) \/ MoveIn(j)
      PROVE  Core(u)' \/ Replacing(u)'
  <2>1. /\ j \in DOMAIN jobs /\ jobs[j] \in Job /\ DOMAIN jobs' = DOMAIN jobs
        /\ jobs'[j].uuid = jobs[j].uuid
    BY <1>9, PlacingProperties
  <2>2. Move(j, "moving") \/ Move(j, "moved")
    BY <1>1, <1>9 DEF ClearTarget, MoveIn
  <2>3. \A pc : Move(j, pc) => jobs'[j].pc = pc
    BY <2>1 DEF Move, Job
  <2>4. CASE jobs[j].uuid = u
    BY <2>1, <2>2, <2>3, <2>4 DEF Replacing, Replaced, At
  <2>5. CASE jobs[j].uuid # u
    <3>1. dir'[u] = dir[u]
      BY <1>2, <1>9, <2>5 DEF ClearTarget, MoveIn
    <3>2. UNCHANGED <<sources, listing>>
      BY <1>9 DEF WorkerStep, registryVars, shellVars
    <3> QED BY <1>5, <1>9, <3>1, <3>2
  <2> QED BY <2>4, <2>5
<1>10. ASSUME Core(u),
              ~(OnListDone \/ OnSignal \/ (\E w \in Uuids : DoUninstall(w))
                \/ (\E j \in 1..MaxJobs : FinishInstall(j) \/ (WorkerStep(j) /\ (ClearTarget(j) \/ MoveIn(j)))))
       PROVE  Core(u)'
  <2>1. UNCHANGED <<dir, sources, listing>>
    <3>1. CASE \E j \in 1..MaxJobs : JobStep(j)
      BY <1>10, <3>1 DEF JobStep, RequestFails, ReplyStep, StageFails, WorkerStep,
        Fail, Stage, Report, shellVars, registryVars
    <3>2. CASE ~\E j \in 1..MaxJobs : JobStep(j)
      BY <1>1, <1>10, <3>2 DEF Next, vars, Install, Update, Publish, Show, CheckFromPage,
        Uninstall, OnCheckDone, CheckFails, ShellRestarts, shellVars, registryVars
    <3> QED BY <3>1, <3>2
  <2> QED BY <1>5, <1>10, <2>1
<1> QED BY <1>1, <1>3, <1>4, <1>6, <1>7, <1>8, <1>9, <1>10

-----------------------------------------------------------------------------
(* Theorems *)

InstallerInv ==
  /\ TypeOK /\ IdleInv /\ AloneInv
  /\ PlaceInv /\ AheadInv
  /\ WholeInv /\ CoreInv

LEMMA IdleInit == Init => IdleInv
BY DEF Init, IdleInv

LEMMA InstallerInit == Init => InstallerInv
<1> SUFFICES ASSUME Init PROVE InstallerInv
  OBVIOUS
<1>1. TypeOK /\ IdleInv
  BY TypesInit, IdleInit
<1>2. jobs = <<>> /\ idle = <<>> /\ DOMAIN jobs = {}
  BY DEF Init
<1>3. AloneInv /\ PlaceInv /\ PinnedInv
  BY <1>2 DEF AloneInv, PlaceInv, PinnedInv
<1>4. \A u \in Uuids : dir[u] \in {NoDir, ByHand} \cup [kind : Kinds, version : {1}]
  BY DEF Init
<1>5. ASSUME NEW u \in Uuids
      PROVE  /\ saved[u] = sources[u]
             /\ sources[u].kind \in Kinds => sources[u].version = 1
             /\ \A k \in Kinds : newest[k][u] = 1
             /\ dir[u].kind \in Kinds => dir[u].version = 1
             /\ dir[u] # Broken /\ Core(u)
  <2>1. sources[u] = IF dir[u].kind \in Kinds
                     THEN [kind |-> dir[u].kind, version |-> 1, since |-> 0] ELSE NoSource
    BY DEF Init
  <2>2. dir[u].kind \in Kinds => dir[u].version = 1
    BY <1>4, Kinds_
  <2>3. dir[u] # Broken
    <3>1. \A d \in [kind : Kinds, version : {1}] : d.kind \in Kinds
      OBVIOUS
    <3> QED BY <1>4, <3>1, Kinds_
  <2>4. sources[u].kind \in Kinds => sources[u].version = 1
    <3>1. CASE dir[u].kind \in Kinds
      <4>1. sources[u] = [kind |-> dir[u].kind, version |-> 1, since |-> 0]
        BY <2>1, <3>1
      <4> QED BY <4>1
    <3>2. CASE dir[u].kind \notin Kinds
      <4>1. sources[u] = NoSource
        BY <2>1, <3>2
      <4> QED BY <4>1, Kinds_
    <3> QED BY <3>1, <3>2
  <2>5. Core(u)
    BY <2>1, <2>2 DEF Core
  <2>6. saved[u] = sources[u] /\ \A k \in Kinds : newest[k][u] = 1
    BY DEF Init
  <2> QED BY <2>2, <2>3, <2>4, <2>5, <2>6
<1>6. PublishedInv /\ DirInv
  BY <1>5 DEF PublishedInv, DirInv, NotNewer
<1> QED BY <1>1, <1>3, <1>5, <1>6 DEF InstallerInv, AheadInv, WholeInv, CoreInv

LEMMA InstallerStep ==
  ASSUME OneAtATime, InstallerInv, [Next]_vars
  PROVE  InstallerInv'
<1>1. TypeOK /\ IdleInv /\ AloneInv /\ PlaceInv /\ PublishedInv /\ PinnedInv /\ DirInv /\ WholeInv /\ CoreInv
  BY DEF InstallerInv, AheadInv
<1>2. TypeOK' /\ IdleInv'
  BY <1>1, TypesStep, IdleStep
<1>3. AloneInv' /\ PlaceInv' /\ WholeInv' /\ CoreInv'
  BY <1>1, <1>2, AloneStep, PlaceStep, WholeStep, CoreStep
<1>4. PublishedInv' /\ PinnedInv' /\ DirInv'
  BY <1>1, <1>2, PublishedStep, PinnedStep, DirClaimsStep
<1> QED BY <1>2, <1>3, <1>4 DEF InstallerInv, AheadInv

\* The variables stay in their types, a version is pinned by the lookup and not before, and every
\* callback that waits belongs to an install whose worker is done: however installs, updates,
\* checks, uninstalls, lists and crashes follow one another.
THEOREM InstallsAreTyped == Spec => [](TypeOK /\ IdleInv)
<1>1. Init => TypeOK /\ IdleInv
  BY TypesInit, IdleInit
<1>2. TypeOK /\ IdleInv /\ [Next]_vars => (TypeOK /\ IdleInv)'
  BY TypesStep, IdleStep
<1> QED BY <1>1, <1>2, PTL DEF Spec

\* The invariant that carries the theorems below: one install of an extension at a time, what each
\* has pinned and put in place, and what the registry and its file claim of it.
THEOREM InstallerInvariant ==
  ASSUME OneAtATime PROVE Spec => []InstallerInv
<1>1. InstallerInv /\ [Next]_vars => InstallerInv'
  BY InstallerStep
<1> QED BY <1>1, InstallerInit, PTL DEF Spec

\* The registry never claims a later version than the one in the extension's directory, with any
\* number of crashes, failed writes and half-done moves: _finish_install records what the lookup
\* pinned, the file is read back when the app starts again, and neither is ever ahead.
THEOREM AlwaysNeverAhead ==
  ASSUME OneAtATime PROVE Spec => []NeverAhead
<1>1. InstallerInv => NeverAhead
  <2> SUFFICES ASSUME DirInv, NEW u \in Uuids, dir[u].kind \in Kinds, sources[u].kind = dir[u].kind
               PROVE  sources[u].version <= dir[u].version
    BY DEF NeverAhead, InstallerInv, AheadInv
  <2> QED BY DEF DirInv, NotNewer
<1> QED BY <1>1, InstallerInvariant, PTL

\* While nothing goes wrong below the app, the registry names a source for exactly the extensions
\* the app installed, with the version that stands in the directory, whenever no install of the
\* extension and no list is under way.
THEOREM AlwaysInStep ==
  ASSUME OneAtATime PROVE Spec => []InStep
<1>1. InstallerInv => InStep
  <2> SUFFICES ASSUME InstallerInv, NEW u \in Uuids, faults = 0, ~Busy(u), ~listing
               PROVE  IF dir[u].kind \in Kinds
                      THEN sources[u].kind = dir[u].kind /\ sources[u].version = dir[u].version
                      ELSE sources[u] = NoSource
    BY DEF InStep
  <2>1. ~Replacing(u)
    <3> SUFFICES ASSUME NEW j \in DOMAIN jobs, jobs[j].uuid = u, At(j, "moving") \/ Replaced(j)
                 PROVE  FALSE
      BY DEF Replacing
    <3>1. At(j, "moving") \/ At(j, "moved") \/ At(j, "idle")
      BY EntryIdle DEF InstallerInv
    <3>2. Unsettled(j)
      BY <3>1, JobAt DEF InstallerInv, TypeOK
    <3> QED BY <3>2 DEF Busy
  <2> QED BY <2>1 DEF InstallerInv, CoreInv, Core
<1> QED BY <1>1, InstallerInvariant, PTL
====
