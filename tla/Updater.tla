------------------------------ MODULE Updater ------------------------------
(***************************************************************************)
(* The updater (Updater in updater.ts) and what it moves: the version      *)
(* directories, the pointers to the current and the previous one, the      *)
(* installed scripts, the pinned node runtime, and the collector that the  *)
(* service manager keeps running from them (collector-daemon.js).  The     *)
(* user may roll back by the CLI at any moment, the updater may die        *)
(* between any two writes, and releases may be published, or not run,      *)
(* meanwhile.                                                              *)
(*                                                                         *)
(* A version directory is a number, in the order of creation: a directory  *)
(* name is never used twice.  Its candidate, which no pointer can name, is *)
(* part of the deployment that fills it.                                   *)
(***************************************************************************)
EXTENDS Naturals, Sequences, FiniteSets, FiniteSetsExt

CONSTANTS
    Feed,          \* the manifests, in the order of publication
    MaxDirs,       \* bound: version directories made
    MaxFaults,     \* bound: failures and deaths
    MaxRollbacks   \* bound: rollbacks by the user

NoDir == 0
Dirs == 1 .. MaxDirs
Nodes == {"system", "managed"}

\* A manifest: canary says whether it is of that channel, which alone has
\* hotfixes, runs whether its package starts at all.
Manifest == [version : Nat, commit : Nat, hotfix : Nat, canary : BOOLEAN, runs : BOOLEAN]

ASSUME UpdaterAssumption ==
    /\ Feed \in Seq(Manifest) /\ Feed # <<>>
    /\ \A m \in DOMAIN Feed : ~Feed[m].canary => Feed[m].hotfix = 0
    /\ MaxDirs \in Nat \ {0} /\ MaxFaults \in Nat /\ MaxRollbacks \in Nat

VARIABLES
    published,  \* index of the manifest served
    made,       \* directories made so far
    dirs,       \* those that exist under versions/
    release,    \* directory -> index of the manifest it was made for
    abi,        \* directory -> node its modules were installed for
    current,    \* the pointer files
    previous,
    cli,        \* directory the CLI script was copied from
    pin,        \* node-bin: the node the CLI starts daemons with
    managed,    \* is the managed node installed?
    hotfix,     \* canary.hotfix_version in the configuration file
    collector,  \* directory the collector runs from, or NoDir
    fresh,      \* has it another pid than before the last restart of it?
    pc,         \* what the updater does next
    job,        \* what the check in progress found and keeps
    unode,      \* node the updater runs on
    known,      \* canaryHotfixVersion in its memory
    rb,         \* the rollback in progress: its next step and the pointers it read
    faults, rollbacks,
    \* History.
    met,        \* was a rollback in progress beside a check?
    astray,     \* was a switch left half done, or undone by hand, since the last whole one?
    undone      \* directories whose deployment, or a rollback to or from which, failed
                \* after it began to switch

versions == <<made, dirs, release, abi>>
pointers == <<current, previous>>
proc == <<collector, fresh>>
updater == <<pc, job, unode, known>>
user == <<rb, rollbacks>>
history == <<met, astray, undone>>
files == <<versions, pointers, cli, pin, managed, hotfix>>
others == <<user, faults, history>>
vars == <<published, files, proc, updater, user, faults, history>>

NoJob == [target |-> 1, deploys |-> FALSE, dir |-> NoDir, node |-> "system",
          newPid |-> FALSE, acted |-> FALSE, oldCurrent |-> NoDir, oldPrevious |-> NoDir, seen |-> NoDir]
NoRb == [step |-> "none", prev |-> NoDir, curr |-> NoDir]

UpdaterInit ==
    /\ published = 1
    /\ made = 1 /\ dirs = {1}
    /\ release = [d \in Dirs |-> 1]
    /\ \E node \in Nodes :
          /\ abi = [d \in Dirs |-> node] /\ pin = node /\ unode = node
          /\ managed = (node = "managed")
    /\ current = 1 /\ previous = NoDir /\ cli = 1
    /\ hotfix = 0 /\ known = 0
    /\ collector = NoDir /\ fresh = TRUE
    /\ pc = "idle" /\ job = NoJob /\ rb = NoRb
    /\ faults = 0 /\ rollbacks = 0
    /\ met = FALSE /\ astray = FALSE /\ undone = {}

Ends == pc' = "idle" /\ job' = NoJob
Fault == faults < MaxFaults /\ faults' = faults + 1

\* Only a check looks: between two is when it makes a difference.
Publishes ==
    /\ pc = "idle" /\ published < Len(Feed)
    /\ published' = published + 1
    /\ UNCHANGED <<files, proc, updater, others>>

-----------------------------------------------------------------------------
(* The collector, kept running by the service manager.                     *)

\* The directory a start loads: current, or previous when current has none.
Loaded ==
    IF current \in dirs THEN current ELSE IF previous \in dirs THEN previous ELSE NoDir

\* A start with a package that does not run, or with modules of another node,
\* ends at once and is repeated.  None is made while the CLI has the services
\* stopped.
Startable ==
    collector = NoDir /\ rb.step # "start" /\ Loaded # NoDir /\ Feed[release[Loaded]].runs /\ abi[Loaded] = pin

CollectorStarts ==
    /\ Startable
    /\ collector' = Loaded /\ fresh' = TRUE
    /\ UNCHANGED <<published, files, updater, others>>

CollectorDies ==
    /\ collector # NoDir
    /\ Fault
    /\ collector' = NoDir
    /\ UNCHANGED <<published, files, fresh, updater, user, history>>

-----------------------------------------------------------------------------
(* A check: what to do.                                                    *)

SameBuild(m, n) == Feed[m].version = Feed[n].version /\ Feed[m].commit = Feed[n].commit

NeedsUpdate(m) ==
    \/ current \notin dirs
    \/ Feed[m].version > Feed[release[current]].version
    \/ /\ Feed[m].version = Feed[release[current]].version
       /\ Feed[m].hotfix > known \/ Feed[m].commit # Feed[release[current]].commit

\* Mutant: no other pid is asked for.
CheckAnyPid ==
    /\ pc = "idle" /\ rb.step # "start"
    /\ IF NeedsUpdate(published)
       THEN /\ job' = [NoJob EXCEPT !.target = published, !.deploys = TRUE]
            /\ pc' = "download"
       ELSE /\ job' = [NoJob EXCEPT !.target = release[current]]
            /\ pc' = "recover"
    /\ met' = (met \/ rb.step # "none")
    /\ UNCHANGED <<published, files, proc, unode, known, user, faults, astray, undone>>

\* Not while the CLI has the updater stopped.
Check ==
    /\ pc = "idle" /\ rb.step # "start"
    /\ IF NeedsUpdate(published)
       THEN /\ job' = [NoJob EXCEPT !.target = published, !.deploys = TRUE,
                          !.newPid = /\ current \in dirs
                                     /\ Feed[release[current]].version = Feed[published].version]
            /\ pc' = "download"
       ELSE /\ job' = [NoJob EXCEPT !.target = release[current], !.newPid = TRUE]
            /\ pc' = "recover"
    /\ met' = (met \/ rb.step # "none")
    /\ UNCHANGED <<published, files, proc, unode, known, user, faults, astray, undone>>

\* Mutant: whatever reports is healthy.
HealthyWhoever(m, newPid) == collector # NoDir

\* collectorHealthFailure() = '', with the pid to differ or not
Healthy(m, newPid) ==
    collector # NoDir /\ SameBuild(release[collector], m) /\ (newPid => fresh)

\* Mutant: an installed version is taken for a running one.
RecoversNothing ==
    /\ pc = "recover"
    /\ pc' = "gc"
    /\ UNCHANGED <<published, files, proc, job, unode, known, others>>

\* Mutant: cleans up after deployments only.
RecoversUncleaned ==
    /\ pc = "recover"
    /\ IF Healthy(job.target, FALSE)
       THEN Ends
       ELSE /\ pc' = IF collector = NoDir THEN "health" ELSE "restart"
            /\ UNCHANGED job
    /\ UNCHANGED <<published, files, proc, unode, known, others>>

\* A collector that runs something else is restarted; one that does not run is
\* started, as the service manager does.
Recovers ==
    /\ pc = "recover"
    /\ pc' = CASE Healthy(job.target, FALSE) -> "gc"
               [] collector = NoDir -> "health"
               [] OTHER -> "restart"
    /\ UNCHANGED <<published, files, proc, job, unode, known, others>>

Fails(step) ==
    /\ pc = step
    /\ Fault
    /\ Ends
    /\ UNCHANGED <<published, files, proc, unode, known, user, history>>

-----------------------------------------------------------------------------
(* downloadAndDeploy().                                                    *)

\* Downloads, unpacks and installs the candidate, for the managed node when
\* there is one or it can be had, and else for the node the updater runs on.
Download ==
    /\ pc = "download"
    /\ managed' \in {managed, TRUE}
    /\ job' = [job EXCEPT !.node = IF managed' THEN "managed" ELSE unode]
    /\ pc' = "rename"
    /\ UNCHANGED <<published, versions, pointers, cli, pin, hotfix, proc, unode, known, others>>

Rename ==
    /\ pc = "rename" /\ made < MaxDirs
    /\ made' = made + 1 /\ dirs' = dirs \cup {made'}
    /\ release' = [release EXCEPT ![made'] = job.target]
    /\ abi' = [abi EXCEPT ![made'] = job.node]
    /\ job' = [job EXCEPT !.dir = made', !.oldCurrent = current, !.oldPrevious = previous]
    /\ pc' = "previous"
    /\ UNCHANGED <<published, pointers, cli, pin, managed, hotfix, proc, unode, known, others>>

KeepPrevious ==
    /\ pc = "previous"
    /\ previous' = IF job.oldCurrent # NoDir THEN job.oldCurrent ELSE previous
    /\ pc' = "current"
    /\ UNCHANGED <<published, versions, current, cli, pin, managed, hotfix, proc, job, unode, known, others>>

Switch ==
    /\ pc = "current"
    /\ current' = job.dir
    /\ pc' = "scripts"
    /\ UNCHANGED <<published, versions, previous, cli, pin, managed, hotfix, proc, job, unode, known, others>>

SyncScripts ==
    /\ pc = "scripts"
    /\ cli' = job.dir
    /\ pc' = "pin"
    /\ UNCHANGED <<published, versions, pointers, pin, managed, hotfix, proc, job, unode, known, others>>

PinNode ==
    /\ pc = "pin"
    /\ pin' = IF managed THEN "managed" ELSE pin
    /\ astray' = FALSE
    /\ pc' = "restart"
    /\ UNCHANGED <<published, versions, pointers, cli, managed, hotfix, proc, job, unode, known, user, faults, met, undone>>

\* Mutant: the node could not be pinned, and the update goes on.
FinalizeFailsUnpinned ==
    /\ pc \in {"previous", "current", "scripts", "pin"}
    /\ Fault
    /\ undone' = undone \cup {job.dir}
    /\ pc' = IF pc = "pin" THEN "restart" ELSE "restore"
    /\ UNCHANGED <<published, files, proc, job, unode, known, user, met, astray>>

\* One of the writes of the switch fails.
FinalizeFails ==
    /\ pc \in {"previous", "current", "scripts", "pin"}
    /\ Fault
    /\ undone' = undone \cup {job.dir}
    /\ pc' = "restore"
    /\ UNCHANGED <<published, files, proc, job, unode, known, user, met, astray>>

RestoreCurrent ==
    /\ pc = "restore"
    /\ current' = job.oldCurrent
    /\ pc' = "restorePrevious"
    /\ UNCHANGED <<published, versions, previous, cli, pin, managed, hotfix, proc, job, unode, known, others>>

RestorePrevious ==
    /\ pc = "restorePrevious"
    /\ previous' = job.oldPrevious
    /\ cli' = IF job.oldCurrent \in dirs THEN job.oldCurrent ELSE cli
    /\ Ends
    /\ UNCHANGED <<published, versions, current, pin, managed, hotfix, proc, unode, known, others>>

\* What made the switch fail may stop its undoing too, at a pointer or, when
\* both are back, at the scripts, whose error is only logged.
RestoreFails ==
    /\ pc \in {"restore", "restorePrevious"}
    /\ \/ UNCHANGED previous
       \/ pc = "restorePrevious" /\ previous' = job.oldPrevious
    /\ astray' = TRUE
    /\ Ends
    /\ UNCHANGED <<published, versions, current, cli, pin, managed, hotfix, proc, unode, known, user,
                   faults, met, undone>>

-----------------------------------------------------------------------------
(* After the deployment: restart, confirm, clean up, hand over.            *)

\* The pid to differ from is the one seen before the command.
RestartCollector ==
    /\ pc = "restart"
    /\ collector' = NoDir
    /\ fresh' = FALSE
    /\ pc' = "health"
    /\ UNCHANGED <<published, files, job, unode, known, others>>

\* The command is killed or fails before it has stopped the collector.
RestartFails ==
    /\ pc = "restart"
    /\ Fault
    /\ fresh' = FALSE
    /\ pc' = "health"
    /\ UNCHANGED <<published, files, collector, job, unode, known, user, history>>

ConfirmHealth ==
    /\ pc = "health"
    /\ Healthy(job.target, job.newPid)
    /\ pc' = IF job.deploys THEN "persist" ELSE "gc"
    /\ job' = [job EXCEPT !.acted = TRUE]
    /\ UNCHANGED <<published, files, proc, unode, known, others>>

\* The collector did not report in time, after a second start or without one:
\* the check fails, and the next one waits longer.  One that can start and is too
\* slow is a fault.
HealthTimesOut ==
    /\ pc = "health"
    /\ ~Healthy(job.target, job.newPid)
    /\ IF Startable THEN Fault ELSE UNCHANGED faults
    /\ Ends
    /\ UNCHANGED <<published, files, proc, unode, known, user, history>>

\* A release of the other channel leaves the hotfix alone; one that cannot be
\* saved is remembered until the updater restarts.
PersistCanary ==
    /\ pc = "persist"
    /\ LET fix == Feed[job.target].hotfix IN
          IF ~Feed[job.target].canary
          THEN UNCHANGED <<hotfix, known, faults>>
          ELSE /\ known' = fix
               /\ \/ hotfix' = fix /\ UNCHANGED faults
                  \/ Fault /\ UNCHANGED hotfix
    /\ pc' = "gc"
    /\ UNCHANGED <<published, versions, pointers, cli, pin, managed, proc, job, unode, user, history>>

GcReads ==
    /\ pc = "gc"
    /\ job' = [job EXCEPT !.seen = current]
    /\ pc' = "remove"
    /\ UNCHANGED <<published, files, proc, unode, known, others>>

\* Mutant: keeps the current version only.
GcRemovesPrevious ==
    /\ pc = "remove"
    /\ LET stale == dirs \ {job.seen} IN
          dirs' = IF stale = {} THEN dirs ELSE dirs \ {Min(stale)}
    /\ IF job.acted THEN pc' = "handover" /\ UNCHANGED job ELSE Ends
    /\ UNCHANGED <<published, made, release, abi, pointers, cli, pin, managed, hotfix, proc, unode, known, others>>

\* One directory a check, the oldest.
GcRemoves ==
    /\ pc = "remove"
    /\ LET stale == dirs \ {job.seen, previous} IN
          dirs' = IF stale = {} THEN dirs ELSE dirs \ {Min(stale)}
    /\ IF job.acted THEN pc' = "handover" /\ UNCHANGED job ELSE Ends
    /\ UNCHANGED <<published, made, release, abi, pointers, cli, pin, managed, hotfix, proc, unode, known, others>>

\* The updater starts again, on the pinned node: by its own request, or
\* because it died or was stopped.
Reborn == Ends /\ unode' = pin /\ known' = hotfix

Handover ==
    /\ pc = "handover"
    /\ Reborn
    /\ UNCHANGED <<published, files, proc, others>>

HalfSwitched == pc \in {"scripts", "pin", "restore", "restorePrevious"}

UpdaterDies ==
    /\ pc # "idle"
    /\ Fault
    /\ Reborn
    /\ astray' = (astray \/ HalfSwitched)
    /\ UNCHANGED <<published, files, proc, user, met, undone>>

-----------------------------------------------------------------------------
(* "loongsuite-pilot rollback": a script, which takes no lock.             *)

\* Reads what previous names.
RollbackBegins ==
    /\ rb.step = "none" /\ rollbacks < MaxRollbacks
    /\ previous \in dirs
    /\ rb' = [NoRb EXCEPT !.step = "read", !.prev = previous]
    /\ rollbacks' = rollbacks + 1
    /\ met' = (met \/ pc # "idle")
    /\ UNCHANGED <<published, files, proc, updater, faults, astray, undone>>

To(step, next) == rb.step = step /\ rb' = [rb EXCEPT !.step = next] /\ UNCHANGED rollbacks

RollbackReads ==
    /\ rb.step = "read"
    /\ rb' = [rb EXCEPT !.step = "current", !.curr = current]
    /\ UNCHANGED <<published, files, proc, updater, rollbacks, faults, history>>

RollbackCurrent ==
    /\ To("current", "previous")
    /\ current' = rb.prev
    /\ UNCHANGED <<published, versions, previous, cli, pin, managed, hotfix, proc, updater, faults, history>>

RollbackPrevious ==
    /\ To("previous", "scripts")
    /\ previous' = IF rb.curr # NoDir THEN rb.curr ELSE previous
    /\ UNCHANGED <<published, versions, current, cli, pin, managed, hotfix, proc, updater, faults, history>>

\* The pin stays as it is.
RollbackScripts ==
    /\ To("scripts", "restart")
    /\ rb.prev \in dirs
    /\ cli' = rb.prev
    /\ astray' = (astray \/ abi[rb.prev] # pin)
    /\ UNCHANGED <<published, versions, pointers, pin, managed, hotfix, proc, updater, faults, met, undone>>

\* The rollback in progress has written nothing yet.
Untouched == rb.step \in {"none", "read", "current"}

\* What the rollback that ends in the middle leaves: the collector may run from
\* either directory, or from one that neither pointer named.
Abandons ==
    /\ rb' = NoRb
    /\ undone' = undone \cup ({rb.prev, rb.curr, collector} \ {NoDir})

\* The scripts cannot be copied, or their directory is gone: the pointers are
\* swapped back, if there was a current one.
RollbackScriptsFail ==
    /\ rb.step = "scripts"
    /\ IF rb.prev \in dirs THEN Fault ELSE UNCHANGED faults
    /\ IF rb.curr # NoDir
       THEN rb' = [rb EXCEPT !.step = "undoCurrent"] /\ UNCHANGED <<astray, undone>>
       ELSE Abandons /\ astray' = TRUE
    /\ UNCHANGED <<published, files, proc, updater, rollbacks, met>>

RollbackUndoesCurrent ==
    /\ To("undoCurrent", "undoPrevious")
    /\ current' = rb.curr
    /\ UNCHANGED <<published, versions, previous, cli, pin, managed, hotfix, proc, updater, faults, history>>

RollbackUndoesPrevious ==
    /\ To("undoPrevious", "undoScripts")
    /\ previous' = rb.prev
    /\ UNCHANGED <<published, versions, current, cli, pin, managed, hotfix, proc, updater, faults, history>>

\* A second failure is ignored.
RollbackUndoesScripts ==
    /\ rb.step = "undoScripts"
    /\ cli' \in {cli} \cup ({rb.curr} \cap dirs)
    /\ Abandons
    /\ UNCHANGED <<published, versions, pointers, pin, managed, hotfix, proc, updater, rollbacks,
                   faults, met, astray>>

\* cmd_stop: both services are removed and both daemons stopped, the updater
\* also in the middle of a check.
RollbackStops ==
    /\ To("restart", "start")
    /\ collector' = NoDir
    /\ Ends
    /\ astray' = (astray \/ HalfSwitched)
    /\ UNCHANGED <<published, files, fresh, unode, known, faults, met, undone>>

\* cmd_start; when the script died before it, the user gives that command.
RollbackStarts ==
    /\ rb.step = "start"
    /\ rb' = NoRb
    /\ Reborn
    /\ UNCHANGED <<published, files, proc, rollbacks, faults, history>>

\* The script is killed, or one of its other commands fails.
RollbackDies ==
    /\ rb.step \notin {"none", "start"}
    /\ Fault
    /\ IF Untouched THEN rb' = NoRb /\ UNCHANGED undone ELSE Abandons
    /\ astray' = (astray \/ rb.step \in {"previous", "scripts", "undoCurrent"})
    /\ UNCHANGED <<published, files, proc, updater, rollbacks, met>>

RollbackGoesOn ==
    \/ RollbackReads \/ RollbackCurrent \/ RollbackPrevious \/ RollbackScripts
    \/ RollbackUndoesCurrent \/ RollbackUndoesPrevious \/ RollbackUndoesScripts
    \/ RollbackStops \/ RollbackStarts

-----------------------------------------------------------------------------
Deploys ==
    \/ Download \/ Rename \/ KeepPrevious \/ Switch \/ SyncScripts \/ PinNode
    \/ RestoreCurrent \/ RestorePrevious
Confirms ==
    \/ RestartCollector \/ ConfirmHealth \/ HealthTimesOut \/ PersistCanary
    \/ GcReads \/ GcRemoves \/ Handover
Progress == Check \/ Recovers \/ Deploys \/ Confirms

UpdaterNext ==
    \/ Progress
    \/ CollectorStarts
    \/ Publishes \/ CollectorDies
    \/ RollbackBegins \/ RollbackGoesOn \/ RollbackScriptsFail \/ RollbackDies
    \/ Fails("download") \/ FinalizeFails \/ RestoreFails \/ RestartFails
    \/ Fails("handover") \/ UpdaterDies

UpdaterSpec == UpdaterInit /\ [][UpdaterNext]_vars

\* The timer goes on asking for checks and their calls return or time out, the
\* service manager restarts a collector that is down, and a command that runs
\* goes on.
FairUpdaterSpec ==
    /\ UpdaterSpec
    /\ WF_vars(Progress)
    /\ WF_vars(CollectorStarts)
    /\ WF_vars(RollbackGoesOn \/ RollbackScriptsFail)

-----------------------------------------------------------------------------
Steps == {"idle", "download", "rename", "previous", "current", "scripts", "pin", "restore",
          "restorePrevious", "recover", "restart", "health", "persist", "gc", "remove", "handover"}

Jobs == [target : DOMAIN Feed, deploys : BOOLEAN, dir : 0 .. MaxDirs, node : Nodes,
         newPid : BOOLEAN, acted : BOOLEAN, oldCurrent : 0 .. MaxDirs,
         oldPrevious : 0 .. MaxDirs, seen : 0 .. MaxDirs]

RollbackSteps == {"none", "read", "current", "previous", "scripts", "undoCurrent", "undoPrevious",
                  "undoScripts", "restart", "start"}

UpdaterTypeOK ==
    /\ published \in DOMAIN Feed
    /\ made \in Dirs /\ dirs \subseteq 1 .. made
    /\ release \in [Dirs -> DOMAIN Feed] /\ abi \in [Dirs -> Nodes]
    /\ current \in 0 .. made /\ previous \in 0 .. made /\ cli \in 0 .. made
    /\ collector \in 0 .. made /\ undone \subseteq 0 .. made
    /\ pin \in Nodes /\ unode \in Nodes /\ managed \in BOOLEAN
    /\ fresh \in BOOLEAN /\ astray \in BOOLEAN
    /\ hotfix \in Nat /\ known \in Nat
    /\ pc \in Steps /\ job \in Jobs
    /\ {job.dir, job.oldCurrent, job.oldPrevious, job.seen} \subseteq 0 .. made
    /\ rb \in [step : RollbackSteps, prev : 0 .. made, curr : 0 .. made]
    /\ met \in BOOLEAN
    /\ faults \in 0 .. MaxFaults /\ rollbacks \in 0 .. MaxRollbacks

\* updater.ts:685-693 and 1405-1443: whatever the updater does and wherever it
\* or the rollback dies, the pointers name version directories that exist, so a
\* collector that is started at any moment finds one.
PointersInstalled ==
    current \in dirs /\ (previous = NoDir \/ previous \in dirs)

\* updater.ts:687-689: the directory a collector runs from stays until it no
\* longer does, though it may be neither current nor previous by then.
RunningDirKept == collector \in {NoDir} \cup dirs \cup undone

\* What a server publishes that never goes back: a build that was replaced does
\* not return, and hotfixes count up but for the releases that have none.
FeedAdvances ==
    \A m, n \in DOMAIN Feed :
        m < n => /\ Feed[m].version <= Feed[n].version
                 /\ ~Feed[n].canary \/ Feed[m].hotfix <= Feed[n].hotfix
                 /\ SameBuild(m, n) => /\ Feed[m].hotfix <= Feed[n].hotfix
                                       /\ \A k \in m .. n : SameBuild(m, k)

\* Together: no clean-up, rollback or death takes away a directory that
\* something names (gcOldVersions, restorePointers).  A collector that two
\* failed restarts have left on a build that is published again is taken for
\* the one that was installed, and its directory is cleaned up.  Nor does it hold
\* after a rollback beside a check (met): between the clean-up's two reads it
\* makes current what is about to be removed.
DirectoriesKept ==
    ~met => PointersInstalled /\ (FeedAdvances => RunningDirKept)

-----------------------------------------------------------------------------
(* The inductive invariant.                                                *)

Deploying == {"previous", "current", "scripts", "pin", "restore", "restorePrevious"}
Confirming == {"restart", "health", "persist", "gc", "remove", "handover"}

\* The job of a deployment knows the directory it has made and the pointers as
\* they were, which is what restorePointers() and the clean-up rely on.
JobFollowsPointers ==
    /\ pc \in Deploying =>
          /\ job.deploys
          /\ {job.dir, job.oldCurrent} \subseteq dirs
          /\ job.oldPrevious = NoDir \/ job.oldPrevious \in dirs
          /\ \/ current = (IF pc \in {"scripts", "pin"} THEN job.dir ELSE job.oldCurrent)
             \/ pc = "restore" /\ current = job.dir
          /\ pc \in {"restore", "restorePrevious"} => job.dir \in undone
    /\ pc \in Confirming /\ job.deploys => current = job.dir
    /\ pc \in Deploying \cup {"restart", "health"} /\ job.deploys =>
          job.dir # NoDir /\ job.oldCurrent # NoDir /\ release[job.dir] = job.target
    /\ pc \in {"download", "rename"} => job.deploys
    /\ pc = "persist" => job.deploys /\ job.acted
    /\ pc = "recover" => ~job.deploys /\ ~job.acted
    /\ pc \in Confirming \cup {"recover"} /\ ~job.deploys =>
          job.newPid /\ job.target = release[current]
    /\ pc = "remove" => job.seen = current

\* What is installed for a manifest is not newer than what is published.
ReleasesPublished ==
    /\ \A d \in Dirs : release[d] <= published
    /\ pc # "idle" /\ job.deploys => job.target = published

\* Between two writes of a switch the scripts and the node are the old ones or
\* the new ones, and a package is installed for the node that will be pinned.
SwitchConsistent ==
    /\ ~managed => unode = pin
    /\ pc \in {"rename"} \cup Deploying => job.node = IF managed THEN "managed" ELSE pin
    /\ pc \in Deploying => abi[job.dir] = job.node
    /\ pc = "pin" => cli = job.dir
    /\ ~astray =>
          /\ pc \notin Deploying /\ Untouched => cli = current /\ abi[current] = pin
          /\ pc \in Deploying => abi[job.oldCurrent] = pin
          /\ pc \in {"previous", "current"} => cli = current

\* A collector that was not started from an undone deployment is not newer than
\* the version it is compared with.
Outside(places) == collector \notin {NoDir} \cup places \cup undone
CollectorNotAhead ==
    /\ Untouched /\ Outside({}) =>
          /\ release[collector] <= release[current]
          /\ Feed[release[collector]].version <= Feed[release[current]].version
    /\ pc \in Deploying \cup {"restart", "health"} /\ job.deploys /\ Outside({job.dir}) =>
          /\ release[collector] <= release[job.oldCurrent]
          /\ Feed[release[collector]].version <= Feed[release[job.oldCurrent]].version

\* Why a deployment was begun, and when it asks for another pid.
Reason(m, d) ==
    \/ Feed[m].version > Feed[release[d]].version
    \/ /\ Feed[m].version = Feed[release[d]].version
       /\ Feed[m].hotfix > known \/ Feed[m].commit # Feed[release[d]].commit
DeploysForReason ==
    /\ pc \in {"download", "rename"} =>
          /\ Reason(job.target, current)
          /\ ~job.newPid => Feed[job.target].version > Feed[release[current]].version
    /\ pc \in Deploying => Reason(job.target, job.oldCurrent)
    /\ pc \in Deploying \cup {"restart", "health"} /\ job.deploys =>
          /\ Feed[job.target].version >= Feed[release[job.oldCurrent]].version
          /\ ~job.newPid => Feed[job.target].version > Feed[release[job.oldCurrent]].version
    /\ pc = "recover" => ~NeedsUpdate(published)

\* A rollback beside no check finds the pointers as it left them, and until its
\* scripts are copied those of the version it leaves are installed.
RollbackFollows ==
    rb.step # "none" =>
        /\ pc = "idle" /\ rb.prev \in dirs
        /\ rb.step = "read" => previous = rb.prev
        /\ rb.step # "read" => rb.curr \in dirs
        /\ rb.step \in {"current", "undoPrevious", "undoScripts"} => current = rb.curr
        /\ rb.step \in {"previous", "scripts", "restart", "start", "undoCurrent"} => current = rb.prev
        /\ rb.step \in {"current", "previous", "undoScripts"} => previous = rb.prev
        /\ rb.step \in {"scripts", "restart", "start", "undoCurrent", "undoPrevious"}
              => previous = rb.curr
        /\ rb.step = "start" => collector = NoDir
        /\ ~astray => CASE rb.step \in {"restart", "start"} -> cli = rb.prev /\ abi[rb.prev] = pin
                        [] rb.step = "read" -> TRUE
                        [] OTHER -> cli = rb.curr /\ abi[rb.curr] = pin

\* What was confirmed runs: it is the current version, or one undone.
ConfirmedIsCurrent ==
    /\ pc = "health" /\ fresh => ~Outside({current})
    /\ pc \in {"persist", "gc", "remove", "handover"} /\ (job.acted \/ FeedAdvances)
          => ~Outside({current})

\* While a server goes forward, a collector that an update left behind, on the
\* build of the current version, is not taken for it: that the hotfix is still
\* to come makes the next check deploy again.
LeftBehindIsSeen ==
    FeedAdvances =>
        /\ hotfix <= known
        /\ {hotfix, known} \subseteq {0} \cup {Feed[m].hotfix : m \in 1 .. published}
        /\ Untouched /\ Outside({current}) /\ SameBuild(release[collector], release[current])
              => Feed[release[current]].hotfix > known
        /\ pc \in Deploying /\ Outside({job.dir, job.oldCurrent})
              /\ SameBuild(release[collector], release[job.oldCurrent])
              => Feed[release[job.oldCurrent]].hotfix > known

\* updater.ts:700-713 and 986-990: between checks the scripts and the pinned
\* node are those of the current version, whichever write of a switch failed or
\* was undone; unless the updater or the rollback died within one, the
\* restoration failed too, or the user rolled back across a change of node,
\* which nothing repairs (astray), or beside a check, whose writes then mix with
\* those of the script (met).
SettledConsistent ==
    pc = "idle" /\ rb.step = "none" /\ ~astray /\ ~met =>
        cli = current /\ abi[current] = pin

\* updater.ts: jobs, pointers, directories, scripts, pin and the collector that
\* runs agree between any two writes of a check or of a rollback, whatever failed
\* or died, unless a rollback ran beside a check (met): nothing keeps the two
\* apart, and the script does not see what the check writes, nor the check what
\* the script does.
Consistent ==
    /\ PointersInstalled
    /\ FeedAdvances => RunningDirKept
    /\ JobFollowsPointers
    /\ ReleasesPublished
    /\ SwitchConsistent
    /\ CollectorNotAhead
    /\ DeploysForReason
    /\ ConfirmedIsCurrent
    /\ LeftBehindIsSeen
    /\ RollbackFollows
UpdaterInv == UpdaterTypeOK /\ (~met => Consistent)

\* updater.ts:1121-1194, 1364-1403: an update is confirmed only when the
\* collector runs from the directory it made, not when one of the same version
\* that could not be restarted still reports.  A rollback beside the check (met)
\* may have started that one again, with another pid.
ConfirmedRunsNew ==
    [][~met /\ pc = "health" /\ pc' = "persist" => collector \in {job.dir} \cup undone]_vars

\* The published release cannot run here: it does not start, or the pin is on
\* the node its modules were not installed for.
Stuck == ~Feed[published].runs \/ (Loaded # NoDir /\ abi[Loaded] # pin)

\* updater.ts:252-373: after the last release and the last failure the
\* collector ends up running that release, also when releases before it did not
\* run, when restarts failed, or when the user rolled back, beside a check or
\* not; and then the older directories go, one a check.
UpToDate ==
    /\ <>[](Stuck \/ (collector # NoDir /\ SameBuild(release[collector], published)))
    /\ <>[](Stuck \/ dirs \subseteq {current, previous})
=============================================================================
