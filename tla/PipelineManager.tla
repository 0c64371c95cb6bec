-------------------------- MODULE PipelineManager --------------------------
(***************************************************************************)
(* The pipeline manager: it keeps one running pipeline per valid file of   *)
(* the configuration directory, through change events, a timer, and        *)
(* rescans that run one at a time and await every start and stop of a      *)
(* pipeline, while files are rewritten and the daemon shuts down.          *)
(*                                                                         *)
(* A file is named after its configuration and its content is a version;   *)
(* a file that is being rewritten does not parse.                          *)
(***************************************************************************)
EXTENDS Naturals, FiniteSets, Functions

CONSTANTS
    Names,        \* of configurations
    MaxEdits,     \* bound: changes of files
    MaxFailures   \* bound: starts of pipelines that fail

ASSUME PipelineAssumption ==
    /\ IsFiniteSet(Names) /\ Names # {}
    /\ MaxEdits \in Nat /\ MaxFailures \in Nat

None == 0
First == MaxEdits + 1  \* version of a file not changed yet; else the change that wrote it

VARIABLES
    disk,       \* name -> version in the directory, or None
    torn,       \* files being rewritten
    edits,
    running,    \* PipelineManager.running
    starting,   \* what start() does next
    stopping,   \* what stop() does next
    watching,   \* is the directory watched?
    event,      \* is a change not yet reported?
    timer,      \* is the rescan timer set?
    rescan,     \* the rescan in progress: its step and what it found
    queued,     \* rescanQueued
    pipelines,  \* name -> version of the pipeline registered, or None
    hashes,     \* name -> version of the configuration last applied, or None
    live,       \* name -> pipelines that run, have begun to start or still drain
    closing,    \* names whose registered pipeline is being stopped
    drains,     \* of those, the ones stop() waits for
    failures,
    \* History.
    missed,     \* did a file change that no event and no rescan has reported?
    stray       \* the name whose start or stop the rescan awaited when stop() was called

files == <<disk, torn, edits>>
manager == <<running, starting, stopping, timer>>
notices == <<watching, event, missed>>
registry == <<pipelines, hashes>>
instances == <<live, closing, drains>>
vars == <<files, manager, notices, rescan, queued, registry, instances, failures, stray>>

NoRescan == [step |-> "idle", unread |-> {}, found |-> [n \in Names |-> None], todo |-> {},
             at |-> {}, waits |-> FALSE]

PipelineInit ==
    /\ disk \in [Names -> {None, First}]
    /\ torn = {} /\ edits = 0
    /\ running = FALSE /\ starting = "off" /\ stopping = "no"
    /\ watching = FALSE /\ event = FALSE /\ missed = FALSE /\ timer = FALSE
    /\ rescan = NoRescan /\ queued = FALSE
    /\ pipelines = [n \in Names |-> None] /\ hashes = pipelines
    /\ live = [n \in Names |-> 0] /\ closing = {} /\ drains = {}
    /\ failures = 0 /\ stray = {}

-----------------------------------------------------------------------------
(* The directory.                                                          *)

\* A change, or a part of one, is reported while somebody watches.
Noticed ==
    /\ event' = watching
    /\ missed' = (missed \/ ~watching)
    /\ UNCHANGED watching

Rewrites(n) ==
    /\ n \notin torn /\ edits < MaxEdits
    /\ edits' = edits + 1
    /\ torn' = torn \cup {n}
    /\ Noticed
    /\ UNCHANGED <<disk, manager, rescan, queued, registry, instances, failures, stray>>

Written(n) ==
    /\ n \in torn
    /\ disk' = [disk EXCEPT ![n] = edits]
    /\ torn' = torn \ {n}
    /\ Noticed
    /\ UNCHANGED <<edits, manager, rescan, queued, registry, instances, failures, stray>>

Deletes(n) ==
    /\ n \notin torn /\ disk[n] # None /\ edits < MaxEdits
    /\ edits' = edits + 1
    /\ disk' = [disk EXCEPT ![n] = None]
    /\ Noticed
    /\ UNCHANGED <<torn, manager, rescan, queued, registry, instances, failures, stray>>

-----------------------------------------------------------------------------
(* Who asks for a rescan.                                                  *)

Begin ==
    /\ queued' = FALSE
    /\ missed' = (missed /\ ~running)
    /\ rescan' = IF running
                 THEN [NoRescan EXCEPT !.step = "read",
                                       !.unread = {n \in Names : disk[n] # None \/ n \in torn}]
                 ELSE NoRescan

\* Mutant: a rescan asked for during another is forgotten.
FullRescanDropping ==
    IF rescan.step = "idle" THEN Begin ELSE UNCHANGED <<queued, rescan, missed>>

FullRescan ==
    IF rescan.step = "idle" THEN Begin ELSE queued' = TRUE /\ UNCHANGED <<rescan, missed>>

Reported ==
    /\ watching /\ event
    /\ event' = FALSE
    /\ FullRescan
    /\ UNCHANGED <<files, manager, watching, registry, instances, failures, stray>>

\* Also what follows the wake of the machine.
TimerFires ==
    /\ timer
    /\ FullRescan
    /\ UNCHANGED <<files, manager, watching, event, registry, instances, failures, stray>>

WatcherFails ==
    /\ watching
    /\ watching' = FALSE /\ event' = FALSE
    /\ missed' = (missed \/ event)
    /\ UNCHANGED <<files, manager, rescan, queued, registry, instances, failures, stray>>

-----------------------------------------------------------------------------
(* doRescan(): reads every file, stops what has none, then goes through    *)
(* what it found.                                                          *)

Read(n) ==
    /\ rescan.step = "read" /\ n \in rescan.unread
    /\ rescan' = [rescan EXCEPT !.unread = @ \ {n},
                                !.found[n] = IF n \in torn THEN None ELSE disk[n]]
    /\ UNCHANGED <<files, manager, notices, queued, registry, instances, failures, stray>>

Stoppable == {n \in Names : pipelines[n] # None /\ live[n] > 0} \ closing
Gone == {n \in Names : pipelines[n] # None /\ rescan.found[n] = None}

\* The stop() of a pipeline that is stopping, or has stopped, returns at once.
StopsPipeline(n, step) ==
    /\ rescan' = [rescan EXCEPT !.step = step, !.at = {n}, !.waits = n \in Stoppable]
    /\ closing' = closing \cup ({n} \cap Stoppable)
    /\ UNCHANGED <<live, drains>>

StopReturns(n, step) ==
    /\ rescan.step = step /\ n \in rescan.at
    /\ rescan.waits => n \notin closing

DropsGone ==
    /\ rescan.step = "read" /\ rescan.unread = {}
    /\ \/ \E n \in Gone : StopsPipeline(n, "dropping")
       \/ /\ Gone = {}
          /\ rescan' = [rescan EXCEPT !.step = "apply",
                                      !.todo = {n \in Names : rescan.found[n] # None}]
          /\ UNCHANGED instances
    /\ UNCHANGED <<files, manager, notices, queued, registry, failures, stray>>

Dropped(n) ==
    /\ StopReturns(n, "dropping")
    /\ pipelines' = [pipelines EXCEPT ![n] = None]
    /\ hashes' = [hashes EXCEPT ![n] = None]
    /\ rescan' = [rescan EXCEPT !.step = "read", !.at = {}]
    /\ UNCHANGED <<files, manager, notices, queued, instances, failures, stray>>

Creates(n) ==
    /\ live' = [live EXCEPT ![n] = @ + 1]
    /\ rescan' = [rescan EXCEPT !.step = "creating", !.at = {n}]
    /\ UNCHANGED <<closing, drains>>

\* Mutant: goes on after stop().
AppliesUnchecked(n) ==
    /\ rescan.step = "apply" /\ n \in rescan.todo
    /\ IF pipelines[n] = None THEN Creates(n)
       ELSE IF hashes[n] # rescan.found[n] THEN StopsPipeline(n, "replacing")
       ELSE rescan' = [rescan EXCEPT !.todo = @ \ {n}] /\ UNCHANGED instances
    /\ UNCHANGED <<files, manager, notices, queued, registry, failures, stray>>

\* Mutant: what runs is taken to be what was configured.
AppliesNew(n) ==
    /\ rescan.step = "apply" /\ running /\ n \in rescan.todo
    /\ IF pipelines[n] = None THEN Creates(n)
       ELSE rescan' = [rescan EXCEPT !.todo = @ \ {n}] /\ UNCHANGED instances
    /\ UNCHANGED <<files, manager, notices, queued, registry, failures, stray>>

\* Only here is running looked at again.
Applies(n) ==
    /\ rescan.step = "apply" /\ running /\ n \in rescan.todo
    /\ IF pipelines[n] = None THEN Creates(n)
       ELSE IF hashes[n] # rescan.found[n] THEN StopsPipeline(n, "replacing")
       ELSE rescan' = [rescan EXCEPT !.todo = @ \ {n}] /\ UNCHANGED instances
    /\ UNCHANGED <<files, manager, notices, queued, registry, failures, stray>>

\* Mutant: the old pipeline is stopped in the background.
ReplacedAtOnce(n) ==
    /\ rescan.step = "replacing" /\ n \in rescan.at
    /\ pipelines' = [pipelines EXCEPT ![n] = None]
    /\ hashes' = [hashes EXCEPT ![n] = None]
    /\ Creates(n)
    /\ UNCHANGED <<files, manager, notices, queued, failures, stray>>

Replaced(n) ==
    /\ StopReturns(n, "replacing")
    /\ pipelines' = [pipelines EXCEPT ![n] = None]
    /\ hashes' = [hashes EXCEPT ![n] = None]
    /\ Creates(n)
    /\ UNCHANGED <<files, manager, notices, queued, failures, stray>>

\* The hash is kept also of a configuration whose pipeline failed to start; it
\* is tried again because it is not registered.
CreateReturns(n) ==
    /\ rescan.step = "creating" /\ n \in rescan.at
    /\ \/ /\ pipelines' = [pipelines EXCEPT ![n] = rescan.found[n]]
          /\ UNCHANGED <<live, failures>>
       \/ /\ failures < MaxFailures /\ failures' = failures + 1
          /\ live' = [live EXCEPT ![n] = @ - 1]
          /\ UNCHANGED pipelines
    /\ hashes' = [hashes EXCEPT ![n] = rescan.found[n]]
    /\ rescan' = [rescan EXCEPT !.step = "apply", !.todo = @ \ {n}, !.at = {}]
    /\ UNCHANGED <<files, manager, notices, queued, closing, drains, stray>>

RescanEnds ==
    /\ rescan.step = "apply"
    /\ rescan.todo = {} \/ ~running
    /\ IF queued /\ running THEN Begin
       ELSE rescan' = NoRescan /\ UNCHANGED <<queued, missed>>
    /\ starting' = IF starting = "rescan" THEN "watch" ELSE starting
    /\ UNCHANGED <<files, running, stopping, timer, watching, event, registry, instances, failures, stray>>

\* The last lines of a pipeline that stops are sent, or given up.
Drained(n) ==
    /\ n \in closing
    /\ closing' = closing \ {n} /\ drains' = drains \ {n}
    /\ live' = [live EXCEPT ![n] = @ - 1]
    /\ UNCHANGED <<files, manager, notices, rescan, queued, registry, failures, stray>>

-----------------------------------------------------------------------------
(* start() and stop().                                                     *)

Start ==
    /\ starting = "off" /\ ~running /\ stopping = "no"
    /\ running' = TRUE /\ starting' = "dirs"
    /\ UNCHANGED <<files, stopping, timer, notices, rescan, queued, registry, instances, failures, stray>>

\* Called by the start only: nothing else asks for a rescan yet.
FirstRescan ==
    /\ starting = "dirs"
    /\ Begin
    /\ starting' = IF running THEN "rescan" ELSE "watch"
    /\ UNCHANGED <<files, running, stopping, timer, watching, event, registry, instances, failures, stray>>

\* A change since the first rescan began waits for the timer. A stop() that
\* came meanwhile does not prevent the watcher and the timer.
StartEnds ==
    /\ starting = "watch"
    /\ starting' = "done"
    /\ watching' \in BOOLEAN /\ timer' = TRUE
    /\ UNCHANGED <<files, running, stopping, event, missed, rescan, queued, registry, instances, failures, stray>>

\* Mutant: waits for the pipelines a rescan has stopped, too.
StopAwaitingAll ==
    /\ running
    /\ running' = FALSE /\ stopping' = "waiting"
    /\ watching' = FALSE /\ event' = FALSE /\ timer' = FALSE
    /\ missed' = (missed \/ event)
    /\ drains' = {n \in Names : pipelines[n] # None}
    /\ closing' = closing \cup Stoppable
    /\ stray' = rescan.at
    /\ UNCHANGED <<files, starting, rescan, queued, registry, live, failures>>

Stop ==
    /\ running
    /\ running' = FALSE /\ stopping' = "waiting"
    /\ watching' = FALSE /\ event' = FALSE /\ timer' = FALSE
    /\ missed' = (missed \/ event)
    /\ drains' = Stoppable
    /\ closing' = closing \cup drains'
    /\ stray' = rescan.at
    /\ UNCHANGED <<files, starting, rescan, queued, registry, live, failures>>

StopEnds ==
    /\ stopping = "waiting" /\ drains = {}
    /\ stopping' = "done"
    /\ pipelines' = [n \in Names |-> None] /\ hashes' = pipelines'
    /\ UNCHANGED <<files, running, starting, timer, notices, rescan, queued, instances, failures, stray>>

-----------------------------------------------------------------------------
Rescans ==
    \/ DropsGone \/ RescanEnds
    \/ \E n \in Names : \/ Read(n) \/ Dropped(n) \/ Applies(n) \/ Replaced(n)
                        \/ CreateReturns(n) \/ Drained(n)
Lifecycle == FirstRescan \/ StartEnds \/ StopEnds

PipelineNext ==
    \/ Rescans \/ Lifecycle \/ Start \/ Stop
    \/ Reported \/ TimerFires \/ WatcherFails
    \/ \E n \in Names : Rewrites(n) \/ Written(n) \/ Deletes(n)

PipelineSpec == PipelineInit /\ [][PipelineNext]_vars

\* Awaited calls return, the event loop runs callbacks and timers, and whoever
\* rewrites a file finishes.
FairPipelineSpec ==
    /\ PipelineSpec
    /\ WF_vars(Rescans) /\ WF_vars(Lifecycle) /\ WF_vars(Start)
    /\ WF_vars(Reported) /\ WF_vars(TimerFires)
    /\ \A n \in Names : WF_vars(Written(n)) /\ WF_vars(Drained(n))

-----------------------------------------------------------------------------
Busy == {"dropping", "replacing", "creating"}
AtMostOne == {{}} \cup {{n} : n \in Names}

\* The rescan awaits one name at a time.
PipelineTypeOK ==
    /\ disk \in [Names -> Nat] /\ torn \subseteq Names /\ edits \in 0 .. MaxEdits
    /\ running \in BOOLEAN /\ watching \in BOOLEAN /\ event \in BOOLEAN
    /\ timer \in BOOLEAN /\ queued \in BOOLEAN /\ missed \in BOOLEAN
    /\ starting \in {"off", "dirs", "rescan", "watch", "done"}
    /\ stopping \in {"no", "waiting", "done"}
    /\ rescan \in [step : {"idle", "read", "apply"} \cup Busy, unread : SUBSET Names,
                   found : [Names -> Nat], todo : SUBSET Names, at : AtMostOne, waits : BOOLEAN]
    /\ rescan.at # {} <=> rescan.step \in Busy
    /\ stray \in AtMostOne
    /\ pipelines \in [Names -> Nat] /\ hashes \in [Names -> Nat] /\ live \in [Names -> Nat]
    /\ drains \subseteq closing /\ closing \subseteq Names
    /\ failures \in 0 .. MaxFailures

\* pipeline-manager.ts:232-243: two pipelines of one configuration, which would
\* read the same files and write the same checkpoints, never overlap.
OneInstance == \A n \in Names : live[n] <= 1

InFile(n) == IF n \in torn THEN None ELSE disk[n]
Applied(n, version) == pipelines[n] = version \/ (pipelines[n] = None /\ hashes[n] # None)

\* pipeline-manager.ts:196-211: an idle manager that watches and has heard of
\* every change runs what the directory holds: no change is lost to a rescan
\* that was in progress, except where a pipeline failed to start.
IdleIsCurrent ==
    running /\ starting \in {"watch", "done"} /\ rescan.step = "idle" /\ ~event /\ ~missed =>
        \A n \in Names : Applied(n, InFile(n))

-----------------------------------------------------------------------------
(* The inductive invariant: the maps of the manager, the rescan and the    *)
(* pipelines that really run agree.                                        *)

Stopping(n) == rescan.step \in {"dropping", "replacing"} /\ n \in rescan.at
Creating(n) == rescan.step = "creating" /\ n \in rescan.at

\* What runs is registered, or is being stopped or started; what stop() found
\* registered is over or being stopped, but for the name that a rescan awaited.
InstancesCounted ==
    \A n \in Names :
        /\ n \in closing => live[n] = 1
        /\ Creating(n) => live[n] = 1 /\ n \notin closing /\ pipelines[n] = None
        /\ Stopping(n) /\ n \notin closing => live[n] = 0
        /\ pipelines[n] = None /\ n \notin closing /\ ~Creating(n) =>
              live[n] = 0 \/ (stopping = "done" /\ n \in stray)
        /\ pipelines[n] # None /\ n \notin closing /\ running => live[n] = 1 \/ Stopping(n)
        /\ pipelines[n] # None /\ n \notin closing /\ stopping = "waiting" =>
              live[n] = 0 \/ n \in stray

\* Until stop() is called only the rescan stops pipelines, and it waits for
\* them; a pipeline that is replaced was running.
StopsAwaited ==
    /\ running => closing \subseteq rescan.at /\ (closing # {} => rescan.waits)
    /\ rescan.step = "replacing" => rescan.waits

\* What stop() does not wait for, and what a rescan still makes, is the one
\* name the rescan awaited when it was called.
StoppedForgets ==
    /\ running => stopping = "no"
    /\ stopping # "waiting" => drains = {}
    /\ stopping # "no" =>
          /\ closing \ drains \subseteq stray
          /\ rescan.step \in {"replacing", "creating"} => rescan.at \subseteq stray
    /\ stopping = "done" => \A n \in Names : pipelines[n] # None => n \in stray

\* A rescan goes through all it found, and asks for another only at its end.
RescanFollowsFound ==
    /\ \A n \in Names : pipelines[n] # None => hashes[n] = pipelines[n]
    /\ rescan.step \notin {"idle", "read"} => rescan.unread = {}
    /\ rescan.step \in {"apply", "replacing", "creating"} =>
          /\ \A n \in rescan.todo : rescan.found[n] # None
          /\ running => \A n \in Names \ rescan.todo : Applied(n, rescan.found[n])
    /\ rescan.step \in {"replacing", "creating"} => rescan.at \subseteq rescan.todo
    /\ running /\ rescan.step = "idle" => ~queued

\* What was read of a file still holds unless a change is on record: as an
\* event, as a rescan asked for, or as missed.
ReadIsFresh ==
    running /\ rescan.step # "idle" /\ ~event /\ ~missed /\ ~queued =>
        \A n \in Names \ rescan.unread : rescan.found[n] = InFile(n)

\* Nobody asks for a rescan before the first.
QuietBeforeStart ==
    /\ starting \in {"off", "dirs"} => rescan.step = "idle" /\ ~timer /\ ~watching
    /\ starting = "off" =>
          /\ ~running /\ ~queued /\ closing = {}
          /\ \A n \in Names : pipelines[n] = None /\ live[n] = 0

\* Together: at every moment as far as they must, and at rest entirely.
ManagerInv ==
    /\ PipelineTypeOK
    /\ OneInstance
    /\ IdleIsCurrent
    /\ InstancesCounted
    /\ StopsAwaited
    /\ StoppedForgets
    /\ RescanFollowsFound
    /\ ReadIsFresh
    /\ QuietBeforeStart

\* pipeline-manager.ts:86-118: when stop() is done no pipeline runs, but that
\* of the name whose start or stop a rescan awaited when it was called.
StopLeavesNothing ==
    stopping = "done" => \A n \in Names \ stray : live[n] = 0

\* pipeline-manager.ts:196-245: a manager that is not stopped ends up running
\* what the directory holds, whether or not it can watch it.
FollowsDirectory == <>[](~running \/ pipelines = disk)

\* pipeline-manager.ts:106-116: a stop() ends.
ManagerStops == stopping = "waiting" ~> stopping = "done"
=============================================================================
