--------------------------- MODULE AgentDiscovery ---------------------------
(***************************************************************************)
(* The discovery service (src/core/agent-discovery-service.ts) decides     *)
(* when an input runs.  Watch events and polls ask for a check; checks of  *)
(* one entry are serialized and coalesced, and end in start() or stop() of *)
(* the input (InputManager.startInput / stopInput).  The orchestrator shuts *)
(* the service down and then stops every input that still runs (stopAll).  *)
(* One entry, with the one input of InputLifecycle.                        *)
(***************************************************************************)
EXTENDS InputLifecycle

CONSTANT Threshold  \* unavailableThreshold of the entry

ASSUME DiscoveryAssumption == Threshold \in Nat \ {0}

VARIABLES
    state,      \* EntryState: "idle" | "starting" | "running" | "stopping"
    processing, \* processEntryOnce: "none" | "check" | "starting" | "stopping"
    refresh,    \* refreshPending
    missed,     \* consecutiveUnavailable
    stopping,   \* the service's flag
    rejected,   \* history: a check rejected since start() last returned
    shutdown    \* Orchestrator.stop: "no" | "drain" | "stopEntry" | "stopAll" | "draining" | "done"

discovery == <<state, processing, refresh, missed, stopping, rejected, shutdown>>
discoveryVars == <<inputVars, discovery>>

DiscoveryInit ==
    /\ LifecycleInit
    /\ state = "idle"
    /\ processing = "none"
    /\ refresh = FALSE
    /\ missed = 0
    /\ stopping = FALSE
    /\ rejected = FALSE
    /\ shutdown = "no"

\* One turn of the loop of processEntry() ends: another, if one was asked for.
EndTurn ==
    LET again == refresh /\ ~stopping
    IN  /\ processing' = IF again THEN "check" ELSE "none"
        /\ refresh' = (refresh /\ ~again)

\* processEntry(): a watch event, a poll or a manual refresh.
ProcessEntry ==
    /\ ~stopping
    /\ \/ processing = "none" /\ processing' = "check" /\ refresh' = FALSE
       \/ processing # "none" /\ refresh' = TRUE /\ UNCHANGED processing
    /\ UNCHANGED <<inputVars, state, missed, stopping, shutdown, rejected>>

-----------------------------------------------------------------------------
(* processEntryOnce(): what isAvailable() and enabled() answer is free.    *)

CheckCancelled == processing = "check" /\ stopping

CheckEnds ==
    /\ CheckCancelled
    /\ EndTurn
    /\ UNCHANGED <<inputVars, state, missed, stopping, shutdown, rejected>>

\* Enabled and available, not running: start the input and wait for it.
CheckStarts ==
    /\ processing = "check" /\ ~CheckCancelled
    /\ state # "running"
    /\ state' = "starting"
    /\ missed' = 0
    /\ processing' = "starting"
    /\ Start
    /\ UNCHANGED <<store, refresh, stopping, shutdown, rejected>>

CheckKeeps ==
    /\ processing = "check" /\ ~CheckCancelled
    /\ state = "running"
    /\ missed' = 0
    /\ EndTurn
    /\ UNCHANGED <<inputVars, state, stopping, shutdown, rejected>>

\* Disabled, or unavailable often enough: stop the input and wait for it.
CheckStops ==
    /\ processing = "check" /\ ~CheckCancelled
    /\ state \in {"running", "starting"}
    /\ missed' = 0
    /\ state' = "stopping"
    /\ processing' = "stopping"
    /\ Stop
    /\ UNCHANGED <<store, refresh, stopping, shutdown, rejected>>

CheckMisses ==
    /\ processing = "check" /\ ~CheckCancelled
    /\ \/ /\ state \in {"running", "starting"}
          /\ missed + 1 < Threshold
          /\ missed' = missed + 1
       \/ state = "idle" /\ UNCHANGED missed
    /\ EndTurn
    /\ UNCHANGED <<inputVars, state, stopping, shutdown, rejected>>

\* isAvailable() rejects (that of every registered input catches its own
\* errors): the entry becomes idle, whatever its input does.
CheckThrows ==
    /\ processing = "check"
    /\ state' = "idle"
    /\ rejected' = TRUE
    /\ EndTurn
    /\ UNCHANGED <<inputVars, missed, stopping, shutdown>>

\* Mutant: start() is not waited for.
StartSettledAtOnce == processing = "starting"

\* The promise of start() has settled.
StartSettled ==
    processing = "starting" /\ startup = "none" /\ stopper = "none" /\ ~chained

StartReturns ==
    /\ StartSettled
    /\ state' = IF startFailed THEN "idle" ELSE IF stopping THEN state ELSE "running"
    /\ rejected' = FALSE
    /\ EndTurn
    /\ UNCHANGED <<inputVars, missed, stopping, shutdown>>

StopReturns ==
    /\ processing = "stopping" /\ stopper = "none"
    /\ state' = "idle"
    /\ rejected' = FALSE
    /\ EndTurn
    /\ UNCHANGED <<inputVars, missed, stopping, shutdown>>

-----------------------------------------------------------------------------
(* AgentDiscoveryService.stop() and InputManager.stopAll().                *)

ShutDown ==
    /\ shutdown = "no"
    /\ shutdown' = "drain"
    /\ stopping' = TRUE
    /\ UNCHANGED <<inputVars, state, processing, refresh, missed, rejected>>

Stoppable == state \in {"running", "starting"}

\* The check in progress is over: stop an entry that runs or was starting.
Drained ==
    /\ shutdown = "drain"
    /\ processing = "none"
    /\ \/ /\ Stoppable
          /\ shutdown' = "stopEntry"
          /\ state' = "stopping"
          /\ Stop
       \/ /\ ~Stoppable
          /\ shutdown' = "stopAll"
          /\ UNCHANGED <<lifecycle, state>>
    /\ UNCHANGED <<store, processing, refresh, missed, stopping, rejected>>

\* Mutant: the shutdown does not wait for the stop of the entry.
EntryStoppedAtOnce ==
    /\ shutdown = "stopEntry"
    /\ shutdown' = "stopAll"
    /\ state' = "idle"
    /\ UNCHANGED <<inputVars, processing, refresh, missed, stopping, rejected>>

EntryStopped ==
    /\ shutdown = "stopEntry" /\ stopper = "none"
    /\ shutdown' = "stopAll"
    /\ state' = "idle"
    /\ UNCHANGED <<inputVars, processing, refresh, missed, stopping, rejected>>

\* stopAll() leaves out an input whose running flag is down.
StopAll ==
    /\ shutdown = "stopAll"
    /\ \/ running /\ Stop /\ shutdown' = "draining"
       \/ ~running /\ shutdown' = "done" /\ UNCHANGED lifecycle
    /\ UNCHANGED <<store, state, processing, refresh, missed, stopping, rejected>>

AllStopped ==
    /\ shutdown = "draining" /\ stopper = "none"
    /\ shutdown' = "done"
    /\ UNCHANGED <<inputVars, state, processing, refresh, missed, stopping, rejected>>

-----------------------------------------------------------------------------
DiscoveryNext ==
    \/ ProcessEntry
    \/ CheckEnds \/ CheckStarts \/ CheckKeeps \/ CheckStops \/ CheckMisses
    \/ CheckThrows \/ StartReturns \/ StopReturns
    \/ ShutDown \/ Drained \/ EntryStopped \/ StopAll \/ AllStopped
    \/ Internal /\ UNCHANGED discovery

DiscoverySpec == DiscoveryInit /\ [][DiscoveryNext]_discoveryVars

\* The checks and the awaits of the service return, and the input does its
\* part; that the orchestrator is told to stop is not assumed.
DiscoveryFairness ==
    /\ WF_discoveryVars(CheckEnds \/ CheckStarts \/ CheckKeeps \/ CheckStops \/ CheckMisses
                        \/ CheckThrows)
    /\ WF_discoveryVars(StartReturns) /\ WF_discoveryVars(StopReturns)
    /\ WF_discoveryVars(Drained) /\ WF_discoveryVars(EntryStopped)
    /\ WF_discoveryVars(StopAll) /\ WF_discoveryVars(AllStopped)
    /\ WF_discoveryVars((OnStartDone \/ OnStartFails) /\ UNCHANGED discovery)
    /\ WF_discoveryVars(CleanupDone /\ UNCHANGED discovery)
    /\ WF_discoveryVars(StartReady /\ UNCHANGED discovery)
    /\ WF_discoveryVars((CollectDone \/ CollectionFails) /\ UNCHANGED discovery)
    /\ WF_discoveryVars(StopDrained /\ UNCHANGED discovery)
    /\ WF_discoveryVars(OnStopDone /\ UNCHANGED discovery)
    /\ WF_discoveryVars(Writer /\ UNCHANGED discovery)
    /\ SF_discoveryVars(HoldsSettled /\ ~waitingForOutput /\ Writer /\ UNCHANGED discovery)

FairDiscoverySpec == DiscoverySpec /\ DiscoveryFairness

-----------------------------------------------------------------------------
DiscoveryTypeOK ==
    /\ LifecycleTypeOK
    /\ state \in {"idle", "starting", "running", "stopping"}
    /\ processing \in {"none", "check", "starting", "stopping"}
    /\ refresh \in BOOLEAN
    /\ missed \in 0 .. Threshold - 1
    /\ stopping \in BOOLEAN
    /\ rejected \in BOOLEAN
    /\ shutdown \in {"no", "drain", "stopEntry", "stopAll", "draining", "done"}

\* Between two checks the state of the entry tells the truth about the input:
\* running means started and not stopped, idle means nothing is left of it
\* unless a check rejected meanwhile.
EntryStateTruthful ==
    processing = "none" /\ shutdown = "no" =>
        /\ state \in {"idle", "running"}
        /\ state = "running" => running /\ startup = "none" /\ stopper = "none"
        /\ state = "idle" => Idle \/ rejected

\* The service never calls start() while a stop() is in progress; whenever no
\* call of its own is, the input is started or stopped, and the state of the
\* entry tells which unless a check rejected.
EntryFollowsInput ==
    /\ ~chained
    /\ processing \in {"none", "check"} /\ shutdown \in {"no", "drain", "stopAll", "done"}
          => startup = "none" /\ stopper = "none"
    /\ processing \in {"none", "check"} /\ shutdown \in {"no", "drain"} =>
          /\ state \in {"idle", "running"} \/ (state = "starting" /\ stopping)
          /\ IF state = "idle" THEN ~running \/ rejected ELSE running

\* A start() that is waited for has not been stopped, a stop() has not been
\* followed by a start(), and no check begins once the entry was drained.
CallsArePending ==
    /\ processing \in {"starting", "stopping"} => state = processing
    /\ processing = "starting" => stopper = "none" /\ (running \/ startFailed)
    /\ processing = "stopping" \/ shutdown \in {"stopEntry", "draining"}
          => ~running /\ startup = "none"
    /\ stopping <=> shutdown # "no"
    /\ shutdown \in {"stopEntry", "stopAll", "draining", "done"} => processing = "none"
    /\ shutdown = "done" => ~running

\* The states of the entry and of the shutdown keep their type and agree with
\* the input they describe (processEntryOnce, stopEntry).
DiscoveryInv ==
    /\ DiscoveryTypeOK
    /\ EntryStateTruthful
    /\ EntryFollowsInput
    /\ CallsArePending

\* However the shutdown met a check, a start or a stop in progress: once the
\* inputs are reported stopped, no input runs, starts, has a timer or a
\* watcher, and none of it comes back.
ShutdownIsFinal == shutdown = "done" => Idle /\ ~timer /\ ~watching /\ ~chained

\* A shutdown gets through, as long as there are moments without a pending
\* output (the orchestrator cancels the Codex outputs first).
ShutdownEnds ==
    []<>(~waitingForOutput) => (shutdown = "drain" ~> shutdown = "done")
=============================================================================
