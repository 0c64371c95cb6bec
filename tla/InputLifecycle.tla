--------------------------- MODULE InputLifecycle ---------------------------
(***************************************************************************)
(* Start, stop and the collection cycle of one input                       *)
(* (src/inputs/base/base-input.ts) on the checkpoint store it shares with  *)
(* the other inputs.  start() and stop() may be called at any time and     *)
(* overlap: each returns the promise of the call in progress.  What this   *)
(* input's collect() and the other inputs do to the store (cursor changes, *)
(* output holds, saves) are the actions of StateStore, at any time.        *)
(***************************************************************************)
EXTENDS StateStore

VARIABLES
    running,     \* _running
    startup,     \* startPromise: "none" | "onStart" | "first" | "ready" | "cleanup"
    startFailed, \* how the last startup ended
    stopper,     \* stopPromise: "none" | "drain" | "onStop"
    chained,     \* a start() waits for stopPromise
    cyclePromise, \* "none" | "collect" | "wait" (in the race with save())
    timer,       \* the poll interval is set
    watching     \* resources onStart installed (watchers) are open

lifecycle == <<running, startup, startFailed, stopper, chained, cyclePromise, timer, watching>>
inputVars == <<vars, lifecycle>>

LifecycleInit ==
    /\ Init
    /\ running = FALSE
    /\ startup = "none"
    /\ startFailed = FALSE
    /\ stopper = "none"
    /\ chained = FALSE
    /\ cyclePromise = "none"
    /\ timer = FALSE
    /\ watching = FALSE

\* Mutant: nobody tells the startup that its first cycle is over.
ReadiedNever == startup

\* What the end of the cycle does to a startup that waits for its first one.
Readied == IF startup = "first" THEN "ready" ELSE startup

-----------------------------------------------------------------------------
(* start() and startOnce().                                                *)

BeginStartup ==
    /\ running' = TRUE
    /\ startup' = "onStart"
    /\ startFailed' = FALSE

Start ==
    /\ \/ /\ stopper # "none"
          /\ chained' = TRUE
          /\ UNCHANGED <<running, startup, startFailed>>
       \/ /\ stopper = "none" /\ startup = "none" /\ ~running
          /\ BeginStartup
          /\ UNCHANGED chained
       \/ /\ stopper = "none" /\ (startup # "none" \/ running)
          /\ UNCHANGED <<running, startup, startFailed, chained>>
    /\ UNCHANGED <<stopper, cyclePromise, timer, watching>>

\* onStart installs a watcher, before or after an await of its own.
OnStartWatches ==
    /\ startup = "onStart"
    /\ ~watching
    /\ watching' = TRUE
    /\ UNCHANGED <<store, running, startup, startFailed, stopper, chained, cyclePromise, timer>>

\* onStart is through.  Unless stop() came first, run the first cycle, which
\* may be one a watcher has begun; only its collection is waited for.
OnStartDone ==
    /\ startup = "onStart"
    /\ \/ /\ ~running
          /\ startup' = "none"
          /\ UNCHANGED cyclePromise
       \/ /\ running /\ cyclePromise = "none" /\ ~saveFailure
          /\ cyclePromise' = "collect"
          /\ startup' = "first"
       \/ /\ running /\ cyclePromise = "none" /\ saveFailure
          /\ startup' = "ready"
          /\ UNCHANGED cyclePromise
       \/ /\ running /\ cyclePromise # "none"
          /\ startup' = IF cyclePromise = "wait" THEN "ready" ELSE "first"
          /\ UNCHANGED cyclePromise
    /\ UNCHANGED <<store, running, startFailed, stopper, chained, timer, watching>>

\* Mutant: a failed startup leaves the cleanup to a stop() that may not come.
OnStartFailsUncleaned ==
    /\ startup = "onStart"
    /\ running' = FALSE
    /\ startFailed' = TRUE
    /\ startup' = "none"
    /\ UNCHANGED <<store, stopper, chained, cyclePromise, timer, watching>>

OnStartFails ==
    /\ startup = "onStart"
    /\ running' = FALSE
    /\ startFailed' = TRUE
    /\ startup' = IF stopper = "none" THEN "cleanup" ELSE "none"
    /\ UNCHANGED <<store, stopper, chained, cyclePromise, timer, watching>>

\* A failed startup cleans up itself when no stop() does.
CleanupDone ==
    /\ startup = "cleanup"
    /\ startup' = "none"
    /\ watching' = FALSE
    /\ UNCHANGED <<store, running, startFailed, stopper, chained, cyclePromise, timer>>

\* Mutant: the timer is set although stop() came in the meantime.
StartReadyUnchecked ==
    /\ startup = "ready"
    /\ startup' = "none"
    /\ timer' = TRUE
    /\ UNCHANGED <<store, running, startFailed, stopper, chained, cyclePromise, watching>>

StartReady ==
    /\ startup = "ready"
    /\ startup' = "none"
    /\ timer' = running
    /\ UNCHANGED <<store, running, startFailed, stopper, chained, cyclePromise, watching>>

-----------------------------------------------------------------------------
(* runCycle() and runCycleOnce().                                          *)

\* The timer, or a watcher through requestCollection().
BeginCycle ==
    /\ timer \/ (watching /\ running)
    /\ cyclePromise = "none"
    /\ ~saveFailure
    /\ cyclePromise' = "collect"
    /\ UNCHANGED <<store, running, startup, startFailed, stopper, chained, timer, watching>>

\* collect() is through: save().  When there is something to wait for, a
\* waiting startup is released, and so is this cycle if stop() came before.
CollectDone ==
    /\ cyclePromise = "collect"
    /\ Save \/ (~SaveStarts /\ UNCHANGED store)
    /\ cyclePromise' = IF SaveWaits /\ saver # "settled" /\ (running \/ ~waitingForOutput)
                  THEN "wait" ELSE "none"
    /\ startup' = Readied
    /\ UNCHANGED <<running, startFailed, stopper, chained, timer, watching>>

CollectionFails ==
    /\ cyclePromise = "collect"
    /\ cyclePromise' = "none"
    /\ startup' = Readied
    /\ UNCHANGED <<store, running, startFailed, stopper, chained, timer, watching>>

\* The shared save goes on; a cycle that waits for it ends when it settles.
Writer ==
    /\ HoldsSettled \/ HoldsRejected \/ WriteLands \/ WriteFails
          \/ WriteResolves \/ SaveCleared
    /\ cyclePromise' = IF cyclePromise = "wait" /\ saver' = "settled" THEN "none" ELSE cyclePromise
    /\ UNCHANGED <<running, startup, startFailed, stopper, chained, timer, watching>>

\* Cursor changes, outputs and saves of this input's collect() and of others.
Activity ==
    /\ Change \/ (\E h \in Holds : HoldSaveUntil(h)) \/ Settle \/ Save
    /\ UNCHANGED lifecycle

-----------------------------------------------------------------------------
(* stop() and stopOnce().                                                  *)

Stops == stopper = "none" /\ (running \/ startup # "none")

Stop ==
    /\ \/ /\ Stops
          /\ running' = FALSE
          /\ timer' = FALSE
          /\ stopper' = "drain"
          /\ cyclePromise' = IF cyclePromise = "wait" /\ waitingForOutput THEN "none" ELSE cyclePromise
          /\ startup' = IF cyclePromise' = "none" THEN Readied ELSE startup
       \/ ~Stops /\ UNCHANGED <<running, timer, stopper, cyclePromise, startup>>
    /\ UNCHANGED <<startFailed, chained, watching>>

\* Mutant: onStop does not wait for the collection in progress.
StopDrainedEarly ==
    /\ stopper = "drain"
    /\ startup = "none"
    /\ stopper' = "onStop"
    /\ UNCHANGED <<store, running, startup, startFailed, chained, cyclePromise, timer, watching>>

\* The startup, then the cycle have ended: onStop().
StopDrained ==
    /\ stopper = "drain"
    /\ startup = "none" /\ cyclePromise = "none"
    /\ stopper' = "onStop"
    /\ UNCHANGED <<store, running, startup, startFailed, chained, cyclePromise, timer, watching>>

\* onStop is through; a chained start() begins at once.
OnStopDone ==
    /\ stopper = "onStop"
    /\ stopper' = "none"
    /\ watching' = FALSE
    /\ chained' = FALSE
    /\ \/ chained /\ BeginStartup
       \/ ~chained /\ UNCHANGED <<running, startup, startFailed>>
    /\ UNCHANGED <<store, cyclePromise, timer>>

-----------------------------------------------------------------------------
Internal ==
    \/ OnStartWatches \/ OnStartDone \/ OnStartFails \/ CleanupDone \/ StartReady
    \/ BeginCycle \/ CollectDone \/ CollectionFails \/ Writer \/ Activity
    \/ StopDrained \/ OnStopDone

LifecycleNext ==
    \/ Start /\ UNCHANGED store
    \/ Stop /\ UNCHANGED store
    \/ Internal

LifecycleSpec == LifecycleInit /\ [][LifecycleNext]_inputVars

\* Awaited calls return, and the shared writer makes progress (see StateStore).
\* Nothing is assumed of the outputs.
LifecycleFairness ==
    /\ WF_inputVars(OnStartDone \/ OnStartFails)
    /\ WF_inputVars(CleanupDone) /\ WF_inputVars(StartReady)
    /\ WF_inputVars(CollectDone \/ CollectionFails)
    /\ WF_inputVars(StopDrained) /\ WF_inputVars(OnStopDone)
    /\ WF_inputVars(Writer)
    /\ SF_inputVars(HoldsSettled /\ ~waitingForOutput /\ Writer)
    /\ SF_inputVars(WriteLands /\ Writer)

FairLifecycleSpec == LifecycleSpec /\ LifecycleFairness

-----------------------------------------------------------------------------
LifecycleTypeOK ==
    /\ TypeOK
    /\ running \in BOOLEAN
    /\ startup \in {"none", "onStart", "first", "ready", "cleanup"}
    /\ startFailed \in BOOLEAN
    /\ stopper \in {"none", "drain", "onStop"}
    /\ chained \in BOOLEAN
    /\ cyclePromise \in {"none", "collect", "wait"}
    /\ timer \in BOOLEAN
    /\ watching \in BOOLEAN

Idle == ~running /\ startup = "none" /\ stopper = "none"

\* "Drain it before onStop" (stopOnce): while a stop() closes what onStart
\* opened, neither a startup nor a collection of this input is under way.
NoCollectionDuringCleanup ==
    stopper = "onStop" => cyclePromise = "none" /\ startup = "none" /\ ~timer

\* However start() and stop() overlapped, and whether or not the startup
\* failed, an input at rest has no timer and no watcher left, and no start()
\* is waiting for a stop() that is over.
IdleHoldsNothing == Idle => ~timer /\ ~watching /\ ~chained

\* The poll timer and the running flag never disagree.
TimerOnlyWhileRunning == timer => running /\ startup = "none" /\ stopper = "none"

\* A stop() takes the running flag down until it is over; a startup that lost
\* the flag has a stop() after it or cleans up; only a stop() is waited for.
FlagsAgree ==
    /\ stopper # "none" => ~running
    /\ chained => stopper # "none"
    /\ startup \in {"onStart", "first", "ready"} => running \/ stopper # "none"
    /\ startup = "cleanup" => ~running /\ startFailed
    /\ running => ~startFailed

\* No wake-up is lost: a startup that waits for its first cycle has one that
\* still collects, a cycle that waits for the shared save has one under way.
WaitersAreServed ==
    /\ startup = "first" => cyclePromise = "collect"
    /\ cyclePromise = "wait" => saver \in {"holds", "writing", "landed"}

\* What the flags, the timer and the watcher of an input tell is consistent
\* after any overlap of start(), stop() and failures (BaseInput).
LifecycleInv ==
    /\ LifecycleTypeOK
    /\ IdleHoldsNothing
    /\ TimerOnlyWhileRunning
    /\ NoCollectionDuringCleanup
    /\ FlagsAgree
    /\ WaitersAreServed

\* A stop() that was called ends, as long as the outputs of all inputs leave
\* the store a moment without a pending batch now and then.
StopEnds ==
    []<>(~waitingForOutput) => (stopper # "none" ~> stopper = "none")
=============================================================================
