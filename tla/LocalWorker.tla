---------------------------- MODULE LocalWorker ----------------------------
(***************************************************************************)
(* A local worker: a process of its own, which the activation service      *)
(* keeps as its instance file says -- one worker with the wanted options   *)
(* and bundle while it is enabled, none while it is not -- and which the   *)
(* supervisor starts, restarts after a failure and stops.  It outlives the *)
(* daemon; the pid file is how the next one finds it.                      *)
(*                                                                         *)
(* One instance on a POSIX system.  What a worker runs is a fingerprint;   *)
(* a stop is asked by a refresh or by the shutdown.  Nothing makes a       *)
(* deployment wait for the exits, starts and stops of before it: one that  *)
(* overtakes them is recorded, and the daemon not followed any further.    *)
(***************************************************************************)
EXTENDS Naturals, FiniteSetsExt

CONSTANTS
    MaxRuntimes,  \* runtime records, used again when nothing refers to them
    MaxRestarts,  \* restartPolicy.maxRestarts
    Fingerprints,
    MaxEdits,     \* bound: changes of the instance file
    MaxFaults,    \* bound: calls that fail
    MaxLives,     \* bound: restarts of the daemon
    MaxLeft       \* bound: runtimes that an overtaken daemon leaves processes of

None == 0

ASSUME LocalWorkerAssumption ==
    /\ {MaxRuntimes, MaxRestarts, MaxEdits, MaxFaults, MaxLives, MaxLeft} \subseteq Nat
    /\ Fingerprints # {} /\ None \notin Fingerprints

VARIABLES
    instance,  \* the instance file: enabled, and the fingerprint wanted
    active,    \* activeFingerprints of the instance
    refresh,   \* where the refresh in progress stands
    read,      \* the instance it has read
    service,   \* "up", "stopping" or "done"
    stops,     \* caller -> its stopIfPresent(): step, runtime it found, pid it read
    current,   \* runtimes: the record under the pid file's path
    record,    \* runtime -> restarts, stopping, stopped, is a stopAttempt pending?
    starting,  \* runtime -> step of its start()
    timer,     \* runtimes with a restart scheduled
    handler,   \* process -> what the exit callback and handleExit() do, for which runtime
    alive,     \* processes that run
    pidFile,
    status,    \* state in supervisor-status.json
    bounds,    \* edits, faults and lives used
    \* History.
    orphans,   \* processes the pid file did not name when their daemon ended
    met,       \* did the shutdown meet a refresh or a start in progress?
    undone,    \* has a deployment failed after it asked the active worker to stop,
               \* or has what would have restarted the worker broken off?
    overtaken  \* has a deployment overtaken what was in progress before it?

Callers == {"refresh", "shutdown"}
Runtimes == 1 .. MaxRuntimes
Processes == Runtimes \X (0 .. MaxRestarts)  \* each start of a runtime is a process
Process(r) == <<r, record[r].restarts>>

NoPid == <<None, None>>
NewRecord == [restarts |-> 0, stopping |-> FALSE, stopped |-> FALSE, attempt |-> FALSE]
NoStop == [step |-> "none", runtime |-> None, pid |-> NoPid]
NoHandler == [step |-> "none", runtime |-> None]
NewRecords == [r \in Runtimes |-> NewRecord]
NoStops == [c \in Callers |-> NoStop]
NoStarts == [r \in Runtimes |-> "none"]
NoHandlers == [p \in Processes |-> NoHandler]
Statuses ==
    {"none", "starting", "running", "restarting", "stopping", "stopped", "exited", "failed"}

daemon == <<service, refresh, read, active>>
supervisor == <<stops, current, record, starting, timer, handler>>
history == <<orphans, met, undone, overtaken>>
vars == <<instance, daemon, supervisor, alive, pidFile, status, bounds, history>>

WorkerInit ==
    /\ instance \in [enabled : BOOLEAN, wanted : {CHOOSE f \in Fingerprints : TRUE}]
    /\ read = instance
    /\ service = "up" /\ refresh = "idle" /\ active = None
    /\ stops = NoStops /\ current = None /\ record = NewRecords
    /\ starting = NoStarts /\ timer = {} /\ handler = NoHandlers
    /\ alive = {} /\ pidFile = NoPid /\ status = "none"
    /\ bounds = [edits |-> 0, faults |-> 0, lives |-> 0]
    /\ orphans = {} /\ met = FALSE /\ undone = FALSE /\ overtaken = FALSE

Fault == bounds.faults < MaxFaults /\ bounds' = [bounds EXCEPT !.faults = @ + 1]

-----------------------------------------------------------------------------
(* What happens around the daemon.                                         *)

\* connect, disconnect, reconnect with other options, or another bundle.
Edits ==
    /\ bounds.edits < MaxEdits
    /\ bounds' = [bounds EXCEPT !.edits = @ + 1]
    /\ \/ instance' = [instance EXCEPT !.enabled = ~@]
       \/ \E f \in Fingerprints \ {instance.wanted} : instance' = [instance EXCEPT !.wanted = f]
    /\ UNCHANGED <<daemon, supervisor, alive, pidFile, status, history>>

\* A worker ends, by itself or by a signal; the daemon hears of its children.
Ends(p) ==
    /\ alive' = alive \ {p}
    /\ handler' = [handler EXCEPT ![p].step = IF @ = "watch" THEN "unreported" ELSE @]
    /\ orphans' = orphans \ {p}
    /\ UNCHANGED <<instance, daemon, stops, current, record, starting, timer, pidFile,
                   status, bounds, met, undone, overtaken>>

Exits(p) == p \in alive /\ Ends(p)

Signalled(p) == \E c \in Callers : stops[c].step = "wait" /\ stops[c].pid = p
Dies(p) == p \in alive /\ Signalled(p) /\ Ends(p)

NewDaemon ==
    /\ bounds.lives < MaxLives
    /\ bounds' = [bounds EXCEPT !.lives = @ + 1]
    /\ service' = "up" /\ refresh' = "idle" /\ active' = None
    /\ stops' = NoStops /\ current' = None /\ record' = NewRecords
    /\ starting' = NoStarts /\ timer' = {} /\ handler' = NoHandlers
    /\ met' = FALSE /\ undone' = FALSE /\ overtaken' = FALSE
    /\ UNCHANGED <<instance, read>>

\* The daemon dies, or ends after its shutdown, and another one starts.
Restarts ==
    /\ ~overtaken /\ NewDaemon
    /\ orphans' = alive \cap (orphans \cup {p \in Processes : p # pidFile})
    /\ UNCHANGED <<alive, pidFile, status>>

\* The one after a daemon that was not followed finds any workers, under any
\* pid file and status.
RestartsAnew ==
    /\ overtaken /\ NewDaemon
    /\ LET left == {p \in Processes : p[1] <= MaxLeft} IN
          alive' \in SUBSET left /\ pidFile' \in left \cup {NoPid}
    /\ status' \in Statuses
    /\ orphans' = alive' \ {pidFile'}

-----------------------------------------------------------------------------
(* stopIfPresent() of the supervisor.                                      *)

\* stop(): joins the attempt in progress, or begins one.
StopCalled(c) ==
    /\ stops' = [stops EXCEPT ![c] =
           [step |-> IF current # None /\ record[current].attempt THEN "join" ELSE "read",
            runtime |-> current, pid |-> NoPid]]
    /\ record' = IF current = None \/ record[current].attempt THEN record
                 ELSE [record EXCEPT ![current].stopping = TRUE, ![current].stopped = FALSE,
                                     ![current].attempt = TRUE]

StopStep(c, step) == stops' = [stops EXCEPT ![c].step = step]

\* A deployment that fails leaves the fingerprint of the worker it replaces.
DeployFails ==
    /\ refresh' = "idle" /\ status' = "failed"
    /\ undone' = (undone \/ active # None)
    /\ UNCHANGED <<service, active>>

\* What the caller does when its stop has returned; said is the status by then.
Continue(c, ok, said) ==
    CASE c = "shutdown" ->
            /\ service' = "done" /\ active' = None /\ status' = said
            /\ UNCHANGED <<refresh, undone>>
      [] c = "refresh" /\ ~read.enabled ->
            /\ refresh' = "idle" /\ active' = None /\ status' = said /\ undone' = FALSE
            /\ UNCHANGED service
      [] c = "refresh" /\ read.enabled /\ ok ->
            /\ refresh' = IF refresh = "stop" THEN "acquire" ELSE "start"
            /\ status' = said
            /\ UNCHANGED <<service, active, undone>>
      [] OTHER -> DeployFails

Returns(c, ok, said) ==
    LET r == stops[c].runtime IN
    /\ stops' = [stops EXCEPT ![c] = NoStop]
    /\ record' = IF r = None THEN record
                 ELSE [record EXCEPT ![r].stopped = ok, ![r].attempt = FALSE]
    /\ Continue(c, ok, said)
    /\ UNCHANGED <<read, orphans, met, overtaken>>

StopReads(c) ==
    /\ stops[c].step = "read"
    /\ stops' = [stops EXCEPT ![c].step = IF pidFile = NoPid THEN "forget" ELSE "signal",
                              ![c].pid = pidFile]
    /\ UNCHANGED <<instance, daemon, current, record, starting, timer, handler, alive, pidFile,
                   status, bounds, history>>

\* "stopping" is published and the process group gets its signals.
StopSignals(c) ==
    /\ stops[c].step = "signal"
    /\ StopStep(c, "wait")
    /\ status' = "stopping"
    /\ UNCHANGED <<instance, daemon, current, record, starting, timer, handler, alive, pidFile,
                   bounds, history>>

StopRefused(c) ==
    /\ stops[c].step = "signal" /\ Fault
    /\ Returns(c, FALSE, "stopping")
    /\ UNCHANGED <<instance, current, starting, timer, handler, alive, pidFile>>

\* A dead child has a pid until the daemon has taken note of its exit.
HasPid(p) == p \in alive \/ handler[p].step = "unreported"

StopTimesOut(c) ==
    /\ stops[c].step = "wait" /\ HasPid(stops[c].pid) /\ Fault
    /\ Returns(c, FALSE, "failed")
    /\ UNCHANGED <<instance, current, starting, timer, handler, alive, pidFile>>

StopSeesExit(c) ==
    /\ stops[c].step = "wait" /\ ~HasPid(stops[c].pid)
    /\ StopStep(c, "remove")
    /\ UNCHANGED <<instance, daemon, current, record, starting, timer, handler, alive, pidFile,
                   status, bounds, history>>

StopRemoves(c) ==
    /\ stops[c].step = "remove"
    /\ StopStep(c, "forget")
    /\ pidFile' = NoPid
    /\ UNCHANGED <<instance, daemon, current, record, starting, timer, handler, alive, status,
                   bounds, history>>

\* The runtime is dropped, and "stopped" published unless there was neither
\* a runtime nor a pid.
StopForgets(c) ==
    /\ stops[c].step = "forget"
    /\ current' = None
    /\ Returns(c, TRUE, IF current = None /\ stops[c].pid = NoPid THEN status ELSE "stopped")
    /\ UNCHANGED <<instance, starting, timer, handler, alive, pidFile, bounds>>

\* A joined attempt gives both callers its result.
StopJoined(c) ==
    LET r == stops[c].runtime IN
    /\ stops[c].step = "join" /\ ~record[r].attempt
    /\ stops' = [stops EXCEPT ![c] = NoStop]
    /\ Continue(c, record[r].stopped, status)
    /\ UNCHANGED <<instance, read, current, record, starting, timer, handler, alive, pidFile,
                   bounds, orphans, met, overtaken>>

StopSteps(c) ==
    StopReads(c) \/ StopSignals(c) \/ StopSeesExit(c) \/ StopRemoves(c) \/ StopForgets(c)
    \/ StopJoined(c)

-----------------------------------------------------------------------------
(* start() of the supervisor.                                              *)

OfDeployment(r) == refresh = "starting" /\ record[r].restarts = 0

\* What start() returns matters to the deployment that called it.
StartReturns(r, ok, said) ==
    /\ starting' = [starting EXCEPT ![r] = "none"]
    /\ IF OfDeployment(r)
         THEN IF ok THEN /\ refresh' = "idle" /\ active' = read.wanted /\ status' = said
                         /\ undone' = FALSE /\ UNCHANGED service
                    ELSE DeployFails
         ELSE status' = said /\ UNCHANGED <<refresh, active, service, undone>>
    /\ UNCHANGED <<instance, read, stops, record, timer, orphans, met, overtaken>>

\* The manifest's command does not resolve.
StartRejected(r) ==
    /\ starting[r] = "prepare" /\ Fault
    /\ StartReturns(r, FALSE, "failed")
    /\ UNCHANGED <<current, handler, alive, pidFile>>

\* A directory or the status of a restart cannot be written: nobody hears.
StartBreaksOff(r) ==
    /\ starting[r] = "prepare" /\ ~OfDeployment(r) /\ Fault
    /\ starting' = [starting EXCEPT ![r] = "none"]
    /\ undone' = TRUE
    /\ UNCHANGED <<instance, daemon, stops, current, record, timer, handler, alive, pidFile,
                   status, orphans, met, overtaken>>

Spawns(r) ==
    /\ starting[r] = "prepare"
    /\ starting' = [starting EXCEPT ![r] = "spawned"]
    /\ alive' = alive \cup {Process(r)}
    /\ handler' = [handler EXCEPT ![Process(r)] = [step |-> "watch", runtime |-> None]]
    /\ status' = "starting"
    /\ UNCHANGED <<instance, daemon, stops, current, record, timer, pidFile, bounds, history>>

\* failStart(): nothing was spawned, or the pid cannot be written and the
\* child is killed.
StartFails(r) ==
    /\ starting[r] \in {"prepare", "spawned"} /\ Fault
    /\ alive' = alive \ {Process(r)}
    /\ handler' = [handler EXCEPT ![Process(r)] = NoHandler]
    /\ pidFile' = NoPid /\ current' = None
    /\ StartReturns(r, FALSE, "failed")

WritesPid(r) ==
    /\ starting[r] = "spawned"
    /\ starting' = [starting EXCEPT ![r] = "named"]
    /\ pidFile' = Process(r)
    /\ UNCHANGED <<instance, daemon, stops, current, record, timer, handler, alive, status,
                   bounds, history>>

\* The runtime is registered and "running" published; an exit that came
\* earlier is handled now.
Started(r) ==
    /\ starting[r] = "named"
    /\ current' = r
    /\ handler' = [handler EXCEPT ![Process(r)] =
                       IF @.step = "early" THEN [step |-> "begin", runtime |-> r] ELSE @]
    /\ StartReturns(r, TRUE, "running")
    /\ UNCHANGED <<alive, pidFile, bounds>>

StartSteps(r) == Spawns(r) \/ WritesPid(r) \/ Started(r)

-----------------------------------------------------------------------------
(* handleExit() of the supervisor.                                         *)

HandlerStep(p, step) == handler' = [handler EXCEPT ![p].step = step]
EndsHandler(p) == handler' = [handler EXCEPT ![p] = NoHandler]

\* The child's exit event: an exit before the start is persisted waits for
\* it; without a registered runtime it is nobody's.
ExitReported(p) ==
    /\ handler[p].step = "unreported"
    /\ handler' = [handler EXCEPT ![p] =
           IF starting[p[1]] # "none" /\ p = Process(p[1]) THEN [step |-> "early", runtime |-> None]
           ELSE IF current = None THEN NoHandler
           ELSE [step |-> "begin", runtime |-> current]]
    /\ UNCHANGED <<instance, daemon, stops, current, record, starting, timer, alive, pidFile,
                   status, bounds, history>>

\* Mutant: an exit is handled without waiting for the stop that caused it.
StopDecidedAtOnce(p) == ~record[handler[p].runtime].stopped

\* A stop in progress is awaited, and a successful one has cleaned up.
StopDecided(p) ==
    /\ ~record[handler[p].runtime].attempt
    /\ ~record[handler[p].runtime].stopped

Superseded(p) ==
    /\ handler[p].step \in {"begin", "decide"}
    /\ ~record[handler[p].runtime].attempt /\ record[handler[p].runtime].stopped
    /\ EndsHandler(p)
    /\ UNCHANGED <<instance, daemon, stops, current, record, starting, timer, alive, pidFile,
                   status, bounds, history>>

HandlerBegins(p) ==
    /\ handler[p].step = "begin" /\ StopDecided(p)
    /\ HandlerStep(p, "remove")
    /\ UNCHANGED <<instance, daemon, stops, current, record, starting, timer, alive, pidFile,
                   status, bounds, history>>

HandlerRemoves(p) ==
    /\ handler[p].step = "remove"
    /\ HandlerStep(p, "decide")
    /\ pidFile' = NoPid
    /\ UNCHANGED <<instance, daemon, stops, current, record, starting, timer, alive, status,
                   bounds, history>>

MayRestart(r) == ~record[r].stopping /\ record[r].restarts < MaxRestarts

\* shouldRestart: a clean exit is final.
HandlerDecides(p, failed) ==
    /\ handler[p].step = "decide" /\ StopDecided(p)
    /\ HandlerStep(p, IF failed /\ MayRestart(handler[p].runtime) THEN "restart" ELSE "give up")
    /\ UNCHANGED <<instance, daemon, stops, current, record, starting, timer, alive, pidFile,
                   status, bounds, history>>

\* The status is published, then the restart scheduled.
SchedulesRestart(p) ==
    /\ handler[p].step = "restart"
    /\ EndsHandler(p)
    /\ status' = "restarting"
    /\ record' = [record EXCEPT ![handler[p].runtime].restarts = @ + 1]
    /\ timer' = timer \cup {handler[p].runtime}
    /\ UNCHANGED <<instance, daemon, stops, current, starting, alive, pidFile, bounds, history>>

GivesUp(p) ==
    /\ handler[p].step = "give up"
    /\ EndsHandler(p)
    /\ status' = "exited"
    /\ current' = None
    /\ UNCHANGED <<instance, daemon, stops, record, starting, timer, alive, pidFile, bounds,
                   history>>

\* The pid file cannot be removed or the status written: the handling ends
\* there, without a restart.
HandlerFails(p) ==
    /\ handler[p].step \in {"remove", "restart", "give up"} /\ Fault
    /\ EndsHandler(p)
    /\ undone' = TRUE
    /\ UNCHANGED <<instance, daemon, stops, current, record, starting, timer, alive, pidFile,
                   status, orphans, met, overtaken>>

\* Mutant: the timer starts the worker whatever happened since.
TimerFiresAnyway(r) ==
    /\ r \in timer
    /\ timer' = timer \ {r}
    /\ starting' = [starting EXCEPT ![r] = "prepare"]
    /\ UNCHANGED <<instance, daemon, stops, current, record, handler, alive, pidFile, status,
                   bounds, history>>

TimerFires(r) ==
    /\ r \in timer
    /\ timer' = timer \ {r}
    /\ starting' = [starting EXCEPT ![r] = IF record[r].stopping THEN @ ELSE "prepare"]
    /\ UNCHANGED <<instance, daemon, stops, current, record, handler, alive, pidFile, status,
                   bounds, history>>

HandlerSteps(p) ==
    \/ ExitReported(p) \/ Superseded(p) \/ HandlerBegins(p) \/ HandlerRemoves(p)
    \/ \E failed \in BOOLEAN : HandlerDecides(p, failed)
    \/ SchedulesRestart(p) \/ GivesUp(p)

-----------------------------------------------------------------------------
(* The activation service.                                                 *)

\* Mutant: a disabled worker is stopped once.
RefreshesOnce ==
    /\ service = "up" /\ refresh = "idle"
    /\ IF instance.enabled THEN active # instance.wanted ELSE active # None
    /\ refresh' = "stop" /\ read' = instance
    /\ StopCalled("refresh")
    /\ UNCHANGED <<instance, service, active, current, starting, timer, handler, alive, pidFile,
                   status, bounds, history>>

\* refresh() and reconcile(): a disabled worker is stopped, one whose
\* fingerprint is not the active one is deployed, which begins with a stop.
Refreshes ==
    /\ service = "up" /\ refresh = "idle"
    /\ ~instance.enabled \/ active # instance.wanted
    /\ refresh' = "stop" /\ read' = instance
    /\ StopCalled("refresh")
    /\ UNCHANGED <<instance, service, active, current, starting, timer, handler, alive, pidFile,
                   status, bounds, history>>

\* No exit, start or stop of before the deployment is still in progress.
Settled ==
    /\ \A p \in Processes : handler[p].runtime = None
    /\ \A r \in Runtimes : starting[r] = "none"
    /\ \/ stops["shutdown"].step = "none"
       \/ stops["shutdown"].step = "wait" /\ HasPid(stops["shutdown"].pid)

\* Mutant: the worker is started without a second stop.
AcquiresOnly ==
    /\ refresh = "acquire"
    /\ refresh' = "start"
    /\ overtaken' = ~Settled
    /\ UNCHANGED <<instance, service, read, active, supervisor, alive, pidFile, status, bounds,
                   orphans, met, undone>>

\* The bundle is installed; startIfPresent() stops what may have come back,
\* and may overtake what has not come back yet.
Acquires ==
    /\ refresh = "acquire"
    /\ refresh' = "restop"
    /\ overtaken' = ~Settled
    /\ StopCalled("refresh")
    /\ UNCHANGED <<instance, service, read, active, current, starting, timer, handler, alive,
                   pidFile, status, bounds, orphans, met, undone>>

\* The package, or its install script, fails.
AcquireFails ==
    /\ refresh = "acquire" /\ Fault
    /\ DeployFails
    /\ UNCHANGED <<instance, read, supervisor, alive, pidFile, orphans, met, overtaken>>

\* Nothing refers to the record, but a timer that will do nothing.
Unused(r) ==
    /\ r # current /\ starting[r] = "none"
    /\ r \in timer => record[r].stopping
    /\ \A c \in Callers : stops[c].runtime # r /\ stops[c].pid[1] # r
    /\ pidFile[1] # r
    /\ \A p \in Processes :
          /\ handler[p].runtime # r
          /\ p[1] = r => p \notin alive /\ handler[p] = NoHandler

\* start() with a runtime of its own.
Starts ==
    /\ refresh = "start"
    /\ \E r \in Runtimes : Unused(r)
    /\ LET r == Min({q \in Runtimes : Unused(q)}) IN
       /\ starting' = [starting EXCEPT ![r] = "prepare"]
       /\ record' = [record EXCEPT ![r] = NewRecord]
       /\ timer' = timer \ {r}
    /\ refresh' = "starting"
    /\ UNCHANGED <<instance, service, read, active, stops, current, handler, alive,
                   pidFile, status, bounds, history>>

\* stop() of the service, at the shutdown of the orchestrator.
ShutsDown ==
    /\ service = "up"
    /\ service' = "stopping"
    /\ met' = (refresh # "idle" \/ \E r \in Runtimes : starting[r] # "none")
    /\ StopCalled("shutdown")
    /\ UNCHANGED <<instance, refresh, read, active, current, starting, timer, handler, alive,
                   pidFile, status, bounds, orphans, undone, overtaken>>

Steps ==
    \/ \E p \in Processes : Exits(p) \/ Dies(p) \/ HandlerSteps(p) \/ HandlerFails(p)
    \/ \E c \in Callers : StopSteps(c) \/ StopRefused(c) \/ StopTimesOut(c)
    \/ \E r \in Runtimes : StartSteps(r) \/ StartRejected(r) \/ StartBreaksOff(r)
                          \/ StartFails(r) \/ TimerFires(r)
    \/ Refreshes \/ Acquires \/ AcquireFails \/ Starts
    \/ ShutsDown

Next == Edits \/ Restarts \/ RestartsAnew \/ (~overtaken /\ Steps)

\* Callbacks and timers run, and a worker that is killed dies.
Fairness ==
    /\ WF_vars(~overtaken /\ Refreshes)
    /\ WF_vars(~overtaken /\ Acquires)
    /\ WF_vars(~overtaken /\ Starts)
    /\ \A c \in Callers : WF_vars(~overtaken /\ StopSteps(c))
    /\ \A r \in Runtimes :
          WF_vars(~overtaken /\ StartSteps(r)) /\ WF_vars(~overtaken /\ TimerFires(r))
    /\ \A p \in Processes :
          WF_vars(~overtaken /\ Dies(p)) /\ WF_vars(~overtaken /\ HandlerSteps(p))

WorkerSpec == WorkerInit /\ [][Next]_vars /\ Fairness

-----------------------------------------------------------------------------
(* Properties                                                              *)

StopPhases == {"none", "join", "read", "signal", "wait", "remove", "forget"}
ChildPhases == {"watch", "unreported", "early"}
ExitPhases == {"begin", "remove", "decide", "restart", "give up"}
Deploying == {"stop", "acquire", "restop", "start"}  \* phases that only take workers away
Instances == [enabled : BOOLEAN, wanted : Fingerprints]

WorkerTypeOK ==
    /\ instance \in Instances /\ read \in Instances
    /\ active \in Fingerprints \cup {None}
    /\ refresh \in Deploying \cup {"idle", "starting"}
    /\ service \in {"up", "stopping", "done"}
    /\ stops \in [Callers -> [step : StopPhases, runtime : Runtimes \cup {None},
                              pid : Processes \cup {NoPid}]]
    /\ current \in Runtimes \cup {None}
    /\ record \in [Runtimes -> [restarts : 0 .. MaxRestarts, stopping : BOOLEAN,
                                stopped : BOOLEAN, attempt : BOOLEAN]]
    /\ starting \in [Runtimes -> {"none", "prepare", "spawned", "named"}]
    /\ timer \subseteq Runtimes
    /\ handler \in [Processes -> [step : {"none"} \cup ChildPhases \cup ExitPhases,
                                  runtime : Runtimes \cup {None}]]
    /\ \A p \in Processes : handler[p].step \in ExitPhases <=> handler[p].runtime # None
    /\ alive \subseteq Processes /\ orphans \subseteq alive
    /\ pidFile \in Processes \cup {NoPid}
    /\ status \in Statuses
    /\ met \in BOOLEAN /\ undone \in BOOLEAN /\ overtaken \in BOOLEAN

Known == alive \ orphans
Held == {p \in Processes : HasPid(p) /\ p \notin orphans}
NoneHeld == Held = {} /\ pidFile = NoPid
NoneStarting == \A r \in Runtimes : starting[r] = "none"
BeingStarted(p) == starting[p[1]] = "spawned" /\ p = Process(p[1])

\* Workers do not multiply: whatever the restart policy, the refreshes and
\* the stops do, one runs at a time.
OneWorker == \A p, q \in Known : p = q

\* Workers can be found and stopped, also by the next daemon: the pid file
\* names one from the end of its start to the report of its end -- until a
\* shutdown meets a deployment or a start in progress, for then it may remove
\* the pid file of the worker that the deployment starts.
Findable == ~met \/ refresh \in Deploying => \A p \in Held : pidFile = p \/ BeingStarted(p)

\* What may bring a worker about is one thing at a time: a start, a process
\* (that is no longer being started), a restart that is scheduled or an exit
\* that is being handled and not superseded by a stop.
OfStart(p) == starting[p[1]] # "none" /\ p = Process(p[1])
Armed == {r \in timer : ~record[r].stopping}
Superseding(p) ==
    /\ handler[p].step \in {"begin", "decide"} /\ current # handler[p].runtime
    /\ record[handler[p].runtime].stopped /\ ~record[handler[p].runtime].attempt
Handling == {p \in Processes : handler[p].runtime # None /\ ~Superseding(p)}
Tokens ==
    {<<"start", r>> : r \in {q \in Runtimes : starting[q] # "none"}}
    \cup {<<"process", p>> : p \in {q \in Held : ~OfStart(q)}}
    \cup {<<"restart", r>> : r \in Armed} \cup {<<"exit", p>> : p \in Handling}
OneToken == \A x, y \in Tokens : x = y

\* The daemon watches its own processes, and a runtime has no others.
Uses(r) ==
    \/ current = r \/ starting[r] # "none" \/ r \in Armed
    \/ \E p \in Processes : handler[p].runtime = r
ChildrenWatched ==
    /\ \A p \in Processes :
          /\ handler[p].step = "watch" => p \in Known
          /\ handler[p].step \in {"unreported", "early"} => p \notin alive
          /\ handler[p].step = "early" => OfStart(p) /\ starting[p[1]] # "prepare"
    /\ \A r \in Runtimes :
          /\ Uses(r) => \A p \in alive : p[1] = r => handler[p].step \in ChildPhases
          /\ starting[r] # "none" => \A p \in Processes : handler[p].runtime # r
          /\ starting[r] = "prepare" => Process(r) \notin Held

\* A stop in progress is an attempt of its runtime, which later ones join.
AttemptsShared ==
    /\ stops["refresh"].step # "none" <=> refresh \in {"stop", "restop"}
    /\ stops["shutdown"].step # "none" <=> service = "stopping"
    /\ stops["refresh"].step = "join" => service # "up"
    /\ stops["shutdown"].step = "join" => met
    /\ service = "up" => ~met
    /\ \A c \in Callers :
          /\ stops[c].step = "none" => stops[c] = NoStop
          /\ stops[c].step = "join" => stops[c].runtime # None
          /\ stops[c].step \in {"read", "join"} => stops[c].pid = NoPid
          /\ stops[c].step \in {"signal", "wait", "remove"} => stops[c].pid # NoPid
          /\ stops[c].runtime # None => record[stops[c].runtime].stopping
          /\ stops[c].runtime # None /\ stops[c].step # "join" =>
                /\ record[stops[c].runtime].attempt
                /\ \A d \in Callers \ {c} :
                      stops[d].runtime = stops[c].runtime => stops[d].step = "join"
    /\ \A r \in Runtimes :
          /\ record[r].attempt => \E c \in Callers : stops[c].runtime = r /\ stops[c].step # "join"
          /\ record[r].attempt \/ record[r].stopped => record[r].stopping

\* Once stopped, a runtime is not started again; another one is only started
\* by a deployment.
Restartable(r) ==
    /\ ~record[r].stopping
    /\ \/ r \in timer \/ current = r \/ starting[r] # "none"
       \/ \E p \in Handling : handler[p].runtime = r
Ending == refresh \in Deploying \/ (service # "up" /\ ~met)
StopsLast ==
    /\ Ending => \A r \in Runtimes : ~Restartable(r)
    /\ service = "up" /\ refresh = "idle" => \A r \in Runtimes : Restartable(r) => r = current
    /\ service # "up" /\ ~met => refresh = "idle" /\ NoneStarting

\* Restarts keep to the policy, and begin when no pid file names another.
RestartsInOrder ==
    /\ \A p \in Processes :
          handler[p].step = "restart" => record[handler[p].runtime].restarts < MaxRestarts
    /\ \A p \in Handling : handler[p].step \in {"decide", "restart", "give up"} => pidFile = NoPid
    /\ \A r \in Runtimes : starting[r] \in {"prepare", "spawned"} => pidFile = NoPid
    /\ Armed # {} => pidFile = NoPid

\* The process a stop signals is the only one, and gone when its pid file is
\* removed.
SignalsTheWorker == Ending => \A c \in Callers : stops[c].pid # NoPid =>
    /\ \A r \in Runtimes : starting[r] \notin {"prepare", "spawned"}
    /\ Held \subseteq {stops[c].pid} /\ pidFile \in {stops[c].pid, NoPid}
    /\ stops[c].step \in {"remove", "forget"} => Held = {}
    /\ stops[c].step = "forget" => pidFile = NoPid

\* The second stop of a deployment leaves nothing that its start could meet.
LastStop == refresh = "restop" =>
    LET last == stops["refresh"] IN
    /\ NoneStarting /\ current \in {None, last.runtime}
    /\ \A p \in Processes : handler[p].runtime # None =>
          /\ handler[p].runtime = last.runtime
          /\ record[last.runtime].attempt \/ record[last.runtime].stopped =>
                handler[p].step = "begin"
    /\ last.step = "forget" => NoneHeld
    /\ last.step = "join" =>
          IF record[last.runtime].attempt
          THEN stops["shutdown"].runtime = last.runtime /\ stops["shutdown"].pid # NoPid
          ELSE record[last.runtime].stopped => NoneHeld /\ current = None
ReadyToStart == refresh = "start" =>
    /\ NoneHeld /\ NoneStarting /\ current = None
    /\ \A p \in Processes : handler[p].runtime # None => Superseding(p)

\* So does the stop of a shutdown that met nothing, and nothing comes back.
LastOfAll == ~met =>
    /\ stops["shutdown"].step = "forget" => NoneHeld
    /\ service = "done" /\ status \notin {"failed", "stopping"} => Held = {}

\* One worker, which can be found, with what both rest on -- until a
\* deployment overtakes an exit, a start or a stop of before it: then a
\* restart may come beside its start, and two workers run.
WorkerInv ==
    /\ WorkerTypeOK
    /\ ~overtaken =>
          /\ OneWorker /\ Findable
          /\ OneToken /\ ChildrenWatched /\ AttemptsShared /\ StopsLast /\ RestartsInOrder
          /\ SignalsTheWorker /\ LastStop /\ ReadyToStart /\ LastOfAll

\* A shutdown that met neither a refresh nor a start in progress leaves no
\* worker running without saying that its stop failed, and nothing restarts
\* one afterwards, in a daemon no deployment of which overtook anything.
ShutdownHolds ==
    service = "done" /\ ~met /\ ~overtaken =>
        /\ status \notin {"failed", "stopping"} => Known = {}
        /\ \A r \in Runtimes : starting[r] = "none"

NothingRuns ==
    Known = {} /\ (bounds.lives = 0 => status \notin {"running", "starting", "stopping"})
WantedRuns ==
    \E p \in Known : pidFile = p /\ current = p[1] /\ status = "running" /\ starting[p[1]] = "none"
GaveUp == Known = {} /\ status \in {"exited", "failed"}

\* A worker that stays disabled ends, and its status says so unless a daemon
\* died before it could write it; of one that stays enabled the wanted
\* fingerprint is deployed in the end, and it runs until it exits for good --
\* unless a deployment failed after stopping it, for one that is taken back to
\* the old fingerprint is not started again, or a write failed on the way to
\* its restart.  Daemons of which a deployment overtook something are not
\* followed.
Converges ==
    /\ <>[](service = "up" /\ ~instance.enabled /\ ~overtaken) => <>[]NothingRuns
    /\ <>[](service = "up" /\ instance.enabled /\ ~overtaken) =>
           <>[](active = instance.wanted /\ (undone \/ WantedRuns \/ GaveUp))
=============================================================================
