------------------------- MODULE LocalWorkerProofs --------------------------
(***************************************************************************)
(* Proofs about a local worker, for any number of runtime records,         *)
(* restarts, edits of the instance file, faults and lives of the daemon.   *)
(***************************************************************************)
EXTENDS LocalWorker, NaturalsInduction, WellFoundedInduction, TLAPS

USE DEF None

-----------------------------------------------------------------------------
(* Runtimes and processes.                                                 *)

LEMMA NoneIsNoRuntime == None \notin Runtimes
BY DEF Runtimes

LEMMA ProcessFacts ==
    /\ NoPid \notin Processes
    /\ \A p \in Processes : p[1] \in Runtimes
    /\ \A r \in Runtimes, n \in 0 .. MaxRestarts : <<r, n>> \in Processes /\ <<r, n>>[1] = r
BY DEF Runtimes, Processes, NoPid

LEMMA ProcessOf ==
    ASSUME WorkerTypeOK, NEW r \in Runtimes
    PROVE  Process(r) \in Processes /\ Process(r)[1] = r
<1>1. record[r].restarts \in 0 .. MaxRestarts
  BY DEF WorkerTypeOK
<1> QED BY <1>1, ProcessFacts DEF Process

LEMMA LeastUnused ==
    ASSUME NEW S \in SUBSET Runtimes, S # {} PROVE Min(S) \in S
<1>1. S \subseteq Nat
  BY DEF Runtimes
<1>2. PICK x \in S : \A y \in S : ~(<<y, x>> \in OpToRel(<, Nat))
  BY <1>1, NatLessThanWellFounded, WFMin
<1>3. ASSUME NEW y \in S PROVE x <= y
  <2>1. x \in Nat /\ y \in Nat /\ <<y, x>> \in Nat \X Nat
    BY <1>1
  <2>2. ~(<<y, x>>[1] < <<y, x>>[2])
    BY <1>2, <2>1 DEF OpToRel
  <2> QED BY <2>1, <2>2
<1> QED BY <1>3 DEF Min

\* The types of WorkerTypeOK.
StopType == [step : StopPhases, runtime : Runtimes \cup {None}, pid : Processes \cup {NoPid}]
RecordType == [restarts : 0 .. MaxRestarts, stopping : BOOLEAN, stopped : BOOLEAN,
               attempt : BOOLEAN]
StartType == [Runtimes -> {"none", "prepare", "spawned", "named"}]
HandlerType == [Processes -> [step : {"none"} \cup ChildPhases \cup ExitPhases,
                              runtime : Runtimes \cup {None}]]

-----------------------------------------------------------------------------
(* The tokens, two by two.                                                 *)

Alone ==
    /\ \A q, r \in Runtimes : starting[q] # "none" /\ starting[r] # "none" => q = r
    /\ \A p, q \in Held : ~OfStart(p) /\ ~OfStart(q) => p = q
    /\ \A q, r \in Armed : q = r
    /\ \A p, q \in Handling : p = q
    /\ \A r \in Runtimes : starting[r] # "none" =>
          Armed = {} /\ Handling = {} /\ \A p \in Held : OfStart(p)
    /\ \A p \in Held : ~OfStart(p) => Armed = {} /\ Handling = {}
    /\ Armed # {} => Handling = {}

LEMMA TokensTwoByTwo == OneToken <=> Alone
<1> DEFINE S == {<<"start", r>> : r \in {q \in Runtimes : starting[q] # "none"}}
           P == {<<"process", p>> : p \in {q \in Held : ~OfStart(q)}}
           T == {<<"restart", r>> : r \in Armed}
           E == {<<"exit", p>> : p \in Handling}
<1>1. ASSUME OneToken PROVE Alone
  <2>1. \A x, y \in S \cup P \cup T \cup E : x = y
    BY <1>1 DEF OneToken, Tokens
  <2>2. /\ \A r \in Runtimes : starting[r] # "none" => <<"start", r>> \in S
        /\ \A p \in Held : ~OfStart(p) => <<"process", p>> \in P
        /\ \A r \in Armed : <<"restart", r>> \in T
        /\ \A p \in Handling : <<"exit", p>> \in E
    OBVIOUS
  <2> HIDE DEF S, P, T, E
  <2>3. ASSUME NEW r \in Runtimes, starting[r] # "none"
        PROVE  /\ \A q \in Runtimes : starting[q] # "none" => q = r
               /\ Armed = {} /\ Handling = {} /\ \A p \in Held : OfStart(p)
    <3>1. \A y \in S \cup P \cup T \cup E : <<"start", r>> = y
      BY <2>1, <2>2, <2>3
    <3>2. \A q \in Runtimes : starting[q] # "none" => <<"start", r>> = <<"start", q>>
      BY <2>2, <3>1
    <3>3. \A q \in Armed : <<"start", r>> = <<"restart", q>>
      BY <2>2, <3>1
    <3>4. \A p \in Handling : <<"start", r>> = <<"exit", p>>
      BY <2>2, <3>1
    <3>5. \A p \in Held : ~OfStart(p) => <<"start", r>> = <<"process", p>>
      BY <2>2, <3>1
    <3> QED BY <3>2, <3>3, <3>4, <3>5
  <2>4. ASSUME NEW p \in Held, ~OfStart(p)
        PROVE  /\ \A q \in Held : ~OfStart(q) => p = q
               /\ Armed = {} /\ Handling = {}
    <3>1. \A y \in P \cup T \cup E : <<"process", p>> = y
      BY <2>1, <2>2, <2>4
    <3>2. \A q \in Held : ~OfStart(q) => <<"process", p>> = <<"process", q>>
      BY <2>2, <3>1
    <3>3. \A q \in Armed : <<"process", p>> = <<"restart", q>>
      BY <2>2, <3>1
    <3>4. \A q \in Handling : <<"process", p>> = <<"exit", q>>
      BY <2>2, <3>1
    <3> QED BY <3>2, <3>3, <3>4
  <2>5. ASSUME NEW r \in Armed PROVE Handling = {} /\ \A q \in Armed : q = r
    <3>1. \A y \in T \cup E : <<"restart", r>> = y
      BY <2>1, <2>2
    <3>2. \A q \in Armed : <<"restart", r>> = <<"restart", q>>
      BY <2>2, <3>1
    <3>3. \A q \in Handling : <<"restart", r>> = <<"exit", q>>
      BY <2>2, <3>1
    <3> QED BY <3>2, <3>3
  <2>6. \A p, q \in Handling : p = q
    <3>1. \A p, q \in Handling : <<"exit", p>> = <<"exit", q>>
      BY <2>1, <2>2
    <3> QED BY <3>1
  <2> QED BY <2>3, <2>4, <2>5, <2>6 DEF Alone
<1>2. ASSUME Alone PROVE OneToken
  <2>1. ASSUME NEW x \in S, NEW y \in S \cup P \cup T \cup E PROVE x = y
    BY <1>2 DEF Alone
  <2>2. ASSUME NEW x \in P, NEW y \in P \cup T \cup E PROVE x = y
    BY <1>2 DEF Alone
  <2>3. ASSUME NEW x \in T, NEW y \in T \cup E PROVE x = y
    BY <1>2 DEF Alone
  <2>4. ASSUME NEW x \in E, NEW y \in E PROVE x = y
    BY <1>2 DEF Alone
  <2>5. \A x, y \in S \cup P \cup T \cup E : x = y
    <3> HIDE DEF S, P, T, E
    <3> QED BY <2>1, <2>2, <2>3, <2>4
  <2> QED BY <2>5 DEF OneToken, Tokens
<1> QED BY <1>1, <1>2

LEMMA OneOfThem == WorkerTypeOK /\ Alone => OneWorker
<1> SUFFICES ASSUME WorkerTypeOK, Alone, NEW p \in Known, NEW q \in Known PROVE p = q
  BY DEF OneWorker
<1>1. p \in Held /\ q \in Held
  BY DEF Known, Held, HasPid, WorkerTypeOK
<1>2. p[1] \in Runtimes /\ q[1] \in Runtimes
  BY <1>1, ProcessFacts DEF Held
<1> QED BY <1>1, <1>2 DEF Alone, OfStart

LEMMA Subsets == Held \subseteq Processes /\ Handling \subseteq Processes /\ Armed \subseteq timer
BY DEF Held, Handling, Armed

LEMMA SubsetsNext ==
    Held' \subseteq Processes /\ Handling' \subseteq Processes /\ Armed' \subseteq timer'
BY DEF Held, Handling, Armed

LEMMA HandlerFacts ==
    ASSUME WorkerTypeOK, NEW p \in Processes
    PROVE  /\ handler[p].runtime # None => handler[p].runtime \in Runtimes
           /\ handler[p].runtime # None <=> handler[p].step \in ExitPhases
           /\ handler[p].step \in {"none"} \cup ChildPhases \cup ExitPhases
           /\ handler[p] = [step |-> handler[p].step, runtime |-> handler[p].runtime]
           /\ Superseding(p) => handler[p].runtime \in Runtimes
BY DEF WorkerTypeOK, Superseding, ExitPhases, ChildPhases

\* WorkerInv of a daemon that is followed, in the form that its steps are
\* proved with.
Inv ==
    /\ WorkerTypeOK /\ Alone /\ ChildrenWatched /\ AttemptsShared /\ StopsLast
    /\ RestartsInOrder /\ Findable /\ SignalsTheWorker /\ LastStop /\ ReadyToStart /\ LastOfAll

LEMMA InvIsWorkerInv == WorkerInv <=> WorkerTypeOK /\ (~overtaken => Inv)
BY TokensTwoByTwo, OneOfThem DEF Inv, WorkerInv

-----------------------------------------------------------------------------
(* Processes that end.                                                     *)

LEMMA EndsStep ==
    ASSUME Inv, NEW p \in Processes, p \in alive, Ends(p)
    PROVE  Inv'
<1>0. /\ UNCHANGED <<instance, daemon, stops, current, record, starting, timer, pidFile, status,
                     bounds, met, undone, overtaken>>
      /\ alive' = alive \ {p} /\ orphans' = orphans \ {p}
      /\ handler' = [handler EXCEPT ![p].step = IF @ = "watch" THEN "unreported" ELSE @]
  BY DEF Ends
<1>1. /\ \A q \in Processes : handler'[q].runtime = handler[q].runtime
      /\ \A q \in Processes : handler'[q].step = IF q = p /\ handler[q].step = "watch"
                                                 THEN "unreported" ELSE handler[q].step
  BY <1>0 DEF Inv, WorkerTypeOK
<1>2. WorkerTypeOK'
  <2>1. handler' \in HandlerType
    BY <1>0 DEF Inv, WorkerTypeOK, HandlerType, ChildPhases
  <2>2. \A q \in Processes : handler'[q].step \in ExitPhases <=> handler'[q].runtime # None
    BY <1>1 DEF Inv, WorkerTypeOK, ExitPhases
  <2>3. alive' \subseteq Processes /\ orphans' \subseteq alive'
    BY <1>0 DEF Inv, WorkerTypeOK
  <2>4. /\ instance' = instance /\ read' = read /\ active' = active /\ refresh' = refresh
        /\ service' = service /\ stops' = stops /\ current' = current /\ record' = record
        /\ starting' = starting /\ timer' = timer /\ pidFile' = pidFile /\ status' = status
        /\ met' = met /\ undone' = undone /\ overtaken' = overtaken
    BY <1>0 DEF daemon
  <2> QED BY <2>1, <2>2, <2>3, <2>4 DEF Inv, WorkerTypeOK, HandlerType
<1>3. /\ Held' \subseteq Held /\ \A q \in Processes : OfStart(q)' = OfStart(q)
      /\ Armed' = Armed /\ Handling' = Handling
      /\ \A q \in Processes : Superseding(q)' = Superseding(q)
      /\ \A q \in Processes : BeingStarted(q)' = BeingStarted(q)
  <2>1. Held' \subseteq Held
    BY <1>0, <1>1 DEF Inv, ChildrenWatched, Held, HasPid, Known
  <2>2. \A q \in Processes : OfStart(q)' = OfStart(q) /\ BeingStarted(q)' = BeingStarted(q)
    BY <1>0 DEF OfStart, Process, BeingStarted
  <2>3. \A q \in Processes : Superseding(q)' = Superseding(q)
    BY <1>0, <1>1 DEF Superseding
  <2> QED BY <1>0, <1>1, <2>1, <2>2, <2>3 DEF Armed, Handling
<1>4. Alone'
  BY <1>0, <1>3 DEF Inv, Alone, Held
<1>5. ChildrenWatched'
  BY <1>0, <1>1, <1>3 DEF Inv, ChildrenWatched, Uses, Known, Process, ChildPhases, OfStart
<1>6. AttemptsShared' /\ StopsLast'
  BY <1>0, <1>1, <1>3 DEF Inv, AttemptsShared, StopsLast, Ending, Restartable, NoneStarting, daemon
<1>7. RestartsInOrder' /\ Findable'
  <2>1. RestartsInOrder'
    <3> USE DEF Inv, RestartsInOrder
    <3>0. record' = record /\ pidFile' = pidFile
      BY <1>0
    <3>1. \A q \in Processes :
              (handler[q].step = "restart" => record[handler[q].runtime].restarts < MaxRestarts)'
      <4> SUFFICES ASSUME NEW q \in Processes, handler'[q].step = "restart"
                   PROVE  record'[handler'[q].runtime].restarts < MaxRestarts
        OBVIOUS
      <4>1. handler[q].step = "restart" /\ handler'[q].runtime = handler[q].runtime
        BY <1>1
      <4> QED BY <3>0, <4>1
    <3>2. \A q \in Handling :
              (handler[q].step \in {"decide", "restart", "give up"} => pidFile = NoPid)'
      BY <3>0, <1>1, Subsets
    <3>3. (\A r \in Runtimes : starting[r] \in {"prepare", "spawned"} => pidFile = NoPid)'
      BY <1>0 DEF Inv, RestartsInOrder
    <3>4. (Armed # {} => pidFile = NoPid)'
      BY <1>0, <1>3 DEF Inv, RestartsInOrder
    <3> QED BY <1>3, <3>1, <3>2, <3>3, <3>4 DEF RestartsInOrder
  <2>2. Findable'
    BY <1>0, <1>1, <1>3, Subsets DEF Inv, Findable, daemon
  <2> QED BY <2>1, <2>2
<1>8. SignalsTheWorker'
  BY <1>0, <1>1, <1>3 DEF Inv, SignalsTheWorker, Ending, daemon
<1>9. LastStop' /\ ReadyToStart' /\ LastOfAll'
  BY <1>0, <1>1, <1>3 DEF Inv, LastStop, ReadyToStart, LastOfAll, NoneHeld, NoneStarting, daemon
<1> QED BY <1>2, <1>4, <1>5, <1>6, <1>7, <1>8, <1>9 DEF Inv

-----------------------------------------------------------------------------
(* Exits that are handled.                                                 *)

\* With an exit to handle nothing runs and nothing is started.
LEMMA ExitIsAlone ==
    ASSUME WorkerTypeOK, Alone, NEW p \in Handling
    PROVE  Held = {} /\ NoneStarting /\ Armed = {} /\ Handling = {p}
<1>1. NoneStarting
  BY DEF Alone, NoneStarting
<1>2. \A q \in Held : ~OfStart(q)
  BY <1>1, Subsets, ProcessFacts DEF OfStart, NoneStarting
<1> QED BY <1>1, <1>2 DEF Alone

\* A step of an exit handler: it moves on or ends, and only one that is not
\* superseded may touch the pid file, the timers and the count of restarts.
HandlerMoves(p) ==
    /\ UNCHANGED <<stops, service, refresh, met, starting, alive, orphans>>
    /\ \A q \in Processes \ {p} : handler'[q] = handler[q]
    /\ handler[p].runtime # None
    /\ handler'[p].runtime \in {None, handler[p].runtime}
    /\ handler'[p].runtime = None => handler'[p].step = "none"
    /\ p \notin Handling => handler'[p].runtime = None
    /\ handler'[p].runtime # None =>
          \/ handler[p].step # "begin"
          \/ ~record[handler[p].runtime].attempt /\ ~record[handler[p].runtime].stopped
    /\ handler'[p].step = "restart" => record[handler[p].runtime].restarts < MaxRestarts
    /\ handler'[p].step \in {"decide", "restart", "give up"} => pidFile' = NoPid
    /\ \/ current' = current
       \/ p \in Handling /\ current' = None /\ handler'[p].runtime = None /\ timer' = timer
    /\ pidFile' = pidFile \/ (p \in Handling /\ pidFile' = NoPid)
    /\ \A r \in Runtimes :
          /\ record'[r].stopping = record[r].stopping /\ record'[r].stopped = record[r].stopped
          /\ record'[r].attempt = record[r].attempt
          /\ record'[r].restarts = record[r].restarts \/ p \in Handling
    /\ \/ timer' = timer
       \/ /\ p \in Handling /\ handler'[p].runtime = None /\ pidFile' = NoPid
          /\ timer' = timer \cup {handler[p].runtime}
    /\ status' = status \/ p \in Handling
    /\ record' = record \/ handler'[p].runtime = None

LEMMA HandlerMovesStep ==
    ASSUME Inv, WorkerTypeOK', NEW p \in Processes, HandlerMoves(p)
    PROVE  Inv'
<1>0. /\ UNCHANGED <<stops, service, refresh, met, starting, alive, orphans>>
      /\ current' \in {current, None} /\ WorkerTypeOK
  BY DEF HandlerMoves, Inv
<1>1. /\ \A q \in Processes : handler'[q].runtime \in {None, handler[q].runtime}
      /\ \A q \in Processes : handler'[q].step \in ChildPhases <=> handler[q].step \in ChildPhases
      /\ \A q \in Processes : handler[q].step \in ChildPhases => handler'[q] = handler[q]
      /\ \A q \in Processes : q # p => handler'[q] = handler[q]
  BY DEF HandlerMoves, Inv, WorkerTypeOK, ChildPhases, ExitPhases
<1>2. p \in Handling => Held = {} /\ NoneStarting /\ Armed = {} /\ Handling = {p}
  BY ExitIsAlone DEF Inv
<1>3. /\ \A r \in Runtimes : record'[r].stopping = record[r].stopping
      /\ \A r \in Runtimes : record'[r].stopped = record[r].stopped
      /\ \A r \in Runtimes : record'[r].attempt = record[r].attempt
      /\ \A r \in Runtimes : starting[r] # "none" => record'[r].restarts = record[r].restarts
  BY <1>2 DEF HandlerMoves, NoneStarting
<1>4. Held' = Held
  BY <1>0, <1>1 DEF Held, HasPid, ChildPhases
<1>5. \A q \in Processes : OfStart(q)' = OfStart(q) /\ BeingStarted(q)' = BeingStarted(q)
  BY <1>0, <1>3, ProcessFacts DEF OfStart, Process, BeingStarted
<1>6. \A q \in Processes : q # p /\ Superseding(q) => Superseding(q)'
  <2> SUFFICES ASSUME NEW q \in Processes, q # p, Superseding(q) PROVE Superseding(q)'
    OBVIOUS
  <2>1. handler'[q] = handler[q] /\ handler[q].runtime \in Runtimes /\ handler[q].runtime # None
    BY <1>0, <1>1, HandlerFacts, NoneIsNoRuntime
  <2>2. current' # handler[q].runtime
    BY <1>0, <2>1 DEF Superseding
  <2> QED BY <1>3, <2>1, <2>2 DEF Superseding
<1>7. Handling' \subseteq Handling
  BY <1>1, <1>6 DEF Handling, HandlerMoves
<1>8. \/ Armed' = Armed /\ timer' = timer
      \/ /\ p \in Handling /\ Armed' \subseteq {handler[p].runtime} /\ Handling' = {}
         /\ pidFile' = NoPid /\ timer' = timer \cup {handler[p].runtime}
  <2>1. \A r \in timer' : r \in Armed' <=> ~record[r].stopping
    BY <1>3 DEF Armed, WorkerTypeOK
  <2>2. CASE timer' = timer
    BY <1>3, <2>2 DEF Armed, Inv, WorkerTypeOK
  <2>3. CASE /\ p \in Handling /\ handler'[p].runtime = None /\ pidFile' = NoPid
             /\ timer' = timer \cup {handler[p].runtime}
    <3>1. Armed' \subseteq {handler[p].runtime}
      BY <1>2, <2>1, <2>3, SubsetsNext DEF Armed
    <3>2. Handling' = {}
      BY <1>2, <1>7, <2>3 DEF Handling
    <3> QED BY <2>3, <3>1, <3>2
  <2> QED BY <2>2, <2>3 DEF HandlerMoves
<1>9. Alone'
  <2>1. CASE Armed' = Armed
    BY <1>0, <1>4, <1>5, <1>7, <2>1, Subsets DEF Inv, Alone
  <2>2. CASE p \in Handling /\ Armed' \subseteq {handler[p].runtime} /\ Handling' = {}
    BY <1>0, <1>2, <1>4, <2>2 DEF NoneStarting, Alone
  <2> QED BY <1>8, <2>1, <2>2
<1>10. ChildrenWatched'
  <2>1. \A r \in Runtimes : Uses(r)' => Uses(r)
    BY <1>0, <1>1, <1>8, HandlerFacts, NoneIsNoRuntime DEF Uses, Handling
  <2>2. Known' = Known
    BY <1>0 DEF Known
  <2>3. \A q \in Processes :
           /\ handler'[q].step = "watch" => q \in Known'
           /\ handler'[q].step \in {"unreported", "early"} => q \notin alive'
           /\ handler'[q].step = "early" => OfStart(q)' /\ starting'[q[1]] # "prepare"
    BY <1>0, <1>1, <1>5, <2>2 DEF ChildrenWatched, Inv, ChildPhases
  <2>4. ASSUME NEW r \in Runtimes
        PROVE  /\ Uses(r)' => \A q \in alive' : q[1] = r => handler'[q].step \in ChildPhases
               /\ starting'[r] # "none" => \A q \in Processes : handler'[q].runtime # r
               /\ starting'[r] = "prepare" => Process(r)' \notin Held'
    <3>1. Uses(r)' => \A q \in alive' : q[1] = r => handler'[q].step \in ChildPhases
      BY <1>0, <1>1, <2>1 DEF ChildrenWatched, Inv, WorkerTypeOK
    <3>2. starting'[r] # "none" => \A q \in Processes : handler'[q].runtime # r
      BY <1>0, <1>1, NoneIsNoRuntime DEF ChildrenWatched, Inv
    <3>3. starting'[r] = "prepare" => Process(r)' \notin Held'
      BY <1>0, <1>3, <1>4 DEF ChildrenWatched, Inv, Process
    <3> QED BY <3>1, <3>2, <3>3
  <2> QED BY <2>3, <2>4 DEF ChildrenWatched
<1>11. AttemptsShared'
  BY <1>0, <1>3, NoneIsNoRuntime DEF AttemptsShared, Inv, WorkerTypeOK
<1>12. StopsLast'
  <2>1. ASSUME NEW r \in Runtimes, Restartable(r)'
        PROVE  Restartable(r) /\ (r = current => current' = current)
    <3>1. ~record[r].stopping /\ r # None
      BY <1>3, <2>1, NoneIsNoRuntime DEF Restartable
    <3>2. \A q \in Handling' : handler'[q].runtime = r => q \in Handling /\ handler[q].runtime = r
      BY <1>1, <1>7, <3>1, SubsetsNext
    <3>3. \/ r \in timer' \/ current' = r \/ starting[r] # "none"
          \/ \E q \in Handling' : handler'[q].runtime = r
      BY <1>0, <2>1 DEF Restartable
    <3>4. CASE current' = current /\ timer' = timer
      BY <3>1, <3>2, <3>3, <3>4 DEF Restartable
    <3>5. CASE current' = current /\ p \in Handling /\ timer' = timer \cup {handler[p].runtime}
      BY <3>1, <3>2, <3>3, <3>5 DEF Restartable
    <3>6. CASE p \in Handling /\ current' = None /\ handler'[p].runtime = None /\ timer' = timer
      <4>1. Handling' = {}
        BY <1>2, <1>7, <3>6, SubsetsNext DEF Handling
      <4>2. r \notin timer
        BY <1>2, <3>1, <3>6 DEF Armed
      <4> QED BY <1>2, <3>1, <3>3, <3>6, <4>1, <4>2 DEF NoneStarting
    <3> QED BY <3>4, <3>5, <3>6 DEF HandlerMoves
  <2>2. ASSUME Ending', NEW r \in Runtimes PROVE ~Restartable(r)'
    BY <1>0, <2>1, <2>2 DEF StopsLast, Inv, Ending
  <2>3. ASSUME service' = "up", refresh' = "idle", NEW r \in Runtimes, Restartable(r)'
        PROVE  r = current'
    BY <1>0, <2>1, <2>3 DEF StopsLast, Inv
  <2>4. service' # "up" /\ ~met' => refresh' = "idle" /\ NoneStarting'
    BY <1>0 DEF StopsLast, Inv, NoneStarting
  <2> QED BY <2>2, <2>3, <2>4 DEF StopsLast
<1>13. RestartsInOrder'
  <2>1. \A q \in Processes :
            handler'[q].step = "restart" => record'[handler'[q].runtime].restarts < MaxRestarts
    <3> SUFFICES ASSUME NEW q \in Processes, handler'[q].step = "restart"
                 PROVE  record'[handler'[q].runtime].restarts < MaxRestarts
      OBVIOUS
    <3>1. CASE q = p
      BY <3>1 DEF HandlerMoves
    <3>2. CASE q # p
      <4>1. handler'[q] = handler[q] /\ q \in Handling /\ handler[q].runtime \in Runtimes
        BY <1>1, <3>2, <1>0, HandlerFacts DEF Handling, Superseding, ExitPhases
      <4>2. record'[handler[q].runtime].restarts = record[handler[q].runtime].restarts
        <5>1. p \notin Handling
          BY <1>2, <3>2, <4>1
        <5>2. \A r \in Runtimes : record'[r].restarts = record[r].restarts \/ p \in Handling
          BY DEF HandlerMoves
        <5> QED BY <4>1, <5>1, <5>2
      <4>3. record[handler[q].runtime].restarts < MaxRestarts
        BY <4>1 DEF RestartsInOrder, Inv
      <4> QED BY <4>1, <4>2, <4>3
    <3> QED BY <3>1, <3>2
  <2>2. pidFile' = pidFile \/ pidFile' = NoPid
    BY DEF HandlerMoves
  <2>3. ASSUME NEW q \in Handling', handler'[q].step \in {"decide", "restart", "give up"}
        PROVE  pidFile' = NoPid
    <3>1. CASE q = p
      BY <2>3, <3>1 DEF HandlerMoves
    <3>2. CASE q # p
      <4>1. q \in Handling /\ handler[q].step \in {"decide", "restart", "give up"}
        BY <1>1, <1>7, <2>3, <3>2, SubsetsNext
      <4> QED BY <2>2, <4>1 DEF RestartsInOrder, Inv
    <3> QED BY <3>1, <3>2
  <2>4. \A r \in Runtimes : starting'[r] \in {"prepare", "spawned"} => pidFile' = NoPid
    BY <1>0, <2>2 DEF RestartsInOrder, Inv
  <2>5. Armed' # {} => pidFile' = NoPid
    BY <1>8, <2>2 DEF RestartsInOrder, Inv
  <2> QED BY <2>1, <2>3, <2>4, <2>5 DEF RestartsInOrder
<1>14. pidFile' = pidFile \/ (pidFile' = NoPid /\ Held = {})
  BY <1>2 DEF HandlerMoves
<1>15. Findable' /\ SignalsTheWorker'
  <2>1. Findable'
    BY <1>0, <1>4, <1>5, <1>14, Subsets DEF Findable, Inv
  <2>2. SignalsTheWorker'
    BY <1>0, <1>4, <1>14 DEF SignalsTheWorker, Ending, Inv
  <2> QED BY <2>1, <2>2
<1>16. LastStop'
  <2> SUFFICES ASSUME refresh' = "restop" PROVE LastStop'
    BY DEF LastStop
  <2> DEFINE last == stops["refresh"]
  <2>1. refresh = "restop" /\ stops' = stops /\ (NoneHeld => NoneHeld')
    BY <1>0, <1>4, <1>14 DEF NoneHeld
  <2>2. last.runtime \in Runtimes \cup {None} /\ last.runtime = stops["refresh"].runtime
    BY <1>0 DEF WorkerTypeOK, Callers
  <2>3. NoneStarting' /\ current' \in {None, last.runtime}
    BY <1>0, <2>1 DEF LastStop, Inv, NoneStarting
  <2>4. ASSUME NEW q \in Processes, handler'[q].runtime # None
        PROVE  /\ handler'[q].runtime = last.runtime
               /\ record'[last.runtime].attempt \/ record'[last.runtime].stopped =>
                     handler'[q].step = "begin"
    <3>1. handler'[q].runtime = handler[q].runtime /\ handler[q].runtime # None
      BY <1>1, <2>4
    <3>2. handler[q].runtime = last.runtime
      BY <2>1, <3>1 DEF LastStop, Inv
    <3>3. last.runtime \in Runtimes
      BY <2>2, <3>1, <3>2
    <3>4. record[last.runtime].attempt \/ record[last.runtime].stopped =>
             handler[q].step = "begin"
      BY <2>1, <3>1 DEF LastStop, Inv
    <3>5. record[last.runtime].attempt \/ record[last.runtime].stopped => q # p
      BY <2>4, <3>2, <3>4 DEF HandlerMoves
    <3> QED BY <1>1, <1>3, <3>1, <3>2, <3>3, <3>4, <3>5
  <2>5. last.step = "forget" => NoneHeld'
    BY <2>1 DEF LastStop, Inv
  <2>6. last.step = "join" =>
           IF record'[last.runtime].attempt
           THEN stops'["shutdown"].runtime = last.runtime /\ stops'["shutdown"].pid # NoPid
           ELSE record'[last.runtime].stopped => NoneHeld' /\ current' = None
    <3> SUFFICES ASSUME last.step = "join"
                 PROVE  IF record'[last.runtime].attempt
                        THEN /\ stops'["shutdown"].runtime = last.runtime
                             /\ stops'["shutdown"].pid # NoPid
                        ELSE record'[last.runtime].stopped => NoneHeld' /\ current' = None
      OBVIOUS
    <3>1. last.runtime \in Runtimes
      BY <2>2 DEF AttemptsShared, Inv, Callers
    <3>2. /\ record'[last.runtime].attempt = record[last.runtime].attempt
          /\ record'[last.runtime].stopped = record[last.runtime].stopped
      BY <1>3, <3>1
    <3>3. IF record[last.runtime].attempt
          THEN stops["shutdown"].runtime = last.runtime /\ stops["shutdown"].pid # NoPid
          ELSE record[last.runtime].stopped => NoneHeld /\ current = None
      BY <2>1 DEF LastStop, Inv
    <3> QED BY <1>0, <2>1, <3>2, <3>3
  <2> QED BY <2>1, <2>3, <2>4, <2>5, <2>6 DEF LastStop
<1>17. ReadyToStart'
  <2> SUFFICES ASSUME refresh' = "start" PROVE ReadyToStart'
    BY DEF ReadyToStart
  <2>1. /\ NoneHeld' /\ NoneStarting' /\ current' = None
        /\ \A q \in Processes : handler[q].runtime # None => Superseding(q)
    BY <1>0, <1>4, <1>14 DEF ReadyToStart, Inv, NoneHeld, NoneStarting
  <2>2. ASSUME NEW q \in Processes, handler'[q].runtime # None PROVE Superseding(q)'
    <3>1. Superseding(q)
      BY <1>1, <2>1, <2>2
    <3>2. q # p
      BY <2>2, <3>1 DEF HandlerMoves, Handling
    <3> QED BY <1>6, <3>1, <3>2
  <2> QED BY <2>1, <2>2 DEF ReadyToStart
<1>18. LastOfAll'
  <2>1. status' = status \/ Held = {}
    BY <1>2 DEF HandlerMoves
  <2> QED BY <1>0, <1>4, <1>14, <2>1 DEF LastOfAll, NoneHeld, Inv
<1> QED BY <1>9, <1>10, <1>11, <1>12, <1>13, <1>15, <1>16, <1>17, <1>18 DEF Inv

LEMMA SupersededStep ==
    ASSUME Inv, NEW p \in Processes, Superseded(p) PROVE Inv'
<1>1. /\ UNCHANGED <<instance, daemon, stops, current, record, starting, timer, alive, pidFile,
                     status, bounds, history>>
      /\ handler[p].step \in {"begin", "decide"}
  BY DEF Superseded
<1>0. handler' = [handler EXCEPT ![p] = NoHandler]
  BY DEF Superseded, EndsHandler
<1>2. /\ \A q \in Processes \ {p} : handler'[q] = handler[q]
      /\ handler'[p].runtime = None /\ handler'[p].step = "none"
      /\ handler[p].runtime # None
  BY <1>0, <1>1 DEF Inv, WorkerTypeOK, ExitPhases, NoHandler
<1>3. WorkerTypeOK'
  <2>1. handler' \in [Processes -> [step : {"none"} \cup ChildPhases \cup ExitPhases,
                                    runtime : Runtimes \cup {None}]]
        /\ \A q \in Processes : handler'[q].step \in ExitPhases <=> handler'[q].runtime # None
    BY <1>0, <1>2 DEF Inv, WorkerTypeOK, NoHandler, ExitPhases
  <2> QED BY <1>1, <2>1 DEF Inv, WorkerTypeOK, daemon, history
<1>4. HandlerMoves(p)
  BY <1>1, <1>2 DEF HandlerMoves, daemon, history
<1> QED BY <1>3, <1>4, HandlerMovesStep

LEMMA HandlerBeginsStep ==
    ASSUME Inv, NEW p \in Processes, HandlerBegins(p) PROVE Inv'
<1>1. /\ UNCHANGED <<instance, daemon, stops, current, record, starting, timer, alive, pidFile,
                     status, bounds, history>>
      /\ handler[p].step = "begin" /\ StopDecided(p)
      /\ handler' = [handler EXCEPT ![p].step = "remove"]
  BY DEF HandlerBegins, HandlerStep
<1>2. /\ \A q \in Processes \ {p} : handler'[q] = handler[q]
      /\ handler'[p].step = "remove" /\ handler'[p].runtime = handler[p].runtime
      /\ handler[p].runtime # None /\ p \in Handling
  BY <1>1 DEF Inv, WorkerTypeOK, ExitPhases, Handling, Superseding, StopDecided
<1>3. WorkerTypeOK'
  <2>1. handler' \in HandlerType
    BY <1>1 DEF Inv, WorkerTypeOK, HandlerType, ExitPhases
  <2>2. \A q \in Processes : handler'[q].step \in ExitPhases <=> handler'[q].runtime # None
    BY <1>2 DEF Inv, WorkerTypeOK, ExitPhases
  <2> QED BY <1>1, <2>1, <2>2 DEF Inv, WorkerTypeOK, HandlerType, daemon, history
<1>4. HandlerMoves(p)
  BY <1>1, <1>2 DEF HandlerMoves, StopDecided, daemon, history
<1> QED BY <1>3, <1>4, HandlerMovesStep

LEMMA HandlerRemovesStep ==
    ASSUME Inv, NEW p \in Processes, HandlerRemoves(p) PROVE Inv'
<1>1. /\ UNCHANGED <<instance, daemon, stops, current, record, starting, timer, alive, status,
                     bounds, history>>
      /\ handler[p].step = "remove" /\ pidFile' = NoPid
      /\ handler' = [handler EXCEPT ![p].step = "decide"]
  BY DEF HandlerRemoves, HandlerStep
<1>2. /\ \A q \in Processes \ {p} : handler'[q] = handler[q]
      /\ handler'[p].step = "decide" /\ handler'[p].runtime = handler[p].runtime
      /\ handler[p].runtime # None /\ p \in Handling
  BY <1>1 DEF Inv, WorkerTypeOK, ExitPhases, Handling, Superseding
<1>3. WorkerTypeOK'
  <2>1. handler' \in HandlerType
    BY <1>1 DEF Inv, WorkerTypeOK, HandlerType, ExitPhases
  <2>2. \A q \in Processes : handler'[q].step \in ExitPhases <=> handler'[q].runtime # None
    BY <1>2 DEF Inv, WorkerTypeOK, ExitPhases
  <2> QED BY <1>1, <2>1, <2>2 DEF Inv, WorkerTypeOK, HandlerType, daemon, history
<1>4. HandlerMoves(p)
  BY <1>1, <1>2 DEF HandlerMoves, daemon, history
<1> QED BY <1>3, <1>4, HandlerMovesStep

LEMMA HandlerDecidesStep ==
    ASSUME Inv, NEW p \in Processes, NEW failed \in BOOLEAN, HandlerDecides(p, failed)
    PROVE  Inv'
<1> DEFINE step == IF failed /\ MayRestart(handler[p].runtime) THEN "restart" ELSE "give up"
<1>1. /\ UNCHANGED <<instance, daemon, stops, current, record, starting, timer, alive, pidFile,
                     status, bounds, history>>
      /\ handler[p].step = "decide" /\ StopDecided(p)
      /\ handler' = [handler EXCEPT ![p].step = step]
  BY DEF HandlerDecides, HandlerStep
<1>2. /\ \A q \in Processes \ {p} : handler'[q] = handler[q]
      /\ handler'[p].step = step /\ handler'[p].runtime = handler[p].runtime
      /\ handler[p].runtime # None /\ p \in Handling
  BY <1>1 DEF Inv, WorkerTypeOK, ExitPhases, Handling, Superseding, StopDecided
<1>3. step \in {"restart", "give up"}
      /\ (step = "restart" => record[handler[p].runtime].restarts < MaxRestarts)
  BY DEF MayRestart
<1>4. pidFile' = NoPid
  BY <1>1, <1>2 DEF Inv, RestartsInOrder
<1> HIDE DEF step
<1>5. WorkerTypeOK'
  <2>1. handler' \in [Processes -> [step : {"none"} \cup ChildPhases \cup ExitPhases,
                                    runtime : Runtimes \cup {None}]]
        /\ \A q \in Processes : handler'[q].step \in ExitPhases <=> handler'[q].runtime # None
    BY <1>1, <1>2, <1>3 DEF Inv, WorkerTypeOK, ExitPhases
  <2> QED BY <1>1, <2>1 DEF Inv, WorkerTypeOK, daemon, history
<1>6. HandlerMoves(p)
  BY <1>1, <1>2, <1>3, <1>4 DEF HandlerMoves, daemon, history
<1> QED BY <1>5, <1>6, HandlerMovesStep

LEMMA SchedulesRestartStep ==
    ASSUME Inv, NEW p \in Processes, SchedulesRestart(p) PROVE Inv'
<1> DEFINE r == handler[p].runtime
<1>1. /\ UNCHANGED <<instance, daemon, stops, current, starting, alive, pidFile, bounds, history>>
      /\ handler[p].step = "restart" /\ handler' = [handler EXCEPT ![p] = NoHandler]
      /\ status' = "restarting" /\ timer' = timer \cup {r}
      /\ record' = [record EXCEPT ![r].restarts = @ + 1]
  BY DEF SchedulesRestart, EndsHandler
<1>2. /\ \A q \in Processes \ {p} : handler'[q] = handler[q]
      /\ handler'[p] = NoHandler /\ r # None /\ r \in Runtimes /\ p \in Handling
  BY <1>1 DEF Inv, WorkerTypeOK, ExitPhases, Handling, Superseding
<1>3. pidFile' = NoPid /\ record[r].restarts < MaxRestarts
  BY <1>1, <1>2 DEF Inv, RestartsInOrder
<1> HIDE DEF r
<1>4. \A q \in Runtimes :
         /\ record'[q] = [restarts |-> IF q = r THEN record[q].restarts + 1
                                                ELSE record[q].restarts,
                          stopping |-> record[q].stopping, stopped |-> record[q].stopped,
                          attempt |-> record[q].attempt]
         /\ record'[q].restarts \in 0 .. MaxRestarts
  BY <1>1, <1>2, <1>3, LocalWorkerAssumption DEF Inv, WorkerTypeOK
<1>5. record' \in [Runtimes -> [restarts : 0 .. MaxRestarts, stopping : BOOLEAN,
                                stopped : BOOLEAN, attempt : BOOLEAN]]
  <2>1. DOMAIN record' = Runtimes /\ record' = [q \in Runtimes |-> record'[q]]
    BY <1>1 DEF Inv, WorkerTypeOK
  <2>2. \A q \in Runtimes : record'[q] \in [restarts : 0 .. MaxRestarts, stopping : BOOLEAN,
                                            stopped : BOOLEAN, attempt : BOOLEAN]
    <3> SUFFICES ASSUME NEW q \in Runtimes
                 PROVE  record'[q] \in [restarts : 0 .. MaxRestarts, stopping : BOOLEAN,
                                        stopped : BOOLEAN, attempt : BOOLEAN]
      OBVIOUS
    <3>1. /\ record[q].stopping \in BOOLEAN /\ record[q].stopped \in BOOLEAN
          /\ record[q].attempt \in BOOLEAN
      BY DEF Inv, WorkerTypeOK
    <3>2. record'[q].restarts \in 0 .. MaxRestarts
      BY <1>4
    <3>3. PICK n : record'[q] = [restarts |-> n, stopping |-> record[q].stopping,
                                 stopped |-> record[q].stopped, attempt |-> record[q].attempt]
      BY <1>4
    <3>4. n \in 0 .. MaxRestarts
      BY <3>2, <3>3
    <3> QED BY <3>1, <3>3, <3>4
  <2> QED BY <2>1, <2>2
<1>6. WorkerTypeOK'
  <2>1. handler' \in [Processes -> [step : {"none"} \cup ChildPhases \cup ExitPhases,
                                    runtime : Runtimes \cup {None}]]
        /\ \A q \in Processes : handler'[q].step \in ExitPhases <=> handler'[q].runtime # None
    BY <1>1, <1>2 DEF Inv, WorkerTypeOK, NoHandler, ExitPhases
  <2> QED BY <1>1, <1>2, <1>5, <2>1 DEF Inv, WorkerTypeOK, Statuses, daemon, history
<1>7. HandlerMoves(p)
  BY <1>1, <1>2, <1>3, <1>4 DEF HandlerMoves, NoHandler, daemon, history, r
<1> QED BY <1>6, <1>7, HandlerMovesStep

LEMMA GivesUpStep ==
    ASSUME Inv, NEW p \in Processes, GivesUp(p) PROVE Inv'
<1>1. /\ UNCHANGED <<instance, daemon, stops, record, starting, timer, alive, pidFile, bounds,
                     history>>
      /\ handler[p].step = "give up" /\ status' = "exited" /\ current' = None
  BY DEF GivesUp
<1>0. handler' = [handler EXCEPT ![p] = NoHandler]
  BY DEF GivesUp, EndsHandler
<1>2. /\ \A q \in Processes \ {p} : handler'[q] = handler[q]
      /\ handler'[p].runtime = None /\ handler'[p].step = "none"
      /\ handler[p].runtime # None /\ p \in Handling
  BY <1>0, <1>1 DEF Inv, WorkerTypeOK, ExitPhases, NoHandler, Handling, Superseding
<1>3. WorkerTypeOK'
  BY <1>0, <1>1, <1>2
     DEF Inv, WorkerTypeOK, NoHandler, ExitPhases, Statuses, daemon, history
<1>4. HandlerMoves(p)
  BY <1>1, <1>2 DEF HandlerMoves, daemon, history
<1> QED BY <1>3, <1>4, HandlerMovesStep

LEMMA HandlerFailsStep ==
    ASSUME Inv, NEW p \in Processes, HandlerFails(p) PROVE Inv'
<1>1. /\ UNCHANGED <<instance, daemon, stops, current, record, starting, timer, alive, pidFile,
                     status, orphans, met, overtaken>>
      /\ handler[p].step \in {"remove", "restart", "give up"} /\ undone' = TRUE
  BY DEF HandlerFails
<1>0. handler' = [handler EXCEPT ![p] = NoHandler]
  BY DEF HandlerFails, EndsHandler
<1>2. /\ \A q \in Processes \ {p} : handler'[q] = handler[q]
      /\ handler'[p].runtime = None /\ handler'[p].step = "none"
      /\ handler[p].runtime # None
  BY <1>0, <1>1 DEF Inv, WorkerTypeOK, ExitPhases, NoHandler
<1>3. WorkerTypeOK'
  <2>1. handler' \in [Processes -> [step : {"none"} \cup ChildPhases \cup ExitPhases,
                                    runtime : Runtimes \cup {None}]]
        /\ \A q \in Processes : handler'[q].step \in ExitPhases <=> handler'[q].runtime # None
    BY <1>0, <1>2 DEF Inv, WorkerTypeOK, NoHandler, ExitPhases
  <2> QED BY <1>1, <2>1 DEF Inv, WorkerTypeOK, daemon
<1>4. HandlerMoves(p)
  BY <1>1, <1>2 DEF HandlerMoves, daemon
<1> QED BY <1>3, <1>4, HandlerMovesStep

LEMMA ExitReportedStep ==
    ASSUME Inv, NEW p \in Processes, ExitReported(p) PROVE Inv'
<1> DEFINE report == IF starting[p[1]] # "none" /\ p = Process(p[1])
                     THEN [step |-> "early", runtime |-> None]
                     ELSE IF current = None THEN NoHandler
                     ELSE [step |-> "begin", runtime |-> current]
<1>0. /\ UNCHANGED <<instance, daemon, stops, current, record, starting, timer, alive, pidFile,
                     status, bounds, history>>
      /\ handler[p].step = "unreported" /\ handler' = [handler EXCEPT ![p] = report]
  BY DEF ExitReported
<1>a. /\ stops' = stops /\ current' = current /\ record' = record /\ starting' = starting
      /\ timer' = timer /\ alive' = alive /\ pidFile' = pidFile /\ status' = status
      /\ service' = service /\ refresh' = refresh /\ met' = met /\ orphans' = orphans
  BY <1>0 DEF daemon, history
<1>1. /\ \A q \in Processes : q # p => handler'[q] = handler[q]
      /\ handler'[p] = report /\ handler[p].runtime = None /\ handler[p].step = "unreported"
  BY <1>0, HandlerFacts DEF Inv, WorkerTypeOK, ExitPhases
<1>2. p \notin alive /\ p \in Held /\ Held' \subseteq Held \ {p}
  <2>1. p \notin alive /\ p \notin orphans
    BY <1>0 DEF Inv, ChildrenWatched, WorkerTypeOK
  <2>2. p \in Held
    BY <1>0, <2>1 DEF Held, HasPid
  <2>3. handler'[p].step # "unreported"
    BY <1>1 DEF NoHandler
  <2>4. \A q \in Held' : q # p /\ q \in Held
    BY <1>a, <1>1, <2>1, <2>3 DEF Held, HasPid
  <2> QED BY <2>1, <2>2, <2>4
<1>3. /\ handler'[p].step = "early" => OfStart(p) /\ starting[p[1]] # "prepare"
      /\ \/ handler'[p].step \in {"early", "none"} /\ handler'[p].runtime = None
         \/ /\ handler'[p].step = "begin" /\ handler'[p].runtime = current
            /\ current # None /\ ~OfStart(p)
  <2>1. OfStart(p) => starting[p[1]] # "prepare"
    BY <1>2, ProcessFacts DEF OfStart, Inv, ChildrenWatched
  <2>2. CASE OfStart(p)
    <3>1. handler'[p] = [step |-> "early", runtime |-> None]
      BY <1>1, <2>2 DEF OfStart
    <3> HIDE DEF report
    <3> QED BY <2>1, <2>2, <3>1
  <2>3. CASE ~OfStart(p)
    <3>1. handler'[p] = IF current = None THEN NoHandler
                        ELSE [step |-> "begin", runtime |-> current]
      BY <1>1, <2>3 DEF OfStart
    <3> HIDE DEF report
    <3> QED BY <2>3, <3>1 DEF NoHandler
  <2> QED BY <2>2, <2>3
<1> HIDE DEF report
<1> DEFINE Began == handler'[p].runtime # None
<1>4. Began => /\ handler'[p].step = "begin" /\ handler'[p].runtime = current
               /\ current \in Runtimes /\ ~OfStart(p)
  BY <1>3 DEF Inv, WorkerTypeOK
<1>5. Began => NoneStarting /\ Armed = {} /\ Handling = {} /\ Held' = {}
  <2> SUFFICES ASSUME Began PROVE NoneStarting /\ Armed = {} /\ Handling = {} /\ Held' = {}
    OBVIOUS
  <2>1. ~OfStart(p)
    BY <1>4
  <2>2. NoneStarting /\ Armed = {} /\ Handling = {}
    BY <1>2, <2>1 DEF Inv, Alone, NoneStarting
  <2>3. \A q \in Held : ~OfStart(q)
    BY <2>2, Subsets, ProcessFacts DEF OfStart, NoneStarting
  <2>4. \A q \in Held : q = p
    BY <1>2, <2>1, <2>3 DEF Inv, Alone
  <2> QED BY <1>2, <2>2, <2>4
<1>6. \A q \in Processes : OfStart(q)' = OfStart(q) /\ BeingStarted(q)' = BeingStarted(q)
  BY <1>a DEF OfStart, Process, BeingStarted
<1>7. /\ Armed' = Armed /\ \A r \in Runtimes : Process(r)' = Process(r)
      /\ \A q \in Processes : q # p => Superseding(q)' = Superseding(q)
  BY <1>a, <1>1 DEF Armed, Process, Superseding
<1>8. /\ Handling' \subseteq Handling \cup {p} /\ (p \in Handling' => Began)
      /\ \A q \in Handling' : q # p => q \in Handling /\ handler'[q] = handler[q]
  BY <1>1, <1>7 DEF Handling
<1>b. p \notin Handling
  BY <1>1 DEF Handling
<1>9. WorkerTypeOK'
  <2>1. report \in [step : {"none"} \cup ChildPhases \cup ExitPhases,
                    runtime : Runtimes \cup {None}]
    BY DEF report, Inv, WorkerTypeOK, ChildPhases, ExitPhases, NoHandler
  <2>2. handler' \in [Processes -> [step : {"none"} \cup ChildPhases \cup ExitPhases,
                                    runtime : Runtimes \cup {None}]]
    BY <1>0, <2>1 DEF Inv, WorkerTypeOK
  <2>3. \A q \in Processes : handler'[q].step \in ExitPhases <=> handler'[q].runtime # None
    BY <1>1, <1>3, <1>4 DEF Inv, WorkerTypeOK, ExitPhases
  <2> QED BY <1>0, <2>2, <2>3 DEF Inv, WorkerTypeOK, daemon, history
<1>10. Alone'
  <2>1. CASE Began
    <3>1. Handling' \subseteq {p} /\ Armed' = {}
      BY <1>5, <1>7, <1>8, <2>1
    <3>2. \A r \in Runtimes : starting'[r] = "none"
      BY <1>a, <1>5, <2>1 DEF NoneStarting
    <3> QED BY <1>5, <2>1, <3>1, <3>2 DEF Alone
  <2>2. CASE ~Began
    <3>1. Handling' \subseteq Handling
      BY <1>8, <2>2
    <3> QED BY <1>a, <1>2, <1>6, <1>7, <3>1, Subsets DEF Inv, Alone
  <2> QED BY <2>1, <2>2
<1>11. ChildrenWatched'
  <2>1. \A r \in Runtimes : Uses(r)' => Uses(r)
    BY <1>a, <1>1, <1>4, <1>7 DEF Uses
  <2>2. \A q \in Processes :
           /\ handler'[q].step = "watch" => q \in Known'
           /\ handler'[q].step \in {"unreported", "early"} => q \notin alive'
           /\ handler'[q].step = "early" => OfStart(q)' /\ starting'[q[1]] # "prepare"
    <3> SUFFICES ASSUME NEW q \in Processes
                 PROVE  /\ handler'[q].step = "watch" => q \in Known'
                        /\ handler'[q].step \in {"unreported", "early"} => q \notin alive'
                        /\ handler'[q].step = "early" =>
                              OfStart(q)' /\ starting'[q[1]] # "prepare"
      OBVIOUS
    <3>1. CASE q = p
      BY <1>a, <1>2, <1>3, <1>6, <3>1
    <3>2. CASE q # p
      BY <1>a, <1>1, <1>6, <3>2 DEF Inv, ChildrenWatched, Known
    <3> QED BY <3>1, <3>2
  <2>3. ASSUME NEW r \in Runtimes
        PROVE  /\ Uses(r)' => \A q \in alive' : q[1] = r => handler'[q].step \in ChildPhases
               /\ starting'[r] # "none" => \A q \in Processes : handler'[q].runtime # r
               /\ starting'[r] = "prepare" => Process(r)' \notin Held'
    <3>1. Uses(r)' => \A q \in alive' : q[1] = r => handler'[q].step \in ChildPhases
      BY <1>a, <1>1, <1>2, <2>1 DEF Inv, ChildrenWatched, WorkerTypeOK
    <3>2. starting'[r] # "none" => \A q \in Processes : handler'[q].runtime # r
      BY <1>a, <1>1, <1>5, NoneIsNoRuntime DEF Inv, ChildrenWatched, NoneStarting
    <3>3. starting'[r] = "prepare" => Process(r)' \notin Held'
      BY <1>a, <1>2, <1>7 DEF Inv, ChildrenWatched
    <3> QED BY <3>1, <3>2, <3>3
  <2> QED BY <2>2, <2>3 DEF ChildrenWatched
<1>12. AttemptsShared'
  BY <1>a DEF Inv, AttemptsShared
<1>13. StopsLast'
  <2>1. \A r \in Runtimes : Restartable(r)' => Restartable(r)
    BY <1>a, <1>4, <1>8 DEF Restartable
  <2> QED BY <1>a, <2>1 DEF Inv, StopsLast, Ending, NoneStarting
<1>14. RestartsInOrder' /\ Findable'
  <2>1. \A q \in Processes :
            handler'[q].step = "restart" => record'[handler'[q].runtime].restarts < MaxRestarts
    BY <1>a, <1>1, <1>3 DEF Inv, RestartsInOrder
  <2>2. \A q \in Handling' :
            handler'[q].step \in {"decide", "restart", "give up"} => pidFile' = NoPid
    BY <1>a, <1>3, <1>8 DEF Inv, RestartsInOrder
  <2>3. /\ \A r \in Runtimes : starting'[r] \in {"prepare", "spawned"} => pidFile' = NoPid
        /\ Armed' # {} => pidFile' = NoPid
    BY <1>a, <1>7 DEF Inv, RestartsInOrder
  <2>4. Findable'
    BY <1>a, <1>2, <1>6, Subsets DEF Inv, Findable
  <2> QED BY <2>1, <2>2, <2>3, <2>4 DEF RestartsInOrder
<1>15. SignalsTheWorker' /\ LastOfAll'
  BY <1>a, <1>2 DEF Inv, SignalsTheWorker, Ending, LastOfAll, NoneHeld
<1>16. LastStop'
  <2> SUFFICES ASSUME refresh' = "restop" PROVE LastStop'
    BY DEF LastStop
  <2> DEFINE last == stops["refresh"]
  <2>1. refresh = "restop" /\ (NoneHeld => NoneHeld')
    BY <1>a, <1>2 DEF NoneHeld
  <2>2. \A q \in Processes : handler'[q].runtime # None =>
           /\ handler'[q].runtime = last.runtime
           /\ record[last.runtime].attempt \/ record[last.runtime].stopped =>
                 handler'[q].step = "begin"
    <3> SUFFICES ASSUME NEW q \in Processes, handler'[q].runtime # None
                 PROVE  /\ handler'[q].runtime = last.runtime
                        /\ record[last.runtime].attempt \/ record[last.runtime].stopped =>
                              handler'[q].step = "begin"
      OBVIOUS
    <3>1. CASE q = p
      BY <1>4, <2>1, <3>1 DEF Inv, LastStop
    <3>2. CASE q # p
      BY <1>1, <2>1, <3>2 DEF Inv, LastStop
    <3> QED BY <3>1, <3>2
  <2> QED BY <1>a, <2>1, <2>2 DEF Inv, LastStop, NoneStarting
<1>17. ReadyToStart'
  BY <1>a, <1>2 DEF Inv, ReadyToStart, NoneHeld
<1> QED BY <1>9, <1>10, <1>11, <1>12, <1>13, <1>14, <1>15, <1>16, <1>17 DEF Inv

-----------------------------------------------------------------------------
(* Stops in progress.                                                      *)

\* A step of a stop: it reads the pid file, signals the process named there,
\* sees it end, and removes the file.
StopMoves(c) ==
    /\ UNCHANGED <<instance, daemon, current, record, starting, timer, handler, alive, bounds,
                   history>>
    /\ \A d \in Callers \ {c} : stops'[d] = stops[d]
    /\ stops'[c].runtime = stops[c].runtime
    /\ stops[c].step \in {"read", "signal", "wait", "remove"}
    /\ stops'[c].step \in {"signal", "wait", "remove", "forget"}
    /\ stops[c].pid # NoPid => stops'[c].pid = stops[c].pid
    /\ stops'[c].step \in {"signal", "wait", "remove"} => stops'[c].pid # NoPid
    /\ Ending /\ stops'[c].pid # NoPid =>
          /\ \A r \in Runtimes : starting[r] \notin {"prepare", "spawned"}
          /\ Held \subseteq {stops'[c].pid} /\ pidFile' \in {stops'[c].pid, NoPid}
          /\ stops'[c].step \in {"remove", "forget"} => Held = {}
          /\ stops'[c].step = "forget" => pidFile' = NoPid
    /\ Ending /\ NoneStarting /\ stops'[c].pid = NoPid => Held = {} /\ pidFile' = NoPid
    /\ pidFile' = pidFile \/ (pidFile' = NoPid /\ (Ending => Held = {}))
    /\ status' \in {status, "stopping"}

LEMMA StopMovesStep ==
    ASSUME Inv, WorkerTypeOK', NEW c \in Callers, StopMoves(c)
    PROVE  Inv'
<1>0. /\ current' = current /\ record' = record /\ starting' = starting
      /\ timer' = timer /\ alive' = alive /\ handler' = handler
      /\ service' = service /\ refresh' = refresh /\ met' = met /\ orphans' = orphans
      /\ pidFile' \in {pidFile, NoPid} /\ status' \in {status, "stopping"}
  BY DEF StopMoves, daemon, history
<1>1. /\ \A d \in Callers : d # c => stops'[d] = stops[d]
      /\ \A d \in Callers : stops'[d].runtime = stops[d].runtime
      /\ \A d \in Callers : stops'[d].step = "none" <=> stops[d].step = "none"
      /\ \A d \in Callers : stops'[d].step = "join" <=> stops[d].step = "join"
      /\ \A d \in Callers : stops'[d].step \in {"none", "join", "read"} => stops'[d] = stops[d]
  BY DEF StopMoves
<1>2. /\ Ending' = Ending /\ Held' = Held /\ Armed' = Armed /\ Handling' = Handling
      /\ (NoneStarting' <=> NoneStarting) /\ Known' = Known
      /\ \A p \in Processes : /\ OfStart(p)' = OfStart(p) /\ BeingStarted(p)' = BeingStarted(p)
                              /\ Superseding(p)' = Superseding(p)
      /\ \A r \in Runtimes : /\ Uses(r)' = Uses(r) /\ Process(r)' = Process(r)
                             /\ Restartable(r)' = Restartable(r)
  BY <1>0 DEF Ending, Held, HasPid, Armed, Handling, NoneStarting, Known, OfStart, BeingStarted,
              Superseding, Uses, Process, Restartable
<1>3. stops[c].step # "none" /\ (~met \/ refresh \in Deploying => Ending)
  BY DEF StopMoves, Inv, AttemptsShared, Ending, Callers, Deploying
<1>4. /\ Alone' /\ ChildrenWatched' /\ StopsLast' /\ RestartsInOrder'
  <2>1. Alone'
    BY <1>0, <1>2, Subsets DEF Inv, Alone
  <2>2. ChildrenWatched'
    <3>1. handler' = handler /\ alive' = alive /\ starting' = starting
      BY <1>0
    <3>2. \A p \in Processes :
             /\ handler'[p].step = "watch" => p \in Known'
             /\ handler'[p].step \in {"unreported", "early"} => p \notin alive'
             /\ handler'[p].step = "early" => OfStart(p)' /\ starting'[p[1]] # "prepare"
      BY <1>2, <3>1 DEF Inv, ChildrenWatched
    <3>3. \A r \in Runtimes :
             /\ Uses(r)' => \A p \in alive' : p[1] = r => handler'[p].step \in ChildPhases
             /\ starting'[r] # "none" => \A p \in Processes : handler'[p].runtime # r
             /\ starting'[r] = "prepare" => Process(r)' \notin Held'
      BY <1>2, <3>1 DEF Inv, ChildrenWatched
    <3> QED BY <3>2, <3>3 DEF ChildrenWatched
  <2>3. StopsLast'
    <3>1. service' = service /\ refresh' = refresh /\ met' = met /\ current' = current
      BY <1>0
    <3>2. /\ Ending' => \A r \in Runtimes : ~Restartable(r)'
          /\ service' = "up" /\ refresh' = "idle" =>
                \A r \in Runtimes : Restartable(r)' => r = current'
      BY <1>2, <3>1 DEF Inv, StopsLast
    <3> QED BY <1>2, <3>1, <3>2 DEF Inv, StopsLast
  <2>4. RestartsInOrder'
    BY <1>0, <1>2 DEF Inv, RestartsInOrder
  <2> QED BY <2>1, <2>2, <2>3, <2>4
<1>5. AttemptsShared'
  <2>1. /\ stops'["refresh"].step # "none" <=> refresh' \in {"stop", "restop"}
        /\ stops'["shutdown"].step # "none" <=> service' = "stopping"
        /\ stops'["refresh"].step = "join" => service' # "up"
        /\ stops'["shutdown"].step = "join" => met'
        /\ service' = "up" => ~met'
    BY <1>0, <1>1 DEF Inv, AttemptsShared, Callers
  <2>2. ASSUME NEW d \in Callers
        PROVE  /\ stops'[d].step = "none" => stops'[d] = NoStop
               /\ stops'[d].step = "join" => stops'[d].runtime # None
               /\ stops'[d].step \in {"read", "join"} => stops'[d].pid = NoPid
    BY <1>1 DEF Inv, AttemptsShared
  <2>3. ASSUME NEW d \in Callers
        PROVE  stops'[d].step \in {"signal", "wait", "remove"} => stops'[d].pid # NoPid
    BY <1>1 DEF Inv, AttemptsShared, StopMoves
  <2>4. ASSUME NEW d \in Callers
        PROVE  /\ stops'[d].runtime # None => record'[stops'[d].runtime].stopping
               /\ stops'[d].runtime # None /\ stops'[d].step # "join" =>
                     /\ record'[stops'[d].runtime].attempt
                     /\ \A e \in Callers \ {d} :
                           stops'[e].runtime = stops'[d].runtime => stops'[e].step = "join"
    <3>1. record' = record
      BY <1>0
    <3> QED BY <1>1, <3>1 DEF Inv, AttemptsShared
  <2>5. \A r \in Runtimes :
           /\ record'[r].attempt =>
                 \E d \in Callers : stops'[d].runtime = r /\ stops'[d].step # "join"
           /\ record'[r].attempt \/ record'[r].stopped => record'[r].stopping
    <3>1. record' = record
      BY <1>0
    <3> QED BY <1>1, <3>1 DEF Inv, AttemptsShared
  <2> QED BY <2>1, <2>2, <2>3, <2>4, <2>5 DEF AttemptsShared
<1>6. Findable'
  BY <1>0, <1>2, <1>3, Subsets DEF Inv, Findable, StopMoves
<1>7. SignalsTheWorker'
  <2> SUFFICES ASSUME Ending, NEW d \in Callers, stops'[d].pid # NoPid
               PROVE  /\ \A r \in Runtimes : starting[r] \notin {"prepare", "spawned"}
                      /\ Held \subseteq {stops'[d].pid} /\ pidFile' \in {stops'[d].pid, NoPid}
                      /\ stops'[d].step \in {"remove", "forget"} => Held = {}
                      /\ stops'[d].step = "forget" => pidFile' = NoPid
    BY <1>0, <1>2 DEF SignalsTheWorker
  <2>1. CASE d = c
    BY <2>1 DEF StopMoves
  <2>2. CASE d # c
    BY <1>0, <1>1, <2>2 DEF Inv, SignalsTheWorker
  <2> QED BY <2>1, <2>2
<1>8. NoneHeld => NoneHeld'
  BY <1>0, <1>2 DEF NoneHeld
<1>9. Ending /\ NoneStarting /\ stops'[c].step = "forget" => NoneHeld'
  BY <1>2 DEF StopMoves, NoneHeld
<1>10. LastStop'
  <2> SUFFICES ASSUME refresh = "restop" PROVE LastStop'
    BY <1>0 DEF LastStop
  <2>1. Ending /\ NoneStarting /\ stops'["refresh"].runtime = stops["refresh"].runtime
    BY <1>1 DEF Inv, LastStop, Ending, Deploying, Callers
  <2>2. stops'["refresh"].step = "forget" => NoneHeld'
    <3>1. CASE c = "refresh"
      BY <1>9, <2>1, <3>1
    <3>2. CASE c # "refresh"
      BY <1>1, <1>8, <3>2 DEF Inv, LastStop, Callers
    <3> QED BY <3>1, <3>2
  <2>3. stops["shutdown"].pid # NoPid =>
           stops'["shutdown"].runtime = stops["shutdown"].runtime /\ stops'["shutdown"].pid # NoPid
    BY <1>1 DEF StopMoves, Callers
  <2>4. stops'["refresh"].step = "join" <=> stops["refresh"].step = "join"
    BY <1>1 DEF Callers
  <2> QED BY <1>0, <1>2, <1>8, <2>1, <2>2, <2>3, <2>4 DEF Inv, LastStop
<1>11. ReadyToStart'
  BY <1>0, <1>2, <1>8 DEF Inv, ReadyToStart
<1>12. LastOfAll'
  <2>1. ~met /\ stops'["shutdown"].step = "forget" => NoneHeld'
    <3> SUFFICES ASSUME ~met, stops'["shutdown"].step = "forget" PROVE NoneHeld'
      OBVIOUS
    <3>1. service # "up" /\ Ending /\ NoneStarting
      BY <1>1 DEF Inv, AttemptsShared, StopsLast, Ending, Callers
    <3>2. CASE c = "shutdown"
      BY <1>9, <3>1, <3>2
    <3>3. CASE c # "shutdown"
      BY <1>1, <1>8, <3>3 DEF Inv, LastOfAll, Callers
    <3> QED BY <3>2, <3>3
  <2> QED BY <1>0, <1>2, <2>1 DEF Inv, LastOfAll
<1> QED BY <1>4, <1>5, <1>6, <1>7, <1>10, <1>11, <1>12 DEF Inv

\* What the pid file says to a stop.
LEMMA PidFileTells ==
    ASSUME Inv, Ending
    PROVE  /\ pidFile # NoPid => /\ \A r \in Runtimes : starting[r] \notin {"prepare", "spawned"}
                                 /\ Held \subseteq {pidFile}
           /\ pidFile = NoPid /\ NoneStarting => Held = {}
<1>1. \A p \in Held : pidFile = p \/ BeingStarted(p)
  BY DEF Inv, Findable, Ending
<1>2. \A p \in Held : p[1] \in Runtimes /\ p # NoPid
  BY Subsets, ProcessFacts
<1>3. pidFile # NoPid => \A r \in Runtimes : starting[r] \notin {"prepare", "spawned"}
  BY DEF Inv, RestartsInOrder
<1> QED BY <1>1, <1>2, <1>3 DEF BeingStarted, NoneStarting

\* A stop that has read a pid.
LEMMA StopHasPid ==
    ASSUME Inv, NEW c \in Callers, stops[c].step \in {"signal", "wait", "remove"}
    PROVE  /\ stops[c].pid # NoPid
           /\ Ending => /\ \A r \in Runtimes : starting[r] \notin {"prepare", "spawned"}
                        /\ Held \subseteq {stops[c].pid} /\ pidFile \in {stops[c].pid, NoPid}
                        /\ stops[c].step = "remove" => Held = {}
<1>1. stops[c].pid # NoPid
  BY DEF Inv, AttemptsShared
<1> QED BY <1>1 DEF Inv, SignalsTheWorker

LEMMA StopReadsStep ==
    ASSUME Inv, NEW c \in Callers, StopReads(c) PROVE Inv'
<1>1. /\ UNCHANGED <<instance, daemon, current, record, starting, timer, handler, alive, pidFile,
                     status, bounds, history>>
      /\ stops[c].step = "read"
  BY DEF StopReads
<1>2. stops' = [stops EXCEPT ![c].step = IF pidFile = NoPid THEN "forget" ELSE "signal",
                             ![c].pid = pidFile]
  BY DEF StopReads
<1>3. /\ \A d \in Callers \ {c} : stops'[d] = stops[d]
      /\ stops'[c].step = IF pidFile = NoPid THEN "forget" ELSE "signal"
      /\ stops'[c].runtime = stops[c].runtime /\ stops'[c].pid = pidFile
  BY <1>2 DEF Inv, WorkerTypeOK
<1>4. stops[c].pid = NoPid
  BY <1>1 DEF Inv, AttemptsShared
<1>5. WorkerTypeOK'
  <2>1. stops' \in [Callers -> [step : StopPhases, runtime : Runtimes \cup {None},
                                pid : Processes \cup {NoPid}]]
    <3> DEFINE T == [Callers -> [step : StopPhases, runtime : Runtimes \cup {None},
                                 pid : Processes \cup {NoPid}]]
               next == IF pidFile = NoPid THEN "forget" ELSE "signal"
               mid == [stops EXCEPT ![c].step = next]
    <3>1. mid \in T
      <4>1. stops \in T
        BY DEF Inv, WorkerTypeOK
      <4> QED BY <4>1 DEF StopPhases
    <3>2. stops' = [mid EXCEPT ![c].pid = pidFile]
      <4> HIDE DEF next
      <4> QED BY <1>2 DEF Inv, WorkerTypeOK, next
    <3>3. pidFile \in Processes \cup {NoPid}
      BY DEF Inv, WorkerTypeOK
    <3> HIDE DEF mid
    <3> QED BY <3>1, <3>2, <3>3
  <2> QED BY <1>1, <2>1 DEF Inv, WorkerTypeOK, daemon, history
<1>6. StopMoves(c)
  BY <1>1, <1>3, <1>4, PidFileTells DEF StopMoves
<1> QED BY <1>5, <1>6, StopMovesStep

LEMMA StopSignalsStep ==
    ASSUME Inv, NEW c \in Callers, StopSignals(c) PROVE Inv'
<1>1. /\ UNCHANGED <<instance, daemon, current, record, starting, timer, handler, alive, pidFile,
                     bounds, history>>
      /\ stops[c].step = "signal" /\ status' = "stopping"
  BY DEF StopSignals
<1>2. stops' = [stops EXCEPT ![c].step = "wait"]
  BY DEF StopSignals, StopStep
<1>3. /\ \A d \in Callers \ {c} : stops'[d] = stops[d]
      /\ stops'[c].step = "wait"
      /\ stops'[c].runtime = stops[c].runtime /\ stops'[c].pid = stops[c].pid
  BY <1>2 DEF Inv, WorkerTypeOK
<1>4. WorkerTypeOK'
  <2>1. stops' \in [Callers -> [step : StopPhases, runtime : Runtimes \cup {None},
                                pid : Processes \cup {NoPid}]]
    BY <1>2 DEF Inv, WorkerTypeOK, StopPhases
  <2> QED BY <1>1, <2>1 DEF Inv, WorkerTypeOK, Statuses, daemon, history
<1>5. StopMoves(c)
  BY <1>1, <1>3, StopHasPid DEF StopMoves
<1> QED BY <1>4, <1>5, StopMovesStep

LEMMA StopSeesExitStep ==
    ASSUME Inv, NEW c \in Callers, StopSeesExit(c) PROVE Inv'
<1>1. /\ UNCHANGED <<instance, daemon, current, record, starting, timer, handler, alive, pidFile,
                     status, bounds, history>>
      /\ stops[c].step = "wait" /\ ~HasPid(stops[c].pid)
  BY DEF StopSeesExit
<1>2. stops' = [stops EXCEPT ![c].step = "remove"]
  BY DEF StopSeesExit, StopStep
<1>3. /\ \A d \in Callers \ {c} : stops'[d] = stops[d]
      /\ stops'[c].step = "remove"
      /\ stops'[c].runtime = stops[c].runtime /\ stops'[c].pid = stops[c].pid
  BY <1>2 DEF Inv, WorkerTypeOK
<1>4. WorkerTypeOK'
  <2>1. stops' \in [Callers -> [step : StopPhases, runtime : Runtimes \cup {None},
                                pid : Processes \cup {NoPid}]]
    <3>1. stops \in [Callers -> [step : StopPhases, runtime : Runtimes \cup {None},
                                 pid : Processes \cup {NoPid}]]
      BY DEF Inv, WorkerTypeOK
    <3> QED BY <1>2, <3>1 DEF StopPhases
  <2> QED BY <1>1, <2>1 DEF Inv, WorkerTypeOK, daemon, history
<1>5. stops[c].pid \notin Held
  BY <1>1 DEF Held
<1>6. StopMoves(c)
  BY <1>1, <1>3, <1>5, StopHasPid DEF StopMoves
<1> QED BY <1>4, <1>6, StopMovesStep

LEMMA StopRemovesStep ==
    ASSUME Inv, NEW c \in Callers, StopRemoves(c) PROVE Inv'
<1>1. /\ UNCHANGED <<instance, daemon, current, record, starting, timer, handler, alive, status,
                     bounds, history>>
      /\ stops[c].step = "remove" /\ pidFile' = NoPid
  BY DEF StopRemoves
<1>2. stops' = [stops EXCEPT ![c].step = "forget"]
  BY DEF StopRemoves, StopStep
<1>3. /\ \A d \in Callers \ {c} : stops'[d] = stops[d]
      /\ stops'[c].step = "forget"
      /\ stops'[c].runtime = stops[c].runtime /\ stops'[c].pid = stops[c].pid
  BY <1>2 DEF Inv, WorkerTypeOK
<1>4. WorkerTypeOK'
  <2>1. stops' \in [Callers -> [step : StopPhases, runtime : Runtimes \cup {None},
                                pid : Processes \cup {NoPid}]]
    <3>1. stops \in [Callers -> [step : StopPhases, runtime : Runtimes \cup {None},
                                 pid : Processes \cup {NoPid}]]
      BY DEF Inv, WorkerTypeOK
    <3> QED BY <1>2, <3>1 DEF StopPhases
  <2> QED BY <1>1, <2>1 DEF Inv, WorkerTypeOK, daemon, history
<1>5. StopMoves(c)
  BY <1>1, <1>3, StopHasPid DEF StopMoves
<1> QED BY <1>4, <1>5, StopMovesStep

-----------------------------------------------------------------------------
(* Stops that begin.                                                       *)

\* What the call of a stop does to the records, and to what is derived from them.
LEMMA StopCalledDoes ==
    ASSUME Inv, NEW c \in Callers, StopCalled(c), stops[c].step = "none",
           UNCHANGED <<current, starting, timer, handler, alive, pidFile, orphans>>
    PROVE  /\ stops' \in [Callers -> StopType] /\ record' \in [Runtimes -> RecordType]
           /\ \A d \in Callers : d # c => stops'[d] = stops[d]
           /\ stops'[c].runtime = current /\ stops'[c].pid = NoPid
           /\ stops'[c].step \in {"join", "read"}
           /\ stops'[c].step = "join" <=> current # None /\ record[current].attempt
           /\ \A r \in Runtimes :
                 /\ record'[r].restarts = record[r].restarts
                 /\ record'[r].stopping <=> record[r].stopping \/ r = current
                 /\ record'[r].attempt <=> record[r].attempt \/ r = current
                 /\ r # current \/ record[r].attempt => record'[r] = record[r]
                 /\ r = current /\ ~record[r].attempt => ~record'[r].stopped
<1>1. /\ stops' = [stops EXCEPT ![c] =
             [step |-> IF current # None /\ record[current].attempt THEN "join" ELSE "read",
              runtime |-> current, pid |-> NoPid]]
      /\ current \in Runtimes \cup {None} /\ stops \in [Callers -> StopType]
      /\ record \in [Runtimes -> RecordType]
  BY DEF StopCalled, Inv, WorkerTypeOK, StopType, RecordType
<1>2. \A r \in Runtimes : record[r].attempt \/ record[r].stopped => record[r].stopping
  BY DEF Inv, AttemptsShared
<1>3. CASE current = None \/ record[current].attempt
  <2>1. record' = record
    BY <1>3 DEF StopCalled
  <2> QED BY <1>1, <1>2, <1>3, <2>1, NoneIsNoRuntime DEF StopType, StopPhases
<1>4. CASE current # None /\ ~record[current].attempt
  <2>1. current \in Runtimes
    BY <1>1, <1>4
  <2>2. record' = [record EXCEPT ![current].stopping = TRUE, ![current].stopped = FALSE,
                                 ![current].attempt = TRUE]
    BY <1>4 DEF StopCalled
  <2>3. /\ record' \in [Runtimes -> RecordType]
        /\ \A r \in Runtimes :
              /\ record'[r].restarts = record[r].restarts
              /\ record'[r].stopping <=> record[r].stopping \/ r = current
              /\ record'[r].attempt <=> record[r].attempt \/ r = current
              /\ r # current => record'[r] = record[r]
              /\ r = current => ~record'[r].stopped
    BY <1>1, <2>1, <2>2 DEF RecordType
  <2> HIDE <2>2
  <2> QED BY <1>1, <1>4, <2>1, <2>3 DEF StopType, StopPhases
<1> QED BY <1>3, <1>4

LEMMA StopCalledKeeps ==
    ASSUME Inv, NEW c \in Callers, StopCalled(c), stops[c].step = "none",
           UNCHANGED <<current, starting, timer, handler, alive, pidFile, orphans>>
    PROVE  /\ Alone' /\ ChildrenWatched' /\ RestartsInOrder' /\ Held' = Held
           /\ \A p \in Processes : /\ BeingStarted(p)' <=> BeingStarted(p)
                                   /\ Superseding(p)' <=> Superseding(p)
           /\ \A r \in Runtimes : Restartable(r)' => Restartable(r) /\ r # current
<1>0. /\ current' = current /\ starting' = starting /\ timer' = timer /\ handler' = handler
      /\ alive' = alive /\ pidFile' = pidFile /\ orphans' = orphans
  OBVIOUS
<1>1. \A r \in Runtimes :
         /\ record'[r].restarts = record[r].restarts
         /\ record'[r].stopping <=> record[r].stopping \/ r = current
         /\ r # current => record'[r] = record[r]
  BY StopCalledDoes
<1>2. /\ Held' = Held /\ Known' = Known
      /\ \A p \in Processes : /\ OfStart(p)' <=> OfStart(p)
                              /\ BeingStarted(p)' <=> BeingStarted(p)
      /\ \A r \in Runtimes : Process(r)' = Process(r)
  BY <1>0, <1>1, ProcessFacts DEF Held, HasPid, Known, OfStart, BeingStarted, Process
<1>3. \A p \in Processes : Superseding(p)' <=> Superseding(p)
  <2> SUFFICES ASSUME NEW p \in Processes, handler[p].runtime # current,
                      handler[p].step \in {"begin", "decide"}
               PROVE  Superseding(p)' <=> Superseding(p)
    BY <1>0 DEF Superseding
  <2>1. handler[p].runtime \in Runtimes
    BY HandlerFacts DEF Inv, ExitPhases
  <2>2. record'[handler[p].runtime] = record[handler[p].runtime]
    BY <1>1, <2>1
  <2> QED BY <1>0, <2>2 DEF Superseding
<1>4. Handling' = Handling
  BY <1>0, <1>3 DEF Handling
<1>5. Armed' \subseteq Armed
  BY <1>0, <1>1 DEF Armed, Inv, WorkerTypeOK
<1>6. \A r \in Runtimes : Uses(r)' => Uses(r)
  BY <1>0, <1>5 DEF Uses
<1>7. \A r \in Runtimes : Restartable(r)' => Restartable(r) /\ r # current
  BY <1>0, <1>1, <1>4 DEF Restartable
<1>8. Alone'
  BY <1>0, <1>2, <1>4, <1>5, Subsets DEF Inv, Alone
<1>9. ChildrenWatched'
  <2>1. \A p \in Processes :
           /\ handler'[p].step = "watch" => p \in Known'
           /\ handler'[p].step \in {"unreported", "early"} => p \notin alive'
           /\ handler'[p].step = "early" => OfStart(p)' /\ starting'[p[1]] # "prepare"
    BY <1>0, <1>2 DEF Inv, ChildrenWatched
  <2>2. \A r \in Runtimes :
           /\ Uses(r)' => \A p \in alive' : p[1] = r => handler'[p].step \in ChildPhases
           /\ starting'[r] # "none" => \A p \in Processes : handler'[p].runtime # r
           /\ starting'[r] = "prepare" => Process(r)' \notin Held'
    BY <1>0, <1>2, <1>6 DEF Inv, ChildrenWatched
  <2> QED BY <2>1, <2>2 DEF ChildrenWatched
<1>10. RestartsInOrder'
  <2>1. ASSUME NEW p \in Processes, handler'[p].step = "restart"
        PROVE  record'[handler'[p].runtime].restarts < MaxRestarts
    <3>1. handler[p].step = "restart" /\ handler'[p].runtime = handler[p].runtime
      BY <1>0, <2>1
    <3>2. handler[p].runtime \in Runtimes
      BY <3>1, HandlerFacts DEF Inv, ExitPhases
    <3>3. record[handler[p].runtime].restarts < MaxRestarts
      BY <3>1 DEF Inv, RestartsInOrder
    <3> QED BY <1>1, <3>1, <3>2, <3>3
  <2> QED BY <1>0, <1>4, <1>5, <2>1 DEF Inv, RestartsInOrder
<1> QED BY <1>2, <1>3, <1>7, <1>8, <1>9, <1>10

\* The stop that is called joins one in progress, or is a new attempt.
LEMMA StopCalledShares ==
    ASSUME Inv, NEW c \in Callers, StopCalled(c), stops[c].step = "none",
           UNCHANGED <<current, starting, timer, handler, alive, pidFile, orphans>>
    PROVE  /\ \A d \in Callers :
                 /\ stops'[d].step = "none" => stops'[d] = NoStop
                 /\ stops'[d].step = "join" => stops'[d].runtime # None
                 /\ stops'[d].step \in {"read", "join"} => stops'[d].pid = NoPid
                 /\ stops'[d].step \in {"signal", "wait", "remove"} => stops'[d].pid # NoPid
                 /\ stops'[d].runtime # None => record'[stops'[d].runtime].stopping
                 /\ stops'[d].runtime # None /\ stops'[d].step # "join" =>
                       /\ record'[stops'[d].runtime].attempt
                       /\ \A e \in Callers \ {d} :
                             stops'[e].runtime = stops'[d].runtime => stops'[e].step = "join"
           /\ \A r \in Runtimes :
                 /\ record'[r].attempt =>
                       \E d \in Callers : stops'[d].runtime = r /\ stops'[d].step # "join"
                 /\ record'[r].attempt \/ record'[r].stopped => record'[r].stopping
<1>1. /\ stops' \in [Callers -> StopType] /\ record' \in [Runtimes -> RecordType]
      /\ \A d \in Callers : d # c => stops'[d] = stops[d]
      /\ stops'[c].runtime = current /\ stops'[c].pid = NoPid
      /\ stops'[c].step \in {"join", "read"}
      /\ stops'[c].step = "join" <=> current # None /\ record[current].attempt
      /\ \A r \in Runtimes :
            /\ record'[r].stopping <=> record[r].stopping \/ r = current
            /\ record'[r].attempt <=> record[r].attempt \/ r = current
            /\ r # current \/ record[r].attempt => record'[r] = record[r]
            /\ r = current /\ ~record[r].attempt => ~record'[r].stopped
  BY StopCalledDoes
<1>2. stops[c].runtime = None /\ current \in Runtimes \cup {None}
  BY DEF Inv, AttemptsShared, WorkerTypeOK, NoStop
<1>3. ASSUME NEW d \in Callers, d # c
      PROVE  /\ stops[d].runtime \in Runtimes \cup {None}
             /\ stops[d].step = "none" => stops[d] = NoStop
             /\ stops[d].step = "join" => stops[d].runtime # None
             /\ stops[d].step \in {"read", "join"} => stops[d].pid = NoPid
             /\ stops[d].step \in {"signal", "wait", "remove"} => stops[d].pid # NoPid
             /\ stops[d].runtime # None => record[stops[d].runtime].stopping
             /\ stops[d].runtime # None /\ stops[d].step # "join" =>
                   record[stops[d].runtime].attempt
  BY DEF Inv, AttemptsShared, WorkerTypeOK
<1>4. \A d, e \in Callers : d # c /\ e # c => d = e
  BY DEF Callers
<1>5. ASSUME NEW d \in Callers
      PROVE  /\ stops'[d].step = "none" => stops'[d] = NoStop
             /\ stops'[d].step = "join" => stops'[d].runtime # None
             /\ stops'[d].step \in {"read", "join"} => stops'[d].pid = NoPid
             /\ stops'[d].step \in {"signal", "wait", "remove"} => stops'[d].pid # NoPid
             /\ stops'[d].runtime # None => record'[stops'[d].runtime].stopping
             /\ stops'[d].runtime # None /\ stops'[d].step # "join" =>
                   record'[stops'[d].runtime].attempt
  <2>1. CASE d = c
    BY <1>1, <1>2, <2>1
  <2>2. CASE d # c
    BY <1>1, <1>3, <2>2
  <2> QED BY <2>1, <2>2
<1>6. ASSUME NEW d \in Callers, stops'[d].runtime # None, stops'[d].step # "join",
             NEW e \in Callers \ {d}, stops'[e].runtime = stops'[d].runtime
      PROVE  stops'[e].step = "join"
  <2>1. CASE d = c
    <3>1. stops'[e] = stops[e] /\ stops[e].runtime = current /\ e # c
      BY <1>1, <1>6, <2>1
    <3>2. current # None /\ ~record[current].attempt
      BY <1>1, <1>6, <2>1
    <3> QED BY <1>3, <3>1, <3>2
  <2>2. CASE e = c
    <3>1. stops'[d] = stops[d] /\ stops[d].runtime = current /\ d # c /\ current # None
      BY <1>1, <1>6, <2>2
    <3>2. record[current].attempt
      BY <1>3, <1>6, <3>1
    <3> QED BY <1>1, <2>2, <3>1, <3>2
  <2> QED BY <1>4, <1>6, <2>1, <2>2
<1>7. ASSUME NEW r \in Runtimes
      PROVE  /\ record'[r].attempt =>
                   \E d \in Callers : stops'[d].runtime = r /\ stops'[d].step # "join"
             /\ record'[r].attempt \/ record'[r].stopped => record'[r].stopping
  <2>1. record[r].attempt => \E d \in Callers : stops'[d].runtime = r /\ stops'[d].step # "join"
    <3>1. record[r].attempt => \E d \in Callers : stops[d].runtime = r /\ stops[d].step # "join"
      BY DEF Inv, AttemptsShared
    <3> QED BY <1>1, <1>2, <3>1, NoneIsNoRuntime
  <2>2. r = current /\ ~record[r].attempt => stops'[c].runtime = r /\ stops'[c].step # "join"
    BY <1>1
  <2>3. record[r].attempt \/ record[r].stopped => record[r].stopping
    BY DEF Inv, AttemptsShared
  <2> QED BY <1>1, <2>1, <2>2, <2>3
<1> QED BY <1>5, <1>6, <1>7

LEMMA RefreshesStep ==
    ASSUME Inv, Refreshes PROVE Inv'
<1>1. /\ UNCHANGED <<current, starting, timer, handler, alive, pidFile, orphans>>
      /\ service' = service /\ active' = active /\ met' = met /\ status' = status
      /\ instance' = instance /\ read' = instance /\ undone' = undone /\ overtaken' = overtaken
      /\ service = "up" /\ refresh = "idle" /\ refresh' = "stop" /\ StopCalled("refresh")
  BY DEF Refreshes, history
<1>2. /\ \A c \in Callers : stops[c] = NoStop
      /\ "refresh" \in Callers /\ stops["refresh"].step = "none"
  BY <1>1 DEF Inv, AttemptsShared, Callers, NoStop
<1>3. \A r \in Runtimes : ~record[r].attempt
  BY <1>2, NoneIsNoRuntime DEF Inv, AttemptsShared, NoStop
<1>4. /\ stops' \in [Callers -> StopType] /\ record' \in [Runtimes -> RecordType]
      /\ \A d \in Callers : d # "refresh" => stops'[d] = NoStop
      /\ stops'["refresh"].step = "read" /\ stops'["refresh"].pid = NoPid
  BY <1>1, <1>2, <1>3, StopCalledDoes DEF Inv, WorkerTypeOK
<1>5. WorkerTypeOK'
  BY <1>1, <1>4 DEF Inv, WorkerTypeOK, StopType, RecordType, Deploying
<1>6. /\ Alone' /\ ChildrenWatched' /\ RestartsInOrder' /\ Held' = Held
      /\ \A p \in Processes : BeingStarted(p)' <=> BeingStarted(p)
      /\ \A r \in Runtimes : Restartable(r)' => Restartable(r) /\ r # current
  BY <1>1, <1>2, StopCalledKeeps
<1>7. AttemptsShared'
  <2>1. /\ stops'["refresh"].step # "none" <=> refresh' \in {"stop", "restop"}
        /\ stops'["shutdown"].step # "none" <=> service' = "stopping"
        /\ stops'["refresh"].step = "join" => service' # "up"
        /\ stops'["shutdown"].step = "join" => met'
        /\ service' = "up" => ~met'
    BY <1>1, <1>4 DEF Inv, AttemptsShared, Callers, NoStop
  <2> QED BY <1>1, <1>2, <2>1, StopCalledShares DEF AttemptsShared
<1>8. StopsLast'
  <2>1. \A r \in Runtimes : ~Restartable(r)'
    BY <1>1, <1>6 DEF Inv, StopsLast
  <2> QED BY <1>1, <2>1 DEF StopsLast
<1>9. Findable'
  BY <1>1, <1>6, Subsets DEF Inv, Findable, AttemptsShared
<1>10. SignalsTheWorker' /\ LastStop' /\ ReadyToStart' /\ LastOfAll'
  BY <1>1, <1>4 DEF SignalsTheWorker, LastStop, ReadyToStart, LastOfAll, NoStop, Callers
<1> QED BY <1>5, <1>6, <1>7, <1>8, <1>9, <1>10 DEF Inv

\* A deployment that overtakes nothing keeps the invariant.
LEMMA AcquiresStep ==
    ASSUME Inv, Acquires PROVE WorkerTypeOK' /\ (~overtaken' => Inv')
<1>1. /\ UNCHANGED <<current, starting, timer, handler, alive, pidFile, orphans>>
      /\ service' = service /\ active' = active /\ met' = met /\ status' = status
      /\ instance' = instance /\ read' = read /\ undone' = undone
      /\ refresh = "acquire" /\ refresh' = "restop" /\ StopCalled("refresh")
      /\ overtaken' = ~Settled
  BY DEF Acquires
<1>2. /\ "refresh" \in Callers /\ "shutdown" \in Callers
      /\ stops["refresh"] = NoStop /\ stops["refresh"].step = "none"
  BY <1>1 DEF Inv, AttemptsShared, Callers
<1>3. /\ stops' \in [Callers -> StopType] /\ record' \in [Runtimes -> RecordType]
      /\ stops'["shutdown"] = stops["shutdown"]
      /\ stops'["refresh"].runtime = current /\ stops'["refresh"].pid = NoPid
      /\ stops'["refresh"].step \in {"join", "read"}
      /\ stops'["refresh"].step = "join" <=> current # None /\ record[current].attempt
      /\ \A r \in Runtimes : record'[r].attempt <=> record[r].attempt \/ r = current
  BY <1>1, <1>2, StopCalledDoes
<1>4. WorkerTypeOK'
  BY <1>1, <1>3 DEF Inv, WorkerTypeOK, StopType, RecordType, Deploying
<1> SUFFICES ASSUME ~overtaken' PROVE Inv'
  BY <1>4
<1>0. Settled
  BY <1>1
<1>5. /\ Alone' /\ ChildrenWatched' /\ RestartsInOrder' /\ Held' = Held
      /\ \A p \in Processes : BeingStarted(p)' <=> BeingStarted(p)
      /\ \A r \in Runtimes : Restartable(r)' => Restartable(r) /\ r # current
  BY <1>1, <1>2, StopCalledKeeps
<1>6. stops'["refresh"].step = "join" =>
         stops["shutdown"].runtime = current /\ stops["shutdown"].pid # NoPid
  <2> SUFFICES ASSUME current # None, record[current].attempt
               PROVE  stops["shutdown"].runtime = current /\ stops["shutdown"].pid # NoPid
    BY <1>3
  <2>1. current \in Runtimes
    BY DEF Inv, WorkerTypeOK
  <2>2. PICK d \in Callers : stops[d].runtime = current
    BY <2>1 DEF Inv, AttemptsShared
  <2>3. d = "shutdown"
    BY <1>2, <2>2 DEF Callers, NoStop
  <2>4. stops["shutdown"].step = "wait"
    BY <1>0, <1>1, <1>2, <2>2, <2>3 DEF Settled, Inv, AttemptsShared, NoStop
  <2> QED BY <1>2, <2>2, <2>3, <2>4 DEF Inv, AttemptsShared
<1>7. AttemptsShared'
  <2>1. stops'["refresh"].step = "join" => service # "up"
    BY <1>2, <1>3, <1>6 DEF Inv, AttemptsShared, NoStop
  <2>2. /\ stops'["refresh"].step # "none" <=> refresh' \in {"stop", "restop"}
        /\ stops'["shutdown"].step # "none" <=> service' = "stopping"
        /\ stops'["refresh"].step = "join" => service' # "up"
        /\ stops'["shutdown"].step = "join" => met'
        /\ service' = "up" => ~met'
    BY <1>1, <1>3, <2>1 DEF Inv, AttemptsShared
  <2> QED BY <1>1, <1>2, <2>2, StopCalledShares DEF AttemptsShared
<1>8. StopsLast'
  <2>1. Ending /\ (service # "up" => met)
    BY <1>1 DEF Inv, StopsLast, Ending, Deploying
  <2>2. \A r \in Runtimes : ~Restartable(r)'
    BY <1>5, <2>1 DEF Inv, StopsLast
  <2> QED BY <1>1, <2>1, <2>2 DEF StopsLast
<1>9. Findable' /\ SignalsTheWorker'
  <2>1. Findable'
    BY <1>1, <1>5, Subsets DEF Inv, Findable, Deploying
  <2>2. SignalsTheWorker'
    <3>1. Ending
      BY <1>1 DEF Ending, Deploying
    <3>2. \A c \in Callers : stops'[c].pid # NoPid => stops'[c] = stops[c]
      BY <1>3 DEF Callers
    <3> QED BY <1>1, <1>5, <3>1, <3>2 DEF Inv, SignalsTheWorker
  <2> QED BY <2>1, <2>2
<1>10. LastStop'
  <2>1. NoneStarting' /\ \A p \in Processes : handler'[p].runtime = None
    BY <1>0, <1>1 DEF Settled, NoneStarting
  <2>2. stops'["refresh"].step = "join" => current \in Runtimes
    BY <1>3 DEF Inv, WorkerTypeOK
  <2>3. stops'["refresh"].step = "join" => record'[current].attempt
    BY <1>3, <2>2
  <2> QED BY <1>1, <1>3, <1>6, <2>1, <2>3 DEF LastStop
<1>11. ReadyToStart' /\ LastOfAll'
  BY <1>1, <1>3, <1>5 DEF Inv, ReadyToStart, LastOfAll, NoneHeld
<1> QED BY <1>4, <1>5, <1>7, <1>8, <1>9, <1>10, <1>11 DEF Inv

LEMMA ShutsDownStep ==
    ASSUME Inv, ShutsDown PROVE Inv'
<1>1. /\ UNCHANGED <<current, starting, timer, handler, alive, pidFile, orphans>>
      /\ refresh' = refresh /\ active' = active /\ status' = status
      /\ instance' = instance /\ read' = read /\ undone' = undone /\ overtaken' = overtaken
      /\ service = "up" /\ service' = "stopping" /\ StopCalled("shutdown")
      /\ met' = (refresh # "idle" \/ \E r \in Runtimes : starting[r] # "none")
  BY DEF ShutsDown
<1>2. /\ "refresh" \in Callers /\ "shutdown" \in Callers /\ ~met
      /\ stops["shutdown"] = NoStop /\ stops["shutdown"].step = "none"
      /\ stops["refresh"].step # "join"
  BY <1>1 DEF Inv, AttemptsShared, Callers
<1>3. /\ stops' \in [Callers -> StopType] /\ record' \in [Runtimes -> RecordType]
      /\ stops'["refresh"] = stops["refresh"]
      /\ stops'["shutdown"].runtime = current /\ stops'["shutdown"].pid = NoPid
      /\ stops'["shutdown"].step \in {"join", "read"}
      /\ stops'["shutdown"].step = "join" <=> current # None /\ record[current].attempt
      /\ \A r \in Runtimes : r # current \/ record[r].attempt => record'[r] = record[r]
  BY <1>1, <1>2, StopCalledDoes
<1>4. WorkerTypeOK'
  BY <1>1, <1>3 DEF Inv, WorkerTypeOK, StopType, RecordType
<1>5. /\ Alone' /\ ChildrenWatched' /\ RestartsInOrder' /\ Held' = Held
      /\ \A p \in Processes : /\ BeingStarted(p)' <=> BeingStarted(p)
                              /\ Superseding(p)' <=> Superseding(p)
      /\ \A r \in Runtimes : Restartable(r)' => Restartable(r) /\ r # current
  BY <1>1, <1>2, StopCalledKeeps
<1>6. stops'["shutdown"].step = "join" => refresh \in {"stop", "restop"}
  <2> SUFFICES ASSUME current # None, record[current].attempt
               PROVE  refresh \in {"stop", "restop"}
    BY <1>3
  <2>1. current \in Runtimes
    BY DEF Inv, WorkerTypeOK
  <2>2. PICK d \in Callers : stops[d].runtime = current
    BY <2>1 DEF Inv, AttemptsShared
  <2>3. d = "refresh" /\ stops["refresh"].step # "none"
    BY <1>2, <2>2 DEF Callers, NoStop, Inv, AttemptsShared
  <2> QED BY <2>3 DEF Inv, AttemptsShared
<1>7. AttemptsShared'
  <2>1. /\ stops'["refresh"].step # "none" <=> refresh' \in {"stop", "restop"}
        /\ stops'["shutdown"].step # "none" <=> service' = "stopping"
        /\ stops'["refresh"].step = "join" => service' # "up"
        /\ stops'["shutdown"].step = "join" => met'
        /\ service' = "up" => ~met'
    BY <1>1, <1>3, <1>6 DEF Inv, AttemptsShared
  <2> QED BY <1>1, <1>2, <2>1, StopCalledShares DEF AttemptsShared
<1>8. StopsLast'
  <2>1. ~met' => refresh = "idle" /\ NoneStarting
    BY <1>1 DEF NoneStarting
  <2>2. Ending' => \A r \in Runtimes : ~Restartable(r)'
    <3>1. CASE refresh \in Deploying
      BY <1>5, <3>1 DEF Inv, StopsLast, Ending
    <3>2. CASE refresh = "idle"
      BY <1>1, <1>5, <3>2 DEF Inv, StopsLast
    <3> QED BY <1>1, <2>1, <3>1, <3>2 DEF Ending
  <2> QED BY <1>1, <2>1, <2>2 DEF StopsLast, NoneStarting
<1>9. Findable' /\ SignalsTheWorker'
  <2>1. Findable'
    BY <1>1, <1>2, <1>5, Subsets DEF Inv, Findable
  <2>2. SignalsTheWorker'
    <3> SUFFICES ASSUME NEW c \in Callers, stops'[c].pid # NoPid, Ending'
                 PROVE  SignalsTheWorker'
      BY DEF SignalsTheWorker
    <3>1. stops["refresh"].pid # NoPid /\ \A d \in Callers : stops'[d].pid # NoPid => d = "refresh"
      BY <1>3 DEF Callers
    <3>2. Ending
      BY <1>2, <3>1 DEF Inv, AttemptsShared, Ending, Deploying, NoStop
    <3> QED BY <1>1, <1>3, <1>5, <3>1, <3>2 DEF Inv, SignalsTheWorker
  <2> QED BY <2>1, <2>2
<1>10. LastStop'
  <2> SUFFICES ASSUME refresh = "restop" PROVE LastStop'
    BY <1>1 DEF LastStop
  <2>1. current \in {None, stops["refresh"].runtime}
    BY DEF Inv, LastStop
  <2>2. \A r \in Runtimes : r = current => record[r].attempt
    BY <1>2, <2>1, NoneIsNoRuntime DEF Inv, AttemptsShared
  <2>3. \A r \in Runtimes : record'[r] = record[r]
    BY <1>3, <2>2
  <2>4. stops["refresh"].runtime \in Runtimes \cup {None}
    BY <1>2 DEF Inv, WorkerTypeOK
  <2>5. NoneStarting' /\ (NoneHeld => NoneHeld')
    BY <1>1, <1>5 DEF Inv, LastStop, NoneStarting, NoneHeld
  <2> QED BY <1>1, <1>2, <1>3, <2>1, <2>3, <2>4, <2>5 DEF Inv, LastStop
<1>11. ReadyToStart' /\ LastOfAll'
  BY <1>1, <1>3, <1>5 DEF Inv, ReadyToStart, LastOfAll, NoneHeld, NoneStarting
<1> QED BY <1>4, <1>5, <1>7, <1>8, <1>9, <1>10, <1>11 DEF Inv

-----------------------------------------------------------------------------
(* Stops that return.                                                      *)

\* A stop that returns: it has removed the worker, failed, or was joined to
\* one that did; ok is the result of its attempt.
StopEnds(c, ok) ==
    /\ UNCHANGED <<starting, timer, handler, alive, pidFile, orphans, met, overtaken>>
    /\ \A d \in Callers \ {c} : stops'[d] = stops[d]
    /\ stops'[c] = NoStop
    /\ stops[c].step # "none"
    /\ ok \in BOOLEAN
    /\ \A r \in Runtimes :
          /\ record'[r].restarts = record[r].restarts
          /\ record'[r].stopping = record[r].stopping
          /\ r # stops[c].runtime => record'[r] = record[r]
          /\ r = stops[c].runtime => ~record'[r].attempt /\ record'[r].stopped = ok
          /\ r = stops[c].runtime /\ stops[c].step = "join" => record'[r] = record[r]
    /\ IF stops[c].step = "forget" THEN ok /\ current' = None ELSE current' = current
    /\ ok => stops[c].step \in {"join", "forget"}
    /\ CASE c = "shutdown" ->
               /\ service' = "done" /\ refresh' = refresh
               /\ stops[c].step = "forget" \/ met \/ status' \in {"failed", "stopping"}
         [] c = "refresh" ->
               /\ service' = service
               /\ \/ refresh' = "idle"
                  \/ ok /\ refresh' = IF refresh = "stop" THEN "acquire" ELSE "start"

LEMMA StopEndsStep ==
    ASSUME Inv, WorkerTypeOK', NEW c \in Callers, NEW ok, StopEnds(c, ok)
    PROVE  Inv'
<1>0. /\ starting' = starting /\ timer' = timer /\ handler' = handler /\ alive' = alive
      /\ pidFile' = pidFile /\ orphans' = orphans /\ met' = met /\ current' \in {current, None}
  BY DEF StopEnds
<1>1. /\ \A d \in Callers : d # c => stops'[d] = stops[d]
      /\ stops'[c] = NoStop /\ stops[c].step # "none"
      /\ \A r \in Runtimes :
            /\ record'[r].restarts = record[r].restarts
            /\ record'[r].stopping = record[r].stopping
            /\ r # stops[c].runtime => record'[r] = record[r]
            /\ r = stops[c].runtime => ~record'[r].attempt /\ record'[r].stopped = ok
            /\ r = stops[c].runtime /\ stops[c].step = "join" => record'[r] = record[r]
  BY DEF StopEnds
<1>2. \A d \in Callers : stops[d].runtime \in Runtimes \cup {None}
  BY DEF Inv, WorkerTypeOK
<1>3. /\ Held' = Held /\ Known' = Known /\ Armed' = Armed /\ (NoneHeld' <=> NoneHeld)
      /\ \A p \in Processes : /\ OfStart(p)' <=> OfStart(p)
                              /\ BeingStarted(p)' <=> BeingStarted(p)
      /\ \A r \in Runtimes : Process(r)' = Process(r)
  <2>1. \A r \in timer : record'[r].stopping = record[r].stopping
    BY <1>1 DEF Inv, WorkerTypeOK
  <2> QED BY <1>0, <1>1, <2>1, ProcessFacts
          DEF Held, HasPid, Known, OfStart, BeingStarted, Process, Armed, NoneHeld
<1>4. \A p \in Processes : Superseding(p) => Superseding(p)'
  <2> SUFFICES ASSUME NEW p \in Processes, Superseding(p) PROVE Superseding(p)'
    OBVIOUS
  <2> DEFINE r == handler[p].runtime
  <2>1. r \in Runtimes /\ r # None /\ current # r /\ record[r].stopped /\ ~record[r].attempt
    BY HandlerFacts, NoneIsNoRuntime DEF Inv, Superseding
  <2>2. current' # r
    BY <1>0, <2>1
  <2>3. r = stops[c].runtime => stops[c].step = "join"
    BY <2>1 DEF Inv, AttemptsShared
  <2>4. record'[r] = record[r]
    BY <1>1, <2>1, <2>3
  <2> QED BY <1>0, <2>1, <2>2, <2>4 DEF Superseding
<1>5. Handling' \subseteq Handling
  BY <1>0, <1>4 DEF Handling
<1>6. \A r \in Runtimes : /\ Uses(r)' => Uses(r)
                          /\ Restartable(r)' => Restartable(r)
  BY <1>0, <1>1, <1>3, <1>5, NoneIsNoRuntime DEF Uses, Restartable
<1>7. Alone'
  BY <1>0, <1>3, <1>5, Subsets DEF Inv, Alone
<1>8. ChildrenWatched'
  <2>1. \A p \in Processes :
           /\ handler'[p].step = "watch" => p \in Known'
           /\ handler'[p].step \in {"unreported", "early"} => p \notin alive'
           /\ handler'[p].step = "early" => OfStart(p)' /\ starting'[p[1]] # "prepare"
    BY <1>0, <1>3 DEF Inv, ChildrenWatched
  <2>2. \A r \in Runtimes :
           /\ Uses(r)' => \A p \in alive' : p[1] = r => handler'[p].step \in ChildPhases
           /\ starting'[r] # "none" => \A p \in Processes : handler'[p].runtime # r
           /\ starting'[r] = "prepare" => Process(r)' \notin Held'
    BY <1>0, <1>3, <1>6 DEF Inv, ChildrenWatched
  <2> QED BY <2>1, <2>2 DEF ChildrenWatched
<1>9. c = "refresh" => refresh \in {"stop", "restop"} /\ Ending /\ (service # "up" => met)
  BY <1>1 DEF Inv, AttemptsShared, StopsLast, Ending, Deploying
<1>10. c = "shutdown" => service = "stopping"
  BY <1>1 DEF Inv, AttemptsShared
<1>11. /\ c = "shutdown" => service' = "done" /\ refresh' = refresh
       /\ c = "refresh" => /\ service' = service
                           /\ refresh' \in {"idle", "acquire", "start"}
       /\ c = "shutdown" \/ c = "refresh"
  BY DEF StopEnds, Callers
<1>12. AttemptsShared'
  <2>1. /\ stops'["refresh"].step # "none" <=> refresh' \in {"stop", "restop"}
        /\ stops'["shutdown"].step # "none" <=> service' = "stopping"
        /\ stops'["refresh"].step = "join" => service' # "up"
        /\ stops'["shutdown"].step = "join" => met'
        /\ service' = "up" => ~met'
    BY <1>0, <1>1, <1>11 DEF Inv, AttemptsShared, NoStop, Callers
  <2>2. ASSUME NEW d \in Callers, d # c
        PROVE  /\ stops'[d].step = "none" => stops'[d] = NoStop
               /\ stops'[d].step = "join" => stops'[d].runtime # None
               /\ stops'[d].step \in {"read", "join"} => stops'[d].pid = NoPid
               /\ stops'[d].step \in {"signal", "wait", "remove"} => stops'[d].pid # NoPid
               /\ stops'[d].runtime # None => record'[stops'[d].runtime].stopping
               /\ stops'[d].runtime # None /\ stops'[d].step # "join" =>
                     /\ record'[stops'[d].runtime].attempt
                     /\ \A e \in Callers \ {d} :
                           stops'[e].runtime = stops'[d].runtime => stops'[e].step = "join"
    <3>1. stops'[d] = stops[d]
      BY <1>1, <2>2
    <3>2. /\ stops'[d].step = "none" => stops'[d] = NoStop
          /\ stops'[d].step = "join" => stops'[d].runtime # None
          /\ stops'[d].step \in {"read", "join"} => stops'[d].pid = NoPid
          /\ stops'[d].step \in {"signal", "wait", "remove"} => stops'[d].pid # NoPid
      BY <3>1 DEF Inv, AttemptsShared
    <3>3. stops'[d].runtime # None => record'[stops'[d].runtime].stopping
      <4>1. stops[d].runtime # None =>
               stops[d].runtime \in Runtimes /\ record[stops[d].runtime].stopping
        BY <1>2 DEF Inv, AttemptsShared
      <4> QED BY <1>1, <3>1, <4>1
    <3>4. ASSUME stops[d].runtime # None, stops[d].step # "join"
          PROVE  /\ record'[stops[d].runtime].attempt
                 /\ \A e \in Callers \ {d} :
                       stops'[e].runtime = stops[d].runtime => stops'[e].step = "join"
      <4>1. stops[d].runtime \in Runtimes /\ record[stops[d].runtime].attempt
        BY <1>2, <3>4 DEF Inv, AttemptsShared
      <4>2. stops[d].runtime = stops[c].runtime => stops[c].step = "join"
        BY <2>2, <3>4 DEF Inv, AttemptsShared
      <4>3. record'[stops[d].runtime] = record[stops[d].runtime]
        BY <1>1, <4>1, <4>2
      <4>4. \A e \in Callers \ {d} : e = c
        BY <2>2 DEF Callers
      <4> QED BY <1>1, <3>4, <4>1, <4>3, <4>4 DEF NoStop
    <3> QED BY <3>1, <3>2, <3>3, <3>4
  <2>3. ASSUME NEW r \in Runtimes
        PROVE  /\ record'[r].attempt =>
                     \E d \in Callers : stops'[d].runtime = r /\ stops'[d].step # "join"
               /\ record'[r].attempt \/ record'[r].stopped => record'[r].stopping
    <3>1. CASE r = stops[c].runtime
      BY <1>1, <3>1, NoneIsNoRuntime DEF Inv, AttemptsShared
    <3>2. CASE r # stops[c].runtime
      <4>1. record'[r] = record[r]
        BY <1>1, <3>2
      <4>2. record[r].attempt => \E d \in Callers : stops[d].runtime = r /\ stops[d].step # "join"
        BY DEF Inv, AttemptsShared
      <4>3. record[r].attempt \/ record[r].stopped => record[r].stopping
        BY DEF Inv, AttemptsShared
      <4> QED BY <1>1, <3>2, <4>1, <4>2, <4>3
    <3> QED BY <3>1, <3>2
  <2>4. stops'[c].step = "none" /\ stops'[c].runtime = None
    BY <1>1 DEF NoStop
  <2> QED BY <1>1, <2>1, <2>2, <2>3, <2>4 DEF AttemptsShared
<1>13. StopsLast'
  <2>1. CASE c = "refresh"
    <3>1. \A r \in Runtimes : ~Restartable(r)'
      BY <1>6, <1>9, <2>1 DEF Inv, StopsLast
    <3> QED BY <1>0, <1>9, <1>11, <2>1, <3>1 DEF StopsLast
  <2>2. CASE c = "shutdown"
    <3>1. Ending' => Ending
      BY <1>0, <1>10, <1>11, <2>2 DEF Ending
    <3>2. ~met => refresh = "idle" /\ NoneStarting
      BY <1>10, <2>2 DEF Inv, StopsLast
    <3> QED BY <1>0, <1>6, <1>11, <2>2, <3>1, <3>2 DEF Inv, StopsLast, NoneStarting
  <2> QED BY <1>11, <2>1, <2>2
<1>14. RestartsInOrder'
  <2>1. ASSUME NEW p \in Processes, handler'[p].step = "restart"
        PROVE  record'[handler'[p].runtime].restarts < MaxRestarts
    <3>1. handler[p].step = "restart" /\ handler'[p].runtime = handler[p].runtime
      BY <1>0, <2>1
    <3>2. handler[p].runtime \in Runtimes
      BY <3>1, HandlerFacts DEF Inv, ExitPhases
    <3>3. record[handler[p].runtime].restarts < MaxRestarts
      BY <3>1 DEF Inv, RestartsInOrder
    <3> QED BY <1>1, <3>1, <3>2, <3>3
  <2> QED BY <1>0, <1>3, <1>5, <2>1 DEF Inv, RestartsInOrder
<1>15. Findable' /\ SignalsTheWorker'
  <2>1. (~met' \/ refresh' \in Deploying) => (~met \/ refresh \in Deploying)
    BY <1>0, <1>9, <1>11 DEF Deploying
  <2>2. Ending' => Ending
    BY <1>0, <1>9, <1>10, <1>11 DEF Ending
  <2>3. Findable'
    BY <1>0, <1>3, <2>1, Subsets DEF Inv, Findable
  <2>4. \A d \in Callers : stops'[d].pid # NoPid => stops'[d] = stops[d]
    BY <1>1 DEF NoStop
  <2>5. SignalsTheWorker'
    BY <1>0, <1>3, <2>2, <2>4 DEF Inv, SignalsTheWorker
  <2> QED BY <2>3, <2>5
<1>16. LastStop'
  <2> SUFFICES ASSUME refresh' = "restop" PROVE LastStop'
    BY DEF LastStop
  <2> DEFINE last == stops["refresh"]
             r == stops["refresh"].runtime
  <2>1. c = "shutdown" /\ refresh = "restop" /\ Ending
    BY <1>11 DEF Ending, Deploying
  <2>2. stops'["refresh"] = stops["refresh"] /\ "refresh" \in Callers /\ "shutdown" \in Callers
    BY <1>1, <2>1 DEF Callers
  <2>3. NoneStarting' /\ current' \in {None, r}
    BY <1>0, <2>1 DEF Inv, LastStop, NoneStarting
  <2>4. CASE r = None
    BY <1>0, <1>3, <2>1, <2>2, <2>3, <2>4, HandlerFacts
       DEF Inv, LastStop, AttemptsShared
  <2>5. CASE r # None
    <3>1. r \in Runtimes /\ (r = stops["shutdown"].runtime =>
             last.step = "join" \/ stops["shutdown"].step = "join")
      BY <1>2, <2>1, <2>2, <2>5 DEF Inv, AttemptsShared
    <3>2. last.step # "join" => record[r].attempt
      BY <2>2, <2>5 DEF Inv, AttemptsShared
    <3>3. \A p \in Processes : handler'[p].runtime # None => handler'[p].runtime = r
      BY <1>0, <2>1 DEF Inv, LastStop
    <3>4. record[r].attempt \/ record[r].stopped =>
             \A p \in Processes : handler[p].runtime # None => handler[p].step = "begin"
      BY <2>1 DEF Inv, LastStop
    <3>5. record'[r].attempt => record[r].attempt /\ r # stops["shutdown"].runtime
      BY <1>1, <2>1, <3>1
    <3>6. record'[r].stopped => record[r].attempt \/ record[r].stopped
      <4>1. r = stops["shutdown"].runtime /\ stops["shutdown"].step # "join" => record[r].attempt
        BY <2>2, <2>5 DEF Inv, AttemptsShared
      <4> QED BY <1>1, <2>1, <3>1, <4>1
    <3>7. last.step = "forget" => NoneHeld'
      BY <1>3, <2>1 DEF Inv, LastStop
    <3>8. last.step = "join" =>
             IF record'[r].attempt
             THEN stops'["shutdown"].runtime = r /\ stops'["shutdown"].pid # NoPid
             ELSE record'[r].stopped => NoneHeld' /\ current' = None
      <4> SUFFICES ASSUME last.step = "join"
                   PROVE  /\ ~record'[r].attempt
                          /\ record'[r].stopped => NoneHeld' /\ current' = None
        OBVIOUS
      <4>1. /\ record[r].attempt =>
                  stops["shutdown"].runtime = r /\ stops["shutdown"].pid # NoPid
            /\ ~record[r].attempt /\ record[r].stopped => NoneHeld /\ current = None
        BY <2>1 DEF Inv, LastStop
      <4>2. ~record'[r].attempt
        BY <3>5, <4>1
      <4>3. CASE ~record[r].attempt
        <5>1. record'[r] = record[r]
          <6>1. r = stops["shutdown"].runtime => stops["shutdown"].step = "join"
            BY <2>2, <2>5, <4>3 DEF Inv, AttemptsShared
          <6> QED BY <1>1, <2>1, <3>1, <6>1
        <5> QED BY <1>0, <1>3, <4>1, <4>2, <4>3, <5>1
      <4>4. CASE record[r].attempt
        <5>1. stops["shutdown"].runtime = r /\ stops["shutdown"].pid # NoPid
          BY <4>1, <4>4
        <5>2. record'[r].stopped = ok /\ stops["shutdown"].step # "join"
          BY <1>1, <2>1, <2>2, <3>1, <5>1 DEF Inv, AttemptsShared
        <5>3. ok => stops["shutdown"].step = "forget" /\ current' = None
          BY <2>1, <5>2 DEF StopEnds
        <5>4. stops["shutdown"].step = "forget" => NoneHeld
          BY <2>1, <2>2, <5>1 DEF Inv, SignalsTheWorker, NoneHeld
        <5> QED BY <1>3, <4>2, <5>2, <5>3, <5>4
      <4> QED BY <4>3, <4>4
    <3> QED BY <1>0, <2>2, <2>3, <3>3, <3>4, <3>5, <3>6, <3>7, <3>8 DEF LastStop
  <2> QED BY <2>4, <2>5
<1>17. ReadyToStart'
  <2> SUFFICES ASSUME refresh' = "start" PROVE ReadyToStart'
    BY DEF ReadyToStart
  <2>1. CASE c = "shutdown"
    <3>1. refresh = "start" /\ NoneHeld' /\ NoneStarting' /\ current' = None
      BY <1>0, <1>3, <1>11, <2>1 DEF Inv, ReadyToStart, NoneStarting
    <3> QED BY <1>0, <1>4, <3>1 DEF Inv, ReadyToStart
  <2>2. CASE c = "refresh"
    <3> DEFINE r == stops["refresh"].runtime
    <3>1. refresh = "restop" /\ ok /\ NoneStarting
      BY <1>9, <2>2 DEF StopEnds, Inv, LastStop
    <3>2. stops["refresh"].step \in {"join", "forget"} /\ r \in Runtimes \cup {None}
      BY <1>2, <2>2, <3>1 DEF StopEnds
    <3>3. \A p \in Processes : handler[p].runtime # None =>
             /\ handler[p].runtime = r
             /\ record[r].attempt \/ record[r].stopped => handler[p].step = "begin"
      BY <3>1 DEF Inv, LastStop
    <3>4. r # None => record[r].attempt \/ record[r].stopped
      <4> SUFFICES ASSUME r # None, stops["refresh"].step = "join" PROVE record[r].stopped
        BY <2>2, <3>2 DEF Inv, AttemptsShared
      <4>1. record'[r] = record[r] /\ record'[r].stopped = ok
        BY <1>1, <2>2, <3>2
      <4> QED BY <3>1, <4>1
    <3>5. NoneHeld /\ current' = None
      <4>1. CASE stops["refresh"].step = "forget"
        BY <2>2, <3>1, <4>1 DEF StopEnds, Inv, LastStop
      <4>2. CASE stops["refresh"].step = "join"
        <5>1. r # None
          BY <2>2, <4>2 DEF Inv, AttemptsShared
        <5>2. ~record[r].attempt /\ record[r].stopped
          BY <1>1, <2>2, <3>1, <3>2, <4>2, <5>1
        <5>3. NoneHeld /\ current = None
          BY <3>1, <4>2, <5>2 DEF Inv, LastStop
        <5> QED BY <1>0, <5>3
      <4> QED BY <3>2, <4>1, <4>2
    <3>6. r # None => ~record'[r].attempt /\ record'[r].stopped
      BY <1>1, <2>2, <3>1, <3>2
    <3>7. \A p \in Processes : handler'[p].runtime # None => Superseding(p)'
      BY <1>0, <3>3, <3>4, <3>5, <3>6 DEF Superseding
    <3>8. NoneStarting'
      BY <1>0, <3>1 DEF NoneStarting
    <3> QED BY <1>3, <3>5, <3>7, <3>8 DEF ReadyToStart
  <2> QED BY <1>11, <2>1, <2>2
<1>18. LastOfAll'
  <2>1. stops'["shutdown"].step = "forget" => c # "shutdown" /\ stops["shutdown"].step = "forget"
    BY <1>1 DEF NoStop, Callers
  <2>2. CASE c = "refresh"
    <3>1. service' = service /\ (~met => service = "up")
      BY <1>9, <1>11, <2>2
    <3> QED BY <1>0, <1>3, <2>1, <3>1 DEF Inv, LastOfAll
  <2>3. CASE c = "shutdown"
    <3>1. stops["shutdown"].step = "forget" \/ met \/ status' \in {"failed", "stopping"}
      BY <2>3 DEF StopEnds
    <3>2. ~met /\ stops["shutdown"].step = "forget" => Held' = {}
      BY <1>3 DEF Inv, LastOfAll, NoneHeld
    <3> QED BY <1>0, <2>1, <2>3, <3>1, <3>2 DEF LastOfAll
  <2> QED BY <1>11, <2>2, <2>3
<1> QED BY <1>7, <1>8, <1>12, <1>13, <1>14, <1>15, <1>16, <1>17, <1>18 DEF Inv

LEMMA ContinueDoes ==
    ASSUME Inv, NEW c \in Callers, NEW ok \in BOOLEAN, NEW said \in Statuses,
           Continue(c, ok, said)
    PROVE  /\ service' \in {"up", "stopping", "done"} /\ active' \in Fingerprints \cup {None}
           /\ refresh' \in Deploying \cup {"idle", "starting"} /\ undone' \in BOOLEAN
           /\ status' \in Statuses
           /\ c = "shutdown" => service' = "done" /\ refresh' = refresh /\ status' = said
           /\ c = "refresh" =>
                 /\ service' = service
                 /\ \/ refresh' = "idle"
                    \/ ok /\ refresh' = IF refresh = "stop" THEN "acquire" ELSE "start"
<1>1. /\ service \in {"up", "stopping", "done"} /\ active \in Fingerprints \cup {None}
      /\ refresh \in Deploying \cup {"idle", "starting"} /\ undone \in BOOLEAN
  BY DEF Inv, WorkerTypeOK
<1>2. CASE c = "shutdown"
  BY <1>1, <1>2 DEF Continue
<1>3. CASE c = "refresh"
  <2>1. CASE ~read.enabled
    BY <1>1, <1>3, <2>1 DEF Continue
  <2>2. CASE read.enabled /\ ok
    BY <1>1, <1>3, <2>2 DEF Continue, Deploying
  <2>3. CASE read.enabled /\ ~ok
    <3>1. DeployFails
      BY <1>3, <2>3 DEF Continue
    <3> QED BY <1>1, <1>3, <3>1 DEF DeployFails, Statuses
  <2> QED BY <2>1, <2>2, <2>3
<1> QED BY <1>2, <1>3 DEF Callers

LEMMA ReturnsStep ==
    ASSUME Inv, NEW c \in Callers, NEW ok \in BOOLEAN, NEW said \in Statuses,
           Returns(c, ok, said), stops[c].step \in {"signal", "wait", "forget"},
           ok <=> stops[c].step = "forget", ok \/ said \in {"failed", "stopping"},
           current' = IF ok THEN None ELSE current,
           UNCHANGED <<instance, starting, timer, handler, alive, pidFile>>
    PROVE  Inv'
<1> DEFINE r == stops[c].runtime
<1>1. /\ Continue(c, ok, said) /\ read' = read /\ orphans' = orphans /\ met' = met
      /\ overtaken' = overtaken
      /\ stops' = [stops EXCEPT ![c] = NoStop]
      /\ record' = IF r = None THEN record
                   ELSE [record EXCEPT ![r].stopped = ok, ![r].attempt = FALSE]
  BY DEF Returns
<1>2. /\ stops' \in [Callers -> StopType] /\ stops'[c] = NoStop
      /\ \A d \in Callers \ {c} : stops'[d] = stops[d]
  BY <1>1 DEF Inv, WorkerTypeOK, StopType, StopPhases, NoStop
<1>3. r \in Runtimes \cup {None} /\ record \in [Runtimes -> RecordType]
  BY DEF Inv, WorkerTypeOK, RecordType
<1>4. /\ record' \in [Runtimes -> RecordType]
      /\ \A q \in Runtimes :
            /\ record'[q].restarts = record[q].restarts
            /\ record'[q].stopping = record[q].stopping
            /\ q # r => record'[q] = record[q]
            /\ q = r => ~record'[q].attempt /\ record'[q].stopped = ok
  <2>1. CASE r = None
    BY <1>1, <1>3, <2>1, NoneIsNoRuntime
  <2>2. CASE r # None
    <3>1. r \in Runtimes /\ record' = [record EXCEPT ![r].stopped = ok, ![r].attempt = FALSE]
      BY <1>1, <1>3, <2>2
    <3> DEFINE rec == [record[r] EXCEPT !.stopped = ok, !.attempt = FALSE]
    <3>2. rec \in RecordType /\ rec.restarts = record[r].restarts
          /\ rec.stopping = record[r].stopping
          /\ ~rec.attempt /\ rec.stopped = ok
      BY <1>3, <3>1 DEF RecordType
    <3>3. record' = [record EXCEPT ![r] = rec]
      BY <1>3, <3>1 DEF RecordType
    <3> HIDE DEF r, rec
    <3> QED BY <1>3, <3>1, <3>2, <3>3
  <2> QED BY <2>1, <2>2
<1>5. WorkerTypeOK'
  BY <1>1, <1>2, <1>4, ContinueDoes DEF Inv, WorkerTypeOK, StopType, RecordType, Statuses
<1>6. StopEnds(c, ok)
  <2>1. CASE c = "shutdown"
    BY <1>1, <1>2, <1>4, <2>1, ContinueDoes DEF StopEnds
  <2>2. CASE c = "refresh"
    BY <1>1, <1>2, <1>4, <2>2, ContinueDoes DEF StopEnds
  <2> QED BY <2>1, <2>2 DEF Callers
<1> QED BY <1>5, <1>6, StopEndsStep

LEMMA StopRefusedStep ==
    ASSUME Inv, NEW c \in Callers, StopRefused(c) PROVE Inv'
BY ReturnsStep DEF StopRefused, Statuses

LEMMA StopTimesOutStep ==
    ASSUME Inv, NEW c \in Callers, StopTimesOut(c) PROVE Inv'
BY ReturnsStep DEF StopTimesOut, Statuses

LEMMA StopForgetsStep ==
    ASSUME Inv, NEW c \in Callers, StopForgets(c) PROVE Inv'
<1> DEFINE said == IF current = None /\ stops[c].pid = NoPid THEN status ELSE "stopped"
<1>1. said \in Statuses
  BY DEF Inv, WorkerTypeOK, Statuses
<1>2. /\ Returns(c, TRUE, said) /\ stops[c].step = "forget" /\ current' = None
      /\ UNCHANGED <<instance, starting, timer, handler, alive, pidFile>>
  BY DEF StopForgets
<1> HIDE DEF said
<1> QED BY <1>1, <1>2, ReturnsStep

LEMMA StopJoinedStep ==
    ASSUME Inv, NEW c \in Callers, StopJoined(c) PROVE Inv'
<1> DEFINE r == stops[c].runtime
           ok == record[r].stopped
<1>1. /\ stops[c].step = "join" /\ ~record[r].attempt
      /\ Continue(c, ok, status)
      /\ UNCHANGED <<instance, read, current, record, starting, timer, handler, alive, pidFile,
                     bounds, orphans, met, overtaken>>
  BY DEF StopJoined
<1>2. stops' = [stops EXCEPT ![c] = NoStop]
  BY DEF StopJoined
<1>3. /\ stops' \in [Callers -> StopType] /\ stops'[c] = NoStop
      /\ \A d \in Callers \ {c} : stops'[d] = stops[d]
  BY <1>2 DEF Inv, WorkerTypeOK, StopType, StopPhases, NoStop
<1>4. r \in Runtimes /\ ok \in BOOLEAN /\ status \in Statuses
  BY <1>1 DEF Inv, WorkerTypeOK, AttemptsShared, Statuses
<1>5. c = "shutdown" => met
  BY <1>1 DEF Inv, AttemptsShared
<1> HIDE DEF ok
<1>6. WorkerTypeOK'
  BY <1>1, <1>3, <1>4, ContinueDoes DEF Inv, WorkerTypeOK, StopType, Statuses
<1>7. StopEnds(c, ok)
  <2>1. CASE c = "shutdown"
    BY <1>1, <1>3, <1>4, <1>5, <2>1, ContinueDoes DEF StopEnds, ok
  <2>2. CASE c = "refresh"
    BY <1>1, <1>3, <1>4, <2>2, ContinueDoes DEF StopEnds, ok
  <2> QED BY <2>1, <2>2 DEF Callers
<1> QED BY <1>6, <1>7, StopEndsStep

-----------------------------------------------------------------------------
(* Starts.                                                                 *)

\* A start in progress is alone, with the process it has spawned.
LEMMA StartIsAlone ==
    ASSUME Inv, NEW r \in Runtimes, starting[r] # "none"
    PROVE  /\ Process(r) \in Processes /\ Process(r)[1] = r
           /\ \A q \in Runtimes : q # r => starting[q] = "none"
           /\ Armed = {} /\ Handling = {} /\ Held \subseteq {Process(r)}
           /\ \A p \in Processes : /\ handler[p].runtime # r
                                   /\ handler[p].runtime # None => Superseding(p)
           /\ Process(r) \notin orphans
           /\ Process(r) \in alive => Process(r) \in Held
           /\ refresh \notin {"restop", "start"} /\ (service # "up" => met)
           /\ starting[r] = "prepare" => Process(r) \notin Held /\ Held = {}
           /\ starting[r] \in {"prepare", "spawned"} =>
                 pidFile = NoPid /\ (Ending => \A c \in Callers : stops[c].pid = NoPid)
<1>1. Process(r) \in Processes /\ Process(r)[1] = r
  BY ProcessOf DEF Inv
<1>2. /\ \A q \in Runtimes : q # r => starting[q] = "none"
      /\ Armed = {} /\ Handling = {} /\ \A p \in Held : OfStart(p)
  BY DEF Inv, Alone
<1>3. Held \subseteq {Process(r)}
  BY <1>2, Subsets, ProcessFacts DEF OfStart
<1>4. \A p \in Processes : /\ handler[p].runtime # r
                           /\ handler[p].runtime # None => Superseding(p)
  BY <1>2 DEF Inv, ChildrenWatched, Handling
<1>5. Process(r) \in alive => Process(r) \notin orphans /\ Process(r) \in Held
  <2>1. Process(r) \in alive => handler[Process(r)].step = "watch"
    BY <1>1 DEF Inv, ChildrenWatched, Uses, ChildPhases
  <2> QED BY <1>1, <2>1 DEF Inv, ChildrenWatched, Known, Held, HasPid
<1>6. Process(r) \notin orphans
  BY <1>5 DEF Inv, WorkerTypeOK
<1>7. refresh \notin {"restop", "start"} /\ (service # "up" => met)
  BY DEF Inv, LastStop, ReadyToStart, StopsLast, NoneStarting
<1>8. starting[r] = "prepare" => Process(r) \notin Held /\ Held = {}
  BY <1>3 DEF Inv, ChildrenWatched
<1>9. starting[r] \in {"prepare", "spawned"} =>
         pidFile = NoPid /\ (Ending => \A c \in Callers : stops[c].pid = NoPid)
  BY DEF Inv, RestartsInOrder, SignalsTheWorker
<1> QED BY <1>1, <1>2, <1>3, <1>4, <1>5, <1>6, <1>7, <1>8, <1>9

\* A step of a start, up to its end, which may hand an early exit to its handler.
StartMoves(r) ==
    /\ UNCHANGED <<stops, record, timer, service, orphans, met, overtaken>>
    /\ starting[r] # "none" /\ starting'[r] \in {"none", "spawned", "named"}
    /\ \A q \in Runtimes \ {r} : starting'[q] = starting[q]
    /\ \/ refresh' = refresh
       \/ refresh = "starting" /\ refresh' = "idle" /\ starting'[r] = "none"
    /\ \A p \in Processes \ {Process(r)} :
          handler'[p] = handler[p] /\ (p \in alive' <=> p \in alive)
    /\ Process(r) \in alive' => handler'[Process(r)].step = "watch"
    /\ Process(r) \notin alive' => handler'[Process(r)].step # "watch"
    /\ handler'[Process(r)].step = "early" => starting'[r] # "none"
    /\ \/ handler'[Process(r)] = handler[Process(r)]
       \/ handler'[Process(r)].runtime = None
       \/ /\ handler'[Process(r)].step = "begin" /\ handler'[Process(r)].runtime = r
          /\ current' = r /\ starting'[r] = "none"
    /\ starting'[r] = "none" => current' \in {current, None, r}
    /\ starting'[r] # "none" => current' = current
    /\ starting'[r] = "spawned" => pidFile' = NoPid
    /\ starting'[r] = "named" => pidFile' = Process(r)
    /\ starting[r] = "named" => pidFile' = pidFile /\ Held' \subseteq Held /\ starting'[r] = "none"
    /\ starting[r] # "named" /\ starting'[r] = "none" => Held' = {}

LEMMA StartMovesStep ==
    ASSUME Inv, WorkerTypeOK', NEW r \in Runtimes, StartMoves(r)
    PROVE  Inv'
<1> DEFINE P == Process(r)
           Began == /\ handler'[P].step = "begin" /\ handler'[P].runtime = r /\ current' = r
                    /\ starting'[r] = "none"
<1>1. /\ stops' = stops /\ record' = record /\ timer' = timer /\ service' = service
      /\ orphans' = orphans /\ met' = met /\ Process(r)' = Process(r)
  BY DEF StartMoves, Process
<1>2. /\ P \in Processes /\ P[1] = r
      /\ \A q \in Runtimes : q # r => starting'[q] = "none" /\ starting[q] = "none"
      /\ Armed = {} /\ Handling = {} /\ Held \subseteq {P}
      /\ \A p \in Processes : /\ handler[p].runtime # r
                              /\ handler[p].runtime # None => Superseding(p)
      /\ P \notin orphans
      /\ refresh \notin {"restop", "start"} /\ (service # "up" => met)
      /\ starting[r] \in {"prepare", "spawned"} =>
            (Ending => \A c \in Callers : stops[c].pid = NoPid)
  BY StartIsAlone DEF StartMoves
<1>3. /\ \A p \in Processes : p # P => handler'[p] = handler[p] /\ (p \in alive' <=> p \in alive)
      /\ handler'[P].step = "watch" <=> P \in alive'
      /\ handler'[P].step = "early" => starting'[r] # "none"
      /\ handler'[P] = handler[P] \/ handler'[P].runtime = None \/ Began
      /\ starting'[r] \in {"none", "spawned", "named"}
      /\ \/ refresh' = refresh
         \/ refresh = "starting" /\ refresh' = "idle" /\ starting'[r] = "none"
  BY DEF StartMoves
<1>4. Held' \subseteq {P}
  BY <1>1, <1>2, <1>3 DEF Held, HasPid
<1>5. Armed' = {}
  BY <1>1, <1>2 DEF Armed
<1>6. current' \in {current, None, r}
  BY DEF StartMoves
<1>7. Handling' \subseteq {P} /\ (P \in Handling' => Began)
  <2>1. ASSUME NEW p \in Processes, handler'[p].runtime # None, handler'[p] = handler[p]
        PROVE  Superseding(p)'
    <3>1. handler[p].runtime # r /\ Superseding(p)
      BY <1>2, <2>1
    <3>2. current' # handler[p].runtime
      BY <1>6, <2>1, <3>1 DEF Superseding
    <3> QED BY <1>1, <2>1, <3>1, <3>2 DEF Superseding
  <2> QED BY <1>3, <2>1 DEF Handling
<1>8. \A p \in Processes : OfStart(p)' <=> p = P /\ starting'[r] # "none"
  BY <1>1, <1>2, ProcessFacts DEF OfStart
<1>9. Began => P \notin Held'
  BY <1>3 DEF Held, HasPid
<1> HIDE DEF P
<1>10. Alone'
  <2>1. \A q \in Runtimes : starting'[q] # "none" => q = r
    BY <1>2
  <2>2. \A p \in Held' : ~OfStart(p)' => p = P /\ starting'[r] = "none"
    BY <1>4, <1>8, SubsetsNext
  <2>3. Handling' # {} => Held' = {} /\ starting'[r] = "none"
    BY <1>4, <1>7, <1>9
  <2>4. \A q \in Runtimes : starting'[q] # "none" => \A p \in Held' : OfStart(p)'
    BY <1>4, <1>8, <2>1, SubsetsNext
  <2> QED BY <1>5, <1>7, <2>1, <2>2, <2>3, <2>4 DEF Alone
<1>11. ChildrenWatched'
  <2>1. ASSUME NEW p \in Processes
        PROVE  /\ handler'[p].step = "watch" => p \in Known'
               /\ handler'[p].step \in {"unreported", "early"} => p \notin alive'
               /\ handler'[p].step = "early" => OfStart(p)' /\ starting'[p[1]] # "prepare"
    <3>1. CASE p = P
      BY <1>1, <1>2, <1>3, <1>8, <3>1 DEF Known
    <3>2. CASE p # P
      <4>1. handler'[p] = handler[p] /\ (p \in alive' <=> p \in alive)
        BY <1>3, <3>2
      <4>2. handler[p].step # "early"
        BY <1>2, <3>2, ProcessFacts DEF Inv, ChildrenWatched, OfStart, P
      <4> QED BY <1>1, <4>1, <4>2 DEF Inv, ChildrenWatched, Known
    <3> QED BY <3>1, <3>2
  <2>2. ASSUME NEW q \in Runtimes, Uses(q)', NEW p \in alive', p[1] = q
        PROVE  handler'[p].step \in ChildPhases
    <3>1. CASE p = P
      BY <1>3, <3>1 DEF ChildPhases
    <3>2. CASE p # P
      <4>1. p \in alive /\ p \in Processes /\ handler'[p] = handler[p]
        BY <1>3, <3>2 DEF WorkerTypeOK
      <4>2. Uses(q)
        <5>1. q = r => Uses(q)
          BY DEF Uses, StartMoves
        <5>2. q # r => current' # q \/ current = q
          BY <1>6, NoneIsNoRuntime
        <5>3. q # r => q \notin Armed' /\ starting'[q] = "none"
          BY <1>2, <1>5
        <5>4. \A o \in Processes : q # r /\ handler'[o].runtime = q => handler[o].runtime = q
          BY <1>3, NoneIsNoRuntime
        <5> QED BY <2>2, <5>1, <5>2, <5>3, <5>4 DEF Uses
      <4> QED BY <2>2, <4>1, <4>2 DEF Inv, ChildrenWatched
    <3> QED BY <3>1, <3>2
  <2>3. ASSUME NEW q \in Runtimes, starting'[q] # "none"
        PROVE  /\ starting'[q] # "prepare"
               /\ \A p \in Processes : handler'[p].runtime # q
    BY <1>2, <1>3, <2>3, NoneIsNoRuntime
  <2> QED BY <2>1, <2>2, <2>3 DEF ChildrenWatched
<1>12. AttemptsShared'
  <2>1. refresh' \in {"stop", "restop"} <=> refresh \in {"stop", "restop"}
    BY <1>3
  <2> QED BY <1>1, <2>1 DEF Inv, AttemptsShared
<1>13. StopsLast'
  <2>1. ASSUME NEW q \in Runtimes, Restartable(q)'
        PROVE  Restartable(q) /\ (starting'[r] = "none" => q = current')
    <3>1. ~record[q].stopping /\ q \notin timer'
      BY <1>1, <1>5, <2>1 DEF Restartable, Armed
    <3>2. \A p \in Handling' : handler'[p].runtime = q => q = r /\ current' = r
      BY <1>3, <1>7, NoneIsNoRuntime
    <3>3. \/ current' = q \/ starting'[q] # "none"
          \/ \E p \in Handling' : handler'[p].runtime = q
      BY <2>1, <3>1 DEF Restartable
    <3>4. Restartable(r) <=> ~record[r].stopping
      BY DEF Restartable, StartMoves
    <3>5. q # r => current' = q /\ current = q
      BY <1>2, <1>6, <3>2, <3>3, NoneIsNoRuntime
    <3>6. Restartable(q)
      BY <3>1, <3>4, <3>5 DEF Restartable
    <3> QED BY <3>2, <3>3, <3>5, <3>6
  <2>2. Ending' => Ending
    BY <1>1, <1>2, <1>3 DEF Ending, Deploying
  <2>3. starting'[r] # "none" => refresh' = refresh /\ current' = current
    BY <1>3 DEF StartMoves
  <2> QED BY <1>1, <1>2, <2>1, <2>2, <2>3 DEF Inv, StopsLast
<1>14. RestartsInOrder'
  <2>1. ASSUME NEW p \in Processes, handler'[p].step = "restart"
        PROVE  record'[handler'[p].runtime].restarts < MaxRestarts
    <3>1. handler'[p].runtime # None /\ (p = P => ~Began)
      BY <2>1 DEF WorkerTypeOK, ExitPhases
    <3>2. handler'[p] = handler[p]
      BY <1>3, <3>1
    <3> QED BY <1>1, <2>1, <3>2 DEF Inv, RestartsInOrder
  <2>2. \A p \in Handling' : handler'[p].step = "begin"
    BY <1>3, <1>7
  <2>3. \A q \in Runtimes : starting'[q] \in {"prepare", "spawned"} => pidFile' = NoPid
    BY <1>2, <1>3 DEF StartMoves
  <2> QED BY <1>5, <2>1, <2>2, <2>3 DEF RestartsInOrder
<1>15. Findable'
  <2> SUFFICES ASSUME ~met' \/ refresh' \in Deploying, NEW p \in Held'
               PROVE  pidFile' = p \/ BeingStarted(p)'
    BY DEF Findable
  <2>1. p = P
    BY <1>4
  <2>2. CASE starting'[r] = "named"
    BY <2>1, <2>2 DEF StartMoves, P
  <2>3. CASE starting'[r] = "spawned"
    BY <1>1, <1>2, <2>1, <2>3 DEF BeingStarted, P
  <2>4. CASE starting'[r] = "none"
    <3>1. starting[r] = "named" /\ pidFile' = pidFile /\ p \in Held
      BY <2>4 DEF StartMoves
    <3>2. ~met \/ refresh \in Deploying
      BY <1>1, <1>3 DEF Deploying
    <3>3. ~BeingStarted(p)
      BY <1>2, <2>1, <3>1 DEF BeingStarted
    <3> QED BY <3>1, <3>2, <3>3 DEF Inv, Findable
  <2> QED BY <1>3, <2>2, <2>3, <2>4
<1>16. SignalsTheWorker'
  <2> SUFFICES ASSUME Ending', NEW c \in Callers, stops[c].pid # NoPid
               PROVE  /\ \A q \in Runtimes : starting'[q] \notin {"prepare", "spawned"}
                      /\ Held' \subseteq {stops[c].pid} /\ pidFile' \in {stops[c].pid, NoPid}
                      /\ stops[c].step \in {"remove", "forget"} => Held' = {}
                      /\ stops[c].step = "forget" => pidFile' = NoPid
    BY <1>1 DEF SignalsTheWorker
  <2>1. Ending
    BY <1>1, <1>2, <1>3 DEF Ending, Deploying
  <2>2. starting[r] = "named"
    BY <1>2, <2>1 DEF StartMoves, Inv, WorkerTypeOK
  <2>3. pidFile' = pidFile /\ Held' \subseteq Held /\ starting'[r] = "none"
    BY <2>2 DEF StartMoves
  <2> QED BY <1>2, <2>1, <2>3 DEF Inv, SignalsTheWorker
<1>17. LastStop' /\ ReadyToStart' /\ LastOfAll'
  BY <1>1, <1>2, <1>3 DEF Inv, LastStop, ReadyToStart, LastOfAll, AttemptsShared
<1> QED BY <1>10, <1>11, <1>12, <1>13, <1>14, <1>15, <1>16, <1>17 DEF Inv

LEMMA StartReturnsDoes ==
    ASSUME Inv, NEW r \in Runtimes, NEW ok \in BOOLEAN, NEW said \in Statuses,
           StartReturns(r, ok, said)
    PROVE  /\ UNCHANGED <<instance, read, stops, record, timer, service, orphans, met, overtaken>>
           /\ active' \in Fingerprints \cup {None} /\ undone' \in BOOLEAN
           /\ status' \in Statuses
           /\ starting' = [starting EXCEPT ![r] = "none"]
           /\ refresh' = refresh \/ (refresh = "starting" /\ refresh' = "idle")
<1>1. /\ active \in Fingerprints \cup {None} /\ undone \in BOOLEAN
      /\ read.wanted \in Fingerprints
  BY DEF Inv, WorkerTypeOK, Instances
<1>2. CASE OfDeployment(r) /\ ok
  BY <1>1, <1>2 DEF StartReturns, OfDeployment
<1>3. CASE OfDeployment(r) /\ ~ok
  BY <1>1, <1>3 DEF StartReturns, OfDeployment, DeployFails, Statuses
<1>4. CASE ~OfDeployment(r)
  BY <1>1, <1>4 DEF StartReturns
<1> QED BY <1>2, <1>3, <1>4

LEMMA StartRejectedStep ==
    ASSUME Inv, NEW r \in Runtimes, StartRejected(r) PROVE Inv'
<1>1. /\ starting[r] = "prepare" /\ StartReturns(r, FALSE, "failed")
      /\ current' = current /\ handler' = handler /\ alive' = alive /\ pidFile' = pidFile
  BY DEF StartRejected
<1>2. /\ UNCHANGED <<instance, read, stops, record, timer, service, orphans, met, overtaken>>
      /\ active' \in Fingerprints \cup {None} /\ undone' \in BOOLEAN
      /\ status' \in Statuses
      /\ starting' = [starting EXCEPT ![r] = "none"]
      /\ refresh' = refresh \/ (refresh = "starting" /\ refresh' = "idle")
  BY <1>1, StartReturnsDoes DEF Statuses
<1>3. /\ starting' \in StartType /\ starting'[r] = "none"
      /\ \A q \in Runtimes \ {r} : starting'[q] = starting[q]
  BY <1>2 DEF Inv, WorkerTypeOK, StartType
<1>4. WorkerTypeOK'
  BY <1>1, <1>2, <1>3 DEF Inv, WorkerTypeOK, StartType, Statuses
<1>5. /\ Process(r) \in Processes /\ Held = {} /\ Process(r) \notin alive
      /\ handler[Process(r)].step \notin {"watch", "early"}
  <2>1. Process(r) \in Processes /\ Held = {} /\ Process(r) \notin alive /\ Process(r)[1] = r
    BY <1>1, StartIsAlone
  <2> QED BY <1>1, <2>1 DEF Inv, ChildrenWatched, Known
<1>6. Held' = {}
  BY <1>1, <1>2, <1>5 DEF Held, HasPid
<1>7. StartMoves(r)
  BY <1>1, <1>2, <1>3, <1>5, <1>6 DEF StartMoves
<1> QED BY <1>4, <1>7, StartMovesStep

LEMMA StartBreaksOffStep ==
    ASSUME Inv, NEW r \in Runtimes, StartBreaksOff(r) PROVE Inv'
<1>1. /\ starting[r] = "prepare" /\ starting' = [starting EXCEPT ![r] = "none"]
      /\ undone' = TRUE /\ UNCHANGED daemon
      /\ UNCHANGED <<instance, stops, current, record, timer, handler, alive, pidFile, status,
                     orphans, met, overtaken>>
  BY DEF StartBreaksOff
<1>2. /\ service' = service /\ refresh' = refresh /\ read' = read /\ active' = active
  BY <1>1 DEF daemon
<1>3. /\ starting' \in StartType /\ starting'[r] = "none"
      /\ \A q \in Runtimes \ {r} : starting'[q] = starting[q]
  BY <1>1 DEF Inv, WorkerTypeOK, StartType
<1>4. WorkerTypeOK'
  BY <1>1, <1>2, <1>3 DEF Inv, WorkerTypeOK, StartType
<1>5. /\ Process(r) \in Processes /\ Held = {} /\ Process(r) \notin alive
      /\ handler[Process(r)].step \notin {"watch", "early"}
  <2>1. Process(r) \in Processes /\ Held = {} /\ Process(r) \notin alive /\ Process(r)[1] = r
    BY <1>1, StartIsAlone
  <2> QED BY <1>1, <2>1 DEF Inv, ChildrenWatched, Known
<1>6. Held' = {}
  BY <1>1, <1>5 DEF Held, HasPid
<1>7. StartMoves(r)
  BY <1>1, <1>2, <1>3, <1>5, <1>6 DEF StartMoves
<1> QED BY <1>4, <1>7, StartMovesStep

LEMMA SpawnsStep ==
    ASSUME Inv, NEW r \in Runtimes, Spawns(r) PROVE Inv'
<1> DEFINE P == Process(r)
<1>1. /\ UNCHANGED <<instance, daemon, stops, current, record, timer, pidFile, bounds, history>>
      /\ starting[r] = "prepare" /\ alive' = alive \cup {P} /\ status' = "starting"
  BY DEF Spawns
<1>2. /\ starting' = [starting EXCEPT ![r] = "spawned"]
      /\ handler' = [handler EXCEPT ![P] = [step |-> "watch", runtime |-> None]]
  BY DEF Spawns
<1>3. P \in Processes /\ pidFile = NoPid
  BY <1>1, StartIsAlone
<1> HIDE DEF P
<1>4. /\ starting' \in StartType /\ starting'[r] = "spawned"
      /\ \A q \in Runtimes \ {r} : starting'[q] = starting[q]
  BY <1>2 DEF Inv, WorkerTypeOK, StartType
<1>5. /\ handler' \in HandlerType
      /\ handler'[P].step = "watch" /\ handler'[P].runtime = None
      /\ \A p \in Processes : p # P => handler'[p] = handler[p]
  BY <1>2, <1>3 DEF Inv, WorkerTypeOK, HandlerType, ChildPhases
<1>6. \A p \in Processes : handler'[p].step \in ExitPhases <=> handler'[p].runtime # None
  BY <1>5 DEF Inv, WorkerTypeOK, ExitPhases
<1>7. WorkerTypeOK'
  BY <1>1, <1>3, <1>4, <1>5, <1>6
     DEF Inv, WorkerTypeOK, StartType, HandlerType, Statuses, daemon, history
<1>8. StartMoves(r)
  BY <1>1, <1>3, <1>4, <1>5 DEF StartMoves, P, daemon, history
<1> QED BY <1>7, <1>8, StartMovesStep

LEMMA WritesPidStep ==
    ASSUME Inv, NEW r \in Runtimes, WritesPid(r) PROVE Inv'
<1> DEFINE P == Process(r)
<1>1. /\ UNCHANGED <<instance, daemon, stops, current, record, timer, handler, alive, status,
                     bounds, history>>
      /\ starting[r] = "spawned" /\ pidFile' = P
  BY DEF WritesPid
<1>2. starting' = [starting EXCEPT ![r] = "named"]
  BY DEF WritesPid
<1>3. P \in Processes /\ P[1] = r /\ P \notin orphans /\ (P \in alive => P \in Held)
  BY <1>1, StartIsAlone
<1>4. P \in alive <=> handler[P].step = "watch"
  BY <1>1, <1>3 DEF Inv, ChildrenWatched, Known, Uses, ChildPhases
<1> HIDE DEF P
<1>5. /\ starting' \in StartType /\ starting'[r] = "named"
      /\ \A q \in Runtimes \ {r} : starting'[q] = starting[q]
  BY <1>2 DEF Inv, WorkerTypeOK, StartType
<1>6. WorkerTypeOK'
  BY <1>1, <1>3, <1>5 DEF Inv, WorkerTypeOK, StartType, daemon, history
<1>7. StartMoves(r)
  BY <1>1, <1>4, <1>5 DEF StartMoves, P, daemon, history
<1> QED BY <1>6, <1>7, StartMovesStep

LEMMA StartedStep ==
    ASSUME Inv, NEW r \in Runtimes, Started(r) PROVE Inv'
<1> DEFINE P == Process(r)
           next == IF handler[P].step = "early" THEN [step |-> "begin", runtime |-> r]
                   ELSE handler[P]
<1>1. /\ starting[r] = "named" /\ StartReturns(r, TRUE, "running")
      /\ current' = r /\ alive' = alive /\ pidFile' = pidFile
  BY DEF Started
<1>2. P \in Processes /\ P[1] = r /\ P \notin orphans /\ (P \in alive => P \in Held)
  BY <1>1, StartIsAlone
<1>3. handler' = [handler EXCEPT ![P] = next]
  BY DEF Started
<1>4. /\ UNCHANGED <<instance, read, stops, record, timer, service, orphans, met, overtaken>>
      /\ active' \in Fingerprints \cup {None} /\ undone' \in BOOLEAN
      /\ status' \in Statuses
      /\ starting' = [starting EXCEPT ![r] = "none"]
      /\ refresh' = refresh \/ (refresh = "starting" /\ refresh' = "idle")
  BY <1>1, StartReturnsDoes DEF Statuses
<1>5. /\ starting' \in StartType /\ starting'[r] = "none"
      /\ \A q \in Runtimes \ {r} : starting'[q] = starting[q]
  BY <1>4 DEF Inv, WorkerTypeOK, StartType
<1>6. P \in alive => handler[P].step = "watch"
  BY <1>1, <1>2 DEF Inv, ChildrenWatched, Uses, ChildPhases
<1>7. P \notin alive => handler[P].step # "watch"
  BY <1>2 DEF Inv, ChildrenWatched, Known
<1> HIDE DEF P
<1>8. /\ next \in [step : {"none"} \cup ChildPhases \cup ExitPhases,
                   runtime : Runtimes \cup {None}]
      /\ next.step \in ExitPhases <=> next.runtime # None
  BY <1>2, NoneIsNoRuntime DEF Inv, WorkerTypeOK, ExitPhases
<1>9. \/ next = handler[P] /\ handler[P].step # "early"
      \/ next.step = "begin" /\ next.runtime = r /\ handler[P].step = "early"
  OBVIOUS
<1> HIDE DEF next
<1>10. /\ handler' \in HandlerType /\ handler'[P] = next
       /\ \A p \in Processes : p # P => handler'[p] = handler[p]
  BY <1>2, <1>3, <1>8 DEF Inv, WorkerTypeOK, HandlerType
<1>11. \A p \in Processes : handler'[p].step \in ExitPhases <=> handler'[p].runtime # None
  BY <1>8, <1>10 DEF Inv, WorkerTypeOK
<1>12. WorkerTypeOK'
  BY <1>1, <1>4, <1>5, <1>10, <1>11 DEF Inv, WorkerTypeOK, StartType, HandlerType, Statuses
<1>13. Held' \subseteq Held
  BY <1>1, <1>4, <1>9, <1>10 DEF Held, HasPid
<1>14. StartMoves(r)
  BY <1>1, <1>4, <1>5, <1>6, <1>7, <1>9, <1>10, <1>13 DEF StartMoves, P
<1> QED BY <1>12, <1>14, StartMovesStep

LEMMA StartFailsStep ==
    ASSUME Inv, NEW r \in Runtimes, StartFails(r) PROVE Inv'
<1> DEFINE P == Process(r)
<1>1. /\ starting[r] \in {"prepare", "spawned"} /\ StartReturns(r, FALSE, "failed")
      /\ current' = None /\ alive' = alive \ {P} /\ pidFile' = NoPid
  BY DEF StartFails
<1>2. P \in Processes /\ P \notin orphans /\ Held \subseteq {P}
  BY <1>1, StartIsAlone
<1>3. handler' = [handler EXCEPT ![P] = NoHandler]
  BY DEF StartFails
<1>4. /\ UNCHANGED <<instance, read, stops, record, timer, service, orphans, met, overtaken>>
      /\ active' \in Fingerprints \cup {None} /\ undone' \in BOOLEAN
      /\ status' \in Statuses
      /\ starting' = [starting EXCEPT ![r] = "none"]
      /\ refresh' = refresh \/ (refresh = "starting" /\ refresh' = "idle")
  BY <1>1, StartReturnsDoes DEF Statuses
<1>5. /\ starting' \in StartType /\ starting'[r] = "none"
      /\ \A q \in Runtimes \ {r} : starting'[q] = starting[q]
  BY <1>4 DEF Inv, WorkerTypeOK, StartType
<1> HIDE DEF P
<1>6. /\ handler' \in HandlerType /\ handler'[P].step = "none" /\ handler'[P].runtime = None
      /\ \A p \in Processes : p # P => handler'[p] = handler[p]
  BY <1>2, <1>3 DEF Inv, WorkerTypeOK, HandlerType, NoHandler
<1>7. \A p \in Processes : handler'[p].step \in ExitPhases <=> handler'[p].runtime # None
  BY <1>6 DEF Inv, WorkerTypeOK, ExitPhases
<1>8. WorkerTypeOK'
  BY <1>1, <1>2, <1>4, <1>5, <1>6, <1>7
     DEF Inv, WorkerTypeOK, StartType, HandlerType, Statuses
<1>9. Held' = {}
  BY <1>1, <1>2, <1>4, <1>6 DEF Held, HasPid
<1>10. StartMoves(r)
  BY <1>1, <1>4, <1>5, <1>6, <1>9 DEF StartMoves, P
<1> QED BY <1>8, <1>10, StartMovesStep

\* A restart that is scheduled begins, unless a stop has come between.
LEMMA TimerFiresStep ==
    ASSUME Inv, NEW r \in Runtimes, TimerFires(r) PROVE Inv'
<1>1. /\ stops' = stops /\ record' = record /\ handler' = handler /\ alive' = alive
      /\ current' = current /\ pidFile' = pidFile /\ status' = status /\ service' = service
      /\ refresh' = refresh /\ read' = read /\ active' = active /\ instance' = instance
      /\ orphans' = orphans /\ met' = met /\ undone' = undone /\ overtaken' = overtaken
      /\ r \in timer /\ timer' = timer \ {r}
  BY DEF TimerFires, daemon, history
<1>2. starting' = [starting EXCEPT ![r] = IF record[r].stopping THEN @ ELSE "prepare"]
  BY DEF TimerFires
<1>3. /\ starting' \in StartType
      /\ \A q \in Runtimes \ {r} : starting'[q] = starting[q]
      /\ starting'[r] = IF record[r].stopping THEN starting[r] ELSE "prepare"
  BY <1>2 DEF Inv, WorkerTypeOK, StartType
<1>4. WorkerTypeOK'
  BY <1>1, <1>3 DEF Inv, WorkerTypeOK, StartType
<1>5. /\ Held' = Held /\ Known' = Known /\ Handling' = Handling /\ Armed' = Armed \ {r}
      /\ Ending' = Ending
      /\ \A p \in Processes : Superseding(p)' = Superseding(p)
      /\ \A q \in Runtimes : Process(q)' = Process(q)
  BY <1>1 DEF Held, HasPid, Known, Handling, Armed, Ending, Superseding, Process
<1>6. CASE record[r].stopping
  <2>1. \A q \in Runtimes : starting'[q] = starting[q]
    BY <1>3, <1>6
  <2>2. /\ Armed' = Armed /\ (NoneStarting' <=> NoneStarting)
        /\ \A p \in Processes : /\ OfStart(p)' <=> OfStart(p)
                                /\ BeingStarted(p)' <=> BeingStarted(p)
        /\ \A q \in Runtimes : /\ Uses(q)' => Uses(q)
                               /\ Restartable(q)' => Restartable(q)
    BY <1>1, <1>5, <1>6, <2>1, ProcessFacts
       DEF Armed, NoneStarting, OfStart, BeingStarted, Process, Uses, Restartable
  <2>3. Alone'
    BY <1>5, <2>1, <2>2, Subsets DEF Inv, Alone
  <2>4. ChildrenWatched'
    <3>1. \A p \in Processes :
             /\ handler'[p].step = "watch" => p \in Known'
             /\ handler'[p].step \in {"unreported", "early"} => p \notin alive'
             /\ handler'[p].step = "early" => OfStart(p)' /\ starting'[p[1]] # "prepare"
      BY <1>1, <1>5, <2>1, <2>2, ProcessFacts DEF Inv, ChildrenWatched
    <3>2. \A q \in Runtimes :
             /\ Uses(q)' => \A p \in alive' : p[1] = q => handler'[p].step \in ChildPhases
             /\ starting'[q] # "none" => \A p \in Processes : handler'[p].runtime # q
             /\ starting'[q] = "prepare" => Process(q)' \notin Held'
      BY <1>1, <1>5, <2>1, <2>2 DEF Inv, ChildrenWatched
    <3> QED BY <3>1, <3>2 DEF ChildrenWatched
  <2>5. AttemptsShared' /\ StopsLast'
    <3>1. AttemptsShared'
      BY <1>1 DEF Inv, AttemptsShared
    <3>2. StopsLast'
      BY <1>1, <1>5, <2>2 DEF Inv, StopsLast
    <3> QED BY <3>1, <3>2
  <2>6. RestartsInOrder' /\ Findable' /\ SignalsTheWorker'
    <3>1. RestartsInOrder'
      BY <1>1, <1>5, <2>1, <2>2 DEF Inv, RestartsInOrder
    <3>2. Findable'
      BY <1>1, <1>5, <2>2, Subsets DEF Inv, Findable
    <3>3. SignalsTheWorker'
      BY <1>1, <1>5, <2>1 DEF Inv, SignalsTheWorker
    <3> QED BY <3>1, <3>2, <3>3
  <2>7. LastStop' /\ ReadyToStart' /\ LastOfAll'
    BY <1>1, <1>5, <2>2 DEF Inv, LastStop, ReadyToStart, LastOfAll, NoneHeld
  <2> QED BY <1>4, <2>3, <2>4, <2>5, <2>6, <2>7 DEF Inv
<1>7. CASE ~record[r].stopping
  <2>1. r \in Armed /\ Restartable(r)
    BY <1>1, <1>7 DEF Armed, Restartable
  <2>2. /\ Armed = {r} /\ Handling = {} /\ NoneStarting /\ Held = {} /\ pidFile = NoPid
    <3>1. Armed = {r} /\ Handling = {} /\ NoneStarting
      BY <2>1 DEF Inv, Alone, NoneStarting
    <3>2. \A p \in Held : ~OfStart(p)
      BY <3>1, Subsets, ProcessFacts DEF OfStart, NoneStarting
    <3> QED BY <2>1, <3>1, <3>2 DEF Inv, Alone, RestartsInOrder
  <2>3. ~Ending /\ (service # "up" => met) /\ refresh \notin {"restop", "start"}
    BY <2>1 DEF Inv, StopsLast, Ending, Deploying
  <2>4. \A p \in Processes : handler[p].runtime # r
    <3> SUFFICES ASSUME NEW p \in Processes, handler[p].runtime = r PROVE FALSE
      OBVIOUS
    <3>1. Superseding(p)
      BY <2>2, NoneIsNoRuntime DEF Handling
    <3> QED BY <1>7, <3>1 DEF Inv, AttemptsShared, Superseding
  <2>5. \A q \in Runtimes : q # r => starting'[q] = "none" /\ starting[q] = "none"
    BY <1>3, <2>2 DEF NoneStarting
  <2>6. Alone'
    BY <1>5, <2>2, <2>5 DEF Alone
  <2>7. ChildrenWatched'
    <3>1. \A q \in Runtimes : Uses(q)' => Uses(q)
      BY <1>1, <1>5, <2>1, <2>5 DEF Uses
    <3>2. \A p \in Processes :
             /\ handler'[p].step = "watch" => p \in Known'
             /\ handler'[p].step \in {"unreported", "early"} => p \notin alive'
             /\ handler'[p].step # "early"
      BY <1>1, <1>5, <2>2, ProcessFacts DEF Inv, ChildrenWatched, OfStart, NoneStarting
    <3>3. \A q \in Runtimes :
             /\ Uses(q)' => \A p \in alive' : p[1] = q => handler'[p].step \in ChildPhases
             /\ starting'[q] # "none" => \A p \in Processes : handler'[p].runtime # q
             /\ starting'[q] = "prepare" => Process(q)' \notin Held'
      BY <1>1, <1>5, <2>2, <2>4, <2>5, <3>1 DEF Inv, ChildrenWatched
    <3> QED BY <3>2, <3>3 DEF ChildrenWatched
  <2>8. AttemptsShared'
    BY <1>1 DEF Inv, AttemptsShared
  <2>9. StopsLast'
    <3>1. \A q \in Runtimes : Restartable(q)' => Restartable(q)
      BY <1>1, <1>5, <2>1, <2>5 DEF Restartable
    <3> QED BY <1>1, <1>5, <2>3, <3>1 DEF Inv, StopsLast
  <2>10. RestartsInOrder' /\ Findable' /\ SignalsTheWorker'
    BY <1>1, <1>5, <2>2, <2>3 DEF Inv, RestartsInOrder, Findable, SignalsTheWorker
  <2>11. LastStop' /\ ReadyToStart' /\ LastOfAll'
    BY <1>1, <1>5, <2>2, <2>3 DEF Inv, LastStop, ReadyToStart, LastOfAll, AttemptsShared
  <2> QED BY <1>4, <2>6, <2>7, <2>8, <2>9, <2>10, <2>11 DEF Inv
<1> QED BY <1>6, <1>7

LEMMA StartsStep ==
    ASSUME Inv, Starts PROVE Inv'
<1> DEFINE free == {q \in Runtimes : Unused(q)}
           r == Min(free)
<1>1. /\ stops' = stops /\ current' = current /\ handler' = handler /\ alive' = alive
      /\ pidFile' = pidFile /\ status' = status /\ service' = service
      /\ read' = read /\ active' = active /\ instance' = instance
      /\ orphans' = orphans /\ met' = met /\ undone' = undone /\ overtaken' = overtaken
      /\ refresh = "start" /\ refresh' = "starting" /\ free # {}
      /\ timer' = timer \ {r}
  BY DEF Starts, history
<1>2. /\ starting' = [starting EXCEPT ![r] = "prepare"]
      /\ record' = [record EXCEPT ![r] = NewRecord]
  BY DEF Starts
<1>3. r \in Runtimes /\ Unused(r)
  <2>1. free \in SUBSET Runtimes
    OBVIOUS
  <2>2. r \in free
    BY <1>1, <2>1, LeastUnused
  <2> QED BY <2>2
<1> HIDE DEF r, free
<1>4. /\ NoneHeld /\ NoneStarting /\ current = None
      /\ \A p \in Processes : handler[p].runtime # None => Superseding(p)
      /\ Held = {} /\ pidFile = NoPid
  BY <1>1 DEF Inv, ReadyToStart, NoneHeld
<1>5. /\ starting' \in StartType /\ starting'[r] = "prepare"
      /\ \A q \in Runtimes : q # r => starting'[q] = "none"
  BY <1>2, <1>3, <1>4 DEF Inv, WorkerTypeOK, StartType, NoneStarting
<1>6. /\ record' \in [Runtimes -> RecordType] /\ record'[r] = NewRecord
      /\ \A q \in Runtimes : q # r => record'[q] = record[q]
  <2>1. NewRecord \in RecordType
    BY LocalWorkerAssumption DEF NewRecord, RecordType
  <2> QED BY <1>2, <1>3, <2>1 DEF Inv, WorkerTypeOK, RecordType
<1>7. WorkerTypeOK'
  BY <1>1, <1>5, <1>6 DEF Inv, WorkerTypeOK, StartType, RecordType
<1>8. /\ \A p \in Processes : handler[p].runtime # r
      /\ \A p \in Processes : p[1] = r => p \notin alive
      /\ \A c \in Callers : stops[c].runtime # r
  BY <1>3 DEF Unused
<1>9. Ending /\ \A q \in Runtimes : ~Restartable(q)
  BY <1>1 DEF Inv, StopsLast, Ending, Deploying
<1>10. service # "up" => met
  BY <1>1 DEF Inv, StopsLast, AttemptsShared
<1>11. \A p \in Processes : handler'[p].runtime # None => Superseding(p)'
  <2> SUFFICES ASSUME NEW p \in Processes, handler[p].runtime # None PROVE Superseding(p)'
    BY <1>1
  <2>1. Superseding(p) /\ handler[p].runtime \in Runtimes /\ handler[p].runtime # r
    BY <1>4, <1>8, HandlerFacts DEF Inv
  <2>2. record'[handler[p].runtime] = record[handler[p].runtime]
    BY <1>6, <2>1
  <2> QED BY <1>1, <2>1, <2>2 DEF Superseding
<1>12. Held' = {} /\ Handling' = {} /\ Armed' = {}
  <2>1. Armed' = {}
    <3> SUFFICES ASSUME NEW q \in timer, q # r, ~record'[q].stopping PROVE FALSE
      BY <1>1 DEF Armed
    <3>1. q \in Runtimes /\ ~record[q].stopping
      BY <1>6 DEF Inv, WorkerTypeOK
    <3> QED BY <1>9, <3>1 DEF Restartable
  <2> QED BY <1>1, <1>4, <1>11, <2>1 DEF Held, HasPid, Handling
<1>13. Alone'
  BY <1>5, <1>12 DEF Alone
<1>14. ChildrenWatched'
  <2>1. \A p \in Processes :
           /\ handler'[p].step = "watch" => p \in Known'
           /\ handler'[p].step \in {"unreported", "early"} => p \notin alive'
           /\ handler'[p].step # "early"
    BY <1>1, <1>4, ProcessFacts DEF Inv, ChildrenWatched, OfStart, NoneStarting, Known
  <2>2. ASSUME NEW q \in Runtimes, Uses(q)', NEW p \in alive', p[1] = q
        PROVE  handler'[p].step \in ChildPhases
    <3>1. q # r /\ p \in alive
      BY <1>1, <1>7, <1>8, <2>2 DEF WorkerTypeOK
    <3>2. Uses(q)
      BY <1>1, <1>5, <1>12, <2>2, <3>1 DEF Uses
    <3> QED BY <1>1, <2>2, <3>1, <3>2 DEF Inv, ChildrenWatched
  <2>3. \A q \in Runtimes :
           /\ starting'[q] # "none" => \A p \in Processes : handler'[p].runtime # q
           /\ starting'[q] = "prepare" => Process(q)' \notin Held'
    BY <1>1, <1>5, <1>8, <1>12
  <2> QED BY <2>1, <2>2, <2>3 DEF ChildrenWatched
<1>15. AttemptsShared'
  <2>1. \A c \in Callers : stops[c].runtime # None =>
           stops[c].runtime \in Runtimes /\ record'[stops[c].runtime] = record[stops[c].runtime]
    BY <1>6, <1>8 DEF Inv, WorkerTypeOK
  <2>2. /\ stops'["refresh"].step # "none" <=> refresh' \in {"stop", "restop"}
        /\ stops'["shutdown"].step # "none" <=> service' = "stopping"
        /\ stops'["refresh"].step = "join" => service' # "up"
        /\ stops'["shutdown"].step = "join" => met'
        /\ service' = "up" => ~met'
    BY <1>1 DEF Inv, AttemptsShared
  <2>3. \A c \in Callers :
           /\ stops'[c].step = "none" => stops'[c] = NoStop
           /\ stops'[c].step = "join" => stops'[c].runtime # None
           /\ stops'[c].step \in {"read", "join"} => stops'[c].pid = NoPid
           /\ stops'[c].step \in {"signal", "wait", "remove"} => stops'[c].pid # NoPid
           /\ stops'[c].runtime # None => record'[stops'[c].runtime].stopping
           /\ stops'[c].runtime # None /\ stops'[c].step # "join" =>
                 /\ record'[stops'[c].runtime].attempt
                 /\ \A d \in Callers \ {c} :
                       stops'[d].runtime = stops'[c].runtime => stops'[d].step = "join"
    BY <1>1, <2>1 DEF Inv, AttemptsShared
  <2>4. \A q \in Runtimes :
           /\ record'[q].attempt =>
                 \E c \in Callers : stops'[c].runtime = q /\ stops'[c].step # "join"
           /\ record'[q].attempt \/ record'[q].stopped => record'[q].stopping
    BY <1>1, <1>6 DEF Inv, AttemptsShared, NewRecord
  <2> QED BY <2>2, <2>3, <2>4 DEF AttemptsShared
<1>16. StopsLast'
  BY <1>1, <1>10 DEF StopsLast, Ending, Deploying
<1>17. RestartsInOrder'
  <2>1. \A p \in Processes : handler'[p].step # "restart"
    BY <1>1, <1>4, HandlerFacts DEF Inv, Superseding, ExitPhases
  <2> QED BY <1>1, <1>4, <1>12, <2>1 DEF RestartsInOrder
<1>18. Findable' /\ SignalsTheWorker'
  BY <1>1, <1>10, <1>12 DEF Findable, SignalsTheWorker, Ending, Deploying
<1>19. LastStop' /\ ReadyToStart' /\ LastOfAll'
  BY <1>1, <1>10, <1>12 DEF Inv, LastStop, ReadyToStart, LastOfAll, AttemptsShared
<1> QED BY <1>7, <1>13, <1>14, <1>15, <1>16, <1>17, <1>18, <1>19 DEF Inv

-----------------------------------------------------------------------------
(* What else happens, and the theorems.                                    *)

\* A step that changes no part of the workers that WorkerInv speaks of.
LEMMA NothingMovesStep ==
    ASSUME Inv, WorkerTypeOK', refresh' \in {refresh, "idle"},
           refresh' = refresh \/ (refresh = "acquire" /\ status' = "failed"),
           status' \in {status, "failed"},
           UNCHANGED <<service, stops, current, record, starting, timer, handler, alive, pidFile,
                       orphans, met, overtaken>>
    PROVE  Inv'
<1>1. /\ stops' = stops /\ current' = current /\ record' = record /\ starting' = starting
      /\ timer' = timer /\ handler' = handler /\ alive' = alive /\ pidFile' = pidFile
      /\ service' = service /\ orphans' = orphans /\ met' = met
  OBVIOUS
<1>2. /\ Held' = Held /\ Armed' = Armed /\ Handling' = Handling /\ Known' = Known
      /\ (NoneStarting' <=> NoneStarting) /\ (NoneHeld' <=> NoneHeld)
      /\ \A p \in Processes : /\ OfStart(p)' = OfStart(p) /\ BeingStarted(p)' = BeingStarted(p)
                              /\ Superseding(p)' = Superseding(p)
      /\ \A r \in Runtimes : /\ Uses(r)' = Uses(r) /\ Process(r)' = Process(r)
                             /\ Restartable(r)' = Restartable(r)
  BY <1>1 DEF Held, HasPid, Armed, Handling, Known, NoneStarting, NoneHeld, OfStart, BeingStarted,
              Superseding, Uses, Process, Restartable
<1>3. /\ Ending' => Ending
      /\ refresh' # refresh => Ending /\ (service # "up" => met)
  BY <1>1 DEF Inv, StopsLast, Ending, Deploying
<1>4. Alone'
  BY <1>1, <1>2, Subsets DEF Inv, Alone
<1>5. ChildrenWatched'
  <2>1. \A p \in Processes :
           /\ handler'[p].step = "watch" => p \in Known'
           /\ handler'[p].step \in {"unreported", "early"} => p \notin alive'
           /\ handler'[p].step = "early" => OfStart(p)' /\ starting'[p[1]] # "prepare"
    BY <1>1, <1>2 DEF Inv, ChildrenWatched
  <2>2. \A r \in Runtimes :
           /\ Uses(r)' => \A p \in alive' : p[1] = r => handler'[p].step \in ChildPhases
           /\ starting'[r] # "none" => \A p \in Processes : handler'[p].runtime # r
           /\ starting'[r] = "prepare" => Process(r)' \notin Held'
    BY <1>1, <1>2 DEF Inv, ChildrenWatched
  <2> QED BY <2>1, <2>2 DEF ChildrenWatched
<1>6. AttemptsShared'
  BY <1>1 DEF Inv, AttemptsShared
<1>7. StopsLast'
  <2>1. \A r \in Runtimes : Restartable(r)' <=> Restartable(r)
    BY <1>2
  <2> QED BY <1>1, <1>2, <1>3, <2>1 DEF Inv, StopsLast
<1>8. RestartsInOrder'
  BY <1>1, <1>2 DEF Inv, RestartsInOrder
<1>9. Findable' /\ SignalsTheWorker'
  <2>1. Findable'
    BY <1>1, <1>2, Subsets DEF Inv, Findable, Deploying
  <2>2. SignalsTheWorker'
    BY <1>1, <1>2, <1>3 DEF Inv, SignalsTheWorker
  <2> QED BY <2>1, <2>2
<1>10. LastStop' /\ ReadyToStart' /\ LastOfAll'
  <2>1. LastStop' /\ ReadyToStart'
    BY <1>1, <1>2 DEF Inv, LastStop, ReadyToStart
  <2>2. LastOfAll'
    BY <1>1, <1>2 DEF Inv, LastOfAll
  <2> QED BY <2>1, <2>2
<1> QED BY <1>4, <1>5, <1>6, <1>7, <1>8, <1>9, <1>10 DEF Inv

LEMMA AcquireFailsStep ==
    ASSUME Inv, AcquireFails PROVE Inv'
<1>1. /\ refresh = "acquire" /\ refresh' = "idle" /\ status' = "failed"
      /\ undone' = (undone \/ active # None) /\ active' = active
      /\ UNCHANGED <<instance, read, service, alive, pidFile, orphans, met, overtaken>>
      /\ UNCHANGED <<stops, current, record, starting, timer, handler>>
  BY DEF AcquireFails, DeployFails, supervisor
<1>2. WorkerTypeOK'
  BY <1>1 DEF Inv, WorkerTypeOK, Statuses
<1> QED BY <1>1, <1>2, NothingMovesStep

LEMMA EditsAreTyped ==
    ASSUME WorkerTypeOK, Edits
    PROVE  /\ WorkerTypeOK' /\ overtaken' = overtaken
           /\ UNCHANGED <<daemon, supervisor, alive, pidFile, status, history>>
<1>1. /\ instance' \in Instances
      /\ UNCHANGED <<daemon, supervisor, alive, pidFile, status, history>>
  <2>1. instance \in Instances
    BY DEF WorkerTypeOK
  <2> QED BY <2>1 DEF Edits, Instances
<1> QED BY <1>1 DEF WorkerTypeOK, daemon, supervisor, history

LEMMA EditsStep ==
    ASSUME Inv, Edits PROVE Inv'
<1>1. /\ WorkerTypeOK' /\ UNCHANGED <<daemon, supervisor, alive, pidFile, status, history>>
  BY EditsAreTyped DEF Inv
<1> QED BY <1>1, NothingMovesStep DEF daemon, supervisor, history

\* When a daemon begins, nothing is started, stopped or handled.
Fresh ==
    /\ WorkerTypeOK /\ service = "up" /\ refresh = "idle" /\ ~met
    /\ stops = NoStops /\ current = None /\ record = NewRecords /\ starting = NoStarts
    /\ timer = {} /\ handler = NoHandlers /\ Held \subseteq {pidFile}

LEMMA FreshIsSound == Fresh => Inv
<1> SUFFICES ASSUME Fresh PROVE Inv
  OBVIOUS
<1> USE DEF Fresh
<1>1. /\ \A p \in Processes : handler[p].step = "none" /\ handler[p].runtime = None
      /\ \A r \in Runtimes : starting[r] = "none"
      /\ \A r \in Runtimes : ~record[r].attempt /\ ~record[r].stopped /\ ~record[r].stopping
      /\ \A c \in Callers : stops[c] = NoStop
  BY DEF NoHandlers, NoHandler, NoStarts, NewRecords, NewRecord, NoStops
<1>2. Armed = {} /\ Handling = {} /\ ~Ending
  BY <1>1 DEF Armed, Handling, Ending, Deploying
<1>3. Alone
  BY <1>1, <1>2 DEF Alone
<1>4. ChildrenWatched
  <2>1. \A r \in Runtimes : ~Uses(r)
    BY <1>1, <1>2, NoneIsNoRuntime DEF Uses
  <2> QED BY <1>1, <2>1 DEF ChildrenWatched
<1>5. AttemptsShared
  BY <1>1 DEF AttemptsShared, NoStop, Callers
<1>6. StopsLast
  <2>1. \A r \in Runtimes : ~Restartable(r)
    BY <1>1, <1>2, NoneIsNoRuntime DEF Restartable
  <2> QED BY <1>2, <2>1 DEF StopsLast
<1>7. RestartsInOrder
  BY <1>1, <1>2 DEF RestartsInOrder
<1>8. Findable
  BY DEF Findable
<1>9. SignalsTheWorker /\ LastStop /\ ReadyToStart /\ LastOfAll
  BY <1>1, <1>2 DEF SignalsTheWorker, LastStop, ReadyToStart, LastOfAll, NoStop, Callers
<1>10. WorkerTypeOK
  OBVIOUS
<1> HIDE DEF Fresh
<1> QED BY <1>3, <1>4, <1>5, <1>6, <1>7, <1>8, <1>9, <1>10 DEF Inv

\* The values a daemon begins with.
LEMMA NewValues ==
    /\ NoStops \in [Callers -> StopType] /\ NewRecords \in [Runtimes -> RecordType]
    /\ NoStarts \in StartType /\ NoHandlers \in HandlerType
    /\ \A p \in Processes : NoHandlers[p].step \in ExitPhases <=> NoHandlers[p].runtime # None
<1>1. NoStop \in StopType /\ NewRecord \in RecordType
  BY LocalWorkerAssumption DEF NoStop, StopType, StopPhases, NewRecord, RecordType
<1>2. /\ NoHandler \in [step : {"none"} \cup ChildPhases \cup ExitPhases,
                        runtime : Runtimes \cup {None}]
      /\ NoHandler.step \notin ExitPhases /\ NoHandler.runtime = None
  BY DEF NoHandler, ExitPhases
<1>3. NoStarts \in StartType
  BY DEF NoStarts, StartType
<1> QED BY <1>1, <1>2, <1>3 DEF NoStops, NewRecords, NoHandlers, HandlerType

LEMMA RestartsStep ==
    ASSUME Inv, Restarts PROVE Inv'
<1>1. /\ service' = "up" /\ refresh' = "idle" /\ active' = None
      /\ stops' = NoStops /\ current' = None /\ record' = NewRecords
      /\ starting' = NoStarts /\ timer' = {} /\ handler' = NoHandlers
      /\ met' = FALSE /\ undone' = FALSE /\ overtaken' = FALSE
      /\ orphans' = alive \cap (orphans \cup {p \in Processes : p # pidFile})
      /\ UNCHANGED <<instance, read, alive, pidFile, status>>
  BY DEF Restarts, NewDaemon
<1>2. WorkerTypeOK'
  BY <1>1, NewValues
     DEF Inv, WorkerTypeOK, StopType, RecordType, StartType, HandlerType
<1>3. Held' \subseteq {pidFile'}
  BY <1>1 DEF Held, HasPid, NoHandlers, NoHandler
<1>4. Fresh'
  BY <1>1, <1>2, <1>3 DEF Fresh
<1> QED BY <1>4, FreshIsSound, PTL

\* Whatever a daemon that was not followed leaves, the next one begins with
\* the invariant.
LEMMA RestartsAnewStep ==
    ASSUME WorkerTypeOK, RestartsAnew PROVE Inv'
<1>1. /\ service' = "up" /\ refresh' = "idle" /\ active' = None
      /\ stops' = NoStops /\ current' = None /\ record' = NewRecords
      /\ starting' = NoStarts /\ timer' = {} /\ handler' = NoHandlers
      /\ met' = FALSE /\ undone' = FALSE /\ overtaken' = FALSE
      /\ alive' \subseteq Processes /\ pidFile' \in Processes \cup {NoPid}
      /\ status' \in Statuses /\ orphans' = alive' \ {pidFile'}
      /\ UNCHANGED <<instance, read>>
  BY DEF RestartsAnew, NewDaemon
<1>2. WorkerTypeOK'
  BY <1>1, NewValues DEF WorkerTypeOK, StopType, RecordType, StartType, HandlerType
<1>3. Held' \subseteq {pidFile'}
  BY <1>1 DEF Held, HasPid, NoHandlers, NoHandler
<1>4. Fresh'
  BY <1>1, <1>2, <1>3 DEF Fresh
<1> QED BY <1>4, FreshIsSound, PTL

LEMMA InitInv == WorkerInit => Inv
<1> SUFFICES ASSUME WorkerInit PROVE Inv
  OBVIOUS
<1>1. instance \in Instances
  BY LocalWorkerAssumption DEF WorkerInit, Instances
<1>2. WorkerTypeOK
  BY <1>1, NewValues
     DEF WorkerInit, WorkerTypeOK, StopType, RecordType, StartType, HandlerType, Statuses
<1>3. Held = {}
  BY DEF WorkerInit, Held, HasPid, NoHandlers, NoHandler
<1> QED BY <1>2, <1>3, FreshIsSound DEF WorkerInit, Fresh

LEMMA HandlerStepsStep ==
    ASSUME Inv, NEW p \in Processes, HandlerSteps(p) PROVE Inv'
BY ExitReportedStep, SupersededStep, HandlerBeginsStep, HandlerRemovesStep, HandlerDecidesStep,
   SchedulesRestartStep, GivesUpStep DEF HandlerSteps

LEMMA StopStepsStep ==
    ASSUME Inv, NEW c \in Callers, StopSteps(c) PROVE Inv'
BY StopReadsStep, StopSignalsStep, StopSeesExitStep, StopRemovesStep, StopForgetsStep,
   StopJoinedStep DEF StopSteps

LEMMA StartStepsStep ==
    ASSUME Inv, NEW r \in Runtimes, StartSteps(r) PROVE Inv'
BY SpawnsStep, WritesPidStep, StartedStep DEF StartSteps

\* A step of a daemon that is followed.
LEMMA StepsInv ==
    ASSUME Inv, Steps PROVE WorkerTypeOK' /\ (~overtaken' => Inv')
<1>0. Inv' => WorkerTypeOK'
  BY DEF Inv
<1>1. ASSUME NEW p \in Processes, Exits(p) \/ Dies(p) \/ HandlerSteps(p) \/ HandlerFails(p)
      PROVE  Inv'
  BY <1>1, EndsStep, HandlerStepsStep, HandlerFailsStep DEF Exits, Dies
<1>2. ASSUME NEW c \in Callers, StopSteps(c) \/ StopRefused(c) \/ StopTimesOut(c) PROVE Inv'
  BY <1>2, StopStepsStep, StopRefusedStep, StopTimesOutStep
<1>3. ASSUME NEW r \in Runtimes,
             \/ StartSteps(r) \/ StartRejected(r) \/ StartBreaksOff(r)
             \/ StartFails(r) \/ TimerFires(r)
      PROVE  Inv'
  BY <1>3, StartStepsStep, StartRejectedStep, StartBreaksOffStep, StartFailsStep, TimerFiresStep
<1>4. CASE Refreshes \/ AcquireFails \/ Starts \/ ShutsDown
  BY <1>0, <1>4, RefreshesStep, AcquireFailsStep, StartsStep, ShutsDownStep
<1>5. CASE Acquires
  BY <1>5, AcquiresStep
<1> QED BY <1>0, <1>1, <1>2, <1>3, <1>4, <1>5 DEF Steps

LEMMA NextInv == WorkerInv /\ [Next]_vars => WorkerInv'
<1> SUFFICES ASSUME WorkerInv, [Next]_vars PROVE WorkerTypeOK' /\ (~overtaken' => Inv')
  BY InvIsWorkerInv, PTL
<1>0. WorkerTypeOK /\ (~overtaken => Inv) /\ (Inv' => WorkerTypeOK')
  BY InvIsWorkerInv DEF Inv
<1>1. CASE Edits
  <2>1. overtaken' = overtaken /\ WorkerTypeOK'
    BY <1>0, <1>1, EditsAreTyped
  <2> QED BY <1>0, <1>1, <2>1, EditsStep
<1>2. CASE Restarts
  BY <1>0, <1>2, RestartsStep DEF Restarts
<1>3. CASE RestartsAnew
  BY <1>0, <1>3, RestartsAnewStep
<1>4. CASE ~overtaken /\ Steps
  BY <1>0, <1>4, StepsInv
<1>5. CASE UNCHANGED vars
  <2>1. /\ UNCHANGED <<instance, daemon, supervisor, alive, pidFile, status, history>>
    BY <1>5 DEF vars
  <2>2. WorkerTypeOK' /\ overtaken' = overtaken
    BY <1>0, <2>1 DEF WorkerTypeOK, daemon, supervisor, history
  <2>3. ~overtaken => Inv'
    BY <1>0, <2>1, <2>2, NothingMovesStep DEF daemon, supervisor, history
  <2> QED BY <2>2, <2>3
<1> QED BY <1>1, <1>2, <1>3, <1>4, <1>5 DEF Next

\* Whatever the restart policy, the refreshes, the stops and the restarts of
\* the daemon do, until a deployment overtakes an exit, a start or a stop of
\* before it: one worker at a time, found by the pid file until a shutdown
\* meets a deployment, stopped by the stop that signals it, and not started
\* again once a stop is under way.
THEOREM WorkersAreSound == WorkerSpec => []WorkerInv
<1>1. WorkerInit => WorkerInv
  BY InitInv, InvIsWorkerInv DEF Inv
<1> QED BY <1>1, NextInv, PTL DEF WorkerSpec

\* Of the two things a user of the supervisor relies on: unless a deployment
\* overtakes what was in progress, workers never multiply, and until a shutdown
\* meets a deployment the pid file names the one there is, so that the next
\* daemon can stop it.
THEOREM WorkersDoNotMultiply == WorkerSpec => [](overtaken \/ (OneWorker /\ Findable))
<1>1. WorkerInv => overtaken \/ (OneWorker /\ Findable)
  BY DEF WorkerInv
<1> QED BY <1>1, WorkersAreSound, PTL

\* After a shutdown that met neither a refresh nor a start in progress, and
\* that does not say that its stop failed, no worker runs, and none is started,
\* unless a deployment of this daemon overtook something.
THEOREM ShutdownIsFinal == WorkerSpec => []ShutdownHolds
<1>1. WorkerInv => ShutdownHolds
  <2> SUFFICES ASSUME WorkerInv, service = "done", ~met, ~overtaken
               PROVE  /\ status \notin {"failed", "stopping"} => Known = {}
                      /\ \A r \in Runtimes : starting[r] = "none"
    BY DEF ShutdownHolds
  <2>0. Inv
    BY InvIsWorkerInv
  <2>1. Known \subseteq Held
    BY <2>0 DEF Inv, WorkerTypeOK, Known, Held, HasPid
  <2>2. status \notin {"failed", "stopping"} => Held = {}
    BY <2>0 DEF Inv, LastOfAll
  <2>3. NoneStarting
    BY <2>0 DEF Inv, StopsLast
  <2> QED BY <2>1, <2>2, <2>3 DEF NoneStarting
<1> QED BY <1>1, WorkersAreSound, PTL

-----------------------------------------------------------------------------
=============================================================================
