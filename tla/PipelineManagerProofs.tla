----------------------- MODULE PipelineManagerProofs -----------------------
(***************************************************************************)
(* Proofs about the pipeline manager: for any configurations, changes of   *)
(* files and failures of starts.                                           *)
(***************************************************************************)
EXTENDS PipelineManager, TLAPS

USE PipelineAssumption

-----------------------------------------------------------------------------
(* Type correctness.                                                       *)

Rescanned ==
    [step : {"idle", "read", "apply"} \cup Busy, unread : SUBSET Names,
     found : [Names -> Nat], todo : SUBSET Names, at : AtMostOne, waits : BOOLEAN]

LEMMA NoRescanTyped ==
    /\ NoRescan \in Rescanned
    /\ \A s \in SUBSET Names : [NoRescan EXCEPT !.step = "read", !.unread = s] \in Rescanned
<1>1. [n \in Names |-> None] \in [Names -> Nat] /\ {} \in AtMostOne /\ {} \in SUBSET Names
  BY DEF None, AtMostOne
<1> QED BY <1>1 DEF NoRescan, Rescanned

LEMMA InitManagerInv == PipelineInit => ManagerInv
<1> SUFFICES ASSUME PipelineInit PROVE ManagerInv
  OBVIOUS
<1>1. rescan \in Rescanned /\ rescan.step = "idle" /\ rescan.at = {} /\ ~rescan.waits
  BY NoRescanTyped DEF PipelineInit, NoRescan
<1>2. disk \in [Names -> Nat] /\ {} \in AtMostOne
  BY DEF PipelineInit, None, First, AtMostOne
<1>3. /\ \A n \in Names : pipelines[n] = None /\ hashes[n] = None /\ live[n] = 0
      /\ pipelines \in [Names -> Nat] /\ hashes \in [Names -> Nat] /\ live \in [Names -> Nat]
  BY DEF PipelineInit, None
<1>4. /\ ~running /\ ~watching /\ ~event /\ ~timer /\ ~queued /\ ~missed
      /\ running \in BOOLEAN /\ watching \in BOOLEAN /\ event \in BOOLEAN
      /\ timer \in BOOLEAN /\ queued \in BOOLEAN /\ missed \in BOOLEAN
  BY DEF PipelineInit
<1>5. /\ torn = {} /\ edits = 0 /\ starting = "off" /\ stopping = "no" /\ closing = {} /\ drains = {}
      /\ failures = 0 /\ stray = {}
  BY DEF PipelineInit
<1>6. PipelineTypeOK
  BY <1>1, <1>2, <1>3, <1>4, <1>5 DEF PipelineTypeOK, Rescanned, Busy
<1>7. OneInstance /\ IdleIsCurrent /\ InstancesCounted /\ StopsAwaited
  BY <1>1, <1>3, <1>4, <1>5 DEF OneInstance, IdleIsCurrent, InstancesCounted, StopsAwaited, Stopping, Creating
<1>8. StoppedForgets /\ RescanFollowsFound /\ ReadIsFresh /\ QuietBeforeStart
  BY <1>1, <1>3, <1>4, <1>5 DEF StoppedForgets, RescanFollowsFound, ReadIsFresh, QuietBeforeStart
<1> QED BY <1>6, <1>7, <1>8 DEF ManagerInv

\* The actions, to be taken in turn.
Acts ==
    \/ DropsGone \/ RescanEnds
    \/ \E n \in Names : \/ Read(n) \/ Dropped(n) \/ Applies(n) \/ Replaced(n)
                        \/ CreateReturns(n) \/ Drained(n)
                        \/ Rewrites(n) \/ Written(n) \/ Deletes(n)
    \/ FirstRescan \/ StartEnds \/ StopEnds \/ Start \/ Stop
    \/ Reported \/ TimerFires \/ WatcherFails

LEMMA NextIsAct == PipelineNext => Acts
BY DEF PipelineNext, Rescans, Lifecycle, Acts

LEMMA Known ==
    ASSUME ManagerInv
    PROVE  /\ PipelineTypeOK /\ OneInstance /\ IdleIsCurrent /\ InstancesCounted /\ StopsAwaited
           /\ StoppedForgets /\ RescanFollowsFound /\ ReadIsFresh /\ QuietBeforeStart
           /\ rescan \in Rescanned
BY DEF ManagerInv, PipelineTypeOK, Rescanned

\* Whoever asks, a rescan begins with nothing awaited.
LEMMA BeginMakes ==
    ASSUME ManagerInv, Begin
    PROVE  /\ rescan' \in Rescanned /\ rescan'.at = {} /\ queued' \in BOOLEAN /\ ~queued'
           /\ rescan'.step = IF running THEN "read" ELSE "idle"
           /\ missed' \in BOOLEAN /\ (missed' => missed) /\ (running => ~missed')
           /\ running => \A n \in Names \ rescan'.unread : rescan'.found[n] = None /\ InFile(n) = None
<1>1. rescan' \in Rescanned
  <2>1. {n \in Names : disk[n] # None \/ n \in torn} \in SUBSET Names
    OBVIOUS
  <2> QED BY <2>1, NoRescanTyped DEF Begin
<1>2. rescan'.at = {} /\ rescan'.step = IF running THEN "read" ELSE "idle"
  BY DEF Begin, NoRescan
<1>3. queued' \in BOOLEAN /\ ~queued'
  BY DEF Begin
<1>4. missed' \in BOOLEAN /\ (missed' => missed) /\ (running => ~missed')
  BY Known DEF Begin, PipelineTypeOK
<1>5. running => \A n \in Names \ rescan'.unread : rescan'.found[n] = None /\ InFile(n) = None
  <2> SUFFICES ASSUME running, NEW n \in Names \ rescan'.unread
               PROVE  rescan'.found[n] = None /\ InFile(n) = None
    OBVIOUS
  <2>1. rescan'.unread = {m \in Names : disk[m] # None \/ m \in torn} /\ rescan'.found = [m \in Names |-> None]
    BY DEF Begin, NoRescan
  <2> QED BY <2>1 DEF InFile
<1> QED BY <1>1, <1>2, <1>3, <1>4, <1>5

\* The step of a rescan and its fields, action by action.
LEMMA RescanStep ==
    ASSUME ManagerInv, Acts
    PROVE  /\ rescan' \in Rescanned /\ (rescan'.at # {} <=> rescan'.step \in Busy)
<1>0. /\ rescan \in Rescanned /\ (rescan.at # {} <=> rescan.step \in Busy)
      /\ torn \subseteq Names /\ disk \in [Names -> Nat]
  BY Known DEF PipelineTypeOK
<1>1. CASE DropsGone
  <2>1. CASE \E n \in Gone : StopsPipeline(n, "dropping")
    <3>1. PICK n \in Gone : rescan' = [rescan EXCEPT !.step = "dropping", !.at = {n}, !.waits = n \in Stoppable]
      BY <2>1 DEF StopsPipeline
    <3>2. {n} \in AtMostOne /\ (n \in Stoppable) \in BOOLEAN
      BY DEF Gone, AtMostOne
    <3> QED BY <1>0, <3>1, <3>2 DEF Rescanned, Busy
  <2>2. CASE rescan' = [rescan EXCEPT !.step = "apply", !.todo = {n \in Names : rescan.found[n] # None}]
    <3>1. rescan.at = {}
      BY <1>0, <1>1 DEF DropsGone, Busy
    <3> QED BY <1>0, <2>2, <3>1 DEF Rescanned, Busy
  <2> QED BY <1>1, <2>1, <2>2 DEF DropsGone
<1>2. ASSUME NEW n \in Names, Read(n) PROVE rescan' \in Rescanned /\ (rescan'.at # {} <=> rescan'.step \in Busy)
  BY <1>0, <1>2 DEF Read, Rescanned, None
<1>3. ASSUME NEW n \in Names, Dropped(n) PROVE rescan' \in Rescanned /\ (rescan'.at # {} <=> rescan'.step \in Busy)
  BY <1>0, <1>3 DEF Dropped, Rescanned, Busy, AtMostOne
<1>4. ASSUME NEW n \in Names, Applies(n) PROVE rescan' \in Rescanned /\ (rescan'.at # {} <=> rescan'.step \in Busy)
  <2>1. {n} \in AtMostOne /\ (n \in Stoppable) \in BOOLEAN
    BY DEF AtMostOne
  <2>2. \/ rescan' = [rescan EXCEPT !.step = "creating", !.at = {n}]
        \/ rescan' = [rescan EXCEPT !.step = "replacing", !.at = {n}, !.waits = n \in Stoppable]
        \/ rescan' = [rescan EXCEPT !.todo = @ \ {n}]
    BY <1>4 DEF Applies, Creates, StopsPipeline
  <2>3. CASE rescan' = [rescan EXCEPT !.step = "creating", !.at = {n}]
    BY <1>0, <2>1, <2>3 DEF Rescanned, Busy
  <2>4. CASE rescan' = [rescan EXCEPT !.step = "replacing", !.at = {n}, !.waits = n \in Stoppable]
    BY <1>0, <2>1, <2>4 DEF Rescanned, Busy
  <2>5. CASE rescan' = [rescan EXCEPT !.todo = @ \ {n}]
    BY <1>0, <1>4, <2>5 DEF Applies, Rescanned, Busy
  <2> QED BY <2>2, <2>3, <2>4, <2>5
<1>5. ASSUME NEW n \in Names, Replaced(n) PROVE rescan' \in Rescanned /\ (rescan'.at # {} <=> rescan'.step \in Busy)
  BY <1>0, <1>5 DEF Replaced, Creates, Rescanned, Busy, AtMostOne
<1>6. ASSUME NEW n \in Names, CreateReturns(n) PROVE rescan' \in Rescanned /\ (rescan'.at # {} <=> rescan'.step \in Busy)
  BY <1>0, <1>6 DEF CreateReturns, Rescanned, Busy, AtMostOne
<1>7. CASE Begin
  BY <1>7, BeginMakes DEF Busy
<1>8. CASE RescanEnds
  <2>1. CASE rescan' = NoRescan
    <3>1. NoRescan.step = "idle" /\ NoRescan.at = {}
      BY DEF NoRescan
    <3> QED BY <2>1, <3>1, NoRescanTyped DEF Busy
  <2> QED BY <1>7, <1>8, <2>1 DEF RescanEnds
<1>9. CASE FirstRescan \/ Reported \/ TimerFires
  BY <1>0, <1>7, <1>9 DEF FirstRescan, Reported, TimerFires, FullRescan
<1>10. CASE rescan' = rescan
  BY <1>0, <1>10
<1> QED
  BY <1>1, <1>2, <1>3, <1>4, <1>5, <1>6, <1>8, <1>9, <1>10
     DEF Acts, Drained, Rewrites, Written, Deletes, StartEnds, StopEnds, Start, Stop, WatcherFails

LEMMA AskedMakes ==
    ASSUME ManagerInv, FullRescan
    PROVE  queued' \in BOOLEAN /\ missed' \in BOOLEAN
<1>1. CASE Begin
  BY <1>1, BeginMakes
<1>2. CASE queued' = TRUE /\ UNCHANGED <<rescan, missed>>
  <2>1. queued' /\ queued' \in BOOLEAN
    BY <1>2
  <2> QED BY <1>2, <2>1, Known DEF PipelineTypeOK
<1> QED BY <1>1, <1>2 DEF FullRescan

LEMMA TypeStep ==
    ASSUME ManagerInv, Acts PROVE PipelineTypeOK'
<1> USE DEF PipelineTypeOK, files, manager, notices, registry, instances
<1>0. /\ PipelineTypeOK /\ rescan' \in Rescanned /\ (rescan'.at # {} <=> rescan'.step \in Busy)
      /\ rescan \in Rescanned /\ OneInstance /\ InstancesCounted
  BY Known, RescanStep
<1>a. MaxEdits \in Nat /\ MaxFailures \in Nat /\ None \in Nat
  BY DEF None
<1>b. Names \in SUBSET Names /\ rescan.found \in [Names -> Nat] /\ rescan.at \in AtMostOne
  BY <1>0 DEF Rescanned
<1>1. ASSUME NEW n \in Names, Rewrites(n) PROVE PipelineTypeOK'
  <2>1. event' \in BOOLEAN /\ missed' \in BOOLEAN /\ UNCHANGED watching
    <3>1. Noticed
      BY <1>1 DEF Rewrites
    <3>2. event' = watching /\ missed' = (missed \/ ~watching) /\ UNCHANGED watching
      BY <3>1 DEF Noticed
    <3> QED BY <1>0, <3>2
  <2> QED BY <1>0, <1>1, <1>a, <2>1 DEF Rewrites, Rescanned
<1>2. ASSUME NEW n \in Names, Written(n) \/ Deletes(n) PROVE PipelineTypeOK'
  <2>1. event' \in BOOLEAN /\ missed' \in BOOLEAN /\ UNCHANGED watching
    <3>1. Noticed
      BY <1>2 DEF Written, Deletes
    <3>2. event' = watching /\ missed' = (missed \/ ~watching) /\ UNCHANGED watching
      BY <3>1 DEF Noticed
    <3> QED BY <1>0, <3>2
  <2> QED BY <1>0, <1>2, <1>a, <2>1 DEF Written, Deletes, Rescanned
<1>3. CASE Reported
  <2>1. ~event' /\ event' \in BOOLEAN /\ queued' \in BOOLEAN /\ missed' \in BOOLEAN
    BY <1>3, AskedMakes DEF Reported
  <2>2. UNCHANGED <<files, manager, watching, registry, instances, failures, stray>>
    BY <1>3 DEF Reported
  <2> QED BY <1>0, <2>1, <2>2 DEF Rescanned
<1>4. CASE TimerFires
  <2>1. queued' \in BOOLEAN /\ missed' \in BOOLEAN
    BY <1>4, AskedMakes DEF TimerFires
  <2>2. UNCHANGED <<files, manager, watching, event, registry, instances, failures, stray>>
    BY <1>4 DEF TimerFires
  <2> QED BY <1>0, <2>1, <2>2 DEF Rescanned
<1>5. CASE WatcherFails
  <2>1. /\ ~event' /\ event' \in BOOLEAN /\ ~watching' /\ watching' \in BOOLEAN
        /\ missed' \in BOOLEAN
    BY <1>0, <1>5 DEF WatcherFails
  <2>2. UNCHANGED <<files, manager, rescan, queued, registry, instances, failures, stray>>
    BY <1>5 DEF WatcherFails
  <2> QED BY <1>0, <2>1, <2>2 DEF Rescanned
<1>6. ASSUME NEW n \in Names, Read(n) PROVE PipelineTypeOK'
  BY <1>0, <1>6 DEF Read, Rescanned
<1>7. CASE DropsGone
  <2>1. UNCHANGED <<files, manager, notices, queued, registry, failures, stray>>
    BY <1>7 DEF DropsGone
  <2>2. drains' = drains /\ live' = live /\ closing \subseteq closing' /\ closing' \subseteq Names
    BY <1>0, <1>7 DEF DropsGone, StopsPipeline, Stoppable
  <2> QED BY <1>0, <2>1, <2>2 DEF Rescanned
<1>8. ASSUME NEW n \in Names, Dropped(n) PROVE PipelineTypeOK'
  BY <1>0, <1>8, <1>a DEF Dropped, Rescanned
<1>9. ASSUME NEW n \in Names, Applies(n) PROVE PipelineTypeOK'
  <2>1. UNCHANGED <<files, manager, notices, queued, registry, failures, stray>>
    BY <1>9 DEF Applies
  <2>2. /\ drains' = drains /\ closing \subseteq closing' /\ closing' \subseteq Names
        /\ live' \in [Names -> Nat]
    BY <1>0, <1>9 DEF Applies, StopsPipeline, Stoppable, Creates
  <2> QED BY <1>0, <2>1, <2>2 DEF Rescanned
<1>10. ASSUME NEW n \in Names, Replaced(n) PROVE PipelineTypeOK'
  BY <1>0, <1>10, <1>a DEF Replaced, Creates, Rescanned
<1>11. ASSUME NEW n \in Names, CreateReturns(n) PROVE PipelineTypeOK'
  <2>1. UNCHANGED <<files, manager, notices, queued, closing, drains, stray>>
    BY <1>11 DEF CreateReturns
  <2>2. live[n] = 1
    BY <1>0, <1>11 DEF CreateReturns, InstancesCounted, Creating
  <2>3. /\ live' \in [Names -> Nat] /\ pipelines' \in [Names -> Nat]
        /\ hashes' \in [Names -> Nat] /\ failures' \in 0 .. MaxFailures
    BY <1>0, <1>11, <1>a, <1>b, <2>2 DEF CreateReturns
  <2> QED BY <1>0, <2>1, <2>3 DEF Rescanned
<1>12. CASE RescanEnds
  <2>1. queued' \in BOOLEAN /\ missed' \in BOOLEAN
    BY <1>0, <1>12, BeginMakes DEF RescanEnds
  <2>2. UNCHANGED <<files, running, stopping, timer, watching, event, registry, instances, failures, stray>>
    BY <1>12 DEF RescanEnds
  <2>3. starting' \in {"off", "dirs", "rescan", "watch", "done"}
    BY <1>0, <1>12 DEF RescanEnds
  <2> QED BY <1>0, <2>1, <2>2, <2>3 DEF Rescanned
<1>13. ASSUME NEW n \in Names, Drained(n) PROVE PipelineTypeOK'
  <2>1. live[n] = 1
    BY <1>0, <1>13 DEF Drained, InstancesCounted
  <2> QED BY <1>0, <1>13, <2>1 DEF Drained, Rescanned
<1>14. CASE Start
  <2>1. running' /\ running' \in BOOLEAN
    BY <1>14 DEF Start
  <2> QED BY <1>0, <1>14, <2>1 DEF Start, Rescanned
<1>15. CASE FirstRescan
  <2>1. queued' \in BOOLEAN /\ missed' \in BOOLEAN
    BY <1>15, BeginMakes DEF FirstRescan
  <2> QED BY <1>0, <1>15, <2>1 DEF FirstRescan, Rescanned
<1>16. CASE StartEnds
  <2>1. watching' \in BOOLEAN /\ timer' /\ timer' \in BOOLEAN /\ starting' = "done"
    BY <1>16 DEF StartEnds
  <2>2. UNCHANGED <<files, running, stopping, event, missed, rescan, queued, registry, instances, failures, stray>>
    BY <1>16 DEF StartEnds
  <2> QED BY <1>0, <2>1, <2>2 DEF Rescanned
<1>17. CASE Stop
  <2>1. /\ ~running' /\ running' \in BOOLEAN /\ ~watching' /\ watching' \in BOOLEAN
        /\ ~event' /\ event' \in BOOLEAN /\ ~timer' /\ timer' \in BOOLEAN /\ missed' \in BOOLEAN
    BY <1>0, <1>17 DEF Stop
  <2>2. drains' \subseteq closing' /\ closing' \subseteq Names /\ stray' \in AtMostOne /\ stopping' = "waiting"
    BY <1>0, <1>17, <1>b DEF Stop, Stoppable
  <2>3. UNCHANGED <<files, starting, rescan, queued, registry, live, failures>>
    BY <1>17 DEF Stop
  <2> QED BY <1>0, <2>1, <2>2, <2>3 DEF Rescanned
<1>18. CASE StopEnds
  BY <1>0, <1>18, <1>a DEF StopEnds, Rescanned
<1> QED
  BY <1>1, <1>2, <1>3, <1>4, <1>5, <1>6, <1>7, <1>8, <1>9, <1>10, <1>11, <1>12, <1>13, <1>14, <1>15,
     <1>16, <1>17, <1>18 DEF Acts

-----------------------------------------------------------------------------
(* The parts of the inductive invariant, one by one.                       *)

\* Steps that move no pipeline, and leave what a rescan awaits.
Quiet == \/ \E n \in Names : Rewrites(n) \/ Written(n) \/ Deletes(n) \/ Read(n)
         \/ StartEnds \/ WatcherFails \/ Reported \/ TimerFires \/ FirstRescan \/ RescanEnds

LEMMA QuietKeeps ==
    ASSUME ManagerInv, Quiet
    PROVE  /\ UNCHANGED <<running, stopping, registry, instances, failures, stray>>
           /\ \/ rescan'.step = rescan.step /\ rescan'.at = rescan.at /\ rescan'.waits = rescan.waits
                 /\ rescan'.found = rescan.found /\ rescan'.todo = rescan.todo /\ rescan'.unread = rescan.unread
              \/ \E n \in Names : Read(n)
              \/ /\ rescan.at = {} /\ rescan'.at = {} /\ rescan.step \in {"idle", "apply"}
                 /\ rescan'.step \in {"idle", "read"}
<1>0. /\ rescan \in Rescanned /\ (rescan.at # {} <=> rescan.step \in Busy)
      /\ starting \in {"off", "dirs"} => rescan.step = "idle"
  BY Known DEF PipelineTypeOK, QuietBeforeStart
<1>1. UNCHANGED <<running, stopping, registry, instances, failures, stray>>
  BY DEF Quiet, Rewrites, Written, Deletes, Read, StartEnds, WatcherFails, Reported, TimerFires,
     FirstRescan, RescanEnds, manager, registry, instances
<1>2. CASE FirstRescan
  BY <1>0, <1>1, <1>2, BeginMakes DEF FirstRescan, Busy
<1>3. CASE Reported \/ TimerFires
  <2>1. CASE rescan.step = "idle"
    BY <1>0, <1>1, <1>3, <2>1, BeginMakes DEF Reported, TimerFires, FullRescan, Busy
  <2>2. CASE rescan.step # "idle"
    BY <1>1, <1>3, <2>2 DEF Reported, TimerFires, FullRescan
  <2> QED BY <2>1, <2>2
<1>4. CASE RescanEnds
  <2>1. rescan.step = "apply" /\ rescan.at = {}
    BY <1>0, <1>4 DEF RescanEnds, Busy
  <2>2. CASE Begin
    BY <1>1, <2>1, <2>2, BeginMakes
  <2>3. CASE rescan' = NoRescan
    BY <1>1, <2>1, <2>3 DEF NoRescan
  <2> QED BY <1>4, <2>2, <2>3 DEF RescanEnds
<1>5. CASE UNCHANGED rescan
  BY <1>1, <1>5
<1>6. CASE \E n \in Names : Read(n)
  BY <1>1, <1>6
<1> QED BY <1>2, <1>3, <1>4, <1>5, <1>6 DEF Quiet, Rewrites, Written, Deletes, StartEnds, WatcherFails

LEMMA InstancesStep ==
    ASSUME ManagerInv, Acts PROVE InstancesCounted' /\ OneInstance'
<1> USE DEF InstancesCounted, OneInstance, Stopping, Creating
<1>0. /\ InstancesCounted /\ OneInstance /\ rescan \in Rescanned
      /\ (rescan.at # {} <=> rescan.step \in Busy) /\ rescan.at \in AtMostOne
      /\ live \in [Names -> Nat] /\ pipelines \in [Names -> Nat]
      /\ StopsAwaited /\ StoppedForgets /\ RescanFollowsFound /\ QuietBeforeStart
      /\ closing \subseteq Names /\ drains \subseteq closing /\ None \in Nat
  BY Known DEF PipelineTypeOK, Rescanned, None
<1>1. CASE Quiet
  <2>1. /\ UNCHANGED <<running, stopping, registry, instances, stray>>
        /\ \/ rescan'.step = rescan.step /\ rescan'.at = rescan.at
           \/ rescan.at = {} /\ rescan'.at = {}
    BY <1>0, <1>1, QuietKeeps DEF Read, Busy, Rescanned
  <2> QED BY <1>0, <2>1 DEF registry, instances
<1>2. CASE DropsGone
  <2>0. UNCHANGED <<running, stopping, pipelines, stray, live>> /\ rescan.at = {} /\ rescan.step = "read"
    BY <1>0, <1>2 DEF DropsGone, manager, registry, instances, StopsPipeline, Busy
  <2>1. CASE \E n \in Gone : StopsPipeline(n, "dropping")
    <3>1. PICK n \in Gone : StopsPipeline(n, "dropping")
      BY <2>1
    <3>2. /\ rescan'.step = "dropping" /\ rescan'.at = {n} /\ closing' = closing \cup ({n} \cap Stoppable)
          /\ n \in Names /\ pipelines[n] # None
      BY <1>0, <3>1 DEF StopsPipeline, Rescanned, Gone
    <3>3. n \in Stoppable => live[n] = 1
      BY <1>0, <3>2 DEF Stoppable
    <3>4. n \notin Stoppable => n \in closing \/ live[n] = 0
      BY <1>0, <3>2 DEF Stoppable
    <3> QED BY <1>0, <2>0, <3>2, <3>3, <3>4
  <2>2. CASE rescan' = [rescan EXCEPT !.step = "apply", !.todo = {n \in Names : rescan.found[n] # None}]
             /\ UNCHANGED instances
    <3>1. rescan'.step = "apply" /\ rescan'.at = {} /\ closing' = closing
      BY <1>0, <2>0, <2>2 DEF instances, Rescanned
    <3> QED BY <1>0, <2>0, <3>1
  <2> QED BY <1>2, <2>1, <2>2 DEF DropsGone
<1>3. ASSUME NEW n \in Names, Dropped(n) PROVE InstancesCounted' /\ OneInstance'
  <2>1. /\ rescan.step = "dropping" /\ rescan.at = {n} /\ rescan'.step = "read" /\ rescan'.at = {}
        /\ pipelines'[n] = None /\ \A m \in Names \ {n} : pipelines'[m] = pipelines[m]
        /\ UNCHANGED <<running, stopping, instances, stray>>
    BY <1>0, <1>3 DEF Dropped, StopReturns, manager, Rescanned, AtMostOne
  <2> QED BY <1>0, <2>1 DEF instances
<1>4. ASSUME NEW n \in Names, Applies(n) PROVE InstancesCounted' /\ OneInstance'
  <2>1. /\ running /\ rescan.step = "apply" /\ rescan.at = {} /\ closing = {} /\ stopping = "no"
        /\ UNCHANGED <<running, stopping, pipelines, stray>>
    BY <1>0, <1>4 DEF Applies, StopsAwaited, StoppedForgets, manager, registry, Busy
  <2>2. CASE pipelines[n] = None
    <3>1. /\ rescan'.step = "creating" /\ rescan'.at = {n} /\ closing' = closing
          /\ live' = [live EXCEPT ![n] = @ + 1]
      BY <1>0, <1>4, <2>2 DEF Applies, Creates, Rescanned
    <3>2. live[n] = 0
      BY <1>0, <2>1, <2>2
    <3>3. live'[n] = 1 /\ \A m \in Names \ {n} : live'[m] = live[m]
      BY <1>0, <3>1, <3>2
    <3> QED BY <1>0, <2>1, <2>2, <3>1, <3>3
  <2>3. CASE pipelines[n] # None /\ hashes[n] # rescan.found[n]
    <3>1. /\ rescan'.step = "replacing" /\ rescan'.at = {n} /\ live' = live
          /\ closing' = closing \cup ({n} \cap Stoppable)
      BY <1>0, <1>4, <2>3 DEF Applies, StopsPipeline, Rescanned
    <3>2. live[n] = 1 /\ n \in Stoppable
      BY <1>0, <2>1, <2>3 DEF Stoppable
    <3> QED BY <1>0, <2>1, <2>3, <3>1, <3>2
  <2>4. CASE pipelines[n] # None /\ hashes[n] = rescan.found[n]
    <3>1. rescan'.step = rescan.step /\ rescan'.at = rescan.at /\ UNCHANGED instances
      BY <1>0, <1>4, <2>4 DEF Applies, Rescanned
    <3> QED BY <1>0, <2>1, <3>1 DEF instances
  <2> QED BY <2>2, <2>3, <2>4
<1>5. ASSUME NEW n \in Names, Replaced(n) PROVE InstancesCounted' /\ OneInstance'
  <2>1. /\ rescan.step = "replacing" /\ rescan.at = {n} /\ n \notin closing /\ live[n] = 0
    BY <1>0, <1>5 DEF Replaced, StopReturns, StopsAwaited, AtMostOne
  <2>2. /\ rescan'.step = "creating" /\ rescan'.at = {n}
        /\ pipelines'[n] = None /\ \A m \in Names \ {n} : pipelines'[m] = pipelines[m]
        /\ live'[n] = 1 /\ \A m \in Names \ {n} : live'[m] = live[m]
        /\ UNCHANGED <<running, stopping, closing, stray>>
    BY <1>0, <1>5, <2>1 DEF Replaced, Creates, manager, Rescanned
  <2> QED BY <1>0, <2>1, <2>2
<1>6. ASSUME NEW n \in Names, CreateReturns(n) PROVE InstancesCounted' /\ OneInstance'
  <2>1. /\ rescan.step = "creating" /\ rescan.at = {n} /\ rescan'.step = "apply" /\ rescan'.at = {}
        /\ UNCHANGED <<running, stopping, closing, stray>>
    BY <1>0, <1>6 DEF CreateReturns, manager, Rescanned, AtMostOne
  <2>2. live[n] = 1 /\ n \notin closing /\ pipelines[n] = None
    BY <1>0, <2>1
  <2>3. rescan.found[n] # None /\ (stopping # "no" => n \in stray)
    BY <1>0, <2>1 DEF RescanFollowsFound, StoppedForgets
  <2>4. /\ \A m \in Names \ {n} : pipelines'[m] = pipelines[m] /\ live'[m] = live[m]
        /\ \/ pipelines'[n] = rescan.found[n] /\ live'[n] = 1
           \/ pipelines'[n] = None /\ live'[n] = 0
    BY <1>0, <1>6, <2>2 DEF CreateReturns
  <2>5. running => stopping = "no"
    BY <1>0 DEF StoppedForgets
  <2> QED BY <1>0, <2>1, <2>2, <2>3, <2>4, <2>5
<1>7. ASSUME NEW n \in Names, Drained(n) PROVE InstancesCounted' /\ OneInstance'
  <2>1. /\ n \in closing /\ closing' = closing \ {n} /\ live[n] = 1
        /\ UNCHANGED <<running, stopping, rescan, pipelines, stray>>
    BY <1>0, <1>7 DEF Drained, manager, registry
  <2>2. live'[n] = 0 /\ \A m \in Names \ {n} : live'[m] = live[m]
    BY <1>0, <1>7, <2>1 DEF Drained
  <2>3. running => Stopping(n)
    BY <1>0, <2>1 DEF StopsAwaited, Busy
  <2> QED BY <1>0, <2>1, <2>2, <2>3
<1>8. CASE Start
  <2>1. /\ UNCHANGED <<stopping, rescan, pipelines, closing, live, stray>>
        /\ \A n \in Names : pipelines[n] = None
    BY <1>0, <1>8 DEF Start, registry, instances, QuietBeforeStart
  <2> QED BY <1>0, <2>1
<1>9. CASE Stop
  <2>1. /\ running /\ ~running' /\ closing' = closing \cup Stoppable /\ stopping' = "waiting"
        /\ UNCHANGED <<rescan, pipelines, live>>
    BY <1>9 DEF Stop, registry
  <2>2. \A n \in Names : n \in Stoppable <=> pipelines[n] # None /\ live[n] > 0 /\ n \notin closing
    BY DEF Stoppable
  <2>3. stopping = "no"
    BY <1>0, <2>1 DEF StoppedForgets
  <2> QED BY <1>0, <2>1, <2>2, <2>3
<1>10. CASE StopEnds
  <2>1. /\ stopping = "waiting" /\ stopping' = "done" /\ \A n \in Names : pipelines'[n] = None
        /\ UNCHANGED <<running, rescan, closing, live, stray>>
    BY <1>10 DEF StopEnds, instances
  <2>2. ~running
    BY <1>0, <2>1 DEF StoppedForgets
  <2> QED BY <1>0, <2>1, <2>2
<1> QED BY <1>1, <1>2, <1>3, <1>4, <1>5, <1>6, <1>7, <1>8, <1>9, <1>10 DEF Acts, Quiet

LEMMA StopsStep ==
    ASSUME ManagerInv, Acts PROVE StopsAwaited' /\ StoppedForgets'
<1> USE DEF StopsAwaited, StoppedForgets
<1>0. /\ StopsAwaited /\ StoppedForgets /\ InstancesCounted /\ rescan \in Rescanned
      /\ (rescan.at # {} <=> rescan.step \in Busy) /\ rescan.at \in AtMostOne
      /\ pipelines \in [Names -> Nat] /\ closing \subseteq Names /\ drains \subseteq closing
      /\ live \in [Names -> Nat] /\ QuietBeforeStart /\ stopping \in {"no", "waiting", "done"}
  BY Known DEF PipelineTypeOK, Rescanned
<1>1. CASE Quiet
  <2>1. /\ UNCHANGED <<running, stopping, registry, instances, stray>>
        /\ \/ rescan'.step = rescan.step /\ rescan'.at = rescan.at /\ rescan'.waits = rescan.waits
           \/ /\ rescan.at = {} /\ rescan'.at = {}
              /\ rescan'.step \notin {"replacing", "creating"}
    BY <1>0, <1>1, QuietKeeps DEF Read, Rescanned
  <2> QED BY <1>0, <2>1 DEF registry, instances
<1>2. CASE DropsGone
  <2>0. /\ UNCHANGED <<running, stopping, pipelines, stray, live, drains>>
        /\ rescan.at = {} /\ rescan.step = "read"
    BY <1>0, <1>2 DEF DropsGone, manager, registry, instances, StopsPipeline, Busy
  <2>1. CASE \E n \in Gone : StopsPipeline(n, "dropping")
    <3>1. PICK n \in Gone : StopsPipeline(n, "dropping")
      BY <2>1
    <3>2. /\ rescan'.step = "dropping" /\ rescan'.at = {n} /\ closing' = closing \cup ({n} \cap Stoppable)
          /\ rescan'.waits = (n \in Stoppable) /\ n \in Names /\ pipelines[n] # None
      BY <1>0, <3>1 DEF StopsPipeline, Rescanned, Gone
    <3>3. n \in Stoppable => n \notin closing /\ live[n] # 0
      BY <1>0 DEF Stoppable
    <3>4. n \in Stoppable /\ stopping # "no" => n \in stray
      BY <1>0, <2>0, <3>2, <3>3 DEF InstancesCounted, Creating, Stopping
    <3> QED BY <1>0, <2>0, <3>2, <3>4
  <2>2. CASE rescan' = [rescan EXCEPT !.step = "apply", !.todo = {n \in Names : rescan.found[n] # None}]
             /\ UNCHANGED instances
    <3>1. rescan'.step = "apply" /\ rescan'.at = {} /\ rescan'.waits = rescan.waits /\ closing' = closing
      BY <1>0, <2>0, <2>2 DEF instances, Rescanned
    <3> QED BY <1>0, <2>0, <3>1
  <2> QED BY <1>2, <2>1, <2>2 DEF DropsGone
<1>3. ASSUME NEW n \in Names, Dropped(n) PROVE StopsAwaited' /\ StoppedForgets'
  <2>1. /\ rescan.step = "dropping" /\ rescan.at = {n} /\ rescan'.step = "read" /\ rescan'.at = {}
        /\ pipelines'[n] = None /\ \A m \in Names \ {n} : pipelines'[m] = pipelines[m]
        /\ UNCHANGED <<running, stopping, instances, stray>> /\ (rescan.waits => n \notin closing)
    BY <1>0, <1>3 DEF Dropped, StopReturns, manager, Rescanned, AtMostOne
  <2>2. running => closing = {}
    BY <1>0, <2>1
  <2> QED BY <1>0, <2>1, <2>2 DEF instances
<1>4. ASSUME NEW n \in Names, Applies(n) PROVE StopsAwaited' /\ StoppedForgets'
  <2>1. /\ running /\ rescan.step = "apply" /\ rescan.at = {} /\ closing = {} /\ stopping = "no"
        /\ UNCHANGED <<running, stopping, pipelines, stray>>
    BY <1>0, <1>4 DEF Applies, manager, registry, Busy
  <2>2. CASE pipelines[n] = None
    <3>1. rescan'.step = "creating" /\ rescan'.at = {n} /\ closing' = closing /\ drains' = drains
      BY <1>0, <1>4, <2>2 DEF Applies, Creates, Rescanned
    <3> QED BY <1>0, <2>1, <3>1
  <2>3. CASE pipelines[n] # None /\ hashes[n] # rescan.found[n]
    <3>1. /\ rescan'.step = "replacing" /\ rescan'.at = {n} /\ rescan'.waits = (n \in Stoppable)
          /\ closing' = closing \cup ({n} \cap Stoppable) /\ drains' = drains
      BY <1>0, <1>4, <2>3 DEF Applies, StopsPipeline, Rescanned
    <3>2. live[n] = 1 /\ n \in Stoppable
      BY <1>0, <2>1, <2>3 DEF Stoppable, InstancesCounted, Stopping
    <3> QED BY <1>0, <2>1, <3>1, <3>2
  <2>4. CASE pipelines[n] # None /\ hashes[n] = rescan.found[n]
    <3>1. rescan'.step = rescan.step /\ rescan'.at = rescan.at /\ UNCHANGED instances
      BY <1>0, <1>4, <2>4 DEF Applies, Rescanned
    <3> QED BY <1>0, <2>1, <3>1 DEF instances
  <2> QED BY <2>2, <2>3, <2>4
<1>5. ASSUME NEW n \in Names, Replaced(n) PROVE StopsAwaited' /\ StoppedForgets'
  <2>1. /\ rescan.step = "replacing" /\ rescan.at = {n} /\ n \notin closing
    BY <1>0, <1>5 DEF Replaced, StopReturns, AtMostOne
  <2>2. /\ rescan'.step = "creating" /\ rescan'.at = {n}
        /\ pipelines'[n] = None /\ \A m \in Names \ {n} : pipelines'[m] = pipelines[m]
        /\ UNCHANGED <<running, stopping, closing, drains, stray>>
    BY <1>0, <1>5, <2>1 DEF Replaced, Creates, manager, Rescanned
  <2>3. running => closing = {}
    BY <1>0, <2>1
  <2> QED BY <1>0, <2>1, <2>2, <2>3
<1>6. ASSUME NEW n \in Names, CreateReturns(n) PROVE StopsAwaited' /\ StoppedForgets'
  <2>1. /\ rescan.step = "creating" /\ rescan.at = {n} /\ rescan'.step = "apply" /\ rescan'.at = {}
        /\ UNCHANGED <<running, stopping, closing, drains, stray>>
    BY <1>0, <1>6 DEF CreateReturns, manager, Rescanned, AtMostOne
  <2>2. n \notin closing /\ (stopping # "no" => n \in stray)
    BY <1>0, <2>1 DEF InstancesCounted, Creating
  <2>3. \A m \in Names \ {n} : pipelines'[m] = pipelines[m]
    BY <1>0, <1>6 DEF CreateReturns
  <2>4. running => closing = {}
    BY <1>0, <2>1, <2>2
  <2> QED BY <1>0, <2>1, <2>2, <2>3, <2>4
<1>7. ASSUME NEW n \in Names, Drained(n) PROVE StopsAwaited' /\ StoppedForgets'
  <2>1. /\ closing' = closing \ {n} /\ drains' = drains \ {n}
        /\ UNCHANGED <<running, stopping, rescan, pipelines, stray>>
    BY <1>0, <1>7 DEF Drained, manager, registry
  <2> QED BY <1>0, <2>1
<1>8. CASE Start
  <2>1. /\ UNCHANGED <<stopping, rescan, pipelines, closing, drains, stray>> /\ stopping = "no" /\ closing = {}
    BY <1>0, <1>8 DEF Start, registry, instances, QuietBeforeStart
  <2> QED BY <1>0, <2>1
<1>9. CASE Stop
  <2>1. /\ running /\ ~running' /\ drains' = Stoppable /\ closing' = closing \cup Stoppable
        /\ stopping' = "waiting" /\ stray' = rescan.at /\ UNCHANGED <<rescan, pipelines>>
    BY <1>9 DEF Stop, registry
  <2> QED BY <1>0, <2>1
<1>10. CASE StopEnds
  <2>1. /\ stopping = "waiting" /\ stopping' = "done" /\ \A n \in Names : pipelines'[n] = None
        /\ drains = {} /\ UNCHANGED <<running, rescan, closing, drains, stray>>
    BY <1>10 DEF StopEnds, instances
  <2> QED BY <1>0, <2>1
<1> QED BY <1>1, <1>2, <1>3, <1>4, <1>5, <1>6, <1>7, <1>8, <1>9, <1>10 DEF Acts, Quiet

LEMMA QuietBeforeStep ==
    ASSUME ManagerInv, Acts PROVE QuietBeforeStart'
<1> USE DEF QuietBeforeStart
<1>0. /\ QuietBeforeStart /\ rescan \in Rescanned /\ (rescan.at # {} <=> rescan.step \in Busy)
  BY Known DEF PipelineTypeOK
<1>1. CASE Start
  BY <1>0, <1>1 DEF Start, notices
<1>2. CASE FirstRescan \/ StartEnds \/ RescanEnds
  BY <1>0, <1>2 DEF FirstRescan, StartEnds, RescanEnds
<1>3. CASE Reported \/ TimerFires \/ DropsGone \/ \E n \in Names : \/ Read(n) \/ Dropped(n) \/ Applies(n) \/ Replaced(n)
                                                               \/ CreateReturns(n) \/ Drained(n)
  <2>1. starting # "off" \/ \E n \in Names : Drained(n)
    BY <1>0, <1>3 DEF Reported, TimerFires, DropsGone, Read, Dropped, StopReturns, Applies, Replaced, CreateReturns
  <2>2. starting # "off" /\ UNCHANGED starting
    BY <1>0, <1>3, <2>1 DEF Drained, manager, Reported, TimerFires, DropsGone, Read, Dropped, Applies, Replaced,
       CreateReturns
  <2>3. starting \notin {"off", "dirs"} \/ \E n \in Names : Drained(n)
    BY <1>0, <1>3 DEF Reported, TimerFires, DropsGone, Read, Dropped, StopReturns, Applies, Replaced, CreateReturns
  <2>4. (\E n \in Names : Drained(n)) => UNCHANGED <<timer, watching, rescan>>
    BY DEF Drained, manager, notices
  <2> QED BY <1>0, <2>2, <2>3, <2>4
<1>4. CASE Stop \/ WatcherFails
  BY <1>0, <1>4 DEF Stop, WatcherFails, manager, registry, instances
<1>5. CASE StopEnds
  BY <1>0, <1>5 DEF StopEnds, notices, instances
<1>6. CASE \E n \in Names : Rewrites(n) \/ Written(n) \/ Deletes(n)
  BY <1>0, <1>6 DEF Rewrites, Written, Deletes, Noticed, manager, registry, instances
<1> QED BY <1>1, <1>2, <1>3, <1>4, <1>5, <1>6 DEF Acts

\* When nobody else moves what was found, it is left as it is.
LEMMA FollowsKept ==
    ASSUME ManagerInv, UNCHANGED registry, running' => running, running' /\ rescan'.step = "idle" => ~queued',
           rescan'.step \in {"idle", "read", rescan.step}, rescan'.step # "idle" => rescan'.unread \subseteq rescan.unread
              \/ rescan'.step = "read",
           rescan'.step \in {"idle", "read"} \/ (rescan'.at = rescan.at /\ rescan'.todo = rescan.todo /\ rescan'.found = rescan.found)
    PROVE  RescanFollowsFound'
BY Known DEF RescanFollowsFound, Applied, registry

LEMMA FollowsStep ==
    ASSUME ManagerInv, Acts PROVE RescanFollowsFound'
<1> USE DEF RescanFollowsFound, Applied
<1>0. /\ RescanFollowsFound /\ rescan \in Rescanned /\ (rescan.at # {} <=> rescan.step \in Busy)
      /\ rescan.at \in AtMostOne /\ rescan.found \in [Names -> Nat]
      /\ pipelines \in [Names -> Nat] /\ hashes \in [Names -> Nat]
      /\ StoppedForgets /\ QuietBeforeStart
  BY Known DEF PipelineTypeOK, Rescanned
<1>1. CASE \E n \in Names : Rewrites(n) \/ Written(n) \/ Deletes(n) \/ Drained(n)
  BY <1>0, <1>1, FollowsKept DEF Rewrites, Written, Deletes, Drained, manager
<1>2. CASE StartEnds \/ WatcherFails \/ Stop
  BY <1>0, <1>2, FollowsKept DEF StartEnds, WatcherFails, Stop, manager
<1>3. CASE Reported \/ TimerFires
  <2>1. UNCHANGED <<registry, running>> /\ FullRescan
    BY <1>3 DEF Reported, TimerFires, manager
  <2>2. CASE Begin
    BY <2>1, <2>2, BeginMakes, FollowsKept
  <2>3. CASE rescan.step # "idle" /\ queued' = TRUE /\ UNCHANGED <<rescan, missed>>
    BY <2>1, <2>3, FollowsKept
  <2> QED BY <2>1, <2>2, <2>3 DEF FullRescan
<1>4. CASE FirstRescan
  <2>1. UNCHANGED <<registry, running>> /\ Begin
    BY <1>4 DEF FirstRescan
  <2> QED BY <2>1, BeginMakes, FollowsKept
<1>5. CASE RescanEnds
  <2>1. UNCHANGED <<registry, running>>
    BY <1>5 DEF RescanEnds
  <2>2. CASE Begin
    BY <2>1, <2>2, BeginMakes, FollowsKept
  <2>3. CASE ~(queued /\ running) /\ rescan' = NoRescan /\ UNCHANGED queued
    <3>1. rescan'.step = "idle"
      BY <2>3 DEF NoRescan
    <3> QED BY <2>1, <2>3, <3>1, FollowsKept
  <2> QED BY <1>5, <2>2, <2>3 DEF RescanEnds
<1>6. ASSUME NEW n \in Names, Read(n) PROVE RescanFollowsFound'
  <2>1. rescan.step = "read" /\ rescan'.step = "read" /\ UNCHANGED <<registry, running>>
    BY <1>0, <1>6 DEF Read, Rescanned, manager
  <2> QED BY <2>1, FollowsKept
<1>7. CASE DropsGone
  <2>0. UNCHANGED <<registry, running>> /\ rescan.step = "read" /\ rescan.unread = {}
    BY <1>0, <1>7 DEF DropsGone, manager
  <2>1. CASE \E n \in Gone : StopsPipeline(n, "dropping")
    <3>1. rescan'.step = "dropping" /\ rescan'.unread = rescan.unread
      BY <1>0, <2>1 DEF StopsPipeline, Rescanned
    <3> QED BY <1>0, <2>0, <3>1 DEF registry
  <2>2. CASE Gone = {} /\ rescan' = [rescan EXCEPT !.step = "apply", !.todo = {n \in Names : rescan.found[n] # None}]
    <3>1. /\ rescan'.step = "apply" /\ rescan'.todo = {n \in Names : rescan.found[n] # None}
          /\ rescan'.found = rescan.found /\ rescan'.unread = {}
      BY <1>0, <2>0, <2>2 DEF Rescanned
    <3>2. \A n \in Names : rescan.found[n] = None => pipelines[n] = None
      BY <2>2 DEF Gone
    <3> QED BY <1>0, <2>0, <3>1, <3>2 DEF registry
  <2> QED BY <1>7, <2>1, <2>2 DEF DropsGone
<1>8. ASSUME NEW n \in Names, Dropped(n) PROVE RescanFollowsFound'
  <2>1. rescan'.step = "read" /\ pipelines'[n] = None
        /\ \A m \in Names \ {n} : pipelines'[m] = pipelines[m] /\ hashes'[m] = hashes[m]
    BY <1>0, <1>8 DEF Dropped, Rescanned
  <2> QED BY <1>0, <2>1
<1>9. ASSUME NEW n \in Names, Applies(n) PROVE RescanFollowsFound'
  <2>1. /\ running /\ rescan.step = "apply" /\ n \in rescan.todo
        /\ UNCHANGED <<running, pipelines, hashes>>
    BY <1>9 DEF Applies, manager, registry
  <2>2. CASE rescan' = [rescan EXCEPT !.step = "creating", !.at = {n}]
    <3>1. /\ rescan'.step = "creating" /\ rescan'.at = {n} /\ rescan'.todo = rescan.todo
          /\ rescan'.found = rescan.found /\ rescan'.unread = rescan.unread
      BY <1>0, <2>2 DEF Rescanned
    <3> QED BY <1>0, <2>1, <3>1
  <2>3. CASE rescan' = [rescan EXCEPT !.step = "replacing", !.at = {n}, !.waits = n \in Stoppable]
    <3>1. /\ rescan'.step = "replacing" /\ rescan'.at = {n} /\ rescan'.todo = rescan.todo
          /\ rescan'.found = rescan.found /\ rescan'.unread = rescan.unread
      BY <1>0, <2>3 DEF Rescanned
    <3> QED BY <1>0, <2>1, <3>1
  <2>4. CASE /\ pipelines[n] # None /\ hashes[n] = rescan.found[n]
             /\ rescan' = [rescan EXCEPT !.todo = @ \ {n}]
    <3>1. /\ rescan'.step = "apply" /\ rescan'.todo = rescan.todo \ {n}
          /\ rescan'.found = rescan.found /\ rescan'.unread = rescan.unread
      BY <1>0, <2>1, <2>4 DEF Rescanned
    <3> QED BY <1>0, <2>1, <2>4, <3>1
  <2> QED BY <1>9, <2>2, <2>3, <2>4 DEF Applies, Creates, StopsPipeline
<1>10. ASSUME NEW n \in Names, Replaced(n) PROVE RescanFollowsFound'
  <2>1. rescan.step = "replacing" /\ rescan.at = {n} /\ n \in rescan.todo
    BY <1>0, <1>10 DEF Replaced, StopReturns, AtMostOne
  <2>2. /\ rescan'.step = "creating" /\ rescan'.at = {n} /\ rescan'.todo = rescan.todo
        /\ rescan'.found = rescan.found /\ rescan'.unread = rescan.unread
        /\ pipelines'[n] = None /\ UNCHANGED running
        /\ \A m \in Names \ {n} : pipelines'[m] = pipelines[m] /\ hashes'[m] = hashes[m]
    BY <1>0, <1>10 DEF Replaced, Creates, manager, Rescanned
  <2> QED BY <1>0, <2>1, <2>2
<1>11. ASSUME NEW n \in Names, CreateReturns(n) PROVE RescanFollowsFound'
  <2>1. rescan.step = "creating" /\ rescan.at = {n} /\ n \in rescan.todo
    BY <1>0, <1>11 DEF CreateReturns, AtMostOne
  <2>2. /\ rescan'.step = "apply" /\ rescan'.todo = rescan.todo \ {n}
        /\ rescan'.found = rescan.found /\ rescan'.unread = rescan.unread /\ UNCHANGED running
    BY <1>0, <1>11 DEF CreateReturns, manager, Rescanned
  <2>3. pipelines[n] = None
    BY <2>1, Known DEF InstancesCounted, Creating
  <2>4. /\ hashes'[n] = rescan.found[n] /\ pipelines'[n] \in {None, rescan.found[n]}
        /\ \A m \in Names \ {n} : pipelines'[m] = pipelines[m] /\ hashes'[m] = hashes[m]
    BY <1>0, <1>11, <2>3 DEF CreateReturns
  <2>5. rescan.found[n] # None
    BY <1>0, <2>1
  <2> QED BY <1>0, <2>1, <2>2, <2>4, <2>5
<1>12. CASE Start
  <2>1. /\ rescan.step = "idle" /\ ~queued /\ UNCHANGED <<rescan, queued, pipelines, hashes>>
    BY <1>0, <1>12 DEF Start, registry, QuietBeforeStart
  <2> QED BY <1>0, <2>1
<1>13. CASE StopEnds
  <2>1. /\ ~running /\ UNCHANGED <<running, rescan, queued>> /\ \A n \in Names : pipelines'[n] = None
    BY <1>0, <1>13 DEF StopEnds, StoppedForgets
  <2> QED BY <1>0, <2>1
<1> QED BY <1>1, <1>2, <1>3, <1>4, <1>5, <1>6, <1>7, <1>8, <1>9, <1>10, <1>11, <1>12, <1>13 DEF Acts

\* The step of a rescan that goes on keeps what it read and is not its end.
LEMMA GoesOn ==
    ASSUME ManagerInv, DropsGone \/ \E n \in Names : Dropped(n) \/ Applies(n) \/ Replaced(n) \/ CreateReturns(n)
    PROVE  /\ UNCHANGED <<files, running, starting, event, missed, queued>>
           /\ rescan.step # "idle" /\ rescan'.step # "idle"
           /\ rescan'.found = rescan.found /\ rescan'.unread = rescan.unread
<1>0. rescan \in Rescanned
  BY Known
<1>1. CASE DropsGone
  BY <1>0, <1>1 DEF DropsGone, StopsPipeline, Rescanned, manager, notices
<1>2. ASSUME NEW n \in Names, Dropped(n) \/ Replaced(n) \/ CreateReturns(n)
      PROVE  /\ UNCHANGED <<files, running, starting, event, missed, queued>>
             /\ rescan.step # "idle" /\ rescan'.step # "idle"
             /\ rescan'.found = rescan.found /\ rescan'.unread = rescan.unread
  BY <1>0, <1>2 DEF Dropped, Replaced, CreateReturns, StopReturns, Creates, Rescanned, manager, notices
<1>3. ASSUME NEW n \in Names, Applies(n)
      PROVE  /\ UNCHANGED <<files, running, starting, event, missed, queued>>
             /\ rescan.step # "idle" /\ rescan'.step # "idle"
             /\ rescan'.found = rescan.found /\ rescan'.unread = rescan.unread
  BY <1>0, <1>3 DEF Applies, StopsPipeline, Creates, Rescanned, manager, notices
<1> QED BY <1>1, <1>2, <1>3

LEMMA FreshStep ==
    ASSUME ManagerInv, Acts PROVE ReadIsFresh' /\ IdleIsCurrent'
<1> USE DEF ReadIsFresh, IdleIsCurrent
<1>0. /\ ReadIsFresh /\ IdleIsCurrent /\ rescan \in Rescanned /\ RescanFollowsFound /\ QuietBeforeStart
      /\ StoppedForgets /\ rescan.found \in [Names -> Nat]
      /\ watching \in BOOLEAN /\ event \in BOOLEAN /\ missed \in BOOLEAN
  BY Known DEF PipelineTypeOK, Rescanned
<1>1. CASE \E n \in Names : Rewrites(n) \/ Written(n) \/ Deletes(n)
  <2>1. event' = watching /\ missed' = (missed \/ ~watching)
    BY <1>1 DEF Rewrites, Written, Deletes, Noticed
  <2>2. event' \/ missed'
    BY <1>0, <2>1
  <2> QED BY <2>2
<1>2. CASE WatcherFails
  <2>1. UNCHANGED <<files, running, starting, rescan, queued, registry>> /\ (~missed' => ~missed /\ ~event)
    BY <1>0, <1>2 DEF WatcherFails, manager
  <2> QED BY <1>0, <2>1 DEF InFile, Applied, files, registry
<1>3. CASE Begin /\ UNCHANGED <<files, running>>
  <2>1. /\ rescan'.step = IF running THEN "read" ELSE "idle"
        /\ running => \A n \in Names \ rescan'.unread : rescan'.found[n] = None /\ InFile(n) = None
    BY <1>3, BeginMakes
  <2>2. \A n : InFile(n)' = InFile(n)
    BY <1>3 DEF InFile, files
  <2> QED BY <1>3, <2>1, <2>2
<1>4. CASE Reported \/ TimerFires \/ FirstRescan
  <2>1. UNCHANGED <<files, running>>
    BY <1>4 DEF Reported, TimerFires, FirstRescan, manager
  <2>2. CASE rescan.step # "idle" /\ queued' = TRUE /\ UNCHANGED <<rescan, missed>>
    BY <2>2
  <2>3. Begin \/ (rescan.step # "idle" /\ queued' = TRUE /\ UNCHANGED <<rescan, missed>>)
    BY <1>4 DEF Reported, TimerFires, FirstRescan, FullRescan
  <2> QED BY <1>3, <2>1, <2>2, <2>3
<1>5. CASE RescanEnds
  <2>1. UNCHANGED <<files, running, event, registry>> /\ rescan.step = "apply"
    BY <1>5 DEF RescanEnds
  <2>2. CASE ~Begin
    <3>1. /\ ~(queued /\ running) /\ rescan' = NoRescan /\ UNCHANGED <<queued, missed>>
          /\ rescan.todo = {} \/ ~running
      BY <1>5, <2>2 DEF RescanEnds
    <3>2. rescan'.step = "idle"
      BY <3>1 DEF NoRescan
    <3>3. ASSUME running, ~event, ~missed, NEW n \in Names PROVE Applied(n, InFile(n))
      <4>1. rescan.found[n] = InFile(n)
        BY <1>0, <2>1, <3>1, <3>3 DEF RescanFollowsFound
      <4> QED BY <1>0, <2>1, <3>1, <3>3, <4>1 DEF RescanFollowsFound
    <3> QED BY <2>1, <3>1, <3>2, <3>3 DEF InFile, Applied, files, registry
  <2> QED BY <1>3, <2>1, <2>2
<1>6. ASSUME NEW n \in Names, Read(n) PROVE ReadIsFresh' /\ IdleIsCurrent'
  <2>1. /\ rescan.step = "read" /\ rescan'.step = "read" /\ UNCHANGED <<files, running, event, missed, queued>>
        /\ rescan'.unread = rescan.unread \ {n} /\ rescan'.found[n] = InFile(n)
        /\ \A m \in Names \ {n} : rescan'.found[m] = rescan.found[m]
    BY <1>0, <1>6 DEF Read, Rescanned, InFile, manager, notices
  <2> QED BY <1>0, <2>1 DEF InFile, files
<1>7. CASE DropsGone \/ \E n \in Names : Dropped(n) \/ Applies(n) \/ Replaced(n) \/ CreateReturns(n)
  <2>1. /\ UNCHANGED <<files, running, starting, event, missed, queued>>
        /\ rescan.step # "idle" /\ rescan'.step # "idle"
        /\ rescan'.found = rescan.found /\ rescan'.unread = rescan.unread
    BY <1>7, GoesOn
  <2> QED BY <1>0, <2>1 DEF InFile, files
<1>8. CASE StartEnds \/ \E n \in Names : Drained(n)
  <2>1. /\ UNCHANGED <<files, running, event, missed, queued, rescan, registry>>
        /\ starting' \in {"watch", "done"} => starting \in {"watch", "done"}
    BY <1>8 DEF StartEnds, Drained, manager, notices
  <2> QED BY <1>0, <2>1 DEF InFile, Applied, files, registry
<1>9. CASE Start
  <2>1. rescan'.step = "idle" /\ starting' = "dirs"
    BY <1>0, <1>9 DEF Start, QuietBeforeStart
  <2> QED BY <2>1
<1>10. CASE Stop \/ StopEnds
  <2>1. ~running'
    BY <1>0, <1>10 DEF Stop, StopEnds, StoppedForgets
  <2> QED BY <2>1
<1> QED BY <1>1, <1>2, <1>4, <1>5, <1>6, <1>7, <1>8, <1>9, <1>10 DEF Acts

-----------------------------------------------------------------------------
(* The theorems.                                                           *)

LEMMA ManagerStep == ManagerInv /\ [PipelineNext]_vars => ManagerInv'
<1> SUFFICES ASSUME ManagerInv, [PipelineNext]_vars PROVE ManagerInv'
  OBVIOUS
<1>1. CASE Acts
  BY <1>1, TypeStep, InstancesStep, StopsStep, QuietBeforeStep, FollowsStep, FreshStep DEF ManagerInv
<1>2. CASE UNCHANGED vars
  BY <1>2 DEF vars, files, manager, notices, registry, instances, ManagerInv, PipelineTypeOK, OneInstance,
     IdleIsCurrent, InstancesCounted, StopsAwaited, StoppedForgets, RescanFollowsFound, ReadIsFresh,
     QuietBeforeStart, Creating, Stopping, Applied, InFile
<1> QED BY <1>1, <1>2, NextIsAct

\* pipeline-manager.ts:196-245: the maps of the manager, its rescan and the
\* pipelines that run agree; two pipelines of a name never overlap, and no
\* change of a file is lost to a rescan in progress.
THEOREM ManagerInvariance == PipelineSpec => []ManagerInv
<1>1. PipelineInit => ManagerInv
  BY InitManagerInv
<1>2. ManagerInv /\ [PipelineNext]_vars => ManagerInv'
  BY ManagerStep
<1> QED BY <1>1, <1>2, PTL DEF PipelineSpec

\* pipeline-manager.ts:86-118: stop() leaves nothing running but the one
\* pipeline whose start or stop a rescan awaited.
THEOREM StopIsComplete == PipelineSpec => []StopLeavesNothing
<1>1. ManagerInv => StopLeavesNothing
  <2> SUFFICES ASSUME ManagerInv, stopping = "done", NEW n \in Names \ stray PROVE live[n] = 0
    BY DEF StopLeavesNothing
  <2>1. n \notin closing /\ ~Creating(n) /\ pipelines[n] = None
    BY Known DEF StoppedForgets, Creating
  <2> QED BY <2>1, Known DEF InstancesCounted
<1> QED BY <1>1, ManagerInvariance, PTL

=============================================================================
