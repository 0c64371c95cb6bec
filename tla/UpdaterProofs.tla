--------------------------- MODULE UpdaterProofs ---------------------------
(***************************************************************************)
(* Proofs about the updater: whatever is published, and at whichever step  *)
(* it fails or dies.                                                       *)
(***************************************************************************)
EXTENDS Updater, WellFoundedInduction, TLAPS

USE UpdaterAssumption

-----------------------------------------------------------------------------
(* Facts about the constants and the operators.                            *)

LEMMA FeedFacts ==
    /\ DOMAIN Feed = 1 .. Len(Feed) /\ Len(Feed) \in Nat /\ 1 \in DOMAIN Feed
    /\ \A m \in DOMAIN Feed :
          /\ m \in Nat
          /\ Feed[m].version \in Nat /\ Feed[m].commit \in Nat /\ Feed[m].hotfix \in Nat
          /\ Feed[m].runs \in BOOLEAN
<1>1. DOMAIN Feed = 1 .. Len(Feed) /\ Len(Feed) \in Nat /\ Len(Feed) # 0
  OBVIOUS
<1>2. \A m \in DOMAIN Feed : Feed[m] \in Manifest
  BY <1>1
<1> QED BY <1>1, <1>2 DEF Manifest

\* What the clean-up removes is one of those it may remove.
LEMMA OldestIsStale ==
    ASSUME NEW S \in SUBSET Nat, S # {} PROVE Min(S) \in S
<1>1. PICK x \in S : \A y \in S : ~(<<y, x>> \in OpToRel(<, Nat))
  BY NatLessThanWellFounded, WFMin
<1>2. ASSUME NEW y \in S PROVE x <= y
  <2>1. x \in Nat /\ y \in Nat /\ <<y, x>> \in Nat \X Nat
    OBVIOUS
  <2>2. ~(<<y, x>>[1] < <<y, x>>[2])
    BY <1>1, <2>1 DEF OpToRel
  <2> QED BY <2>1, <2>2
<1> QED BY <1>2 DEF Min

LEMMA NoJobIsJob == NoJob \in Jobs
<1>1. "system" \in Nodes /\ NoDir \in 0 .. MaxDirs /\ 1 \in DOMAIN Feed
  BY FeedFacts DEF Nodes, NoDir
<1> QED BY <1>1 DEF NoJob, Jobs

LEMMA JobsMade ==
    ASSUME NEW m \in DOMAIN Feed, NEW n \in BOOLEAN
    PROVE  /\ [NoJob EXCEPT !.target = m, !.deploys = TRUE, !.newPid = n] \in Jobs
           /\ [NoJob EXCEPT !.target = m, !.newPid = TRUE] \in Jobs
<1>1. "system" \in Nodes /\ NoDir \in 0 .. MaxDirs /\ 1 \in DOMAIN Feed
  BY FeedFacts DEF Nodes, NoDir
<1> QED BY <1>1 DEF NoJob, Jobs

-----------------------------------------------------------------------------
(* Type correctness.                                                       *)

LEMMA InitUpdaterInv == UpdaterInit => UpdaterTypeOK /\ Consistent
<1> SUFFICES ASSUME UpdaterInit PROVE UpdaterTypeOK /\ Consistent
  OBVIOUS
<1>1. UpdaterTypeOK
  <2>1. 1 \in Dirs /\ 1 \in DOMAIN Feed /\ NoJob \in Jobs
    BY FeedFacts, NoJobIsJob DEF Dirs
  <2>2. PICK node \in Nodes : abi = [d \in Dirs |-> node] /\ pin = node /\ unode = node
                               /\ managed = (node = "managed")
    BY DEF UpdaterInit
  <2>3. abi \in [Dirs -> Nodes] /\ pin \in Nodes /\ unode \in Nodes /\ managed \in BOOLEAN
    BY <2>2
  <2>4. release \in [Dirs -> DOMAIN Feed]
    BY <2>1 DEF UpdaterInit
  <2>5. fresh /\ fresh \in BOOLEAN /\ ~astray /\ astray \in BOOLEAN
    BY DEF UpdaterInit
  <2>6. /\ published = 1 /\ made = 1 /\ dirs = {1} /\ current = 1 /\ previous = 0 /\ cli = 1
        /\ collector = 0 /\ undone = {} /\ hotfix = 0 /\ known = 0 /\ pc = "idle" /\ job = NoJob
        /\ faults = 0 /\ rollbacks = 0
    BY DEF UpdaterInit, NoDir
  <2>7. {job.dir, job.oldCurrent, job.oldPrevious, job.seen} = {0}
    BY <2>6 DEF NoJob, NoDir
  <2>8. ~met /\ met \in BOOLEAN /\ rb \in [step : RollbackSteps, prev : 0 .. 1, curr : 0 .. 1]
    <3>1. rb = [step |-> "none", prev |-> 0, curr |-> 0] /\ ~met
      BY DEF UpdaterInit, NoRb, NoDir
    <3>2. "none" \in RollbackSteps /\ 0 \in 0 .. 1
      BY DEF RollbackSteps
    <3>3. rb \in [step : RollbackSteps, prev : 0 .. 1, curr : 0 .. 1]
      BY <3>1, <3>2
    <3>4. met \in BOOLEAN /\ ~met
      BY DEF UpdaterInit
    <3> QED BY <3>3, <3>4
  <2>9. pc \in Steps /\ job \in Jobs /\ {job.dir, job.oldCurrent, job.oldPrevious, job.seen} \subseteq 0 .. made
        /\ rb \in [step : RollbackSteps, prev : 0 .. made, curr : 0 .. made] /\ met \in BOOLEAN
    <3>1. pc \in Steps
      BY <2>6 DEF Steps
    <3>2. {job.dir, job.oldCurrent, job.oldPrevious, job.seen} \subseteq 0 .. made
      <4>1. {0} \subseteq 0 .. made
        BY <2>6
      <4> QED BY <2>7, <4>1
    <3> QED BY <2>1, <2>6, <2>8, <3>1, <3>2
  <2>10. /\ published \in DOMAIN Feed /\ made \in Dirs /\ dirs \subseteq 1 .. made
         /\ current \in 0 .. made /\ previous \in 0 .. made /\ cli \in 0 .. made
         /\ collector \in 0 .. made /\ undone \subseteq 0 .. made
         /\ hotfix \in Nat /\ known \in Nat /\ faults \in 0 .. MaxFaults /\ rollbacks \in 0 .. MaxRollbacks
    BY <2>1, <2>6
  <2> QED BY <2>3, <2>4, <2>5, <2>9, <2>10 DEF UpdaterTypeOK
<1>2. \A d \in Dirs : release[d] = 1
  BY DEF UpdaterInit, Dirs
<1>3. \A d \in Dirs : abi[d] = pin
  BY DEF UpdaterInit, Dirs
<1>4. 1 \in Dirs
  BY DEF Dirs
<1>5. PointersInstalled /\ RunningDirKept /\ RollbackFollows
  BY DEF UpdaterInit, PointersInstalled, RunningDirKept, RollbackFollows, NoDir, NoRb
<1>6. SwitchConsistent
  BY <1>3, <1>4 DEF UpdaterInit, SwitchConsistent, Deploying, Nodes
<1>7. JobFollowsPointers /\ ReleasesPublished
  BY <1>2 DEF UpdaterInit, JobFollowsPointers, ReleasesPublished, Deploying, Confirming, NoJob
<1>8. CollectorNotAhead /\ DeploysForReason /\ ConfirmedIsCurrent /\ LeftBehindIsSeen
  BY <1>2 DEF UpdaterInit, CollectorNotAhead, DeploysForReason, ConfirmedIsCurrent,
     LeftBehindIsSeen, Deploying, Outside
<1> QED BY <1>1, <1>5, <1>6, <1>7, <1>8 DEF Consistent

\* The actions, to be taken in turn.
Acts ==
    \/ Publishes \/ CollectorStarts \/ CollectorDies \/ Check \/ Recovers
    \/ Fails("download") \/ Fails("handover") \/ Download \/ Rename \/ KeepPrevious \/ Switch
    \/ SyncScripts \/ PinNode \/ FinalizeFails \/ RestoreCurrent \/ RestorePrevious
    \/ RestoreFails \/ RestartCollector \/ RestartFails \/ ConfirmHealth \/ HealthTimesOut
    \/ PersistCanary \/ GcReads \/ GcRemoves \/ Handover \/ UpdaterDies

\* The steps of the user's rollback.
RollbackActs ==
    \/ RollbackBegins \/ RollbackReads \/ RollbackCurrent \/ RollbackPrevious \/ RollbackScripts
    \/ RollbackUndoesCurrent \/ RollbackUndoesPrevious \/ RollbackUndoesScripts
    \/ RollbackStops \/ RollbackStarts \/ RollbackScriptsFail \/ RollbackDies

LEMMA NextIsAct == UpdaterNext => Acts \/ RollbackActs
BY DEF UpdaterNext, Progress, Deploys, Confirms, Acts, RollbackGoesOn, RollbackActs

\* What holds until a rollback runs beside a check, and a step of the others
\* while no rollback is in progress.
Sound == UpdaterTypeOK /\ Consistent
Alone == Acts /\ rb.step = "none"

LEMMA JobStep ==
    ASSUME UpdaterTypeOK, Acts
    PROVE  /\ pc' \in Steps /\ job' \in Jobs
           /\ {job'.dir, job'.oldCurrent, job'.oldPrevious, job'.seen} \subseteq 0 .. made'
<1> DEFINE Made(j, n) == {j.dir, j.oldCurrent, j.oldPrevious, j.seen} \subseteq 0 .. n
<1>0. /\ pc \in Steps /\ job \in Jobs /\ NoJob \in Jobs /\ published \in DOMAIN Feed
      /\ made \in Nat /\ current \in 0 .. made /\ previous \in 0 .. made
      /\ made \in 1 .. MaxDirs /\ MaxDirs \in Nat
      /\ managed \in BOOLEAN /\ unode \in Nodes /\ release \in [Dirs -> DOMAIN Feed]
      /\ dirs \subseteq 1 .. made /\ Made(job, made)
  BY NoJobIsJob DEF NoDir, Dirs, UpdaterTypeOK
<1>a. ~Rename => made' = made
  BY DEF Acts, Publishes, CollectorStarts, CollectorDies, Check, Recovers, Fails, Download,
     KeepPrevious, Switch, SyncScripts, PinNode, FinalizeFails, RestoreCurrent, RestorePrevious,
     RestoreFails, RestartCollector, RestartFails, ConfirmHealth, HealthTimesOut, PersistCanary,
     GcReads, GcRemoves, Handover, UpdaterDies, files, versions
<1>b. /\ 0 \in 0 .. made
      /\ \A m, d, n : /\ Made([NoJob EXCEPT !.target = m, !.deploys = d, !.newPid = n], made)
                      /\ Made([NoJob EXCEPT !.target = m, !.newPid = n], made)
      /\ Made(NoJob, made)
  BY <1>0 DEF NoJob, NoDir
<1>1. pc' \in Steps
  BY <1>0 DEF Steps, Acts, Publishes, CollectorStarts, CollectorDies, Check, Recovers, Fails, Download, Rename,
     KeepPrevious, Switch, SyncScripts, PinNode, FinalizeFails, RestoreCurrent, RestorePrevious,
     RestoreFails, RestartCollector, RestartFails, ConfirmHealth, HealthTimesOut, PersistCanary,
     GcReads, GcRemoves, Handover, UpdaterDies, updater, history, others, Ends, Reborn
<1>2. CASE Check
  <2>1. CASE NeedsUpdate(published)
    <3>1. PICK n \in BOOLEAN : job' = [NoJob EXCEPT !.target = published, !.deploys = TRUE, !.newPid = n]
      BY <1>2, <2>1 DEF Check
    <3>2. job' \in Jobs
      BY <1>0, <3>1, JobsMade
    <3>3. Made(job', made')
      BY <1>a, <1>b, <1>2, <3>1 DEF Check, Rename
    <3> QED BY <1>1, <3>2, <3>3
  <2>2. CASE ~NeedsUpdate(published)
    <3>1. release[current] \in DOMAIN Feed
      BY <1>0, <2>2 DEF NeedsUpdate, Dirs
    <3>2. job' = [NoJob EXCEPT !.target = release[current], !.newPid = TRUE]
      BY <1>2, <2>2 DEF Check
    <3>3. job' \in Jobs
      BY <3>1, <3>2, JobsMade
    <3>4. Made(job', made')
      BY <1>a, <1>b, <1>2, <3>2 DEF Check, Rename
    <3> QED BY <1>1, <3>3, <3>4
  <2> QED BY <2>1, <2>2
<1>3. CASE Download
  <2>1. job.target \in DOMAIN Feed /\ "managed" \in Nodes
    BY <1>0 DEF Jobs, Nodes
  <2>2. PICK n \in Nodes : job' = [job EXCEPT !.node = n]
    BY <1>0, <1>3, <2>1 DEF Download
  <2>3. job' \in Jobs
    BY <1>0, <2>2 DEF Jobs
  <2>4. Made(job', made')
    BY <1>0, <1>a, <1>3, <2>2 DEF Download, Rename, Jobs
  <2> QED BY <1>1, <2>3, <2>4
<1>4. CASE Rename
  <2>1. made + 1 \in 0 .. MaxDirs /\ current \in 0 .. MaxDirs /\ previous \in 0 .. MaxDirs
    BY <1>0, <1>4 DEF Rename
  <2>2. job' = [job EXCEPT !.dir = made + 1, !.oldCurrent = current, !.oldPrevious = previous]
        /\ made' = made + 1
    BY <1>4 DEF Rename
  <2>3. job' \in Jobs
    BY <1>0, <2>1, <2>2 DEF Jobs
  <2>4. job'.dir = made + 1 /\ job'.oldCurrent = current /\ job'.oldPrevious = previous /\ job'.seen = job.seen
    BY <1>0, <2>2 DEF Jobs
  <2>5. Made(job', made')
    BY <1>0, <2>2, <2>4
  <2> QED BY <1>1, <2>3, <2>5
<1>5. CASE ConfirmHealth
  <2>1. job' \in Jobs
    BY <1>0, <1>5 DEF ConfirmHealth, Jobs
  <2>2. Made(job', made')
    BY <1>0, <1>a, <1>5 DEF ConfirmHealth, Rename, Jobs
  <2> QED BY <1>1, <2>1, <2>2
<1>7. CASE GcReads
  <2>1. current \in 0 .. MaxDirs /\ job' = [job EXCEPT !.seen = current]
    BY <1>0, <1>7 DEF GcReads
  <2>2. job' \in Jobs
    BY <1>0, <2>1 DEF Jobs
  <2>3. Made(job', made')
    BY <1>0, <1>a, <1>7, <2>1 DEF GcReads, Rename, Jobs
  <2> QED BY <1>1, <2>2, <2>3
<1>6. CASE ~(Check \/ Download \/ Rename \/ ConfirmHealth \/ GcReads)
  <2>1. job' \in {job, NoJob}
    BY <1>6 DEF Acts, Publishes, CollectorStarts, CollectorDies, Check, Recovers, Fails, Download, Rename,
     KeepPrevious, Switch, SyncScripts, PinNode, FinalizeFails, RestoreCurrent, RestorePrevious,
     RestoreFails, RestartCollector, RestartFails, ConfirmHealth, HealthTimesOut, PersistCanary,
     GcReads, GcRemoves, Handover, UpdaterDies, updater, history, others, Ends, Reborn
  <2>2. made' = made
    BY <1>a, <1>6
  <2>3. Made(job', made')
    BY <1>0, <1>b, <2>1, <2>2
  <2> QED BY <1>0, <1>1, <2>1, <2>3
<1> QED BY <1>2, <1>3, <1>4, <1>5, <1>6, <1>7

LEMMA TypeStep ==
    ASSUME UpdaterTypeOK, Acts PROVE UpdaterTypeOK'
<1> DEFINE Rest ==
             /\ published \in DOMAIN Feed
             /\ made \in Dirs /\ dirs \subseteq 1 .. made
             /\ release \in [Dirs -> DOMAIN Feed] /\ abi \in [Dirs -> Nodes]
             /\ current \in 0 .. made /\ previous \in 0 .. made /\ cli \in 0 .. made
             /\ collector \in 0 .. made /\ undone \subseteq 0 .. made
             /\ pin \in Nodes /\ unode \in Nodes /\ managed \in BOOLEAN
             /\ fresh \in BOOLEAN /\ astray \in BOOLEAN
             /\ hotfix \in Nat /\ known \in Nat
<1>u. Rest /\ job \in Jobs
  BY DEF UpdaterTypeOK
<1>v. made' \in Nat /\ made' >= made
  <2>1. made \in Nat
    BY <1>u DEF Dirs
  <2>2. made' = made \/ made' = made + 1
    BY DEF Acts, Publishes, CollectorStarts, CollectorDies, Check, Recovers, Fails,
     Download, Rename,
     KeepPrevious, Switch, SyncScripts, PinNode, FinalizeFails, RestoreCurrent, RestorePrevious,
     RestoreFails, RestartCollector, RestartFails, ConfirmHealth, HealthTimesOut, PersistCanary,
     GcReads, GcRemoves, Handover, UpdaterDies, files, versions
  <2> QED BY <2>1, <2>2
<1>w. /\ rb' \in [step : RollbackSteps, prev : 0 .. made', curr : 0 .. made'] /\ met' \in BOOLEAN
      /\ rollbacks' \in 0 .. MaxRollbacks
  <2>1. rb' = rb /\ rollbacks' = rollbacks
    BY DEF Acts, Publishes, CollectorStarts, CollectorDies, Check, Recovers, Fails, Download, Rename,
     KeepPrevious, Switch, SyncScripts, PinNode, FinalizeFails, RestoreCurrent, RestorePrevious,
     RestoreFails, RestartCollector, RestartFails, ConfirmHealth, HealthTimesOut, PersistCanary,
     GcReads, GcRemoves, Handover, UpdaterDies, user, others
  <2>2. met' = met \/ met' = (met \/ rb.step # "none")
    BY DEF Acts, Publishes, CollectorStarts, CollectorDies, Check, Recovers, Fails, Download, Rename,
     KeepPrevious, Switch, SyncScripts, PinNode, FinalizeFails, RestoreCurrent, RestorePrevious,
     RestoreFails, RestartCollector, RestartFails, ConfirmHealth, HealthTimesOut, PersistCanary,
     GcReads, GcRemoves, Handover, UpdaterDies, history, others
  <2>3. rb \in [step : RollbackSteps, prev : 0 .. made, curr : 0 .. made] /\ met \in BOOLEAN
        /\ rollbacks \in 0 .. MaxRollbacks
    BY DEF UpdaterTypeOK
  <2>4. 0 .. made \subseteq 0 .. made'
    BY <1>u, <1>v DEF Dirs
  <2>5. rb \in [step : RollbackSteps, prev : 0 .. made', curr : 0 .. made']
    BY <2>3, <2>4
  <2> QED BY <2>1, <2>2, <2>3, <2>5
<1> SUFFICES Rest'
  <2>1. faults' \in 0 .. MaxFaults
    <3>1. faults' = faults \/ Fault
      BY DEF Acts, Publishes, CollectorStarts, CollectorDies, Check, Recovers, Fails, Download, Rename,
       KeepPrevious, Switch, SyncScripts, PinNode, FinalizeFails, RestoreCurrent, RestorePrevious,
       RestoreFails, RestartCollector, RestartFails, ConfirmHealth, HealthTimesOut, PersistCanary,
       GcReads, GcRemoves, Handover, UpdaterDies, history, others, Ends, Reborn
    <3>2. faults \in 0 .. MaxFaults /\ MaxFaults \in Nat
      BY DEF UpdaterTypeOK
    <3> QED BY <3>1, <3>2 DEF Fault
  <2> QED BY JobStep, <1>w, <2>1 DEF UpdaterTypeOK
<1> USE DEF files, versions, pointers, proc, updater, user, history, others
<1>0. /\ DOMAIN Feed = 1 .. Len(Feed) /\ Len(Feed) \in Nat
      /\ made \in Nat /\ made \in Dirs /\ MaxDirs \in Nat
      /\ Rest /\ pc' \in Steps /\ job' \in Jobs
      /\ {job'.dir, job'.oldCurrent, job'.oldPrevious, job'.seen} \subseteq 0 .. made'
  BY <1>u, FeedFacts, JobStep DEF Dirs
<1>a. job.dir \in 0 .. made /\ job.oldCurrent \in 0 .. made /\ job.oldPrevious \in 0 .. made
  BY DEF UpdaterTypeOK
<1>1. CASE Publishes
  <2>1. published' \in DOMAIN Feed
    BY <1>0, <1>1 DEF Publishes
  <2>2. UNCHANGED <<files, proc, updater, others>>
    BY <1>1 DEF Publishes
  <2> QED BY <1>0, <2>1, <2>2
<1>2. CASE CollectorStarts
  BY <1>0, <1>2 DEF CollectorStarts, Loaded, Startable
<1>3. CASE CollectorDies
  BY <1>0, <1>3 DEF CollectorDies, NoDir
<1>4. CASE Check
  BY <1>0, <1>4 DEF Check
<1>5. CASE Recovers
  BY <1>0, <1>5 DEF Recovers
<1>6. CASE Fails("download") \/ Fails("handover")
  BY <1>0, <1>6 DEF Fails
<1>7. CASE Download
  BY <1>0, <1>7 DEF Download
<1>8. CASE Rename
  <2>1. made + 1 \in Dirs /\ made' = made + 1
    BY <1>0, <1>8 DEF Rename, Dirs
  <2>2. job.target \in DOMAIN Feed /\ job.node \in Nodes
    BY <1>u DEF Jobs
  <2>3. release' \in [Dirs -> DOMAIN Feed] /\ abi' \in [Dirs -> Nodes]
    BY <1>0, <1>8, <2>2 DEF Rename
  <2>4. dirs' = dirs \cup {made + 1} /\ UNCHANGED <<published, pointers, cli, pin, managed, hotfix, proc, unode, known, others>>
    BY <1>8 DEF Rename
  <2> QED BY <1>0, <2>1, <2>3, <2>4
<1>9. CASE KeepPrevious
  BY <1>0, <1>a, <1>9 DEF KeepPrevious, Deploying
<1>10. CASE Switch
  BY <1>0, <1>a, <1>10 DEF Switch, Deploying
<1>11. CASE SyncScripts
  BY <1>0, <1>a, <1>11 DEF SyncScripts, Deploying
<1>12. CASE PinNode
  <2>1. ~astray' /\ astray' \in BOOLEAN /\ pin' \in Nodes
    BY <1>0, <1>12 DEF PinNode, Nodes
  <2>2. UNCHANGED <<published, versions, pointers, cli, managed, hotfix, proc, unode, known, rollbacks, undone>>
    BY <1>12 DEF PinNode
  <2> QED BY <1>0, <2>1, <2>2
<1>13. CASE FinalizeFails
  <2>1. undone' \subseteq 0 .. made
    BY <1>0, <1>a, <1>13 DEF FinalizeFails
  <2>2. UNCHANGED <<published, files, proc, unode, known, rollbacks, astray>>
    BY <1>13 DEF FinalizeFails
  <2> QED BY <1>0, <2>1, <2>2
<1>14. CASE RestoreCurrent
  BY <1>0, <1>a, <1>14 DEF RestoreCurrent, Deploying
<1>15. CASE RestorePrevious
  BY <1>0, <1>a, <1>15 DEF RestorePrevious, Deploying
<1>16. CASE RestoreFails
  BY <1>0, <1>a, <1>16 DEF RestoreFails, Deploying
<1>17. CASE RestartCollector
  <2>1. ~fresh' /\ fresh' \in BOOLEAN /\ collector' = 0
    BY <1>17 DEF RestartCollector, NoDir
  <2>2. UNCHANGED <<published, files, unode, known, others>>
    BY <1>17 DEF RestartCollector
  <2> QED BY <1>0, <2>1, <2>2
<1>18. CASE RestartFails
  BY <1>0, <1>18 DEF RestartFails
<1>19. CASE ConfirmHealth
  BY <1>0, <1>19 DEF ConfirmHealth
<1>20. CASE HealthTimesOut
  BY <1>0, <1>20 DEF HealthTimesOut
<1>21. CASE PersistCanary
  <2>1. Feed[job.target].hotfix \in Nat
    BY <1>u, FeedFacts DEF Jobs
  <2>2. hotfix' \in Nat /\ known' \in Nat
    BY <1>0, <1>21, <2>1 DEF PersistCanary
  <2>3. UNCHANGED <<published, versions, pointers, cli, pin, managed, proc, unode, rollbacks, history>>
    BY <1>21 DEF PersistCanary
  <2> QED BY <1>0, <2>2, <2>3
<1>22. CASE GcReads
  BY <1>0, <1>22 DEF GcReads
<1>23. CASE GcRemoves
  BY <1>0, <1>23 DEF GcRemoves
<1>24. CASE Handover \/ UpdaterDies
  <2>1. unode' = pin /\ known' = hotfix /\ UNCHANGED <<undone, published, files, proc, rollbacks>>
    BY <1>24 DEF Handover, UpdaterDies, Reborn
  <2>2. astray' \in BOOLEAN
    BY <1>0, <1>24 DEF Handover, UpdaterDies
  <2> QED BY <1>0, <2>1, <2>2
<1> QED BY <1>1, <1>2, <1>3, <1>4, <1>5, <1>6, <1>7, <1>8, <1>9, <1>10, <1>11, <1>12, <1>13, <1>14, <1>15, <1>16, <1>17, <1>18, <1>19, <1>20, <1>21, <1>22, <1>23, <1>24 DEF Acts

-----------------------------------------------------------------------------
(* The parts of the inductive invariant, one by one.                       *)

\* What every step may rely on.
LEMMA Known ==
    ASSUME Sound
    PROVE  /\ UpdaterTypeOK /\ PointersInstalled /\ (FeedAdvances => RunningDirKept)
           /\ JobFollowsPointers /\ ReleasesPublished /\ SwitchConsistent /\ CollectorNotAhead
           /\ DeploysForReason /\ ConfirmedIsCurrent /\ LeftBehindIsSeen /\ RollbackFollows
           /\ DOMAIN Feed = 1 .. Len(Feed) /\ Len(Feed) \in Nat
           /\ made \in Nat /\ made \in 1 .. MaxDirs /\ MaxDirs \in Nat
           /\ current \in Dirs /\ published \in DOMAIN Feed /\ job \in Jobs
           /\ dirs \subseteq Dirs
           /\ NoDir \notin dirs /\ (collector # NoDir => collector \in Dirs)
<1>1. UpdaterTypeOK /\ Consistent
  BY DEF Sound
<1>2. /\ DOMAIN Feed = 1 .. Len(Feed) /\ Len(Feed) \in Nat /\ MaxDirs \in Nat
  BY FeedFacts
<1>3. /\ made \in Nat /\ made \in 1 .. MaxDirs /\ published \in DOMAIN Feed /\ job \in Jobs
      /\ dirs \subseteq 1 .. made /\ collector \in 0 .. made
  BY <1>1, <1>2 DEF UpdaterTypeOK, Dirs
<1>4. dirs \subseteq Dirs /\ NoDir \notin dirs /\ (collector # NoDir => collector \in Dirs)
  BY <1>2, <1>3 DEF Dirs, NoDir
<1>5. /\ PointersInstalled /\ (FeedAdvances => RunningDirKept)
      /\ JobFollowsPointers /\ ReleasesPublished /\ SwitchConsistent /\ CollectorNotAhead
      /\ DeploysForReason /\ ConfirmedIsCurrent /\ LeftBehindIsSeen /\ RollbackFollows
  BY <1>1 DEF Consistent
<1>6. current \in Dirs
  BY <1>4, <1>5 DEF PointersInstalled
<1> QED BY <1>1, <1>2, <1>3, <1>4, <1>5, <1>6

LEMMA AloneKeeps ==
    ASSUME Alone PROVE Acts /\ rb.step = "none" /\ rb' = rb /\ Untouched /\ Untouched'
<1>1. Acts /\ rb.step = "none"
  BY DEF Alone
<1>2. rb' = rb
  BY <1>1 DEF Alone, Acts, Publishes, CollectorStarts, CollectorDies, Check, Recovers, Fails, Download, Rename,
     KeepPrevious, Switch, SyncScripts, PinNode, FinalizeFails, RestoreCurrent, RestorePrevious,
     RestoreFails, RestartCollector, RestartFails, ConfirmHealth, HealthTimesOut, PersistCanary,
     GcReads, GcRemoves, Handover, UpdaterDies, user, others
<1> QED BY <1>1, <1>2 DEF Untouched

LEMMA PointersStep ==
    ASSUME Sound, Alone PROVE PointersInstalled' /\ (FeedAdvances => RunningDirKept')
<1> USE DEF PointersInstalled, RunningDirKept, files, versions, pointers, proc, updater, history, others
<1>0. UpdaterTypeOK /\ PointersInstalled /\ (FeedAdvances => RunningDirKept)
  BY Known
<1>a. pc \in Deploying => /\ job.dir \in dirs /\ job.oldCurrent \in dirs
                          /\ (job.oldPrevious = NoDir \/ job.oldPrevious \in dirs)
  BY Known DEF JobFollowsPointers
<1>1. CASE Rename
  BY <1>0, <1>1 DEF Rename
<1>2. CASE KeepPrevious \/ Switch \/ RestoreCurrent \/ RestorePrevious \/ RestoreFails
  BY <1>0, <1>a, <1>2 DEF KeepPrevious, Switch, RestoreCurrent, RestorePrevious, RestoreFails,
     Deploying
<1>3. CASE GcRemoves
  <2>1. job.seen = current /\ (FeedAdvances => collector \in {NoDir, current} \cup undone)
    BY <1>3, Known DEF GcRemoves, JobFollowsPointers, ConfirmedIsCurrent, Outside
  <2>2. UNCHANGED <<current, previous, collector, undone>>
    BY <1>3 DEF GcRemoves
  <2>3. \/ dirs' = dirs
        \/ \E d \in dirs \ {current, previous} : dirs' = dirs \ {d}
    <3> DEFINE stale == dirs \ {job.seen, previous}
    <3>1. stale \in SUBSET Nat
      BY Known DEF UpdaterTypeOK
    <3>2. stale # {} => Min(stale) \in stale
      BY <3>1, OldestIsStale
    <3> QED BY <1>3, <2>1, <3>2 DEF GcRemoves
  <2> QED BY <1>0, <2>1, <2>2, <2>3
<1>5. CASE CollectorStarts
  BY <1>0, <1>5 DEF CollectorStarts, Startable, Loaded
<1>6. CASE CollectorDies \/ RestartCollector
  BY <1>0, <1>6 DEF CollectorDies, RestartCollector
<1>7. CASE FinalizeFails
  BY <1>0, <1>7 DEF FinalizeFails
<1>8. CASE ~(Rename \/ KeepPrevious \/ Switch \/ RestoreCurrent \/ RestorePrevious \/ RestoreFails
             \/ GcRemoves \/ CollectorStarts \/ CollectorDies \/ RestartCollector \/ FinalizeFails)
  <2>1. UNCHANGED <<current, previous, dirs, collector, undone>>
    BY <1>8 DEF Alone, Acts, Publishes, Check, Recovers, Fails, Download, SyncScripts, PinNode,
       RestartFails, ConfirmHealth, HealthTimesOut, PersistCanary, GcReads, Handover, UpdaterDies
  <2> QED BY <1>0, <2>1
<1> QED BY <1>1, <1>2, <1>3, <1>5, <1>6, <1>7, <1>8

LEMMA JobFollowsStep ==
    ASSUME Sound, Alone, UpdaterTypeOK' PROVE JobFollowsPointers'
<1> USE DEF JobFollowsPointers, Deploying, Confirming, files, versions, pointers, proc, updater,
        history, others
<1>0. /\ JobFollowsPointers /\ ReleasesPublished /\ job \in Jobs /\ PointersInstalled
      /\ made \in Nat /\ dirs \subseteq 1 .. made /\ NoDir = 0
      /\ release \in [Dirs -> DOMAIN Feed]
  BY Known DEF UpdaterTypeOK, NoDir
<1>1. CASE pc' = "idle"
  BY <1>1
<1>2. CASE Publishes \/ CollectorStarts \/ CollectorDies
  BY <1>0, <1>2 DEF Publishes, CollectorStarts, CollectorDies
<1>3. CASE Check
  BY <1>0, <1>3 DEF Check, NoJob, Jobs
<1>4. CASE Recovers
  BY <1>0, <1>4 DEF Recovers
<1>5. CASE Download
  BY <1>0, <1>5 DEF Download, Jobs
<1>6. CASE Rename
  <2>1. made' = made + 1 /\ made' \in Dirs /\ made' \in dirs'
    BY <1>0, <1>6 DEF Rename, Dirs
  <2>2. /\ job'.dir = made' /\ job'.oldCurrent = current /\ job'.oldPrevious = previous
        /\ job'.target = job.target /\ job'.deploys = job.deploys
    BY <1>0, <1>6 DEF Rename, Jobs
  <2>3. release'[made'] = job.target
    BY <1>0, <1>6, <2>1 DEF Rename
  <2>4. job.deploys
    BY <1>0, <1>6 DEF Rename
  <2>5. pc' = "previous" /\ dirs' = dirs \cup {made'} /\ UNCHANGED <<current, previous>>
    BY <1>6 DEF Rename
  <2> QED BY <1>0, <2>1, <2>2, <2>3, <2>4, <2>5 DEF PointersInstalled
<1>7. CASE KeepPrevious \/ Switch
  BY <1>0, <1>7 DEF KeepPrevious, Switch
<1>8. CASE SyncScripts \/ PinNode
  BY <1>0, <1>8 DEF SyncScripts, PinNode
<1>9. CASE FinalizeFails
  BY <1>0, <1>9 DEF FinalizeFails
<1>10. CASE RestoreCurrent
  BY <1>0, <1>10 DEF RestoreCurrent
<1>11. CASE RestartCollector \/ RestartFails
  BY <1>0, <1>11 DEF RestartCollector, RestartFails
<1>12. CASE ConfirmHealth
  BY <1>0, <1>12 DEF ConfirmHealth, Jobs
<1>13. CASE PersistCanary
  BY <1>0, <1>13 DEF PersistCanary
<1>14. CASE GcReads
  <2>1. job' = [job EXCEPT !.seen = current] /\ pc = "gc" /\ pc' = "remove"
        /\ UNCHANGED <<files>>
    BY <1>14 DEF GcReads
  <2>2. /\ job'.seen = current /\ job'.deploys = job.deploys /\ job'.dir = job.dir
        /\ job'.newPid = job.newPid /\ job'.target = job.target
    BY <1>0, <2>1 DEF Jobs
  <2> QED BY <1>0, <2>1, <2>2
<1>15. CASE GcRemoves
  BY <1>0, <1>15, <1>1 DEF GcRemoves, Ends
<1>16. CASE \/ RestorePrevious \/ RestoreFails \/ HealthTimesOut \/ Handover \/ UpdaterDies
            \/ Fails("download") \/ Fails("handover")
  BY <1>1, <1>16 DEF RestorePrevious, RestoreFails, HealthTimesOut, Handover, UpdaterDies,
     Fails, Ends, Reborn
<1> QED
  BY <1>2, <1>3, <1>4, <1>5, <1>6, <1>7, <1>8, <1>9, <1>10, <1>11, <1>12, <1>13, <1>14, <1>15, <1>16,
     AloneKeeps DEF Acts

LEMMA ReleasesStep ==
    ASSUME Sound, Alone, UpdaterTypeOK' PROVE ReleasesPublished'
<1> USE DEF ReleasesPublished, files, versions, pointers, proc, updater, history, others
<1>0. /\ JobFollowsPointers /\ ReleasesPublished /\ job \in Jobs /\ published \in Nat
      /\ release \in [Dirs -> DOMAIN Feed] /\ DOMAIN Feed = 1 .. Len(Feed) /\ Len(Feed) \in Nat
  <2>1. published \in Nat
    BY Known, FeedFacts
  <2> QED BY <2>1, Known DEF UpdaterTypeOK
<1>1. CASE Publishes
  <2>1. published' = published + 1 /\ pc' = "idle" /\ release' = release
    BY <1>1 DEF Publishes
  <2> QED BY <1>0, <2>1
<1>2. CASE Check
  BY <1>0, <1>2 DEF Check, NoJob
<1>3. CASE Rename
  <2>1. job'.deploys = job.deploys /\ job'.target = job.target /\ job.deploys /\ job.target = published
    BY <1>0, <1>3 DEF Rename, Jobs, JobFollowsPointers
  <2>2. \A d \in Dirs : release'[d] \in {release[d], published}
    BY <1>0, <1>3, <2>1 DEF Rename
  <2>3. UNCHANGED published
    BY <1>3 DEF Rename
  <2> QED BY <1>0, <2>1, <2>2, <2>3
<1>4. CASE ~(Publishes \/ Check \/ Rename)
  <2>1. UNCHANGED <<published, release>>
    BY <1>4 DEF Alone, Acts, CollectorStarts, CollectorDies, Recovers, Fails, Download, KeepPrevious, Switch,
       SyncScripts, PinNode, FinalizeFails, RestoreCurrent, RestorePrevious, RestoreFails,
       RestartCollector, RestartFails, ConfirmHealth, HealthTimesOut, PersistCanary, GcReads,
       GcRemoves, Handover, UpdaterDies
  <2>2. \/ pc' = "idle"
        \/ /\ job'.target = job.target /\ job'.deploys = job.deploys
           /\ pc' # "idle" => pc # "idle"
    BY <1>0, <1>4 DEF Alone, Acts, CollectorStarts, CollectorDies, Recovers, Fails, Download, KeepPrevious, Switch,
       SyncScripts, PinNode, FinalizeFails, RestoreCurrent, RestorePrevious, RestoreFails,
       RestartCollector, RestartFails, ConfirmHealth, HealthTimesOut, PersistCanary, GcReads,
       GcRemoves, Handover, UpdaterDies, Ends, Reborn, Jobs
  <2> QED BY <1>0, <2>1, <2>2
<1> QED BY <1>1, <1>2, <1>3, <1>4

LEMMA SwitchStep ==
    ASSUME Sound, Alone, UpdaterTypeOK' PROVE SwitchConsistent'
<1> USE DEF SwitchConsistent, Deploying, files, versions, pointers, proc, updater, history, others
<1>0. /\ SwitchConsistent /\ JobFollowsPointers /\ job \in Jobs /\ current \in dirs
      /\ made \in Nat /\ dirs \subseteq 1 .. made /\ managed \in BOOLEAN /\ astray \in BOOLEAN
      /\ abi \in [Dirs -> Nodes] /\ made \in 1 .. MaxDirs /\ MaxDirs \in Nat
      /\ current \in Dirs
  BY Known DEF UpdaterTypeOK, PointersInstalled
<1>u. Untouched /\ Untouched'
  BY AloneKeeps
<1>1. CASE Publishes \/ CollectorStarts \/ CollectorDies
  BY <1>0, <1>u, <1>1 DEF Publishes, CollectorStarts, CollectorDies
<1>2. CASE Check \/ Recovers \/ Fails("download") \/ Fails("handover")
  BY <1>0, <1>u, <1>2 DEF Check, Recovers, Fails, Ends
<1>3. CASE Download
  <2>1. job'.node = IF managed' THEN "managed" ELSE unode
    BY <1>0, <1>u, <1>3 DEF Download, Jobs
  <2>2. /\ pc = "download" /\ pc' = "rename" /\ UNCHANGED <<abi, cli, astray, current, unode, pin>>
    BY <1>3 DEF Download
  <2>3. ~managed' => ~managed
    <3>1. managed' = managed \/ managed' = TRUE
      BY <1>3 DEF Download
    <3> QED BY <3>1
  <2> QED BY <1>0, <1>u, <2>1, <2>2, <2>3
<1>4. CASE Rename
  <2>1. made' = made + 1 /\ made' \in Dirs /\ made' # current
    BY <1>0, <1>u, <1>4 DEF Rename, Dirs
  <2>2. job'.dir = made' /\ job'.oldCurrent = current /\ job'.node = job.node
    BY <1>0, <1>u, <1>4 DEF Rename, Jobs
  <2>3. abi'[made'] = job.node /\ abi'[current] = abi[current]
    BY <1>0, <1>u, <1>4, <2>1 DEF Rename
  <2>4. /\ pc = "rename" /\ pc' = "previous"
        /\ UNCHANGED <<cli, astray, current, unode, pin, managed>>
    BY <1>4 DEF Rename
  <2> QED BY <1>0, <1>u, <2>1, <2>2, <2>3, <2>4
<1>5. CASE KeepPrevious \/ Switch \/ SyncScripts
  BY <1>0, <1>u, <1>5 DEF KeepPrevious, Switch, SyncScripts, JobFollowsPointers
<1>6. CASE PinNode
  <2>1. /\ pc = "pin" /\ pc' = "restart" /\ pin' = (IF managed THEN "managed" ELSE pin)
        /\ UNCHANGED <<cli, current, unode, managed, abi, job>>
    BY <1>6 DEF PinNode
  <2>2. current = job.dir /\ cli = job.dir
    BY <1>0, <1>u, <2>1 DEF JobFollowsPointers
  <2> QED BY <1>0, <1>u, <2>1, <2>2
<1>7. CASE FinalizeFails
  BY <1>0, <1>u, <1>7 DEF FinalizeFails, JobFollowsPointers
<1>8. CASE RestoreCurrent
  BY <1>0, <1>u, <1>8 DEF RestoreCurrent, JobFollowsPointers
<1>9. CASE RestorePrevious
  <2>1. job.oldCurrent \in dirs /\ current = job.oldCurrent
    BY <1>0, <1>u, <1>9 DEF RestorePrevious, JobFollowsPointers
  <2> QED BY <1>0, <1>u, <1>9, <2>1 DEF RestorePrevious, Ends
<1>10. CASE RestoreFails
  BY <1>0, <1>u, <1>10 DEF RestoreFails, Ends
<1>11. CASE RestartCollector \/ RestartFails \/ ConfirmHealth \/ HealthTimesOut \/ PersistCanary
            \/ GcReads \/ GcRemoves
  <2>1. UNCHANGED <<cli, current, unode, managed, abi, pin, astray>>
    BY <1>11 DEF RestartCollector, RestartFails, ConfirmHealth, HealthTimesOut, PersistCanary, GcReads, GcRemoves
  <2>2. pc \notin Deploying /\ pc' \notin {"rename", "pin"} \cup Deploying
    BY <1>11 DEF RestartCollector, RestartFails, ConfirmHealth, HealthTimesOut, PersistCanary, GcReads, GcRemoves, Ends
  <2> QED BY <1>0, <1>u, <2>1, <2>2
<1>12. CASE Handover \/ UpdaterDies
  <2>1. UNCHANGED <<cli, current, managed, abi, pin>> /\ unode' = pin /\ pc' = "idle"
    BY <1>12 DEF Handover, UpdaterDies, Reborn, Ends
  <2>2. ~astray' => ~astray /\ (pc \notin Deploying \/ pc \in {"previous", "current"})
    BY <1>0, <1>u, <1>12 DEF Handover, UpdaterDies, HalfSwitched
  <2>3. pc \in {"previous", "current"} => current = job.oldCurrent
    BY <1>0 DEF JobFollowsPointers
  <2> QED BY <1>0, <1>u, <2>1, <2>2, <2>3
<1> QED BY <1>1, <1>2, <1>3, <1>4, <1>5, <1>6, <1>7, <1>8, <1>9, <1>10, <1>11, <1>12, AloneKeeps DEF Acts

\* The build a directory holds.
LEMMA Builds ==
    ASSUME UpdaterTypeOK
    PROVE  \A d \in Dirs :
              /\ release[d] \in DOMAIN Feed /\ release[d] \in Nat
              /\ Feed[release[d]].version \in Nat /\ Feed[release[d]].commit \in Nat
              /\ Feed[release[d]].hotfix \in Nat
BY FeedFacts DEF UpdaterTypeOK

\* A deployment writes the directory it made only when that is new.
LEMMA RenameKeeps ==
    ASSUME Sound, Rename, UpdaterTypeOK'
    PROVE  /\ made' = made + 1 /\ made' \in Dirs /\ made' # current /\ made' # collector
           /\ job'.dir = made' /\ job'.oldCurrent = current /\ job'.target = job.target
           /\ job'.deploys = job.deploys /\ job'.newPid = job.newPid
           /\ release'[made'] = job.target /\ release'[current] = release[current]
           /\ collector # NoDir => release'[collector] = release[collector]
           /\ pc = "rename" /\ pc' = "previous"
           /\ UNCHANGED <<current, collector, fresh, undone, hotfix, known, published>>
<1>0. /\ job \in Jobs /\ made \in Nat /\ made \in 1 .. MaxDirs /\ MaxDirs \in Nat
      /\ current \in Dirs /\ current \in 0 .. made /\ collector \in 0 .. made
      /\ release \in [Dirs -> DOMAIN Feed] /\ (collector # NoDir => collector \in Dirs)
  BY Known DEF UpdaterTypeOK
<1>1. made' = made + 1 /\ made' \in Dirs /\ made' # current /\ made' # collector
  BY <1>0 DEF Rename, Dirs
<1>2. /\ job'.dir = made' /\ job'.oldCurrent = current /\ job'.target = job.target
      /\ job'.deploys = job.deploys /\ job'.newPid = job.newPid
  BY <1>0 DEF Rename, Jobs
<1>3. /\ release'[made'] = job.target /\ release'[current] = release[current]
      /\ collector # NoDir => release'[collector] = release[collector]
  BY <1>0, <1>1 DEF Rename
<1> QED BY <1>1, <1>2, <1>3 DEF Rename, pointers, proc, others, history

\* What the steps that move neither the collector nor the pointers leave alone.
Elsewhere ==
    Alone /\ ~(\/ Rename \/ Switch \/ RestoreCurrent \/ CollectorStarts
              \/ CollectorDies \/ RestartCollector)

LEMMA ElsewhereKeeps ==
    ASSUME Sound, Elsewhere
    PROVE  /\ UNCHANGED <<current, collector, release>> /\ undone \subseteq undone'
           /\ pc' \in Deploying => pc \in Deploying
           /\ pc' \in Deploying \cup {"restart", "health"} /\ job'.deploys =>
                 /\ pc \in Deploying \cup {"restart", "health"} /\ job' = job
           /\ pc' \in Deploying => job' = job
<1> USE DEF Elsewhere, Alone, Acts, Publishes, Check, Recovers, Fails, Download, KeepPrevious,
       SyncScripts, PinNode, FinalizeFails, RestorePrevious, RestoreFails,
       RestartFails, ConfirmHealth, HealthTimesOut, PersistCanary, GcReads,
       GcRemoves, Handover, UpdaterDies, Ends, Reborn,
       files, versions, pointers, proc, updater, history, others
<1>1. UNCHANGED <<current, collector, release>> /\ undone \subseteq undone'
  OBVIOUS
<1>2. pc' \in Deploying => pc \in Deploying /\ job' = job
  BY DEF Deploying
<1>3. pc = "recover" => ~job.deploys
  BY Known DEF JobFollowsPointers
<1>4. pc' \in {"restart", "health"} /\ job'.deploys =>
         pc \in Deploying \cup {"restart", "health"} /\ job' = job
  BY <1>3 DEF Deploying
<1> QED BY <1>1, <1>2, <1>4

LEMMA CollectorStep ==
    ASSUME Sound, Alone, UpdaterTypeOK' PROVE CollectorNotAhead'
<1> USE DEF CollectorNotAhead, Outside
<1>0. /\ CollectorNotAhead /\ JobFollowsPointers /\ current \in dirs /\ current \in Dirs
      /\ (collector # NoDir => collector \in Dirs)
  BY Known DEF PointersInstalled
<1>b. \A d \in Dirs : /\ release[d] \in Nat /\ Feed[release[d]].version \in Nat
  BY Known, Builds
<1>u. Untouched /\ Untouched'
  BY AloneKeeps
<1>1. CASE CollectorStarts
  <2>1. /\ collector' = current
        /\ UNCHANGED <<pc, job, release, current, undone>>
    BY <1>0, <1>u, <1>1 DEF CollectorStarts, Loaded, files, versions, pointers, updater, others, history
  <2>2. pc \in Deploying \cup {"restart", "health"} /\ job.deploys /\ current # job.dir
           => current = job.oldCurrent
    BY <1>0 DEF JobFollowsPointers, Deploying, Confirming
  <2> QED BY <1>0, <1>u, <1>b, <2>1, <2>2
<1>2. CASE CollectorDies \/ RestartCollector
  BY <1>2 DEF CollectorDies, RestartCollector
<1>3. CASE Rename
  <2>1. job'.oldCurrent = current /\ UNCHANGED <<current, collector, undone>>
    BY <1>3, RenameKeeps
  <2>2. /\ release'[current] = release[current]
        /\ collector # NoDir => release'[collector] = release[collector]
    BY <1>3, RenameKeeps
  <2> QED BY <1>0, <1>u, <2>1, <2>2
<1>4. CASE Switch
  <2>1. /\ pc = "current" /\ current' = job.dir /\ pc' = "scripts"
        /\ UNCHANGED <<job, release, collector, undone>>
    BY <1>4 DEF Switch, versions, proc, others, history
  <2>2. /\ job.deploys /\ job.dir \in Dirs /\ job.oldCurrent \in Dirs
        /\ release[job.dir] = job.target /\ job.target = published
    <3>1. dirs \subseteq Dirs
      BY Known
    <3>2. /\ job.deploys /\ {job.dir, job.oldCurrent} \subseteq dirs /\ release[job.dir] = job.target
      BY <2>1, Known DEF JobFollowsPointers, Deploying
    <3>3. job.target = published
      BY <2>1, <3>2, Known DEF ReleasesPublished
    <3> QED BY <3>1, <3>2, <3>3
  <2>3. \A d \in Dirs : release[d] <= published
    BY Known DEF ReleasesPublished
  <2>4. Feed[job.target].version >= Feed[release[job.oldCurrent]].version
    BY <2>1, <2>2, Known DEF DeploysForReason, Deploying
  <2>5. Outside({job.dir}) => Feed[release[collector]].version <= Feed[release[job.oldCurrent]].version
    BY <1>0, <1>u, <2>1, <2>2 DEF Deploying
  <2>6. Outside({}) => /\ release[collector] <= release[job.dir]
                       /\ Feed[release[collector]].version <= Feed[release[job.dir]].version
    BY <1>0, <1>u, <1>b, <2>2, <2>3, <2>4, <2>5
  <2> QED BY <1>0, <1>u, <2>1, <2>2, <2>6 DEF Deploying
<1>5. CASE RestoreCurrent
  <2>1. /\ pc = "restore" /\ current' = job.oldCurrent /\ pc' = "restorePrevious"
        /\ UNCHANGED <<job, release, collector, undone>>
    BY <1>5 DEF RestoreCurrent, versions, proc, others, history
  <2>2. job.deploys /\ job.dir \in undone
    BY <1>0, <1>u, <2>1 DEF JobFollowsPointers, Deploying
  <2> QED BY <1>0, <1>u, <2>1, <2>2 DEF Deploying
<1>6. CASE Elsewhere
  BY <1>0, <1>u, <1>6, ElsewhereKeeps
<1> QED BY <1>1, <1>2, <1>3, <1>4, <1>5, <1>6, AloneKeeps DEF Elsewhere, Acts

LEMMA ReasonStep ==
    ASSUME Sound, Alone, UpdaterTypeOK' PROVE DeploysForReason'
<1> USE DEF DeploysForReason, Reason
<1>0. /\ DeploysForReason /\ JobFollowsPointers /\ current \in dirs /\ current \in Dirs
      /\ job \in Jobs /\ published \in DOMAIN Feed
  BY Known DEF PointersInstalled
<1>a. \A d \in Dirs : /\ Feed[release[d]].version \in Nat /\ Feed[release[d]].hotfix \in Nat
  BY Known, Builds
<1>b. Feed[published].version \in Nat
  BY <1>0, FeedFacts
<1>1. CASE Check
  <2>1. UNCHANGED <<current, dirs, release, known, published>>
    BY <1>1 DEF Check, files, versions, pointers
  <2>2. CASE NeedsUpdate(published)
    <3>1. /\ job'.target = published /\ pc' = "download"
          /\ job'.newPid = (current \in dirs /\ Feed[release[current]].version = Feed[published].version)
      BY <1>1, <2>2 DEF Check, NoJob
    <3>2. Reason(published, current)
      BY <1>0, <2>2 DEF NeedsUpdate
    <3>3. ~job'.newPid => Feed[release[current]].version # Feed[published].version
      BY <1>0, <3>1
    <3>4. ~job'.newPid => Feed[published].version > Feed[release[current]].version
      BY <1>a, <1>b, <1>0, <3>2, <3>3
    <3> QED BY <2>1, <3>1, <3>2, <3>4 DEF Deploying
  <2>3. CASE ~NeedsUpdate(published)
    BY <1>1, <2>1, <2>3 DEF Check, Deploying, NeedsUpdate
  <2> QED BY <2>2, <2>3
<1>2. CASE Download
  <2>1. /\ job'.target = job.target /\ job'.newPid = job.newPid /\ pc = "download" /\ pc' = "rename"
        /\ UNCHANGED <<current, release, known>>
    BY <1>0, <1>2 DEF Download, Jobs, versions, pointers
  <2> QED BY <1>0, <2>1 DEF Deploying
<1>3. CASE Rename
  <2>1. /\ job'.oldCurrent = current /\ job'.target = job.target /\ job'.newPid = job.newPid
        /\ release'[current] = release[current] /\ pc = "rename" /\ pc' = "previous"
        /\ UNCHANGED known
    BY <1>3, RenameKeeps
  <2>2. Reason(job.target, current)
    BY <1>0, <2>1
  <2>3. job.target \in DOMAIN Feed
    BY <1>0 DEF Jobs
  <2>4. Feed[job.target].version >= Feed[release[current]].version
    BY <1>0, <1>a, <2>2, <2>3, FeedFacts
  <2> QED BY <1>0, <2>1, <2>2, <2>4 DEF Deploying
<1>4. CASE ~(Check \/ Download \/ Rename)
  <2> USE DEF Alone, Acts, Publishes, CollectorStarts, CollectorDies, Recovers, Fails, KeepPrevious, Switch,
       SyncScripts, PinNode, FinalizeFails, RestoreCurrent, RestorePrevious, RestoreFails,
       RestartCollector, RestartFails, ConfirmHealth, HealthTimesOut, PersistCanary, GcReads,
       GcRemoves, Handover, UpdaterDies, Ends, Reborn,
       files, versions, pointers, proc, updater, history, others
  <2>1. UNCHANGED release
    BY <1>4
  <2>2. pc' \in {"download", "rename", "recover"} =>
           UNCHANGED <<pc, job, current, dirs, known, published>>
    BY <1>4
  <2>3. pc' \in Deploying => pc \in Deploying /\ UNCHANGED <<job, known>>
    BY <1>4 DEF Deploying
  <2>4. pc' \in {"restart", "health"} /\ job'.deploys =>
           pc \in Deploying \cup {"restart", "health"} /\ UNCHANGED job
    BY <1>0, <1>4 DEF Deploying, JobFollowsPointers
  <2> HIDE DEF Alone, Acts, Publishes, CollectorStarts, CollectorDies, Recovers, Fails, KeepPrevious, Switch,
       SyncScripts, PinNode, FinalizeFails, RestoreCurrent, RestorePrevious, RestoreFails,
       RestartCollector, RestartFails, ConfirmHealth, HealthTimesOut, PersistCanary, GcReads,
       GcRemoves, Handover, UpdaterDies, Ends, Reborn,
       files, versions, pointers, proc, updater, history, others
  <2>5. pc' \in {"download", "rename"} =>
          /\ Reason(job.target, current)'
          /\ ~job'.newPid => Feed[job'.target].version > Feed[release'[current']].version
    BY <1>0, <2>1, <2>2
  <2>6. pc' \in Deploying => Reason(job.target, job.oldCurrent)'
    BY <1>0, <2>1, <2>3
  <2>7. pc' \in Deploying \cup {"restart", "health"} /\ job'.deploys =>
          /\ Feed[job'.target].version >= Feed[release'[job'.oldCurrent]].version
          /\ ~job'.newPid => Feed[job'.target].version > Feed[release'[job'.oldCurrent]].version
    BY <1>0, <2>1, <2>3, <2>4
  <2>8. pc' = "recover" => ~NeedsUpdate(published)'
    BY <1>0, <2>1, <2>2 DEF NeedsUpdate
  <2> QED BY <2>5, <2>6, <2>7, <2>8
<1> QED BY <1>1, <1>2, <1>3, <1>4

\* collectorHealthFailure() of a deployment: a collector that was there before
\* is either asked for another pid, or older than what is asked for.
LEMMA HealthyIsCurrent ==
    ASSUME Sound, pc = "health", Healthy(job.target, job.newPid)
    PROVE  collector \in {current} \cup undone
<1>0. /\ CollectorNotAhead /\ JobFollowsPointers /\ ConfirmedIsCurrent /\ DeploysForReason
      /\ (collector # NoDir => collector \in Dirs) /\ dirs \subseteq Dirs /\ current \in Dirs
      /\ job \in Jobs
  BY Known DEF UpdaterTypeOK, Dirs
<1>1. collector # NoDir /\ SameBuild(release[collector], job.target) /\ (job.newPid => fresh)
  BY DEF Healthy
<1>2. CASE fresh
  BY <1>0, <1>1, <1>2 DEF ConfirmedIsCurrent, Outside
<1>3. CASE ~fresh
  <2>1. job.deploys /\ ~job.newPid
    BY <1>0, <1>1, <1>3 DEF JobFollowsPointers, Confirming
  <2>2. current = job.dir
    BY <1>0, <2>1 DEF JobFollowsPointers, Confirming
  <2>3. Feed[job.target].version > Feed[release[job.oldCurrent]].version
    BY <1>0, <2>1 DEF DeploysForReason
  <2>4. Outside({job.dir}) => Feed[release[collector]].version <= Feed[release[job.oldCurrent]].version
    BY <1>0, <2>1 DEF CollectorNotAhead
  <2>5. Feed[release[collector]].version = Feed[job.target].version
    BY <1>1 DEF SameBuild
  <2>6. Feed[job.target].version \in Nat
    BY <1>0, FeedFacts DEF Jobs
  <2>7. job.oldCurrent \in Dirs
    <3>1. job.oldCurrent # NoDir /\ job.oldCurrent \in 0 .. MaxDirs
      BY <1>0, <2>1 DEF JobFollowsPointers, Jobs
    <3> QED BY <3>1 DEF NoDir, Dirs
  <2>8. Feed[release[job.oldCurrent]].version \in Nat
    BY <2>7, Known, Builds
  <2>9. ~Outside({job.dir})
    BY <2>3, <2>4, <2>5, <2>6, <2>8
  <2> QED BY <1>1, <2>2, <2>9 DEF Outside
<1> QED BY <1>2, <1>3

\* A collector that reports the current build is the current one, where the
\* server goes forward: else the hotfix it lacks had made the check deploy.
LEMMA RecoveredIsCurrent ==
    ASSUME Sound, FeedAdvances, pc = "recover", Healthy(job.target, FALSE)
    PROVE  collector \in {current} \cup undone
<1>0. /\ JobFollowsPointers /\ DeploysForReason /\ ReleasesPublished /\ LeftBehindIsSeen
      /\ current \in dirs /\ current \in Dirs /\ published \in DOMAIN Feed /\ published \in Nat
      /\ (collector # NoDir => collector \in Dirs) /\ known \in Nat
  <2>1. published \in Nat /\ known \in Nat
    BY Known, FeedFacts DEF UpdaterTypeOK
  <2> QED BY <2>1, Known DEF PointersInstalled
<1>1. collector # NoDir /\ SameBuild(release[collector], release[current])
  BY <1>0 DEF Healthy, JobFollowsPointers, Confirming
<1>2. ~NeedsUpdate(published)
  BY <1>0 DEF DeploysForReason
<1>3. /\ release[current] \in DOMAIN Feed /\ release[current] \in Nat
      /\ Feed[release[current]].version \in Nat /\ Feed[release[current]].hotfix \in Nat
      /\ Feed[published].version \in Nat /\ Feed[published].hotfix \in Nat
  BY <1>0, Known, Builds, FeedFacts
<1>4. release[current] <= published
  BY <1>0 DEF ReleasesPublished
<1>5. Feed[release[current]].hotfix <= known
  <2>1. CASE release[current] = published
    BY <1>0, <1>2, <1>3, <2>1 DEF NeedsUpdate
  <2>2. CASE release[current] < published
    <3>1. Feed[release[current]].version <= Feed[published].version
      BY <1>0, <1>3, <2>2 DEF FeedAdvances
    <3>2. SameBuild(release[current], published) /\ ~(Feed[published].hotfix > known)
      BY <1>0, <1>2, <1>3, <3>1 DEF NeedsUpdate, SameBuild
    <3>3. Feed[release[current]].hotfix <= Feed[published].hotfix
      BY <1>0, <1>3, <2>2, <3>2 DEF FeedAdvances
    <3> QED BY <1>0, <1>3, <3>2, <3>3
  <2> QED BY <1>0, <1>3, <1>4, <2>1, <2>2
<1>6. Outside({current}) => Feed[release[current]].hotfix > known
  <2>1. Untouched
    BY Known DEF RollbackFollows, Untouched
  <2> QED BY <1>0, <1>1, <2>1 DEF LeftBehindIsSeen
<1> QED BY <1>0, <1>1, <1>3, <1>5, <1>6 DEF Outside

LEMMA ConfirmedStep ==
    ASSUME Sound, Alone, UpdaterTypeOK' PROVE ConfirmedIsCurrent'
<1> USE DEF ConfirmedIsCurrent, Outside
<1>0. /\ ConfirmedIsCurrent /\ JobFollowsPointers /\ current \in dirs /\ job \in Jobs
  BY Known DEF PointersInstalled
<1>1. CASE CollectorStarts
  BY <1>0, <1>1 DEF CollectorStarts, Loaded, files, versions, pointers, updater, others, history
<1>2. CASE CollectorDies \/ RestartCollector
  BY <1>2 DEF CollectorDies, RestartCollector
<1>3. CASE ConfirmHealth
  <2>1. pc = "health" /\ Healthy(job.target, job.newPid) /\ UNCHANGED <<collector, current, undone>>
        /\ pc' \in {"persist", "gc"}
    BY <1>3 DEF ConfirmHealth, files, pointers, proc, others, history
  <2>2. collector \in {current} \cup undone
    BY <2>1, HealthyIsCurrent
  <2> QED BY <2>1, <2>2
<1>4. CASE Recovers
  <2>1. pc = "recover" /\ UNCHANGED <<collector, current, undone, job>>
    BY <1>4 DEF Recovers, files, pointers, proc, others, history
  <2>2. ~job.acted
    BY <1>0, <2>1 DEF JobFollowsPointers
  <2>3. CASE Healthy(job.target, FALSE)
    <3>1. pc' = "gc"
      BY <1>4, <2>1, <2>3 DEF Recovers, Healthy
    <3>2. FeedAdvances => collector \in {current} \cup undone
      BY <2>1, <2>3, RecoveredIsCurrent
    <3> QED BY <2>1, <2>2, <3>1, <3>2
  <2>4. CASE ~Healthy(job.target, FALSE)
    <3>1. pc' = "restart" \/ (pc' = "health" /\ collector = NoDir)
      BY <1>4, <2>4 DEF Recovers
    <3> QED BY <2>1, <3>1
  <2> QED BY <2>3, <2>4
<1>5. CASE RestartFails
  BY <1>5 DEF RestartFails
<1>6. CASE PersistCanary \/ GcRemoves
  <2>1. UNCHANGED <<collector, current, undone>> /\ pc \in {"persist", "remove"}
    BY <1>6 DEF PersistCanary, GcRemoves, files, pointers, proc, others, history
  <2>2. pc' = "idle" \/ (pc' \in {"gc", "handover"} /\ job' = job)
    BY <1>6 DEF PersistCanary, GcRemoves, Ends
  <2> QED BY <1>0, <2>1, <2>2
<1>7. CASE GcReads
  <2>1. UNCHANGED <<collector, current, undone>> /\ pc = "gc" /\ pc' = "remove"
    BY <1>7 DEF GcReads, files, pointers, proc, others, history
  <2>2. job'.acted = job.acted
    BY <1>0, <1>7 DEF GcReads, Jobs
  <2> QED BY <1>0, <2>1, <2>2
<1>8. CASE ~(CollectorStarts \/ CollectorDies \/ RestartCollector \/ ConfirmHealth \/ Recovers
             \/ RestartFails \/ PersistCanary \/ GcRemoves \/ GcReads)
  <2>1. pc' \notin {"health", "persist", "gc", "remove", "handover"}
    BY <1>8 DEF Alone, Acts, Publishes, Check, Fails, Download, Rename, KeepPrevious, Switch, SyncScripts,
       PinNode, FinalizeFails, RestoreCurrent, RestorePrevious, RestoreFails, HealthTimesOut,
       Handover, UpdaterDies, Ends, Reborn, updater
  <2> QED BY <2>1
<1> QED BY <1>1, <1>2, <1>3, <1>4, <1>5, <1>6, <1>7, <1>8

\* The hotfix in memory and in the file: one that was published, and the file
\* is never ahead.
LEMMA HotfixStep ==
    ASSUME Sound, Alone, FeedAdvances
    PROVE  /\ (hotfix <= known)'
           /\ ({hotfix, known} \subseteq {0} \cup {Feed[m].hotfix : m \in 1 .. published})'
<1> DEFINE Fixes == {0} \cup {Feed[m].hotfix : m \in 1 .. published}
<1>0. /\ hotfix \in Nat /\ known \in Nat /\ hotfix <= known /\ hotfix \in Fixes /\ known \in Fixes
      /\ published \in DOMAIN Feed /\ published \in Nat
      /\ DOMAIN Feed = 1 .. Len(Feed) /\ Len(Feed) \in Nat
  <2>1. published \in Nat
    BY Known, FeedFacts
  <2> QED BY <2>1, Known DEF UpdaterTypeOK, LeftBehindIsSeen
<1>1. CASE Publishes
  <2>1. published' = published + 1 /\ UNCHANGED <<hotfix, known>>
    BY <1>1 DEF Publishes, files, updater
  <2>2. Fixes \subseteq Fixes'
    BY <1>0, <2>1
  <2> QED BY <1>0, <2>1, <2>2
<1>2. CASE PersistCanary
  <2> DEFINE fix == Feed[job.target].hotfix
  <2>1. pc = "persist" /\ published' = published
    BY <1>2 DEF PersistCanary
  <2>2. job.target = published
    BY <2>1, Known DEF JobFollowsPointers, ReleasesPublished
  <2>3. fix \in Nat /\ fix \in Fixes
    BY <1>0, <2>2, FeedFacts
  <2>4. Feed[published].canary => known <= fix
    <3>1. CASE known = 0
      BY <2>3, <3>1
    <3>2. CASE known # 0
      <4>1. PICK m \in 1 .. published : known = Feed[m].hotfix
        BY <1>0, <3>2
      <4>2. CASE m = published
        BY <1>0, <2>2, <4>1, <4>2
      <4>3. CASE m < published
        BY <1>0, <2>2, <4>1, <4>3 DEF FeedAdvances
      <4> QED BY <1>0, <4>1, <4>2, <4>3
    <3> QED BY <3>1, <3>2
  <2>5. \/ UNCHANGED <<hotfix, known>>
        \/ Feed[published].canary /\ known' = fix /\ hotfix' \in {fix, hotfix}
    BY <1>2, <2>2 DEF PersistCanary
  <2>6. Fixes' = Fixes
    BY <2>1
  <2> HIDE DEF fix, Fixes
  <2>7. hotfix' <= known' /\ hotfix' \in Fixes /\ known' \in Fixes
    BY <1>0, <2>3, <2>4, <2>5
  <2> QED BY <2>6, <2>7 DEF Fixes
<1>3. CASE Handover \/ UpdaterDies
  <2>1. known' = hotfix /\ UNCHANGED <<hotfix, published>>
    BY <1>3 DEF Handover, UpdaterDies, Reborn, files
  <2> QED BY <1>0, <2>1
<1>4. CASE ~(Publishes \/ PersistCanary \/ Handover \/ UpdaterDies)
  <2>1. UNCHANGED <<hotfix, known, published>>
    BY <1>4 DEF Alone, Acts, CollectorStarts, CollectorDies, Check, Recovers, Fails, Download, Rename,
       KeepPrevious, Switch, SyncScripts, PinNode, FinalizeFails, RestoreCurrent, RestorePrevious,
       RestoreFails, RestartCollector, RestartFails, ConfirmHealth, HealthTimesOut, GcReads, GcRemoves,
       files, updater
  <2> QED BY <1>0, <2>1
<1> QED BY <1>1, <1>2, <1>3, <1>4

\* The two facts of LeftBehindIsSeen that are about the directories.
LeftBehind(d) == SameBuild(release[collector], release[d]) => Feed[release[d]].hotfix > known

LEMMA LeftBehindSwitch ==
    ASSUME Sound, FeedAdvances, Switch, Outside({job.dir})
    PROVE  LeftBehind(job.dir)
<1>1. pc = "current"
  BY DEF Switch
<1>2. /\ job.deploys /\ job.dir \in Dirs /\ job.oldCurrent \in Dirs
      /\ release[job.dir] = published /\ job.target = published
  <2>1. /\ job.deploys /\ {job.dir, job.oldCurrent} \subseteq dirs /\ release[job.dir] = job.target
    BY <1>1, Known DEF JobFollowsPointers, Deploying
  <2>2. job.target = published
    BY <1>1, <2>1, Known DEF ReleasesPublished
  <2> QED BY <2>1, <2>2, Known
<1>3. collector \in Dirs /\ collector # NoDir
  BY Known DEF Outside
<1> DEFINE c == release[collector]
           o == release[job.oldCurrent]
<1>4. /\ c \in DOMAIN Feed /\ c \in Nat /\ o \in DOMAIN Feed /\ o \in Nat
      /\ published \in DOMAIN Feed /\ published \in Nat
      /\ Feed[o].version \in Nat /\ Feed[o].hotfix \in Nat
      /\ Feed[published].version \in Nat /\ Feed[published].hotfix \in Nat /\ known \in Nat
  <2>1. c \in DOMAIN Feed /\ c \in Nat /\ o \in DOMAIN Feed /\ o \in Nat
        /\ Feed[o].version \in Nat /\ Feed[o].hotfix \in Nat
    BY <1>2, <1>3, Known, Builds
  <2>2. published \in DOMAIN Feed /\ known \in Nat
    BY Known DEF UpdaterTypeOK
  <2> QED BY <2>1, <2>2, FeedFacts
<1>5. c <= o /\ o <= published
  BY <1>1, <1>2, Known DEF CollectorNotAhead, ReleasesPublished, Deploying
<1>6. SUFFICES ASSUME SameBuild(c, published) PROVE Feed[published].hotfix > known
  BY <1>2 DEF LeftBehind
<1>7. SameBuild(c, o) /\ SameBuild(o, published)
  <2>1. CASE c = published
    BY <1>4, <1>5, <2>1 DEF SameBuild
  <2>2. CASE c < published
    BY <1>4, <1>5, <1>6, <2>2 DEF FeedAdvances, SameBuild
  <2> QED BY <1>4, <1>5, <2>1, <2>2
<1>8. CASE collector = job.oldCurrent
  <2>1. Reason(published, job.oldCurrent)
    BY <1>1, <1>2, Known DEF DeploysForReason, Deploying
  <2> QED BY <1>4, <1>7, <2>1 DEF Reason, SameBuild
<1>9. CASE collector # job.oldCurrent
  <2>1. Outside({job.dir, job.oldCurrent})
    BY <1>9 DEF Outside
  <2>2. Feed[o].hotfix > known
    BY <1>1, <1>7, <2>1, Known DEF LeftBehindIsSeen, Deploying
  <2>3. Feed[o].hotfix <= Feed[published].hotfix
    <3>1. CASE o = published
      BY <1>4, <3>1
    <3>2. CASE o < published
      BY <1>4, <1>7, <3>2 DEF FeedAdvances
    <3> QED BY <1>4, <1>5, <3>1, <3>2
  <2> QED BY <1>4, <2>2, <2>3
<1> QED BY <1>8, <1>9

LEMMA LeftBehindStep ==
    ASSUME Sound, Alone, UpdaterTypeOK' PROVE LeftBehindIsSeen'
<1> SUFFICES ASSUME FeedAdvances PROVE LeftBehindIsSeen'
  BY DEF LeftBehindIsSeen, FeedAdvances, SameBuild
<1>u. Untouched /\ Untouched'
  BY AloneKeeps
<1>0. /\ Outside({current}) => LeftBehind(current)
      /\ pc \in Deploying /\ Outside({job.dir, job.oldCurrent}) => LeftBehind(job.oldCurrent)
      /\ current \in dirs /\ JobFollowsPointers
  BY <1>u, Known DEF LeftBehindIsSeen, LeftBehind, PointersInstalled
<1> SUFFICES /\ (Outside({current}) => LeftBehind(current))'
             /\ (pc \in Deploying /\ Outside({job.dir, job.oldCurrent}) => LeftBehind(job.oldCurrent))'
  BY HotfixStep DEF LeftBehindIsSeen, LeftBehind
<1> USE DEF LeftBehind, SameBuild, Outside
<1>1. CASE CollectorStarts
  <2>1. collector' = current /\ UNCHANGED <<pc, job, current>>
    BY <1>0, <1>1 DEF CollectorStarts, Loaded, files, pointers, updater
  <2>2. pc \in Deploying => current \in {job.dir, job.oldCurrent}
    BY <1>0 DEF JobFollowsPointers
  <2> QED BY <2>1, <2>2
<1>2. CASE CollectorDies \/ RestartCollector
  BY <1>2 DEF CollectorDies, RestartCollector
<1>3. CASE Rename
  <2>1. /\ job'.oldCurrent = current /\ UNCHANGED <<current, collector, undone, known>>
        /\ release'[current] = release[current]
        /\ collector # NoDir => release'[collector] = release[collector]
    BY <1>3, RenameKeeps
  <2> QED BY <1>0, <2>1
<1>4. CASE Switch
  <2>1. /\ current' = job.dir /\ pc = "current"
        /\ UNCHANGED <<job, release, collector, undone, known>>
    BY <1>4 DEF Switch, versions, proc, others, history
  <2>2. Outside({job.dir}) => LeftBehind(job.dir)
    BY <1>4, LeftBehindSwitch
  <2> QED BY <1>0, <2>1, <2>2 DEF Deploying
<1>5. CASE RestoreCurrent
  <2>1. /\ pc = "restore" /\ current' = job.oldCurrent
        /\ UNCHANGED <<job, release, collector, undone, known>>
    BY <1>5 DEF RestoreCurrent, versions, proc, others, history
  <2>2. job.dir \in undone
    BY <1>0, <2>1 DEF JobFollowsPointers, Deploying
  <2> QED BY <1>0, <2>1, <2>2 DEF Deploying
<1>6. CASE Elsewhere
  <2>1. /\ UNCHANGED <<current, collector, release>> /\ undone \subseteq undone'
        /\ pc' \in Deploying => pc \in Deploying /\ job' = job
    BY <1>6, ElsewhereKeeps
  <2>2. (Outside({current}) /\ pc = "persist") => FALSE
    BY Known DEF ConfirmedIsCurrent
  <2>3. known' <= known \/ pc = "persist"
    <3>1. hotfix <= known /\ hotfix \in Nat /\ known \in Nat
      BY Known DEF LeftBehindIsSeen, UpdaterTypeOK
    <3>2. known' = known \/ known' = hotfix \/ pc = "persist"
      BY <1>6 DEF Elsewhere, Alone, Acts, Publishes, Check, Recovers, Fails, Download, KeepPrevious,
         SyncScripts, PinNode, FinalizeFails, RestorePrevious, RestoreFails, RestartFails,
         ConfirmHealth, HealthTimesOut, PersistCanary, GcReads, GcRemoves, Handover, UpdaterDies,
         Reborn, updater
    <3> QED BY <3>1, <3>2
  <2>4. /\ known \in Nat /\ known' \in Nat /\ (collector # NoDir => collector \in Dirs)
    BY Known DEF UpdaterTypeOK
  <2>5. Outside({current})' => LeftBehind(current)'
    <3>1. current \in Dirs /\ Feed[release[current]].hotfix \in Nat
      BY Known, Builds
    <3> QED BY <1>0, <2>1, <2>2, <2>3, <2>4, <3>1
  <2>6. pc' \in Deploying => UNCHANGED known
    BY <1>6 DEF Elsewhere, Alone, Acts, Publishes, Check, Recovers, Fails, Download, KeepPrevious,
         SyncScripts, PinNode, FinalizeFails, RestorePrevious, RestoreFails, RestartFails,
         ConfirmHealth, HealthTimesOut, PersistCanary, GcReads, GcRemoves, Handover, UpdaterDies,
         Reborn, Ends, updater, Deploying
  <2>7. (pc \in Deploying /\ Outside({job.dir, job.oldCurrent}) => LeftBehind(job.oldCurrent))'
    BY <1>0, <2>1, <2>6
  <2> QED BY <2>5, <2>7
<1> QED BY <1>1, <1>2, <1>3, <1>4, <1>5, <1>6, AloneKeeps DEF Elsewhere, Acts

-----------------------------------------------------------------------------
(* The rollback.                                                           *)

LEMMA RollbackTypeStep ==
    ASSUME UpdaterTypeOK, RollbackActs PROVE UpdaterTypeOK'
<1> USE DEF RollbackActs, RollbackBegins, RollbackReads, RollbackCurrent, RollbackPrevious,
       RollbackScripts, RollbackUndoesCurrent, RollbackUndoesPrevious, RollbackUndoesScripts,
       RollbackStops, RollbackStarts, RollbackScriptsFail, RollbackDies, To, Abandons, Ends, Reborn
<1>1. UNCHANGED <<published, made, dirs, release, abi, pin, managed, hotfix, fresh>>
  BY DEF files, versions, pointers, proc
<1>2. rb.prev \in 0 .. made /\ rb.curr \in 0 .. made /\ rb.step \in RollbackSteps
  BY DEF UpdaterTypeOK
<1>3. current' \in 0 .. made /\ previous' \in 0 .. made /\ cli' \in 0 .. made
  <2>1. current' \in {current, rb.prev, rb.curr}
    BY DEF files, pointers
  <2>2. previous' \in {previous, rb.prev, rb.curr}
    BY DEF files, pointers
  <2>3. cli' \in {cli, rb.prev, rb.curr}
    BY DEF files
  <2>4. current \in 0 .. made /\ previous \in 0 .. made /\ cli \in 0 .. made
    BY DEF UpdaterTypeOK
  <2> QED BY <1>2, <2>1, <2>2, <2>3, <2>4
<1>4. collector' \in 0 .. made /\ undone' \subseteq 0 .. made
  <2>1. collector' = collector \/ collector' = NoDir
    BY DEF proc
  <2>2. undone' = undone \/ undone' = undone \cup ({rb.prev, rb.curr, collector} \ {NoDir})
    BY DEF history
  <2>3. collector \in 0 .. made /\ undone \subseteq 0 .. made
    BY DEF UpdaterTypeOK
  <2>4. NoDir \in 0 .. made
    <3>1. made \in Dirs
      BY DEF UpdaterTypeOK
    <3> QED BY <3>1 DEF NoDir, Dirs
  <2> QED BY <1>2, <2>1, <2>2, <2>3, <2>4
<1>5. unode' \in Nodes /\ known' \in Nat
  <2>1. (unode' = unode \/ unode' = pin) /\ (known' = known \/ known' = hotfix)
    BY DEF updater
  <2> QED BY <2>1 DEF UpdaterTypeOK
<1>6. pc' \in Steps /\ job' \in Jobs
      /\ {job'.dir, job'.oldCurrent, job'.oldPrevious, job'.seen} \subseteq 0 .. made
  <2>1. (pc' = pc /\ job' = job) \/ (pc' = "idle" /\ job' = NoJob)
    BY DEF updater
  <2>2. "idle" \in Steps /\ NoJob \in Jobs
    BY NoJobIsJob DEF Steps
  <2>3. NoJob.dir = 0 /\ NoJob.oldCurrent = 0 /\ NoJob.oldPrevious = 0 /\ NoJob.seen = 0
    BY DEF NoJob, NoDir
  <2>4. 0 \in 0 .. made
    BY DEF UpdaterTypeOK, Dirs
  <2>5. pc \in Steps /\ job \in Jobs
        /\ {job.dir, job.oldCurrent, job.oldPrevious, job.seen} \subseteq 0 .. made
    BY DEF UpdaterTypeOK
  <2> QED BY <2>1, <2>2, <2>3, <2>4, <2>5
<1>7. rb' \in [step : RollbackSteps, prev : 0 .. made, curr : 0 .. made]
  <2>1. rb \in [step : RollbackSteps, prev : 0 .. made, curr : 0 .. made]
    BY DEF UpdaterTypeOK
  <2>2. 0 \in 0 .. made /\ current \in 0 .. made /\ previous \in 0 .. made
    BY DEF UpdaterTypeOK, Dirs
  <2>3. \/ rb' = NoRb
        \/ rb' = [NoRb EXCEPT !.step = "read", !.prev = previous]
        \/ rb' = [rb EXCEPT !.step = "current", !.curr = current]
        \/ \E x \in RollbackSteps : rb' = [rb EXCEPT !.step = x]
    BY DEF RollbackSteps
  <2>4. NoRb = [step |-> "none", prev |-> 0, curr |-> 0] /\ {"none", "read", "current"} \subseteq RollbackSteps
    BY DEF NoRb, NoDir, RollbackSteps
  <2>5. CASE rb' = NoRb
    BY <2>2, <2>4, <2>5
  <2>6. CASE rb' = [NoRb EXCEPT !.step = "read", !.prev = previous]
    BY <2>2, <2>4, <2>6
  <2>7. CASE rb' = [rb EXCEPT !.step = "current", !.curr = current]
    BY <2>1, <2>2, <2>4, <2>7
  <2>8. CASE \E x \in RollbackSteps : rb' = [rb EXCEPT !.step = x]
    BY <2>1, <2>8
  <2> QED BY <2>3, <2>5, <2>6, <2>7, <2>8
<1>8. met' \in BOOLEAN /\ astray' \in BOOLEAN
  <2>1. met' = met \/ met' = (met \/ pc # "idle")
    BY DEF history
  <2>2. \/ astray' = astray \/ astray' = TRUE
        \/ astray' = (astray \/ abi[rb.prev] # pin)
        \/ astray' = (astray \/ HalfSwitched)
        \/ astray' = (astray \/ rb.step \in {"previous", "scripts", "undoCurrent"})
    BY DEF history
  <2>3. met \in BOOLEAN /\ astray \in BOOLEAN
    BY DEF UpdaterTypeOK
  <2> QED BY <2>1, <2>2, <2>3
<1>9. faults' \in 0 .. MaxFaults /\ rollbacks' \in 0 .. MaxRollbacks
  <2>1. faults' = faults \/ Fault
    OBVIOUS
  <2>2. rollbacks' = rollbacks \/ (rollbacks < MaxRollbacks /\ rollbacks' = rollbacks + 1)
    OBVIOUS
  <2>3. faults \in 0 .. MaxFaults /\ rollbacks \in 0 .. MaxRollbacks
        /\ MaxFaults \in Nat /\ MaxRollbacks \in Nat
    BY DEF UpdaterTypeOK
  <2> QED BY <2>1, <2>2, <2>3 DEF Fault
<1> HIDE DEF RollbackActs, RollbackBegins, RollbackReads, RollbackCurrent, RollbackPrevious,
       RollbackScripts, RollbackUndoesCurrent, RollbackUndoesPrevious, RollbackUndoesScripts,
       RollbackStops, RollbackStarts, RollbackScriptsFail, RollbackDies, To, Abandons, Ends, Reborn
<1> QED BY <1>1, <1>3, <1>4, <1>5, <1>6, <1>7, <1>8, <1>9 DEF UpdaterTypeOK

\* What a job has to agree with is not there between two checks.
LEMMA IdleParts ==
    ASSUME pc' = "idle" PROVE JobFollowsPointers' /\ DeploysForReason' /\ ConfirmedIsCurrent'
BY DEF JobFollowsPointers, DeploysForReason, ConfirmedIsCurrent, Deploying, Confirming

\* A rollback that meets no check: its own steps find the updater idle.
LEMMA RollbackIdle ==
    ASSUME Sound, RollbackActs, ~met'
    PROVE  /\ pc = "idle" /\ pc' = "idle"
           /\ ~RollbackBegins => rb.step # "none"
           /\ UNCHANGED <<published, dirs, release, abi, pin, managed, hotfix>>
           /\ undone \subseteq undone' /\ collector' \in {collector, NoDir}
           /\ ~astray' => ~astray
<1> USE DEF RollbackActs, RollbackBegins, RollbackReads, RollbackCurrent, RollbackPrevious,
       RollbackScripts, RollbackUndoesCurrent, RollbackUndoesPrevious, RollbackUndoesScripts,
       RollbackStops, RollbackStarts, RollbackScriptsFail, RollbackDies, To, Abandons, Ends, Reborn,
       files, versions, pointers, proc, updater, history
<1>1. ~RollbackBegins => rb.step # "none"
  OBVIOUS
<1>2. RollbackBegins => pc = "idle"
  OBVIOUS
<1>3. pc = "idle"
  BY <1>1, <1>2, Known DEF RollbackFollows
<1>4. pc' = "idle"
  BY <1>3
<1>5. /\ UNCHANGED <<published, dirs, release, abi, pin, managed, hotfix>>
      /\ undone \subseteq undone' /\ collector' \in {collector, NoDir}
  OBVIOUS
<1>6. ~astray' => ~astray
  OBVIOUS
<1> QED BY <1>1, <1>3, <1>4, <1>5, <1>6

\* The pointers and the scripts, step by step.
LEMMA RollbackFollowsStep ==
    ASSUME Sound, RollbackActs, ~met', UpdaterTypeOK' PROVE RollbackFollows' /\ PointersInstalled'
<1> USE DEF RollbackFollows, PointersInstalled, files, versions, pointers, proc, updater, history
<1>0. /\ RollbackFollows /\ PointersInstalled /\ SwitchConsistent
      /\ rb \in [step : RollbackSteps, prev : 0 .. made, curr : 0 .. made]
      /\ NoDir \notin dirs
  BY Known DEF UpdaterTypeOK
<1>1. /\ pc = "idle" /\ pc' = "idle" /\ (~RollbackBegins => rb.step # "none")
      /\ UNCHANGED <<published, dirs, release, abi, pin, managed, hotfix>>
      /\ (~astray' => ~astray)
  BY RollbackIdle
<1>2. CASE RollbackBegins
  <2>1. rb' = [step |-> "read", prev |-> previous, curr |-> NoDir]
        /\ UNCHANGED <<current, previous, dirs, collector>> /\ previous \in dirs
    BY <1>2 DEF RollbackBegins, NoRb
  <2> QED BY <1>0, <1>1, <2>1
<1>3. CASE RollbackReads
  <2>1. /\ rb.step = "read" /\ rb'.step = "current" /\ rb'.prev = rb.prev /\ rb'.curr = current
        /\ UNCHANGED <<current, previous, dirs, collector, cli, astray>>
    BY <1>0, <1>3 DEF RollbackReads
  <2>2. ~astray => cli = current /\ abi[current] = pin
    BY <1>0, <1>1, <2>1 DEF SwitchConsistent, Untouched, Deploying
  <2> QED BY <1>0, <1>1, <2>1, <2>2
<1>4. CASE RollbackCurrent \/ RollbackPrevious \/ RollbackUndoesCurrent \/ RollbackUndoesPrevious
  <2> USE DEF RollbackCurrent, RollbackPrevious, RollbackUndoesCurrent, RollbackUndoesPrevious, To
  <2>1. /\ rb'.prev = rb.prev /\ rb'.curr = rb.curr /\ UNCHANGED <<dirs, collector, cli, astray>>
    BY <1>0, <1>4
  <2>2. \/ /\ rb.step = "current" /\ rb'.step = "previous" /\ current' = rb.prev /\ previous' = previous
        \/ /\ rb.step = "previous" /\ rb'.step = "scripts" /\ current' = current
           /\ previous' = IF rb.curr # NoDir THEN rb.curr ELSE previous
        \/ /\ rb.step = "undoCurrent" /\ rb'.step = "undoPrevious" /\ current' = rb.curr
           /\ previous' = previous
        \/ /\ rb.step = "undoPrevious" /\ rb'.step = "undoScripts" /\ current' = current
           /\ previous' = rb.prev
    BY <1>0, <1>4
  <2> HIDE DEF RollbackCurrent, RollbackPrevious, RollbackUndoesCurrent, RollbackUndoesPrevious, To
  <2> QED BY <1>0, <1>1, <2>1, <2>2
<1>5. CASE RollbackScripts
  <2>1. /\ rb.step = "scripts" /\ rb'.step = "restart" /\ rb'.prev = rb.prev /\ rb'.curr = rb.curr
        /\ cli' = rb.prev /\ astray' = (astray \/ abi[rb.prev] # pin)
        /\ UNCHANGED <<current, previous, dirs, collector>>
    BY <1>0, <1>5 DEF RollbackScripts, To
  <2> QED BY <1>0, <1>1, <2>1
<1>6. CASE RollbackScriptsFail
  <2>1. /\ rb.step = "scripts" /\ rb.curr # NoDir
        /\ rb'.step = "undoCurrent" /\ rb'.prev = rb.prev /\ rb'.curr = rb.curr
        /\ UNCHANGED <<current, previous, dirs, collector, cli, astray>>
    BY <1>0, <1>6 DEF RollbackScriptsFail
  <2> QED BY <1>0, <1>1, <2>1
<1>7. CASE RollbackStops
  <2>1. /\ rb.step = "restart" /\ rb'.step = "start" /\ rb'.prev = rb.prev /\ rb'.curr = rb.curr
        /\ collector' = NoDir /\ UNCHANGED <<current, previous, dirs, cli>>
    BY <1>0, <1>7 DEF RollbackStops, To
  <2> QED BY <1>0, <1>1, <2>1
<1>8. CASE RollbackUndoesScripts \/ RollbackStarts \/ RollbackDies
  <2>1. rb'.step = "none"
    BY <1>8 DEF RollbackUndoesScripts, RollbackStarts, RollbackDies, Abandons, NoRb
  <2>2. UNCHANGED <<current, previous, dirs>>
    BY <1>8 DEF RollbackUndoesScripts, RollbackStarts, RollbackDies
  <2> QED BY <1>0, <2>1, <2>2
<1> QED BY <1>2, <1>3, <1>4, <1>5, <1>6, <1>7, <1>8 DEF RollbackActs

\* When a rollback ends, the scripts are those of the version it ends on.
LEMMA RollbackSwitchStep ==
    ASSUME Sound, RollbackActs, ~met' PROVE SwitchConsistent'
<1>0. /\ RollbackFollows /\ SwitchConsistent
      /\ rb \in [step : RollbackSteps, prev : 0 .. made, curr : 0 .. made]
  BY Known DEF UpdaterTypeOK
<1>1. /\ pc = "idle" /\ pc' = "idle" /\ (~RollbackBegins => rb.step # "none")
      /\ UNCHANGED <<published, dirs, release, abi, pin, managed, hotfix>>
      /\ (~astray' => ~astray)
  BY RollbackIdle
<1>2. ~managed => unode' = pin
  BY <1>0, <1>1 DEF SwitchConsistent, RollbackActs, RollbackBegins, RollbackReads, RollbackCurrent,
     RollbackPrevious, RollbackScripts, RollbackUndoesCurrent, RollbackUndoesPrevious,
     RollbackUndoesScripts, RollbackStops, RollbackStarts, RollbackScriptsFail, RollbackDies,
     Ends, Reborn, updater
<1>3. ASSUME ~astray', Untouched' PROVE cli' = current' /\ abi[current'] = pin
  <2>1. CASE RollbackBegins \/ RollbackReads
    <3>1. Untouched /\ UNCHANGED <<cli, current>>
      BY <2>1 DEF RollbackBegins, RollbackReads, Untouched, files, pointers
    <3> QED BY <1>0, <1>1, <1>3, <3>1 DEF SwitchConsistent, Deploying
  <2>2. CASE \/ RollbackCurrent \/ RollbackPrevious \/ RollbackUndoesCurrent \/ RollbackUndoesPrevious
             \/ RollbackScripts \/ RollbackStops
    <3>1. rb'.step \in {"previous", "scripts", "undoPrevious", "undoScripts", "restart", "start"}
      BY <1>0, <2>2 DEF RollbackCurrent, RollbackPrevious, RollbackUndoesCurrent, RollbackUndoesPrevious,
         RollbackScripts, RollbackStops, To
    <3> QED BY <1>3, <3>1 DEF Untouched
  <2>3. CASE RollbackScriptsFail
    <3>1. rb'.step = "undoCurrent" \/ astray'
      BY <1>0, <2>3 DEF RollbackScriptsFail
    <3> QED BY <1>3, <3>1 DEF Untouched
  <2>4. CASE RollbackUndoesScripts
    <3>1. rb.step = "undoScripts" /\ cli' \in {cli, rb.curr} /\ current' = current
      BY <2>4 DEF RollbackUndoesScripts, pointers
    <3> QED BY <1>0, <1>1, <1>3, <3>1 DEF RollbackFollows
  <2>5. CASE RollbackStarts
    <3>1. rb.step = "start" /\ UNCHANGED <<cli, current>>
      BY <2>5 DEF RollbackStarts, files, pointers
    <3> QED BY <1>0, <1>1, <1>3, <3>1 DEF RollbackFollows
  <2>6. CASE RollbackDies
    <3>1. rb.step \notin {"none", "start", "previous", "scripts", "undoCurrent"}
          /\ UNCHANGED <<cli, current>>
      BY <1>3, <2>6 DEF RollbackDies, files, pointers
    <3>2. CASE Untouched
      BY <1>0, <1>1, <1>3, <3>1, <3>2 DEF SwitchConsistent, Deploying
    <3>3. CASE rb.step \in {"undoPrevious", "undoScripts", "restart"}
      BY <1>0, <1>1, <1>3, <3>1, <3>3 DEF RollbackFollows
    <3> QED BY <1>0, <3>1, <3>2, <3>3 DEF RollbackSteps, Untouched
  <2> QED BY <2>1, <2>2, <2>3, <2>4, <2>5, <2>6 DEF RollbackActs
<1> QED BY <1>1, <1>2, <1>3 DEF SwitchConsistent, Deploying

\* The collector of a rollback in the middle is not compared with anything; at
\* its end there is none, or it runs from a directory that counts as undone.
LEMMA RollbackCollector ==
    ASSUME Sound, RollbackActs, Untouched'
    PROVE  \/ collector' \in {NoDir} \cup undone'
           \/ Untouched /\ UNCHANGED <<collector, current, undone, known>>
<1>0. /\ rb \in [step : RollbackSteps, prev : 0 .. made, curr : 0 .. made] /\ RollbackFollows
  BY Known DEF UpdaterTypeOK
<1>1. CASE RollbackBegins \/ RollbackReads
  BY <1>1 DEF RollbackBegins, RollbackReads, Untouched, files, pointers, proc, updater, history
<1>2. CASE \/ RollbackCurrent \/ RollbackPrevious \/ RollbackUndoesCurrent \/ RollbackUndoesPrevious
           \/ RollbackScripts \/ RollbackStops
  <2>1. rb'.step \in {"previous", "scripts", "undoPrevious", "undoScripts", "restart", "start"}
    BY <1>0, <1>2 DEF RollbackCurrent, RollbackPrevious, RollbackUndoesCurrent, RollbackUndoesPrevious,
       RollbackScripts, RollbackStops, To
  <2> QED BY <2>1 DEF Untouched
<1>3. CASE RollbackScriptsFail
  <2>1. rb'.step = "undoCurrent" \/ Abandons
    BY <1>0, <1>3 DEF RollbackScriptsFail
  <2>2. UNCHANGED collector
    BY <1>3 DEF RollbackScriptsFail, proc
  <2> QED BY <2>1, <2>2 DEF Untouched, Abandons
<1>4. CASE RollbackUndoesScripts
  BY <1>4 DEF RollbackUndoesScripts, Abandons, proc
<1>5. CASE RollbackStarts
  BY <1>0, <1>5 DEF RollbackStarts, RollbackFollows, proc
<1>6. CASE RollbackDies
  BY <1>6 DEF RollbackDies, Abandons, files, pointers, proc, updater
<1> QED BY <1>1, <1>2, <1>3, <1>4, <1>5, <1>6 DEF RollbackActs

LEMMA RollbackStep ==
    ASSUME Sound, RollbackActs, ~met', UpdaterTypeOK' PROVE Consistent'
<1>0. /\ (FeedAdvances => RunningDirKept) /\ ReleasesPublished /\ CollectorNotAhead /\ LeftBehindIsSeen
  BY Known
<1>1. /\ pc = "idle" /\ pc' = "idle"
      /\ UNCHANGED <<published, dirs, release, abi, pin, managed, hotfix>>
      /\ undone \subseteq undone' /\ collector' \in {collector, NoDir}
  BY RollbackIdle
<1>2. known' \in {known, hotfix}
  BY DEF RollbackActs, RollbackBegins, RollbackReads, RollbackCurrent,
     RollbackPrevious, RollbackScripts, RollbackUndoesCurrent, RollbackUndoesPrevious,
     RollbackUndoesScripts, RollbackStops, RollbackStarts, RollbackScriptsFail, RollbackDies,
     Ends, Reborn, updater
<1>3. (FeedAdvances => RunningDirKept)'
  BY <1>0, <1>1 DEF RunningDirKept, FeedAdvances, SameBuild
<1>4. ReleasesPublished'
  BY <1>0, <1>1 DEF ReleasesPublished
<1>5. CollectorNotAhead'
  BY <1>0, <1>1, RollbackCollector DEF CollectorNotAhead, Outside, Deploying
<1>6. LeftBehindIsSeen'
  <2>1. SUFFICES ASSUME FeedAdvances PROVE LeftBehindIsSeen'
    BY DEF LeftBehindIsSeen, FeedAdvances, SameBuild
  <2>2. (hotfix <= known)' /\ ({hotfix, known} \subseteq {0} \cup {Feed[m].hotfix : m \in 1 .. published})'
    <3>1. hotfix <= known /\ {hotfix, known} \subseteq {0} \cup {Feed[m].hotfix : m \in 1 .. published}
      BY <1>0, <2>1 DEF LeftBehindIsSeen
    <3>2. hotfix \in Nat
      BY Known DEF UpdaterTypeOK
    <3> QED BY <1>1, <1>2, <3>1, <3>2
  <2>3. (Untouched /\ Outside({current}) /\ SameBuild(release[collector], release[current])
            => Feed[release[current]].hotfix > known)'
    <3>1. SUFFICES ASSUME Untouched', Outside({current})', SameBuild(release[collector], release[current])'
                   PROVE  Feed[release'[current']].hotfix > known'
      OBVIOUS
    <3>2. Untouched /\ UNCHANGED <<collector, current, undone, known>>
      BY <3>1, RollbackCollector DEF Outside
    <3> QED BY <1>0, <1>1, <2>1, <3>1, <3>2 DEF LeftBehindIsSeen, Outside, SameBuild
  <2> QED BY <1>1, <2>2, <2>3 DEF LeftBehindIsSeen, Deploying
<1> QED BY <1>1, <1>3, <1>4, <1>5, <1>6, IdleParts, RollbackFollowsStep, RollbackSwitchStep DEF Consistent

\* Beside a rollback that meets no check there are only releases published and
\* starts and deaths of the collector.
LEMMA BesideStep ==
    ASSUME Sound, Acts, rb.step # "none", ~met', UpdaterTypeOK' PROVE Consistent'
<1>0. /\ (FeedAdvances => RunningDirKept) /\ ReleasesPublished /\ CollectorNotAhead /\ LeftBehindIsSeen
      /\ PointersInstalled /\ SwitchConsistent /\ RollbackFollows /\ pc = "idle"
      /\ published \in Nat /\ DOMAIN Feed = 1 .. Len(Feed) /\ Len(Feed) \in Nat
      /\ release \in [Dirs -> DOMAIN Feed]
      /\ current \in Dirs /\ (collector # NoDir => collector \in Dirs)
      /\ (\A d \in Dirs : release[d] \in Nat /\ Feed[release[d]].version \in Nat)
  <2>1. published \in Nat
    BY Known, FeedFacts
  <2> QED BY <2>1, Known, Builds DEF RollbackFollows, UpdaterTypeOK
<1>1. Publishes \/ CollectorStarts \/ CollectorDies
  BY <1>0 DEF Acts, Check, Recovers, Fails, Download, Rename, KeepPrevious, Switch, SyncScripts,
     PinNode, FinalizeFails, RestoreCurrent, RestorePrevious, RestoreFails, RestartCollector,
     RestartFails, ConfirmHealth, HealthTimesOut, PersistCanary, GcReads, GcRemoves, Handover, UpdaterDies
<1>2. /\ UNCHANGED <<dirs, release, abi, current, previous, cli, pin, managed, hotfix, pc, job, unode,
                     known, rb, astray, undone>>
      /\ \/ published' = published + 1 /\ collector' = collector
         \/ published' = published /\ collector' = NoDir
         \/ published' = published /\ collector' = current /\ rb.step # "start"
  BY <1>0, <1>1 DEF Publishes, CollectorStarts, CollectorDies, Startable, Loaded, PointersInstalled,
     files, versions, pointers, proc, updater, user, others, history
<1>3. PointersInstalled' /\ SwitchConsistent'
  BY <1>0, <1>2 DEF PointersInstalled, SwitchConsistent, Deploying, Untouched
<1>4. RollbackFollows'
  BY <1>0, <1>2 DEF RollbackFollows
<1>5. (FeedAdvances => RunningDirKept)'
  BY <1>0, <1>2 DEF RunningDirKept, PointersInstalled, FeedAdvances, SameBuild
<1>6. ReleasesPublished'
  <2>1. published <= published'
    BY <1>0, <1>2
  <2>2. \A d \in Dirs : release[d] \in Nat /\ release[d] <= published
    BY <1>0 DEF ReleasesPublished
  <2>3. published' \in Nat
    BY <1>0, <1>2
  <2>4. \A d \in Dirs : release[d] <= published'
    BY <1>0, <2>1, <2>2, <2>3
  <2> QED BY <1>0, <1>2, <2>4 DEF ReleasesPublished
<1>7. CollectorNotAhead'
  BY <1>0, <1>2 DEF CollectorNotAhead, Outside, Deploying, Untouched
<1>8. LeftBehindIsSeen'
  <2>1. SUFFICES ASSUME FeedAdvances PROVE LeftBehindIsSeen'
    BY DEF LeftBehindIsSeen, FeedAdvances, SameBuild
  <2>2. {Feed[m].hotfix : m \in 1 .. published} \subseteq {Feed[m].hotfix : m \in 1 .. published'}
    BY <1>0, <1>2
  <2>3. (hotfix <= known)' /\ ({hotfix, known} \subseteq {0} \cup {Feed[m].hotfix : m \in 1 .. published})'
    BY <1>0, <1>2, <2>1, <2>2 DEF LeftBehindIsSeen
  <2>4. (Untouched /\ Outside({current}) /\ SameBuild(release[collector], release[current])
            => Feed[release[current]].hotfix > known)'
    BY <1>0, <1>2, <2>1 DEF LeftBehindIsSeen, Outside, SameBuild, Untouched
  <2> QED BY <1>0, <1>2, <2>3, <2>4 DEF LeftBehindIsSeen, Deploying
<1> QED BY <1>0, <1>2, <1>3, <1>4, <1>5, <1>6, <1>7, <1>8, IdleParts DEF Consistent

\* While no rollback is in progress.
LEMMA AloneStep ==
    ASSUME Sound, Alone, UpdaterTypeOK' PROVE Consistent'
<1>1. (FeedAdvances => RunningDirKept)'
  BY PointersStep DEF FeedAdvances, SameBuild
<1>2. RollbackFollows'
  BY AloneKeeps DEF RollbackFollows
<1> QED BY <1>1, <1>2, PointersStep, JobFollowsStep, ReleasesStep, SwitchStep, CollectorStep, ReasonStep,
           ConfirmedStep, LeftBehindStep DEF Consistent

-----------------------------------------------------------------------------
(* The theorems.                                                           *)

LEMMA UpdaterStep == UpdaterInv /\ [UpdaterNext]_vars => UpdaterInv'
<1> SUFFICES ASSUME UpdaterInv, [UpdaterNext]_vars PROVE UpdaterInv'
  OBVIOUS
<1>1. CASE Acts
  <2>1. UpdaterTypeOK'
    BY <1>1, TypeStep DEF UpdaterInv
  <2>2. ASSUME ~met' PROVE Consistent'
    <3>1. ~met
      BY <1>1, <2>2 DEF Acts, Publishes, CollectorStarts, CollectorDies, Check, Recovers, Fails,
         Download, Rename, KeepPrevious, Switch, SyncScripts, PinNode, FinalizeFails, RestoreCurrent,
         RestorePrevious, RestoreFails, RestartCollector, RestartFails, ConfirmHealth, HealthTimesOut,
         PersistCanary, GcReads, GcRemoves, Handover, UpdaterDies, history, others
    <3>2. Sound
      BY <3>1 DEF UpdaterInv, Sound
    <3>3. CASE rb.step = "none"
      BY <1>1, <2>1, <3>2, <3>3, AloneStep DEF Alone
    <3>4. CASE rb.step # "none"
      BY <1>1, <2>1, <2>2, <3>2, <3>4, BesideStep
    <3> QED BY <3>3, <3>4
  <2> QED BY <2>1, <2>2 DEF UpdaterInv
<1>2. CASE RollbackActs
  <2>1. UpdaterTypeOK'
    BY <1>2, RollbackTypeStep DEF UpdaterInv
  <2>2. ASSUME ~met' PROVE Consistent'
    <3>1. ~met
      BY <1>2, <2>2 DEF RollbackActs, RollbackBegins, RollbackReads, RollbackCurrent, RollbackPrevious,
         RollbackScripts, RollbackUndoesCurrent, RollbackUndoesPrevious, RollbackUndoesScripts,
         RollbackStops, RollbackStarts, RollbackScriptsFail, RollbackDies, history
    <3>2. Sound
      BY <3>1 DEF UpdaterInv, Sound
    <3> QED BY <1>2, <2>1, <2>2, <3>2, RollbackStep
  <2> QED BY <2>1, <2>2 DEF UpdaterInv
<1>3. CASE UNCHANGED vars
  <2> USE <1>3 DEF vars, files, versions, pointers, proc, updater, user, history
  <2>1. UpdaterTypeOK' = UpdaterTypeOK
    BY DEF UpdaterTypeOK
  <2>2. Consistent' = Consistent
    BY DEF Consistent, PointersInstalled, RunningDirKept, JobFollowsPointers, ReleasesPublished,
       SwitchConsistent, CollectorNotAhead, DeploysForReason, ConfirmedIsCurrent, LeftBehindIsSeen,
       RollbackFollows, Untouched, Outside, Reason, NeedsUpdate, FeedAdvances, SameBuild
  <2> QED BY <2>1, <2>2 DEF UpdaterInv
<1> QED BY <1>1, <1>2, <1>3, NextIsAct

\* The inductive invariant, for every sequence of releases: the jobs of the
\* updater, the pointers, the directories and the running collector agree, until
\* a rollback runs beside a check.
THEOREM UpdaterInvariance == UpdaterSpec => []UpdaterInv
<1>1. UpdaterInit => UpdaterInv
  BY InitUpdaterInv DEF UpdaterInv
<1>2. UpdaterInv /\ [UpdaterNext]_vars => UpdaterInv'
  BY UpdaterStep
<1> QED BY <1>1, <1>2, PTL DEF UpdaterSpec

\* gcOldVersions(), restorePointers() and the rollback, until the latter runs
\* beside a check: what a pointer names is installed, and the running collector's
\* directory stays while the server goes forward.
THEOREM NothingNamedIsRemoved == UpdaterSpec => []DirectoriesKept
<1>1. UpdaterInv => DirectoriesKept
  BY DEF UpdaterInv, Consistent, DirectoriesKept
<1> QED BY <1>1, UpdaterInvariance, PTL

\* Between checks the scripts, the pinned node and the current version belong
\* together, whichever write of a switch or of a rollback failed, unless one of
\* them died or stayed undone, or the two ran beside each other.
THEOREM SettledTogether == UpdaterSpec => []SettledConsistent
<1>1. UpdaterInv => SettledConsistent
  BY DEF UpdaterInv, Consistent, SwitchConsistent, SettledConsistent, Deploying, Untouched
<1> QED BY <1>1, UpdaterInvariance, PTL

\* An update beside no rollback is confirmed by the collector it started, never
\* by the one it failed to stop.
THEOREM ConfirmsWhatItMade == UpdaterSpec => ConfirmedRunsNew
<1> DEFINE Confirms1 == ~met /\ pc = "health" /\ pc' = "persist" => collector \in {job.dir} \cup undone
<1>1. UpdaterInv /\ [UpdaterNext]_vars => [Confirms1]_vars
  <2> SUFFICES ASSUME UpdaterInv, UpdaterNext, ~met, pc = "health", pc' = "persist"
               PROVE  collector \in {job.dir} \cup undone
    OBVIOUS
  <2>0. Sound
    BY DEF UpdaterInv, Sound
  <2>1. ConfirmHealth
    <3>1. Acts
      BY NextIsAct DEF RollbackActs, RollbackBegins, RollbackReads, RollbackCurrent, RollbackPrevious,
         RollbackScripts, RollbackUndoesCurrent, RollbackUndoesPrevious, RollbackUndoesScripts,
         RollbackStops, RollbackStarts, RollbackScriptsFail, RollbackDies, updater, Ends, Reborn
    <3> QED BY <3>1 DEF Acts, Publishes, CollectorStarts, CollectorDies, Check, Recovers, Fails, Download, Rename,
       KeepPrevious, Switch, SyncScripts, PinNode, FinalizeFails, RestoreCurrent, RestorePrevious,
       RestoreFails, RestartCollector, RestartFails, HealthTimesOut, PersistCanary, GcReads, GcRemoves,
       Handover, UpdaterDies, updater, Ends, Reborn
  <2>2. Healthy(job.target, job.newPid) /\ job.deploys
    BY <2>1 DEF ConfirmHealth
  <2>3. current = job.dir
    BY <2>0, <2>2, Known DEF JobFollowsPointers, Confirming
  <2> QED BY <2>0, <2>2, <2>3, HealthyIsCurrent
<1> QED BY <1>1, UpdaterInvariance, PTL DEF UpdaterSpec, ConfirmedRunsNew

=============================================================================
