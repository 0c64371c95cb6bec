---------------------- MODULE SingleInstanceLockProofs ----------------------
(* The lock of SingleInstanceLock for any processes and pids.              *)
EXTENDS SingleInstanceLock, TLAPS

\* A file judged stale names no living process but the one that judges it: a
\* living owner has its pid for itself, so neither its own pid nor a start
\* token can speak against it.
LEMMA StaleOwnerGone ==
  ASSUME LockInv, NEW p \in Procs, NEW r \in BOOLEAN,
         At(p, "inspect"), StaleFor(p, r), seen[p] \notin {NoFile, p}
  PROVE  life[seen[p]] = "dead"
<1> DEFINE o == seen[p]
<1>1. o \in Procs /\ life[o] \in {"alive", "dead"}
  BY DEF LockInv, TypeOK, OwnersWereBorn
<1>2. ASSUME life[o] = "alive" PROVE FALSE
  <2>1. PidAlive(pid[o])
    BY <1>1, <1>2 DEF PidAlive, Alive
  <2>2. pid[o] # pid[p]
    BY <1>1, <1>2 DEF LockInv, PidsTellApart, At, Alive
  <2>3. ~ProvablyRecycled(o)
    BY <1>1, <1>2 DEF LockInv, PidsTellApart, ProvablyRecycled, Alive
  <2> QED BY <2>1, <2>2, <2>3 DEF StaleFor
<1> QED BY <1>1, <1>2

\* If a take-over removes the file it had judged, nobody holds the lock.
LEMMA UncrossedUnlinkFindsNoHolder ==
  ASSUME LockInv, ~crossed, NEW p \in Procs, At(p, "unlink"), lock \in {seen[p], NoFile}
  PROVE  \A q \in Procs : ~Holds(q)
<1> SUFFICES ASSUME NEW q \in Procs, Holds(q) PROVE FALSE
  OBVIOUS
<1>1. lock = q
  BY DEF LockInv, HolderIsNamed
<1>2. q # p
  BY DEF At, Holds
<1>3. seen[p] = q
  BY <1>1, LockAssumption
<1>4. life[q] = "dead"
  BY <1>2, <1>3, LockAssumption DEF LockInv, StaleMeansDead
<1> QED BY <1>4 DEF Holds, Alive

LEMMA InitLockInv == Init => LockInv
<1> SUFFICES ASSUME Init PROVE LockInv
  OBVIOUS
<1> USE DEF Init
<1>1. TypeOK
  <2>1. pc \in [Procs -> Steps] /\ life \in [Procs -> {"unborn", "alive", "dead"}]
    BY DEF Steps
  <2>2. tries \in [Procs -> 0 .. 2]
    OBVIOUS
  <2> QED BY <2>1, <2>2 DEF TypeOK
<1>2. \A p \in Procs : ~Alive(p) /\ pc[p] = "idle"
  BY DEF Alive
<1>3. PidsTellApart /\ OnlyLivingAct /\ OwnersWereBorn
  BY <1>2, LockAssumption DEF PidsTellApart, OnlyLivingAct, OwnersWereBorn
<1>4. StaleMeansDead /\ HolderIsNamed
  BY <1>2 DEF StaleMeansDead, HolderIsNamed, At, Holds
<1> QED BY <1>1, <1>3, <1>4 DEF LockInv

\* A process that only moves on, to a step that neither takes the lock nor
\* condemns a file, disturbs nothing.
LEMMA MovingOn ==
  ASSUME LockInv, NEW p \in Procs, NEW step \in Steps, Alive(p), Goto(p, step),
         tries' \in [Procs -> 0 .. 2],
         step = "unlink" => seen[p] \in {NoFile, p} \/ life[seen[p]] = "dead",
         step \in {"holding", "release", "drop"} => Holds(p),
         UNCHANGED <<life, pid, seen, lock, token, crossed>>
  PROVE  LockInv'
<1> USE DEF Goto, LockInv, Alive
<1>1. TypeOK'
  BY DEF TypeOK
<1>2. \A q \in Procs : pc'[q] = IF q = p THEN step ELSE pc[q]
  BY DEF TypeOK
<1>3. PidsTellApart' /\ OnlyLivingAct' /\ OwnersWereBorn'
  BY <1>2 DEF PidsTellApart, OnlyLivingAct, OwnersWereBorn
<1>4. StaleMeansDead'
  BY <1>2 DEF StaleMeansDead, At
<1>5. HolderIsNamed'
  BY <1>2 DEF HolderIsNamed, Holds
<1> QED BY <1>1, <1>3, <1>4, <1>5

LEMMA StepLockInv == LockInv /\ [Next]_vars => LockInv'
<1> SUFFICES ASSUME LockInv, [Next]_vars PROVE LockInv'
  OBVIOUS
<1> USE LockAssumption
<1>1. ASSUME NEW p \in Procs, Born(p) PROVE LockInv'
  <2> USE <1>1 DEF Born, LockInv
  <2>1. TypeOK'
    BY DEF TypeOK
  <2>2. \A q \in Procs : life'[q] = IF q = p THEN "alive" ELSE life[q]
    BY DEF TypeOK
  <2>3. pc[p] = "idle"
    BY DEF OnlyLivingAct, Alive
  <2>4. PidsTellApart'
    BY <2>2 DEF PidsTellApart, PidAlive, Alive
  <2>5. OnlyLivingAct' /\ OwnersWereBorn'
    BY <2>2 DEF OnlyLivingAct, OwnersWereBorn, Alive, TypeOK
  <2>6. StaleMeansDead'
    <3> SUFFICES ASSUME NEW q \in Procs, At(q, "unlink")', seen[q] \notin {NoFile, q}
                 PROVE  life'[seen[q]] = "dead"
      BY DEF StaleMeansDead
    <3>1. q # p /\ At(q, "unlink")
      BY <2>2, <2>3 DEF At, Alive
    <3>2. life[seen[q]] = "dead" /\ seen[q] \in Procs
      BY <3>1 DEF StaleMeansDead, TypeOK
    <3> QED BY <2>2, <3>2
  <2>7. HolderIsNamed'
    BY <2>2, <2>3 DEF HolderIsNamed, Holds, Alive
  <2> QED BY <2>1, <2>4, <2>5, <2>6, <2>7
<1>2. ASSUME NEW p \in Procs, Die(p) PROVE LockInv'
  <2> USE <1>2 DEF Die, Goto, LockInv
  <2>1. TypeOK'
    BY DEF TypeOK, Steps
  <2>2. \A q \in Procs : /\ life'[q] = IF q = p THEN "dead" ELSE life[q]
                         /\ pc'[q] = IF q = p THEN "idle" ELSE pc[q]
    BY DEF TypeOK
  <2>3. PidsTellApart' /\ OnlyLivingAct' /\ OwnersWereBorn'
    BY <2>2 DEF PidsTellApart, OnlyLivingAct, OwnersWereBorn, Alive
  <2>4. StaleMeansDead'
    BY <2>2 DEF StaleMeansDead, At, Alive, TypeOK
  <2>5. HolderIsNamed'
    BY <2>2 DEF HolderIsNamed, Holds, Alive
  <2> QED BY <2>1, <2>3, <2>4, <2>5
<1>3. ASSUME NEW p \in Procs, Link(p) PROVE LockInv'
  <2>1. CASE lock = NoFile
    <3> USE <1>3, <2>1 DEF Link, Goto, LockInv, At
    <3>1. TypeOK'
      BY DEF TypeOK, Steps
    <3>2. lock' = p /\ \A q \in Procs : pc'[q] = IF q = p THEN "holding" ELSE pc[q]
      BY DEF TypeOK
    <3>3. PidsTellApart' /\ OnlyLivingAct' /\ OwnersWereBorn'
      BY <3>2 DEF PidsTellApart, OnlyLivingAct, OwnersWereBorn, Alive
    <3>4. StaleMeansDead'
      BY <3>2 DEF StaleMeansDead, Alive
    <3>5. HolderIsNamed'
      BY <3>2 DEF HolderIsNamed, Holds, Alive
    <3> QED BY <3>1, <3>3, <3>4, <3>5
  <2>2. CASE lock # NoFile
    BY <1>3, <2>2, MovingOn DEF Link, At, Steps, LockInv, TypeOK
  <2> QED BY <2>1, <2>2
<1>4. ASSUME NEW p \in Procs, Read(p) PROVE LockInv'
  <2> USE <1>4 DEF Read, Goto, LockInv, At
  <2>1. TypeOK'
    BY DEF TypeOK, Steps
  <2>2. \A q \in Procs : /\ pc'[q] = IF q = p THEN "inspect" ELSE pc[q]
                         /\ seen'[q] = IF q = p THEN lock ELSE seen[q]
    BY DEF TypeOK
  <2>3. PidsTellApart' /\ OnlyLivingAct' /\ OwnersWereBorn'
    BY <2>2 DEF PidsTellApart, OnlyLivingAct, OwnersWereBorn, Alive
  <2>4. StaleMeansDead'
    BY <2>2 DEF StaleMeansDead, Alive
  <2>5. HolderIsNamed'
    BY <2>2 DEF HolderIsNamed, Holds, Alive
  <2> QED BY <2>1, <2>3, <2>4, <2>5
<1>5. ASSUME NEW p \in Procs, Inspect(p) PROVE LockInv'
  <2>1. PICK r \in BOOLEAN : Goto(p, IF StaleFor(p, r) THEN "unlink" ELSE "idle")
    BY <1>5 DEF Inspect
  <2>2. CASE StaleFor(p, r)
    <3>1. seen[p] \in {NoFile, p} \/ life[seen[p]] = "dead"
      BY <1>5, <2>2, StaleOwnerGone DEF Inspect
    <3> QED BY <1>5, <2>1, <2>2, <3>1, MovingOn DEF Inspect, At, Steps, LockInv, TypeOK
  <2>3. CASE ~StaleFor(p, r)
    BY <1>5, <2>1, <2>3, MovingOn DEF Inspect, At, Steps, LockInv, TypeOK
  <2> QED BY <2>2, <2>3
<1>6. ASSUME NEW p \in Procs, Unlink(p) PROVE LockInv'
  <2> USE <1>6 DEF Unlink, Goto, LockInv, At
  <2>1. TypeOK'
    BY DEF TypeOK, Steps
  <2>2. \A q \in Procs : pc'[q] \in IF q = p THEN {"link", "idle"} ELSE {pc[q]}
    BY DEF TypeOK
  <2>3. PidsTellApart' /\ OnlyLivingAct' /\ OwnersWereBorn'
    BY <2>2 DEF PidsTellApart, OnlyLivingAct, OwnersWereBorn, Alive
  <2>4. StaleMeansDead'
    BY <2>2 DEF StaleMeansDead, Alive
  <2>5. HolderIsNamed'
    <3> SUFFICES ASSUME ~crossed', NEW q \in Procs, Holds(q)' PROVE FALSE
      BY DEF HolderIsNamed
    <3>1. ~crossed /\ lock \in {seen[p], NoFile}
      OBVIOUS
    <3>2. Holds(q)
      BY <2>2 DEF Holds, Alive
    <3> QED BY <3>1, <3>2, UncrossedUnlinkFindsNoHolder
  <2> QED BY <2>1, <2>3, <2>4, <2>5
<1>7. ASSUME NEW p \in Procs, Drop(p) PROVE LockInv'
  <2> USE <1>7 DEF Drop, Goto, LockInv, At
  <2>1. TypeOK'
    BY DEF TypeOK, Steps
  <2>2. \A q \in Procs : pc'[q] = IF q = p THEN "idle" ELSE pc[q]
    BY DEF TypeOK
  <2>3. PidsTellApart' /\ OnlyLivingAct' /\ OwnersWereBorn'
    BY <2>2 DEF PidsTellApart, OnlyLivingAct, OwnersWereBorn, Alive
  <2>4. StaleMeansDead'
    BY <2>2 DEF StaleMeansDead, Alive
  <2>5. HolderIsNamed'
    <3> SUFFICES ASSUME ~crossed, NEW q \in Procs, Holds(q)' PROVE FALSE
      BY DEF HolderIsNamed
    <3>1. Holds(p) /\ Holds(q) /\ q # p
      BY <2>2 DEF Holds, Alive
    <3> QED BY <3>1 DEF HolderIsNamed
  <2> QED BY <2>1, <2>3, <2>4, <2>5
<1>8. ASSUME NEW p \in Procs,
             Acquire(p) \/ LinkFails(p) \/ UnlinkFails(p) \/ Release(p) \/ CheckOwn(p)
      PROVE  LockInv'
  <2>1. tries' \in [Procs -> 0 .. 2]
    BY <1>8 DEF Acquire, LinkFails, UnlinkFails, Release, CheckOwn, LockInv, TypeOK
  <2>2. CASE Acquire(p)
    BY <2>1, <2>2, MovingOn DEF Acquire, At, Steps
  <2>3. CASE LinkFails(p) \/ UnlinkFails(p)
    BY <2>1, <2>3, MovingOn DEF LinkFails, UnlinkFails, At, Steps
  <2>4. CASE Release(p)
    BY <2>1, <2>4, MovingOn DEF Release, At, Holds, Steps
  <2>5. CASE CheckOwn(p)
    <3>1. CASE lock = p
      BY <2>1, <2>5, <3>1, MovingOn DEF CheckOwn, At, Holds, Steps
    <3>2. CASE lock # p
      BY <2>1, <2>5, <3>2, MovingOn DEF CheckOwn, At, Steps
    <3> QED BY <3>1, <3>2
  <2> QED BY <1>8, <2>2, <2>3, <2>4, <2>5
<1>9. CASE UNCHANGED vars
  BY <1>9 DEF vars, LockInv, TypeOK, PidsTellApart, OnlyLivingAct, OwnersWereBorn,
     StaleMeansDead, HolderIsNamed, Holds, At, Alive
<1> QED BY <1>1, <1>2, <1>3, <1>4, <1>5, <1>6, <1>7, <1>8, <1>9 DEF Next

-----------------------------------------------------------------------------
\* The inductive invariant of the lock.
THEOREM LockInvariance == Spec => []LockInv
BY InitLockInv, StepLockInv, PTL DEF Spec

\* acquire() never condemns the file of a living process, for any number of
\* processes and any reuse of pids.
THEOREM OnlyTheDeadAreStale == Spec => []StaleMeansDead
<1>1. LockInv => StaleMeansDead
  BY DEF LockInv
<1> QED BY <1>1, LockInvariance, PTL

\* Until a take-over removes another file than the one it judged, the file names
\* its holder.
THEOREM UncrossedHolderIsNamed == Spec => []HolderIsNamed
<1>1. LockInv => HolderIsNamed
  BY DEF LockInv
<1> QED BY <1>1, LockInvariance, PTL

\* The race of two take-overs is the only way to two holders.
THEOREM OnlyTheRaceBreaksExclusion == Spec => [](~crossed => AtMostOneHolder)
<1>1. LockInv => (~crossed => AtMostOneHolder)
  BY DEF LockInv, HolderIsNamed, AtMostOneHolder
<1> QED BY <1>1, LockInvariance, PTL
=============================================================================
