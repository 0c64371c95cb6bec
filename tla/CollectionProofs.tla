-------------------------- MODULE CollectionProofs --------------------------
(***************************************************************************)
(* Proofs about the collection of records: the checkpoint store, for any   *)
(* number of inputs, keys, values and output holds; the way from an        *)
(* agent's log to the outputs, for any number of inputs, outputs, records  *)
(* and restarts; the life of one input and the service that starts and     *)
(* stops it.  The last two are compositions with the store: each of their  *)
(* steps is a step of the store or leaves the store alone, so the store's  *)
(* theorems hold of both.                                                  *)
(***************************************************************************)
EXTENDS DurableDelivery, AgentDiscovery, TLAPS

USE StateStoreAssumption

-----------------------------------------------------------------------------
(* The checkpoint store.                                                   *)

\* The three ways to change an input keep the map well typed.
LEMMA MergeType ==
    ASSUME NEW old \in Extras, NEW partial \in Extras
    PROVE  MergeExtra(old, partial) \in Extras
BY DEF Extras, MergeExtra

LEMMA GetType ==
    ASSUME TypeOK, NEW i \in Inputs
    PROVE  Get(i) \in InputStates /\ Get(i).extra \in Extras
BY DEF TypeOK, StoredStates, Get, EmptyState, NoExtra, InputStates, Extras

\* Init establishes the inductive invariant.
LEMMA InitIInv == Init => IInv
<1> SUFFICES ASSUME Init PROVE IInv
  OBVIOUS
<1>1. NoStates \in StoredStates
  BY DEF NoStates, StoredStates
<1>2. TypeOK
  <2>1. /\ inputRev \in [Inputs -> 0 .. MaxRevision]
        /\ extraRev \in [Inputs -> [Keys -> 0 .. MaxRevision]]
        /\ heldAt \in [Holds -> 0 .. MaxRevision]
    BY DEF Init
  <2>2. hold \in [Holds -> {"free", "pending", "rejected"}]
    BY DEF Init
  <2>3. revision \in 0 .. MaxRevision /\ crashes \in 0 .. MaxCrash
    BY DEF Init
  <2> QED BY <1>1, <2>1, <2>2, <2>3 DEF Init, TypeOK
<1>3. RevisionsOrdered /\ HoldsBoundWrites
  BY DEF Init, RevisionsOrdered, HoldsBoundWrites
<1>4. ContentTracked
  BY DEF Init, ContentTracked, AgreesUpTo
<1> QED BY <1>2, <1>3, <1>4 DEF IInv

-----------------------------------------------------------------------------
\* A change of the map keeps every tracked copy honest: the changed input is
\* stamped beyond every revision a copy may have.
LEMMA PutIInv ==
    ASSUME IInv,
           NEW i \in Inputs, NEW next \in InputStates \cup {Absent},
           NEW before \in Extras, NEW after \in Extras,
           before = Get(i).extra,
           after = (IF next = Absent THEN NoExtra ELSE next.extra),
           Put(i, next, before, after),
           UNCHANGED <<persistedRevision, writer, outputs, file, crashes>>
    PROVE  IInv'
<1>1. TypeOK'
  BY DEF IInv, TypeOK, Put, StoredStates, writer, outputs, file
<1>2. RevisionsOrdered'
  BY DEF IInv, TypeOK, RevisionsOrdered, Put, writer, file
<1>3. HoldsBoundWrites'
  BY DEF IInv, HoldsBoundWrites, Put, writer, outputs, file
<1>4. ASSUME NEW map \in StoredStates, NEW r \in Nat, r <= revision,
             AgreesUpTo(map, r)
      PROVE  AgreesUpTo(map, r)'
  <2>1. ASSUME NEW j \in Inputs, inputRev'[j] <= r
        PROVE  map[j] = states'[j]
    BY <1>4, <2>1 DEF IInv, TypeOK, Put, AgreesUpTo, StoredStates
  <2>2. ASSUME NEW j \in Inputs, NEW k \in Keys, extraRev'[j][k] <= r
        PROVE  ExtraOf(map, j)[k] = (ExtraOf(states, j)[k])'
    <3>1. CASE j = i
      <4>1. before[k] = after[k] /\ extraRev[i][k] <= r
        BY <1>4, <2>2, <3>1 DEF IInv, TypeOK, Put
      <4>2. ExtraOf(states, i)[k] = before[k]
        BY DEF ExtraOf, Get, EmptyState
      <4>3. (ExtraOf(states, i)[k])' = after[k]
        BY DEF ExtraOf, Put, IInv, TypeOK, StoredStates
      <4> QED BY <1>4, <3>1, <4>1, <4>2, <4>3 DEF AgreesUpTo
    <3>2. CASE j # i
      BY <1>4, <2>2, <3>2 DEF IInv, TypeOK, Put, AgreesUpTo, ExtraOf, StoredStates
    <3> QED BY <3>1, <3>2
  <2> QED BY <2>1, <2>2 DEF AgreesUpTo, ExtraOf
<1>5. ContentTracked'
  <2>1. AgreesUpTo(disk, diskRevision)'
    <3>1. disk \in StoredStates /\ diskRevision \in Nat /\ diskRevision <= revision
      BY DEF IInv, TypeOK, RevisionsOrdered
    <3>2. AgreesUpTo(disk, diskRevision)
      BY DEF IInv, ContentTracked
    <3>3. disk' = disk /\ diskRevision' = diskRevision
      BY DEF file
    <3>4. \A map \in StoredStates, r \in Nat :
             r <= revision /\ AgreesUpTo(map, r) => AgreesUpTo(map, r)'
      BY <1>4
    <3>5. /\ \A j \in Inputs : inputRev'[j] <= diskRevision => disk[j] = states'[j]
          /\ \A j \in Inputs, k \in Keys :
                extraRev'[j][k] <= diskRevision
                  => ExtraOf(disk, j)[k] = ExtraOf(states', j)[k]
      BY <3>1, <3>2, <3>4 DEF AgreesUpTo, ExtraOf
    <3> QED BY <3>3, <3>5 DEF AgreesUpTo, ExtraOf
  <2>2. ASSUME saver' = "writing" PROVE AgreesUpTo(snapshot, target)'
    <3>1. saver = "writing" /\ snapshot' = snapshot /\ target' = target
      BY <2>2 DEF writer
    <3>2. /\ snapshot \in StoredStates /\ target \in Nat /\ target <= revision
          /\ AgreesUpTo(snapshot, target)
      BY <3>1 DEF IInv, TypeOK, RevisionsOrdered, ContentTracked
    <3>3. /\ \A j \in Inputs : inputRev'[j] <= target => snapshot[j] = states'[j]
          /\ \A j \in Inputs, k \in Keys :
                extraRev'[j][k] <= target
                  => ExtraOf(snapshot, j)[k] = ExtraOf(states', j)[k]
      BY <1>4, <3>2 DEF AgreesUpTo, ExtraOf
    <3> QED BY <3>1, <3>3 DEF AgreesUpTo, ExtraOf
  <2> QED BY <2>1, <2>2 DEF ContentTracked
<1> QED BY <1>1, <1>2, <1>3, <1>5 DEF IInv

LEMMA ChangeIInv == IInv /\ Change => IInv'
<1> SUFFICES ASSUME IInv, Change PROVE IInv'
  OBVIOUS
<1> PICK i \in Inputs :
        \/ \E given \in InputStates : Set(i, given)
        \/ \E offset \in Offsets, extra \in Extras : Update(i, offset, extra)
        \/ Delete(i)
  BY DEF Change
<1>1. Get(i).extra \in Extras
  BY GetType DEF IInv
<1>2. ASSUME NEW given \in InputStates, Set(i, given) PROVE IInv'
  <2>1. given.extra \in Extras /\ given # Absent
    BY DEF InputStates
  <2> QED BY <1>1, <1>2, <2>1, PutIInv DEF Set
<1>3. ASSUME NEW offset \in Offsets, NEW extra \in Extras, Update(i, offset, extra)
      PROVE  IInv'
  <2> DEFINE merged == [offset |-> offset, extra |-> MergeExtra(Get(i).extra, extra)]
  <2>1. merged.extra \in Extras /\ merged \in InputStates /\ merged # Absent
    BY <1>1, MergeType DEF InputStates
  <2>2. Put(i, merged, Get(i).extra, merged.extra)
    BY <1>3 DEF Update
  <2> QED BY <1>1, <1>3, <2>1, <2>2, PutIInv DEF Update
<1>4. ASSUME Delete(i) PROVE IInv'
  <2>1. NoExtra \in Extras
    BY DEF NoExtra, Extras
  <2> QED BY <1>1, <1>4, <2>1, PutIInv DEF Delete
<1> QED BY <1>2, <1>3, <1>4

-----------------------------------------------------------------------------
\* Holds only ever tighten what a write may carry.
LEMMA HoldIInv ==
    ASSUME IInv, NEW h \in Holds, HoldSaveUntil(h) \/ Accept(h) \/ Reject(h)
    PROVE  IInv'
<1>1. TypeOK'
  BY DEF IInv, TypeOK, HoldSaveUntil, Accept, Reject, memory, writer, file
<1>2. RevisionsOrdered'
  BY DEF IInv, RevisionsOrdered, HoldSaveUntil, Accept, Reject, memory, writer, file
<1>3. HoldsBoundWrites'
  BY DEF IInv, TypeOK, RevisionsOrdered, HoldsBoundWrites, HoldSaveUntil, Accept,
         Reject, memory, writer, file
<1>4. ContentTracked'
  BY DEF IInv, ContentTracked, AgreesUpTo, ExtraOf, HoldSaveUntil, Accept, Reject,
         memory, writer, file
<1> QED BY <1>1, <1>2, <1>3, <1>4 DEF IInv

\* A turn of the loop that begins after the file and the counters agree.
LEMMA FlushLoopIInv ==
    ASSUME IInv, NEW persisted \in 0 .. MaxRevision, persisted = diskRevision,
           FlushLoop(persisted), persistedRevision' = persisted,
           inputRev' \in [Inputs -> 0 .. MaxRevision],
           extraRev' \in [Inputs -> [Keys -> 0 .. MaxRevision]],
           AgreesUpTo(disk, diskRevision)',
           UNCHANGED <<states, revision, outputs, file, crashes>>
    PROVE  IInv'
<1>1. TypeOK'
  BY DEF IInv, TypeOK, FlushLoop, Settled, outputs, file, saveHolds, NoStates, StoredStates
<1>2. RevisionsOrdered'
  BY DEF IInv, TypeOK, RevisionsOrdered, FlushLoop, Settled, file
<1>3. HoldsBoundWrites'
  BY DEF IInv, TypeOK, HoldsBoundWrites, FlushLoop, Settled, outputs, file,
         waitingForOutput, saveHolds
<1>4. ContentTracked'
  <2>1. ASSUME saver' = "writing" PROVE AgreesUpTo(snapshot, target)'
    BY <2>1 DEF FlushLoop, Settled, AgreesUpTo, ExtraOf
  <2> QED BY <2>1 DEF ContentTracked
<1> QED BY <1>1, <1>2, <1>3, <1>4 DEF IInv

LEMMA LoopTurnIInv == IInv /\ (Save \/ HoldsSettled) => IInv'
<1> SUFFICES ASSUME IInv, Save \/ HoldsSettled PROVE IInv'
  OBVIOUS
<1>1. persistedRevision = diskRevision /\ persistedRevision \in 0 .. MaxRevision
  BY DEF IInv, TypeOK, RevisionsOrdered, Save, SaveStarts, SaveWaits, HoldsSettled
<1>2. /\ FlushLoop(persistedRevision)
      /\ UNCHANGED <<memory, persistedRevision, outputs, file, crashes>>
  BY DEF Save, HoldsSettled
<1>3. AgreesUpTo(disk, diskRevision)'
  BY <1>2 DEF IInv, ContentTracked, AgreesUpTo, ExtraOf, memory, file
<1> QED BY <1>1, <1>2, <1>3, FlushLoopIInv DEF IInv, TypeOK, memory

\* The end of a save, whatever ended it.
LEMMA SettleIInv == IInv /\ (HoldsRejected \/ WriteFails \/ SaveCleared) => IInv'
<1> SUFFICES ASSUME IInv, HoldsRejected \/ WriteFails \/ SaveCleared PROVE IInv'
  OBVIOUS
<1>1. TypeOK'
  BY DEF IInv, TypeOK, HoldsRejected, WriteFails, SaveCleared, Settled, NoStates,
         StoredStates, memory, outputs, file
<1>2. RevisionsOrdered'
  BY DEF IInv, TypeOK, RevisionsOrdered, HoldsRejected, WriteFails, SaveCleared, Settled,
         memory, file
<1>3. HoldsBoundWrites'
  BY DEF IInv, HoldsBoundWrites, HoldsRejected, WriteFails, SaveCleared, Settled, outputs, file
<1>4. ContentTracked'
  BY DEF IInv, ContentTracked, AgreesUpTo, ExtraOf, HoldsRejected, WriteFails, SaveCleared,
         Settled, memory, file
<1> QED BY <1>1, <1>2, <1>3, <1>4 DEF IInv

LEMMA WriteLandsIInv == IInv /\ WriteLands => IInv'
<1> SUFFICES ASSUME IInv, WriteLands PROVE IInv'
  OBVIOUS
<1>1. TypeOK'
  BY DEF IInv, TypeOK, WriteLands, memory, outputs
<1>2. RevisionsOrdered'
  BY DEF IInv, TypeOK, RevisionsOrdered, WriteLands, memory
<1>3. HoldsBoundWrites'
  BY DEF IInv, HoldsBoundWrites, WriteLands, outputs
<1>4. ContentTracked'
  BY DEF IInv, ContentTracked, AgreesUpTo, ExtraOf, WriteLands, memory
<1> QED BY <1>1, <1>2, <1>3, <1>4 DEF IInv

\* Pruning drops only what the file already agrees on.
LEMMA WriteResolvesIInv == IInv /\ WriteResolves => IInv'
<1> SUFFICES ASSUME IInv, WriteResolves PROVE IInv'
  OBVIOUS
<1>1. target = diskRevision /\ target \in 0 .. MaxRevision
  BY DEF IInv, TypeOK, RevisionsOrdered, WriteResolves
<1>2. /\ inputRev' \in [Inputs -> 0 .. MaxRevision]
      /\ extraRev' \in [Inputs -> [Keys -> 0 .. MaxRevision]]
  BY DEF IInv, TypeOK, WriteResolves, PruneInputRev, PruneExtraRev
<1>3. \A i \in Inputs : inputRev'[i] <= target => inputRev[i] <= target
  BY <1>1 DEF IInv, TypeOK, WriteResolves, PruneInputRev
<1>4. \A i \in Inputs, k \in Keys : extraRev'[i][k] <= target => extraRev[i][k] <= target
  BY <1>1 DEF IInv, TypeOK, WriteResolves, PruneExtraRev
<1>5. AgreesUpTo(disk, diskRevision)'
  BY <1>1, <1>3, <1>4 DEF IInv, ContentTracked, AgreesUpTo, ExtraOf, WriteResolves, file
<1> QED BY <1>1, <1>2, <1>5, FlushLoopIInv DEF WriteResolves

\* A restart reads the file back with every counter at zero.
LEMMA CrashIInv == IInv /\ Crash => IInv'
<1> SUFFICES ASSUME IInv, Crash PROVE IInv'
  OBVIOUS
<1>1. TypeOK'
  <2>1. NoStates \in StoredStates
    BY DEF NoStates, StoredStates
  <2>2. /\ inputRev' \in [Inputs -> 0 .. MaxRevision]
        /\ extraRev' \in [Inputs -> [Keys -> 0 .. MaxRevision]]
        /\ heldAt' \in [Holds -> 0 .. MaxRevision]
        /\ crashes' \in 0 .. MaxCrash
    BY DEF IInv, TypeOK, Crash, Fresh
  <2>3. hold' \in [Holds -> {"free", "pending", "rejected"}]
    BY DEF Crash, Fresh
  <2>4. revision' \in 0 .. MaxRevision
    BY DEF Crash, Fresh
  <2> QED BY <2>1, <2>2, <2>3, <2>4 DEF IInv, TypeOK, Crash, Fresh
<1>2. RevisionsOrdered' /\ HoldsBoundWrites'
  BY DEF Crash, Fresh, RevisionsOrdered, HoldsBoundWrites
<1>3. ContentTracked'
  BY DEF Crash, Fresh, ContentTracked, AgreesUpTo, ExtraOf
<1> QED BY <1>1, <1>2, <1>3 DEF IInv

LEMMA StepIInv == IInv /\ [Next]_vars => IInv'
<1> SUFFICES ASSUME IInv, [Next]_vars PROVE IInv'
  OBVIOUS
<1>1. CASE UNCHANGED vars
  BY <1>1 DEF vars, memory, writer, outputs, file, IInv, TypeOK, RevisionsOrdered,
     HoldsBoundWrites, ContentTracked, AgreesUpTo, ExtraOf
<1>2. CASE Change
  BY <1>2, ChangeIInv
<1>3. CASE (\E h \in Holds : HoldSaveUntil(h)) \/ Settle
  BY <1>3, HoldIInv DEF Settle
<1>4. CASE Save \/ HoldsSettled
  BY <1>4, LoopTurnIInv
<1>5. CASE HoldsRejected \/ WriteFails \/ SaveCleared
  BY <1>5, SettleIInv
<1>6. CASE WriteLands
  BY <1>6, WriteLandsIInv
<1>7. CASE WriteResolves
  BY <1>7, WriteResolvesIInv
<1>8. CASE Crash
  BY <1>8, CrashIInv
<1> QED BY <1>1, <1>2, <1>3, <1>4, <1>5, <1>6, <1>7, <1>8 DEF Next

\* The inductive invariant holds in every behaviour of the store.
THEOREM Invariance == Spec => []IInv
BY InitIInv, StepIInv, PTL DEF Spec

-----------------------------------------------------------------------------
\* Every variable keeps its type.
THEOREM TypeCorrect == Spec => []TypeOK
<1>1. IInv => TypeOK
  BY DEF IInv
<1> QED BY <1>1, Invariance, PTL

\* No change made after an output hold was taken is in the file while that
\* output is pending or after it was rejected.
THEOREM NoUnacceptedProgress == Spec => []UnacceptedOutputNotCheckpointed
<1>1. IInv => UnacceptedOutputNotCheckpointed
  BY DEF IInv, HoldsBoundWrites, UnacceptedOutputNotCheckpointed
<1> QED BY <1>1, Invariance, PTL

\* isPersisted(input) is true only of inputs a restart would find unchanged.
THEOREM PersistedMeansOnDisk == Spec => []PersistedIsOnDisk
<1>1. IInv => PersistedIsOnDisk
  <2> SUFFICES ASSUME IInv, NEW i \in Inputs
               PROVE  /\ IsPersisted(i) => disk[i] = states[i]
                      /\ \A k \in Keys :
                            IsExtraPersisted(i, k) => ExtraOf(disk, i)[k] = ExtraOf(states, i)[k]
    BY DEF PersistedIsOnDisk
  <2>1. persistedRevision <= diskRevision /\ AgreesUpTo(disk, diskRevision)
    BY DEF IInv, RevisionsOrdered, ContentTracked
  <2>2. IsPersisted(i) => disk[i] = states[i]
    BY <2>1 DEF IInv, TypeOK, AgreesUpTo, IsPersisted
  <2>3. ASSUME NEW k \in Keys, IsExtraPersisted(i, k)
        PROVE  ExtraOf(disk, i)[k] = ExtraOf(states, i)[k]
    BY <2>1, <2>3 DEF IInv, TypeOK, AgreesUpTo, IsExtraPersisted
  <2> QED BY <2>2, <2>3
<1> QED BY <1>1, Invariance, PTL

\* Within a lifetime the file only advances, and no write starts after a
\* rejected output.
THEOREM WritesOnlyAdvance == Spec => DiskOnlyAdvances
<1> DEFINE Advances ==
      crashes' = crashes =>
          /\ diskRevision' >= diskRevision
          /\ saveFailure => saver' # "writing" \/ saver = "writing"
<1>1. IInv /\ [Next]_vars => [Advances]_vars
  <2> SUFFICES ASSUME IInv, Next, crashes' = crashes PROVE Advances
    OBVIOUS
  <2> USE DEF IInv, TypeOK
  <2>1. CASE Change
    <3>1. UNCHANGED <<writer, file>>
      BY <2>1 DEF Change, Set, Update, Delete
    <3> QED BY <3>1 DEF writer, file
  <2>2. CASE (\E h \in Holds : HoldSaveUntil(h)) \/ Settle
    BY <2>2 DEF Settle, HoldSaveUntil, Accept, Reject, writer, file
  <2>3. CASE Save \/ HoldsSettled \/ WriteResolves
    BY <2>3 DEF Save, HoldsSettled, WriteResolves, FlushLoop, Settled, file
  <2>4. CASE HoldsRejected \/ WriteFails \/ SaveCleared
    BY <2>4 DEF HoldsRejected, WriteFails, SaveCleared, Settled, file
  <2>5. CASE WriteLands
    BY <2>5 DEF WriteLands, RevisionsOrdered
  <2>6. CASE Crash
    BY <2>6 DEF Crash
  <2> QED BY <2>1, <2>2, <2>3, <2>4, <2>5, <2>6 DEF Next
<1> QED BY <1>1, Invariance, PTL DEF Spec, DiskOnlyAdvances

-----------------------------------------------------------------------------
(* From an agent's log to the outputs.                                     *)

USE DurableDeliveryAssumption

DIInv == IInv /\ DeliveryInv

\* The batch in the outputs.
LEMMA HeadProperties ==
    ASSUME NEW q \in Seq(Batches), q # <<>>
    PROVE  /\ Head(q) \in Batches /\ Head(q) = q[1] /\ 1 \in 1 .. Len(q)
           /\ Tail(q) \in Seq(Batches) /\ Len(Tail(q)) = Len(q) - 1
           /\ \A n \in 1 .. Len(Tail(q)) : Tail(q)[n] = q[n + 1] /\ n + 1 \in 1 .. Len(q)
<1> DEFINE S == Batches
<1>1. q \in Seq(S)
  OBVIOUS
<1> HIDE DEF S
<1>2. /\ Head(q) \in S /\ Head(q) = q[1] /\ 1 \in 1 .. Len(q)
      /\ Tail(q) \in Seq(S) /\ Len(Tail(q)) = Len(q) - 1
      /\ \A n \in 1 .. Len(Tail(q)) : Tail(q)[n] = q[n + 1] /\ n + 1 \in 1 .. Len(q)
  BY <1>1
<1> QED BY <1>2 DEF S

LEMMA BatchType ==
    ASSUME DeliveryTypeOK
    PROVE  \A i \in Inputs : \A n \in 1 .. Len(queue[i]) : queue[i][n] \in Batches
BY DEF DeliveryTypeOK

LEMMA BatchesHeldUnchanged ==
    ASSUME BatchesHeld, UNCHANGED <<queue, hold>>
    PROVE  BatchesHeld'
<1>1. \A i \in Inputs : \A n \in 1 .. Len(queue'[i]) :
          IF i \in Codex THEN /\ queue'[i][n].hold \in Holds
                              /\ hold'[queue'[i][n].hold] = "pending"
                         ELSE queue'[i][n].hold = NoHold
  BY DEF BatchesHeld
<1>2. \A i, j \in Codex : \A m \in 1 .. Len(queue'[i]), n \in 1 .. Len(queue'[j]) :
          queue'[i][m].hold = queue'[j][n].hold => i = j /\ m = n
  BY DEF BatchesHeld
<1> QED BY <1>1, <1>2 DEF BatchesHeld

\* Nothing in this composition changes the store but by the store's actions.
LEMMA StoreStep == DeliveryTypeOK /\ [DeliveryNext]_allvars => [Next]_vars
<1> SUFFICES ASSUME DeliveryTypeOK, [DeliveryNext]_allvars PROVE [Next]_vars
  OBVIOUS
<1>1. CASE UNCHANGED allvars
  BY <1>1 DEF allvars
<1>2. ASSUME NEW i \in Inputs, Emit(i) PROVE [Next]_vars
  BY <1>2 DEF Emit, store, Next
<1>3. ASSUME NEW i \in Inputs, Advance(i) PROVE Next
  <2>1. to[i] \in Offsets /\ NoExtra \in Extras
    BY DEF DeliveryTypeOK, NoExtra, Extras
  <2> QED BY <1>3, <2>1 DEF Advance, Next, Change
<1>4. ASSUME NEW i \in Inputs, Finish(i) PROVE [Next]_vars
  <2>1. queue[i] # <<>> => Head(queue[i]).hold \in Holds \cup {NoHold}
    BY HeadProperties DEF DeliveryTypeOK, Batches
  <2> QED BY <1>4, <2>1 DEF Finish, store, Next, Settle
<1>5. ASSUME NEW i \in Inputs, SaveCycle(i) PROVE [Next]_vars
  BY <1>5 DEF SaveCycle, store, Next
<1>6. ASSUME NEW i \in Inputs,
             \/ Produce(i) \/ StartCycle(i) \/ Collect(i) \/ CollectFails(i) \/ EndCycle(i)
             \/ \E o \in Outputs : Take(i, o) \/ Fail(i, o)
      PROVE  UNCHANGED vars
  BY <1>6 DEF Produce, StartCycle, Collect, CollectFails, EndCycle, Take, Fail, store
<1>7. CASE Store \/ Restart
  BY <1>7 DEF Store, Restart, Next
<1> QED BY <1>1, <1>2, <1>3, <1>4, <1>5, <1>6, <1>7 DEF DeliveryNext

LEMMA NoStatesOffset == \A i \in Inputs : OffsetIn(NoStates, i) = 0
BY DEF OffsetIn, NoStates

LEMMA InitDIInv == DeliveryInit => DIInv
<1> SUFFICES ASSUME DeliveryInit PROVE DIInv
  OBVIOUS
<1> USE DEF DeliveryInit
<1>1. IInv
  BY InitIInv
<1>2. states = NoStates /\ disk = NoStates /\ snapshot = NoStates /\ saver = "none"
  BY DEF Init
<1>3. DeliveryTypeOK
  BY <1>1 DEF DeliveryTypeOK, IInv, AllOpen
<1>4. CodexCursorCovered /\ CursorsAdvance
  BY <1>2, NoStatesOffset DEF CodexCursorCovered, CursorsAdvance
<1>5. CyclesFollowCursor /\ HandedTracked /\ BatchesHeld
  BY <1>2, NoStatesOffset DEF CyclesFollowCursor, HandedTracked, BatchesHeld
<1>6. PassedIsTakenOrQueued
  BY <1>2, NoStatesOffset DEF PassedIsTakenOrQueued, AllOpen
<1> QED BY <1>1, <1>3, <1>4, <1>5, <1>6 DEF DIInv, DeliveryInv

-----------------------------------------------------------------------------
(* Steps of the writer and of the cycles that hand out nothing.            *)

\* What the writer does: it begins a write only with no output pending and
\* none rejected, from the map as it is.
WriterStep ==
    /\ UNCHANGED <<states, hold, saveFailure, crashes>>
    /\ disk' = disk \/ (saver = "writing" /\ disk' = snapshot /\ saver' # "writing")
    /\ snapshot' \in {snapshot, states, NoStates}
    /\ saver' = "writing" =>
          disk' = disk /\ snapshot' = states /\ ~saveFailure /\ ~waitingForOutput

LEMMA WriterSteps ==
    ASSUME \/ Save \/ HoldsSettled \/ HoldsRejected \/ WriteLands \/ WriteFails
           \/ WriteResolves \/ SaveCleared
    PROVE  WriterStep
BY DEF WriterStep, Save, HoldsSettled, HoldsRejected, WriteLands, WriteFails, WriteResolves,
   SaveCleared, FlushLoop, Settled, memory, outputs, file

\* With no output pending and none rejected, every record a Codex cursor has
\* passed is taken.
LEMMA IdleOutputsCover ==
    ASSUME DeliveryInv, ~saveFailure, ~waitingForOutput, NEW i \in Codex, NEW o \in DurableOutputs
    PROVE  1 .. OffsetIn(states, i) \subseteq accepted[o][i]
<1>1. i \in Inputs /\ queue[i] \in Seq(Batches)
  BY DEF DeliveryInv, DeliveryTypeOK
<1>2. 1 .. Len(queue[i]) = {}
  BY <1>1 DEF DeliveryInv, BatchesHeld, waitingForOutput, saveHolds
<1> QED BY <1>1, <1>2 DEF DeliveryInv, PassedIsTakenOrQueued, InQueue

\* A step of the writer, or of a cycle on its way between two hand-outs.
LEMMA QuietIInv ==
    ASSUME DeliveryInv, TypeOK',
           WriterStep \/ UNCHANGED <<states, hold, saveFailure, disk, snapshot, saver>>,
           UNCHANGED <<produced, queue, result, accepted, handed>>,
           cycle' \in [Inputs -> {"idle", "collect", "advance", "emit", "save", "wait"}],
           from' \in [Inputs -> 0 .. MaxRecords], to' \in [Inputs -> 0 .. MaxRecords],
           \A i \in Inputs : \/ cycle'[i] = cycle[i] /\ from'[i] = from[i] /\ to'[i] = to[i]
                             \/ cycle'[i] \in {"idle", "collect", "save", "wait"}
    PROVE  DeliveryInv'
<1> USE DEF DeliveryInv
<1>1. states' = states /\ hold' = hold /\ saveFailure' = saveFailure
  BY DEF WriterStep
<1>2. DeliveryTypeOK'
  BY DEF DeliveryTypeOK
<1>3. CodexCursorCovered'
  BY DEF CodexCursorCovered, PassedIsTakenOrQueued, WriterStep
<1>4. CursorsAdvance'
  <2>1. CASE WriterStep
    BY <2>1, NoStatesOffset DEF CursorsAdvance, WriterStep
  <2>2. CASE UNCHANGED <<states, disk, snapshot, saver>>
    BY <2>2 DEF CursorsAdvance
  <2> QED BY <2>1, <2>2
<1>5. CyclesFollowCursor' /\ HandedTracked'
  BY <1>1 DEF CyclesFollowCursor, HandedTracked
<1>6. BatchesHeld'
  BY <1>1, BatchesHeldUnchanged
<1>7. PassedIsTakenOrQueued'
  <2>1. ASSUME saver' = "writing", NEW i \in Codex, NEW o \in DurableOutputs
        PROVE  1 .. OffsetIn(snapshot', i) \subseteq accepted[o][i]
    <3>1. CASE WriterStep
      BY <2>1, <3>1, IdleOutputsCover DEF WriterStep
    <3>2. CASE UNCHANGED <<snapshot, saver>>
      BY <2>1, <3>2 DEF PassedIsTakenOrQueued
    <3> QED BY <3>1, <3>2
  <2> QED BY <1>1, <2>1 DEF PassedIsTakenOrQueued, InQueue
<1> QED BY <1>2, <1>3, <1>4, <1>5, <1>6, <1>7

\* Reading changes only what the agent and the cycle know.
LEMMA CollectIInv == ASSUME DeliveryInv, NEW i \in Inputs, Collect(i) PROVE DeliveryInv'
<1> USE DEF DeliveryInv, Collect, store
<1>1. /\ UNCHANGED <<states, hold, saveFailure, disk, snapshot, saver>>
      /\ TypeOK'
  BY DEF vars, memory, writer, outputs, file, DeliveryTypeOK, TypeOK
<1>2. /\ from' \in [Inputs -> 0 .. MaxRecords]
      /\ from'[i] = OffsetIn(states, i) /\ to'[i] = produced[i]
      /\ cycle'[i] = IF produced[i] <= OffsetIn(states, i) THEN "save"
                     ELSE IF i \in Codex THEN "emit" ELSE "advance"
      /\ to' \in [Inputs -> 0 .. MaxRecords]
      /\ cycle' \in [Inputs -> {"idle", "collect", "advance", "emit", "save", "wait"}]
      /\ \A j \in Inputs : j # i => cycle'[j] = cycle[j] /\ from'[j] = from[j] /\ to'[j] = to[j]
  BY DEF DeliveryTypeOK, CursorsAdvance
<1>3. produced[i] \in Nat /\ OffsetIn(states, i) \in Nat
  BY DEF DeliveryTypeOK, CursorsAdvance
<1>4. DeliveryTypeOK'
  BY <1>1, <1>2 DEF DeliveryTypeOK
<1>5. CodexCursorCovered' /\ CursorsAdvance'
  BY <1>1 DEF CodexCursorCovered, CursorsAdvance
<1>6. CyclesFollowCursor'
  BY <1>1, <1>2, <1>3 DEF CyclesFollowCursor
<1>7. HandedTracked'
  BY <1>1, <1>2, <1>3 DEF HandedTracked
<1>8. BatchesHeld'
  BY <1>1, BatchesHeldUnchanged
<1>9. PassedIsTakenOrQueued'
  BY <1>1, <1>2 DEF PassedIsTakenOrQueued, InQueue
<1> QED BY <1>4, <1>5, <1>6, <1>7, <1>8, <1>9

LEMMA ProduceIInv == ASSUME DeliveryInv, NEW i \in Inputs, Produce(i) PROVE DeliveryInv'
<1> USE DEF DeliveryInv, Produce, store
<1>1. /\ UNCHANGED <<states, hold, saveFailure, disk, snapshot, saver>>
      /\ TypeOK'
  BY DEF vars, memory, writer, outputs, file, DeliveryTypeOK, TypeOK
<1>2. /\ produced' \in [Inputs -> 0 .. MaxRecords]
      /\ \A j \in Inputs : produced[j] <= produced'[j] /\ produced[j] \in Nat
  BY DEF DeliveryTypeOK
<1>3. DeliveryTypeOK'
  BY <1>1, <1>2 DEF DeliveryTypeOK
<1>4. CodexCursorCovered' /\ CursorsAdvance' /\ HandedTracked'
  BY <1>1 DEF CodexCursorCovered, CursorsAdvance, HandedTracked
<1>5. CyclesFollowCursor'
  <2>1. \A j \in Inputs : \A n \in 1 .. Len(queue[j]) : queue[j][n].last \in Nat
    BY BatchType DEF Batches
  <2> QED BY <1>1, <1>2, <2>1 DEF CyclesFollowCursor, DeliveryTypeOK
<1>6. BatchesHeld'
  BY <1>1, BatchesHeldUnchanged
<1>7. PassedIsTakenOrQueued'
  BY <1>1 DEF PassedIsTakenOrQueued, InQueue
<1> QED BY <1>3, <1>4, <1>5, <1>6, <1>7

-----------------------------------------------------------------------------
(* The outputs.                                                            *)

\* What an output takes is added to what it has.
LEMMA TakeProperties ==
    ASSUME DeliveryInv, NEW i \in Inputs, NEW o \in Outputs, Take(i, o) \/ Fail(i, o)
    PROVE  /\ \E records \in SUBSET (1 .. produced[i]) :
                 accepted' = [accepted EXCEPT ![o][i] = @ \cup records]
           /\ accepted' \in [Outputs -> [Inputs -> SUBSET (1 .. MaxRecords)]]
           /\ \A p \in Outputs, j \in Inputs : accepted[p][j] \subseteq accepted'[p][j]
           /\ result' \in [Inputs -> [Outputs -> {"open", "ok", "failed"}]]
           /\ result'[i][o] = "ok" => Records(Head(queue[i])) \subseteq accepted'[o][i]
           /\ \A p \in Outputs, j \in Inputs :
                 j # i \/ p # o => result'[j][p] = result[j][p]
<1> USE DEF DeliveryInv, DeliveryTypeOK
<1>1. queue[i] # <<>> /\ queue[i] \in Seq(Batches)
  BY DEF Take, Fail
<1>2. Head(queue[i]) \in Batches /\ Head(queue[i]).last <= produced[i]
  BY <1>1, HeadProperties DEF CyclesFollowCursor
<1>3. PICK records \in SUBSET (1 .. produced[i]) :
         /\ accepted' = [accepted EXCEPT ![o][i] = @ \cup records]
         /\ result'[i][o] = "ok" => records = Records(Head(queue[i]))
  <2>1. CASE Take(i, o)
    <3>1. Records(Head(queue[i])) \in SUBSET (1 .. produced[i])
      BY <1>2 DEF Records, Batches
    <3> QED BY <2>1, <3>1 DEF Take
  <2>2. CASE Fail(i, o)
    <3>1. PICK n \in 0 .. Head(queue[i]).last :
             accepted' = [accepted EXCEPT ![o][i] = @ \cup (Head(queue[i]).first .. n)]
      BY <2>2 DEF Fail
    <3>2. Head(queue[i]).first .. n \in SUBSET (1 .. produced[i])
      BY <1>2, <3>1 DEF Batches
    <3>3. result'[i][o] = "failed"
      BY <2>2 DEF Fail
    <3> QED BY <3>1, <3>2, <3>3
  <2> QED BY <2>1, <2>2
<1>4. /\ accepted' \in [Outputs -> [Inputs -> SUBSET (1 .. MaxRecords)]]
      /\ \A p \in Outputs, j \in Inputs : accepted[p][j] \subseteq accepted'[p][j]
      /\ accepted'[o][i] = accepted[o][i] \cup records
  <2>1. records \in SUBSET (1 .. MaxRecords)
    OBVIOUS
  <2> QED BY <1>3, <2>1
<1>5. /\ result' \in [Inputs -> [Outputs -> {"open", "ok", "failed"}]]
      /\ \A p \in Outputs, j \in Inputs : j # i \/ p # o => result'[j][p] = result[j][p]
  <2>1. PICK r \in {"ok", "failed"} : result' = [result EXCEPT ![i][o] = r]
    BY DEF Take, Fail
  <2> QED BY <2>1
<1> QED BY <1>3, <1>4, <1>5

LEMMA TakeIInv ==
    ASSUME DeliveryInv, NEW i \in Inputs, NEW o \in Outputs, Take(i, o) \/ Fail(i, o)
    PROVE  DeliveryInv'
<1> USE DEF DeliveryInv
<1>1. /\ UNCHANGED <<states, hold, saveFailure, disk, snapshot, saver>>
      /\ TypeOK'
      /\ UNCHANGED <<produced, cycle, from, to, queue, handed>>
      /\ queue[i] # <<>>
  BY DEF Take, Fail, store, vars, memory, writer, outputs, file, DeliveryTypeOK, TypeOK
<1>2. /\ accepted' \in [Outputs -> [Inputs -> SUBSET (1 .. MaxRecords)]]
      /\ \A p \in Outputs, j \in Inputs : accepted[p][j] \subseteq accepted'[p][j]
      /\ result' \in [Inputs -> [Outputs -> {"open", "ok", "failed"}]]
      /\ result'[i][o] = "ok" => Records(Head(queue[i])) \subseteq accepted'[o][i]
      /\ \A p \in Outputs, j \in Inputs : j # i \/ p # o => result'[j][p] = result[j][p]
  BY TakeProperties
<1>3. DeliveryTypeOK'
  BY <1>1, <1>2 DEF DeliveryTypeOK
<1>4. CodexCursorCovered' /\ CursorsAdvance'
  BY <1>1, <1>2 DEF CodexCursorCovered, CursorsAdvance
<1>5. CyclesFollowCursor' /\ HandedTracked'
  BY <1>1 DEF CyclesFollowCursor, HandedTracked
<1>6. BatchesHeld'
  BY <1>1, BatchesHeldUnchanged
<1>7. PassedIsTakenOrQueued'
  <2>1. \A j \in Inputs, p \in Outputs :
           /\ queue[j] = <<>> => result'[j][p] = "open"
           /\ queue[j] # <<>> /\ result'[j][p] = "ok" =>
                 Records(Head(queue[j])) \subseteq accepted'[p][j]
    BY <1>1, <1>2 DEF PassedIsTakenOrQueued
  <2>2. \A j \in Codex, p \in DurableOutputs : accepted[p][j] \subseteq accepted'[p][j]
    BY <1>2
  <2> QED BY <1>1, <2>1, <2>2 DEF PassedIsTakenOrQueued, InQueue
<1> QED BY <1>3, <1>4, <1>5, <1>6, <1>7

-----------------------------------------------------------------------------
(* Hand-outs and cursors.                                                  *)

\* A batch that is chained: the earlier ones keep their places.
LEMMA EnqueueProperties ==
    ASSUME DeliveryTypeOK, NEW i \in Inputs, NEW b \in Batches, Enqueue(i, b)
    PROVE  /\ queue' \in [Inputs -> Seq(Batches)]
           /\ \A j \in Inputs : j # i => queue'[j] = queue[j] /\ handed'[j] = handed[j]
           /\ handed' \in [Inputs -> 0 .. MaxRecords] /\ handed'[i] = to[i]
           /\ queue'[i] # <<>> /\ Len(queue'[i]) = Len(queue[i]) + 1 /\ Len(queue[i]) \in Nat
           /\ \A n \in 1 .. Len(queue[i]) : queue'[i][n] = queue[i][n]
           /\ queue'[i][Len(queue[i]) + 1] = b
           /\ Head(queue'[i]) = IF queue[i] = <<>> THEN b ELSE Head(queue[i])
<1> DEFINE B == Batches
<1>1. queue \in [Inputs -> Seq(B)] /\ b \in B
  BY DEF DeliveryTypeOK
<1> HIDE DEF B
<1>2. /\ queue' = [queue EXCEPT ![i] = Append(@, b)]
      /\ handed' = [handed EXCEPT ![i] = to[i]]
  BY DEF Enqueue
<1>3. queue[i] \in Seq(B) /\ queue'[i] = Append(queue[i], b)
  BY <1>1, <1>2
<1>4. queue'[i] \in Seq(B)
  BY <1>1, <1>3
<1>5. /\ queue'[i] # <<>> /\ Len(queue'[i]) = Len(queue[i]) + 1 /\ Len(queue[i]) \in Nat
      /\ \A n \in 1 .. Len(queue[i]) : queue'[i][n] = queue[i][n]
      /\ queue'[i][Len(queue[i]) + 1] = b
  <2> DEFINE q == queue[i]
             grown == Append(q, b)
  <2>1. q \in Seq(B) /\ b \in B /\ queue'[i] = grown
    BY <1>1, <1>3
  <2> HIDE DEF q
  <2>2. Len(q) \in Nat /\ Len(grown) = Len(q) + 1 /\ grown \in Seq(B)
    BY <2>1
  <2>3. \A n \in 1 .. Len(q) : grown[n] = q[n]
    BY <2>1, <2>2
  <2>4. grown[Len(q) + 1] = b
    BY <2>1, <2>2
  <2>5. grown # <<>>
    BY <2>1, <2>2
  <2> QED BY <2>1, <2>2, <2>3, <2>4, <2>5 DEF q
<1>6. Head(queue'[i]) = IF queue[i] = <<>> THEN b ELSE Head(queue[i])
  BY <1>1, <1>3, <1>5
<1>7. queue' \in [Inputs -> Seq(B)] /\ \A j \in Inputs : j # i => queue'[j] = queue[j]
  BY <1>1, <1>2, <1>4
<1>8. /\ \A j \in Inputs : j # i => handed'[j] = handed[j]
      /\ handed' \in [Inputs -> 0 .. MaxRecords] /\ handed'[i] = to[i]
  BY <1>2 DEF DeliveryTypeOK
<1> QED BY <1>5, <1>6, <1>7, <1>8 DEF B

\* The batch of a cycle, with a hold that is free until then or with none.
LEMMA EmitEnqueuesIInv ==
    ASSUME DeliveryInv, TypeOK', NEW i \in Inputs, NEW h \in Holds \cup {NoHold},
           cycle[i] = "emit",
           cycle' = [cycle EXCEPT ![i] = IF i \in Codex THEN "advance" ELSE "save"],
           ~saveFailure, h = NoHold <=> i \notin Codex,
           Enqueue(i, Batch(i, h)),
           i \in Codex => hold[h] = "free" /\ hold' = [hold EXCEPT ![h] = "pending"],
           i \notin Codex => hold' = hold,
           UNCHANGED <<states, saveFailure, disk, snapshot, saver>>,
           UNCHANGED <<produced, from, to, result, accepted>>
    PROVE  DeliveryInv'
<1> USE DEF DeliveryInv
<1> DEFINE b == Batch(i, h)
           new == Len(queue[i]) + 1
<1>1. /\ from[i] \in Nat /\ to[i] \in Nat /\ from[i] < to[i] /\ to[i] <= produced[i]
      /\ to[i] <= MaxRecords
      /\ IF i \in Codex THEN OffsetIn(states, i) = from[i] ELSE OffsetIn(states, i) = to[i]
  BY DEF DeliveryTypeOK, CyclesFollowCursor
<1>2. /\ b \in Batches /\ b.last = to[i] /\ b.hold = h
      /\ Records(b) = (from[i] + 1) .. to[i]
  BY <1>1 DEF Batch, Batches, Records
<1> HIDE DEF b
<1>3. /\ queue' \in [Inputs -> Seq(Batches)]
      /\ \A j \in Inputs : j # i => queue'[j] = queue[j] /\ handed'[j] = handed[j]
      /\ handed' \in [Inputs -> 0 .. MaxRecords] /\ handed'[i] = to[i]
      /\ queue'[i] # <<>> /\ Len(queue'[i]) = new /\ new - 1 \in Nat
      /\ \A n \in 1 .. new - 1 : queue'[i][n] = queue[i][n]
      /\ queue'[i][new] = b
      /\ Head(queue'[i]) = IF queue[i] = <<>> THEN b ELSE Head(queue[i])
  BY <1>2, EnqueueProperties DEF b
<1> HIDE DEF new
<1>4. Len(queue[i]) = new - 1 /\ new \in 1 .. new /\ \A n \in 1 .. new : n = new \/ n \in 1 .. new - 1
  BY <1>3 DEF new
<1>5. DeliveryTypeOK'
  <2>1. cycle' \in [Inputs -> {"idle", "collect", "advance", "emit", "save", "wait"}]
    BY DEF DeliveryTypeOK
  <2> QED BY <1>3, <2>1 DEF DeliveryTypeOK
<1>6. CodexCursorCovered' /\ CursorsAdvance'
  BY DEF CodexCursorCovered, CursorsAdvance
<1>7. CyclesFollowCursor'
  <2>1. \A n \in 1 .. Len(queue'[i]) : queue'[i][n].last <= produced[i]
    BY <1>1, <1>2, <1>3, <1>4 DEF CyclesFollowCursor
  <2>2. cycle'[i] = IF i \in Codex THEN "advance" ELSE "save"
    BY DEF DeliveryTypeOK
  <2>3. \A j \in Inputs : j # i => cycle'[j] = cycle[j] /\ queue'[j] = queue[j]
    BY <1>3 DEF DeliveryTypeOK
  <2> QED BY <1>1, <2>1, <2>2, <2>3 DEF CyclesFollowCursor
<1>8. HandedTracked'
  <2>1. cycle'[i] = IF i \in Codex THEN "advance" ELSE "save"
    BY DEF DeliveryTypeOK
  <2>2. \A j \in Inputs : j # i => cycle'[j] = cycle[j]
    BY DEF DeliveryTypeOK
  <2> QED BY <1>1, <1>3, <2>1, <2>2 DEF HandedTracked
<1>9. BatchesHeld'
  <2>1. ASSUME NEW j \in Inputs, NEW n \in 1 .. Len(queue'[j])
        PROVE  IF j \in Codex THEN /\ queue'[j][n].hold \in Holds
                                   /\ hold'[queue'[j][n].hold] = "pending"
                              ELSE queue'[j][n].hold = NoHold
    <3>1. CASE j = i /\ n = new
      BY <1>2, <1>3, <3>1 DEF DeliveryTypeOK, TypeOK
    <3>2. CASE j # i \/ n # new
      <4>1. queue'[j][n] = queue[j][n] /\ n \in 1 .. Len(queue[j])
        BY <1>3, <1>4, <2>1, <3>2
      <4>2. CASE j \notin Codex
        BY <4>1, <4>2 DEF BatchesHeld
      <4>3. CASE j \in Codex
        <5>1. queue[j][n].hold \in Holds /\ hold[queue[j][n].hold] = "pending"
          BY <4>1, <4>3 DEF BatchesHeld
        <5>2. hold'[queue[j][n].hold] = "pending"
          BY <5>1 DEF DeliveryTypeOK, TypeOK
        <5> QED BY <4>1, <4>3, <5>1, <5>2
      <4> QED BY <4>2, <4>3
    <3> QED BY <3>1, <3>2
  <2>2. ASSUME NEW j \in Codex, NEW n \in 1 .. Len(queue'[j]), j # i \/ n # new, i \in Codex
        PROVE  queue'[j][n].hold # h
    <3>1. queue'[j][n] = queue[j][n] /\ n \in 1 .. Len(queue[j])
      BY <1>3, <1>4, <2>2
    <3> QED BY <2>2, <3>1 DEF BatchesHeld
  <2>3. ASSUME NEW j \in Codex, NEW k \in Codex, NEW m \in 1 .. Len(queue'[j]),
               NEW n \in 1 .. Len(queue'[k]), queue'[j][m].hold = queue'[k][n].hold
        PROVE  j = k /\ m = n
    <3>1. CASE (j = i /\ m = new) \/ (k = i /\ n = new)
      BY <1>2, <1>3, <2>2, <2>3, <3>1
    <3>2. CASE (j # i \/ m # new) /\ (k # i \/ n # new)
      <4>1. /\ queue'[j][m] = queue[j][m] /\ m \in 1 .. Len(queue[j])
            /\ queue'[k][n] = queue[k][n] /\ n \in 1 .. Len(queue[k])
        BY <1>3, <1>4, <2>3, <3>2
      <4> QED BY <2>3, <4>1 DEF BatchesHeld
    <3> QED BY <3>1, <3>2
  <2> QED BY <2>1, <2>3 DEF BatchesHeld
<1>10. PassedIsTakenOrQueued'
  <2>1. \A j \in Inputs, o \in Outputs :
           /\ queue'[j] = <<>> => result[j][o] = "open"
           /\ queue'[j] # <<>> /\ result[j][o] = "ok" =>
                 Records(Head(queue'[j])) \subseteq accepted[o][j]
    BY <1>3 DEF PassedIsTakenOrQueued
  <2>2. \A j \in Inputs : \A r : InQueue(j, r) => InQueue(j, r)'
    <3>1. \A r : InQueue(i, r) => InQueue(i, r)'
      BY <1>3, <1>4 DEF InQueue
    <3>2. \A j \in Inputs : \A r : j # i => (InQueue(j, r) <=> InQueue(j, r)')
      BY <1>3 DEF InQueue
    <3> QED BY <3>1, <3>2
  <2>3. \A r \in Records(b) : InQueue(i, r)'
    BY <1>3, <1>4 DEF InQueue
  <2>4. ASSUME NEW j \in Codex, NEW o \in DurableOutputs, cycle'[j] = "advance",
               NEW r \in 1 .. to[j]
        PROVE  r \in accepted[o][j] \/ InQueue(j, r)'
    <3>1. CASE j # i
      <4>1. cycle[j] = "advance"
        BY <2>4, <3>1 DEF DeliveryTypeOK
      <4> QED BY <2>2, <4>1 DEF PassedIsTakenOrQueued
    <3>2. CASE j = i
      <4>1. r \in 1 .. from[i] \/ r \in Records(b)
        BY <1>1, <1>2, <3>2
      <4>2. r \in 1 .. from[i] => r \in accepted[o][i] \/ InQueue(i, r)
        BY <1>1, <3>2 DEF PassedIsTakenOrQueued
      <4> QED BY <2>2, <2>3, <3>2, <4>1, <4>2
    <3> QED BY <3>1, <3>2
  <2>5. \A j \in Codex, o \in DurableOutputs :
           /\ saver = "writing" => 1 .. OffsetIn(snapshot, j) \subseteq accepted[o][j]
           /\ \A r \in 1 .. OffsetIn(states, j) : r \in accepted[o][j] \/ InQueue(j, r)'
    BY <2>2 DEF PassedIsTakenOrQueued
  <2> QED BY <2>1, <2>4, <2>5 DEF PassedIsTakenOrQueued
<1> QED BY <1>5, <1>6, <1>7, <1>8, <1>9, <1>10

LEMMA EmitIInv ==
    ASSUME DeliveryInv, TypeOK', NEW i \in Inputs, Emit(i)
    PROVE  DeliveryInv'
<1> USE DEF DeliveryInv
<1>1. /\ cycle[i] = "emit"
      /\ cycle' = [cycle EXCEPT ![i] = IF i \in Codex THEN "advance" ELSE "save"]
      /\ UNCHANGED <<produced, from, to, result, accepted>>
      /\ UNCHANGED <<states, saveFailure, disk, snapshot, saver>>
  BY DEF Emit, HoldSaveUntil, store, vars, memory, writer, outputs, file
<1>2. CASE saveFailure
  <2>1. UNCHANGED <<queue, handed, hold>>
    BY <1>2 DEF Emit, store, vars, outputs
  <2>2. /\ cycle' \in [Inputs -> {"idle", "collect", "advance", "emit", "save", "wait"}]
        /\ cycle'[i] = IF i \in Codex THEN "advance" ELSE "save"
        /\ \A j \in Inputs : j # i => cycle'[j] = cycle[j]
    BY <1>1 DEF DeliveryTypeOK
  <2>3. DeliveryTypeOK'
    BY <1>1, <2>1, <2>2 DEF DeliveryTypeOK
  <2>4. CodexCursorCovered' /\ CursorsAdvance'
    BY <1>1 DEF CodexCursorCovered, CursorsAdvance
  <2>5. CyclesFollowCursor' /\ HandedTracked'
    BY <1>1, <1>2, <2>1, <2>2 DEF CyclesFollowCursor, HandedTracked
  <2>6. BatchesHeld'
    BY <2>1, BatchesHeldUnchanged
  <2>7. PassedIsTakenOrQueued'
    BY <1>1, <1>2, <2>1 DEF PassedIsTakenOrQueued
  <2> QED BY <2>3, <2>4, <2>5, <2>6, <2>7
<1>3. CASE ~saveFailure /\ i \in Codex
  <2>1. PICK h \in Holds : HoldSaveUntil(h) /\ Enqueue(i, Batch(i, h))
    BY <1>3 DEF Emit
  <2>2. hold[h] = "free" /\ hold' = [hold EXCEPT ![h] = "pending"] /\ h # NoHold
    BY <2>1 DEF HoldSaveUntil
  <2> QED BY <1>1, <1>3, <2>1, <2>2, EmitEnqueuesIInv
<1>4. CASE ~saveFailure /\ i \notin Codex
  <2>1. Enqueue(i, Batch(i, NoHold)) /\ hold' = hold
    BY <1>4 DEF Emit, store, vars, outputs
  <2> QED BY <1>1, <1>4, <2>1, EmitEnqueuesIInv
<1> QED BY <1>2, <1>3, <1>4

LEMMA AdvanceIInv ==
    ASSUME DeliveryInv, TypeOK', NEW i \in Inputs, Advance(i)
    PROVE  DeliveryInv'
<1> USE DEF DeliveryInv
<1>1. /\ cycle[i] = "advance"
      /\ cycle' = [cycle EXCEPT ![i] = IF i \in Codex THEN "save" ELSE "emit"]
      /\ UNCHANGED <<produced, from, to, queue, result, accepted, handed>>
      /\ UNCHANGED <<hold, saveFailure, disk, snapshot, saver>>
      /\ states' = [states EXCEPT ![i] =
            [offset |-> to[i], extra |-> MergeExtra(Get(i).extra, NoExtra)]]
  BY DEF Advance, Update, Put, writer, outputs, file
<1>2. OffsetIn(states', i) = to[i] /\ \A j \in Inputs : j # i => OffsetIn(states', j) = OffsetIn(states, j)
  <2> DEFINE extra == MergeExtra(Get(i).extra, NoExtra)
             next == [offset |-> to[i], extra |-> extra]
  <2>1. to[i] \in Offsets /\ NoExtra \in Extras
    BY DEF DeliveryTypeOK, NoExtra, Extras
  <2>2. extra \in Extras
    BY <2>1, MergeType, GetType DEF DeliveryTypeOK
  <2> HIDE DEF extra
  <2>3. next \in InputStates
    BY <2>1, <2>2 DEF InputStates
  <2>4. next # Absent /\ next.offset = to[i]
    BY <2>3
  <2>5. states'[i] = next /\ \A j \in Inputs : j # i => states'[j] = states[j]
    BY <1>1 DEF DeliveryTypeOK, TypeOK, StoredStates, extra
  <2> HIDE DEF next
  <2> QED BY <2>4, <2>5 DEF OffsetIn
<1>3. /\ cycle' \in [Inputs -> {"idle", "collect", "advance", "emit", "save", "wait"}]
      /\ cycle'[i] = IF i \in Codex THEN "save" ELSE "emit"
      /\ \A j \in Inputs : j # i => cycle'[j] = cycle[j]
  BY <1>1 DEF DeliveryTypeOK
<1>4. /\ from[i] \in Nat /\ to[i] \in 0 .. MaxRecords /\ from[i] < to[i] /\ to[i] <= produced[i]
      /\ OffsetIn(states, i) = from[i]
  BY <1>1 DEF DeliveryTypeOK, CyclesFollowCursor
<1>5. DeliveryTypeOK'
  BY <1>1, <1>3 DEF DeliveryTypeOK
<1>6. CodexCursorCovered'
  BY <1>1 DEF CodexCursorCovered
<1>7. CursorsAdvance'
  <2>1. ASSUME NEW j \in Inputs
        PROVE  /\ OffsetIn(states, j) <= OffsetIn(states', j)
               /\ OffsetIn(states', j) \in 0 .. MaxRecords
    BY <1>2, <1>4 DEF CursorsAdvance
  <2>2. \A j \in Inputs : {OffsetIn(disk, j), OffsetIn(snapshot, j), OffsetIn(states, j)}
                             \subseteq 0 .. MaxRecords
    BY DEF CursorsAdvance
  <2>3. ASSUME NEW j \in Inputs
        PROVE  /\ {OffsetIn(disk', j), OffsetIn(snapshot', j), OffsetIn(states', j)}
                     \subseteq 0 .. MaxRecords
               /\ OffsetIn(disk', j) <= OffsetIn(states', j)
               /\ saver' = "writing" => /\ OffsetIn(disk', j) <= OffsetIn(snapshot', j)
                                        /\ OffsetIn(snapshot', j) <= OffsetIn(states', j)
    <3> DEFINE d == OffsetIn(disk, j)
               n == OffsetIn(snapshot, j)
               m == OffsetIn(states, j)
               k == OffsetIn(states', j)
    <3>1. OffsetIn(disk', j) = d /\ OffsetIn(snapshot', j) = n /\ saver' = saver
      BY <1>1
    <3>2. d \in 0 .. MaxRecords /\ n \in 0 .. MaxRecords /\ m \in 0 .. MaxRecords
          /\ d <= m /\ (saver = "writing" => d <= n /\ n <= m)
      BY <2>2 DEF CursorsAdvance
    <3>3. m <= k /\ k \in 0 .. MaxRecords
      BY <2>1
    <3> HIDE DEF d, n, m, k
    <3>4. {d, n, k} \subseteq 0 .. MaxRecords /\ d <= k /\ (saver = "writing" => d <= n /\ n <= k)
      BY <3>2, <3>3
    <3> QED BY <3>1, <3>4 DEF d, n, k
  <2> QED BY <2>3 DEF CursorsAdvance
<1>8. CyclesFollowCursor'
  BY <1>1, <1>2, <1>3, <1>4 DEF CyclesFollowCursor
<1>9. HandedTracked'
  <2>1. handed[i] \in Nat
    BY DEF DeliveryTypeOK
  <2>2. IF i \in Codex
          THEN saveFailure \/ OffsetIn(states', i) <= handed[i]
          ELSE handed[i] <= OffsetIn(states', i) /\ handed[i] <= from[i]
    BY <1>1, <1>2, <1>4, <2>1 DEF HandedTracked
  <2>3. \A j \in Inputs : j # i => OffsetIn(states', j) = OffsetIn(states, j) /\ cycle'[j] = cycle[j]
    BY <1>2, <1>3
  <2> QED BY <1>1, <1>3, <2>2, <2>3 DEF HandedTracked
<1>10. BatchesHeld'
  BY <1>1, BatchesHeldUnchanged
<1>11. PassedIsTakenOrQueued'
  <2>1. ASSUME NEW j \in Codex, NEW o \in DurableOutputs, ~saveFailure
        PROVE  /\ \A r \in 1 .. OffsetIn(states', j) : r \in accepted[o][j] \/ InQueue(j, r)
               /\ cycle'[j] = "advance" =>
                     \A r \in 1 .. to[j] : r \in accepted[o][j] \/ InQueue(j, r)
    <3>1. CASE j = i
      BY <1>1, <1>2, <1>3, <2>1, <3>1 DEF PassedIsTakenOrQueued
    <3>2. CASE j # i
      BY <1>2, <1>3, <2>1, <3>2 DEF PassedIsTakenOrQueued
    <3> QED BY <3>1, <3>2
  <2>2. \A j \in Inputs : \A r : InQueue(j, r)' <=> InQueue(j, r)
    BY <1>1 DEF InQueue
  <2> HIDE DEF DeliveryInv
  <2>3. PassedIsTakenOrQueued
    BY DEF DeliveryInv
  <2> QED BY <1>1, <2>1, <2>2, <2>3 DEF PassedIsTakenOrQueued
<1> QED BY <1>5, <1>6, <1>7, <1>8, <1>9, <1>10, <1>11

-----------------------------------------------------------------------------
(* The end of a batch, and of a process.                                   *)

\* What Finish leaves: the rest of the queue, and every other hold; a batch
\* that ends without a durability error is taken by every durable output.
LEMMA FinishProperties ==
    ASSUME DeliveryInv, NEW i \in Inputs, Finish(i)
    PROVE  /\ UNCHANGED <<states, disk, snapshot, saver>>
           /\ UNCHANGED <<produced, cycle, from, to, accepted, handed>>
           /\ result' \in [Inputs -> [Outputs -> {"open", "ok", "failed"}]]
           /\ \A o \in Outputs : result'[i][o] = "open"
           /\ queue[i] # <<>> /\ queue' \in [Inputs -> Seq(Batches)]
           /\ queue'[i] = Tail(queue[i])
           /\ \A j \in Inputs : j # i => queue'[j] = queue[j] /\ result'[j] = result[j]
           /\ saveFailure \in BOOLEAN /\ saveFailure' \in BOOLEAN
           /\ saveFailure => saveFailure'
           /\ \A g \in Holds : (i \in Codex /\ g = Head(queue[i]).hold) \/ hold'[g] = hold[g]
           /\ i \in Codex /\ ~saveFailure' =>
                 \A o \in DurableOutputs : Records(Head(queue[i])) \subseteq accepted[o][i]
<1> USE DEF DeliveryInv
<1>1. queue[i] # <<>> /\ queue[i] \in Seq(Batches)
  BY DEF Finish, DeliveryTypeOK
<1>2. Head(queue[i]) = queue[i][1] /\ 1 \in 1 .. Len(queue[i]) /\ Tail(queue[i]) \in Seq(Batches)
  BY <1>1, HeadProperties
<1>3. /\ queue' \in [Inputs -> Seq(Batches)] /\ queue'[i] = Tail(queue[i])
      /\ \A j \in Inputs : j # i => queue'[j] = queue[j]
  <2> DEFINE S == Seq(Batches)
  <2>1. queue \in [Inputs -> S] /\ Tail(queue[i]) \in S
    BY <1>2 DEF DeliveryTypeOK
  <2> HIDE DEF S
  <2>2. queue' = [queue EXCEPT ![i] = Tail(queue[i])]
    BY DEF Finish
  <2>3. queue' \in [Inputs -> S]
    BY <2>1, <2>2
  <2> QED BY <2>1, <2>2, <2>3 DEF S
<1>4. /\ result' \in [Inputs -> [Outputs -> {"open", "ok", "failed"}]]
      /\ \A o \in Outputs : result'[i][o] = "open"
      /\ \A j \in Inputs : j # i => result'[j] = result[j]
  BY DEF Finish, AllOpen, DeliveryTypeOK
<1>5. /\ UNCHANGED <<states, disk, snapshot, saver>>
      /\ UNCHANGED <<produced, cycle, from, to, accepted, handed>>
  BY DEF Finish, Accept, Reject, store, vars, memory, writer, file
<1>6. IF i \in Codex THEN Head(queue[i]).hold \in Holds ELSE Head(queue[i]).hold = NoHold
  BY <1>2 DEF BatchesHeld
<1>7. saveFailure \in BOOLEAN /\ hold \in [Holds -> {"free", "pending", "rejected"}]
  BY DEF DeliveryTypeOK, TypeOK
<1>8. /\ saveFailure' \in BOOLEAN /\ (saveFailure => saveFailure')
      /\ \A g \in Holds : (i \in Codex /\ g = Head(queue[i]).hold) \/ hold'[g] = hold[g]
  BY <1>6, <1>7 DEF Finish, Accept, Reject, store, vars, outputs
<1>9. ASSUME i \in Codex, ~saveFailure', NEW o \in DurableOutputs
      PROVE  Records(Head(queue[i])) \subseteq accepted[o][i]
  <2>1. Head(queue[i]).hold # NoHold
    BY <1>6, <1>9
  <2>2. ~DurableFailure(i)
    BY <1>9, <2>1 DEF Finish, Reject
  <2>3. result[i][o] = "ok"
    BY <2>2 DEF Finish, DurableFailure, DeliveryTypeOK
  <2> QED BY <1>1, <2>3 DEF PassedIsTakenOrQueued
<1> QED BY <1>1, <1>3, <1>4, <1>5, <1>7, <1>8, <1>9

LEMMA FinishIInv ==
    ASSUME DeliveryInv, TypeOK', NEW i \in Inputs, Finish(i)
    PROVE  DeliveryInv'
<1> USE DEF DeliveryInv
<1>1. /\ UNCHANGED <<states, disk, snapshot, saver>>
      /\ UNCHANGED <<produced, cycle, from, to, accepted, handed>>
      /\ result' \in [Inputs -> [Outputs -> {"open", "ok", "failed"}]]
      /\ \A o \in Outputs : result'[i][o] = "open"
      /\ queue[i] # <<>> /\ queue' \in [Inputs -> Seq(Batches)]
      /\ queue'[i] = Tail(queue[i])
      /\ \A j \in Inputs : j # i => queue'[j] = queue[j] /\ result'[j] = result[j]
      /\ saveFailure => saveFailure'
      /\ \A g \in Holds : (i \in Codex /\ g = Head(queue[i]).hold) \/ hold'[g] = hold[g]
      /\ i \in Codex /\ ~saveFailure' =>
            \A o \in DurableOutputs : Records(Head(queue[i])) \subseteq accepted[o][i]
  BY FinishProperties
<1>2. /\ Head(queue[i]) = queue[i][1] /\ 1 \in 1 .. Len(queue[i])
      /\ Len(queue'[i]) = Len(queue[i]) - 1 /\ Len(queue[i]) \in Nat
      /\ \A n \in 1 .. Len(queue'[i]) :
            queue'[i][n] = queue[i][n + 1] /\ n + 1 \in 1 .. Len(queue[i])
  <2>1. queue[i] \in Seq(Batches)
    BY DEF DeliveryTypeOK
  <2> QED BY <1>1, <2>1, HeadProperties
\* Where a batch that is left was before.
<1>3. \A j \in Inputs : \A n \in 1 .. Len(queue'[j]) :
         \E m \in 1 .. Len(queue[j]) :
            /\ queue'[j][n] = queue[j][m]
            /\ m = IF j = i THEN n + 1 ELSE n
  BY <1>1, <1>2
<1>4. DeliveryTypeOK'
  BY <1>1 DEF DeliveryTypeOK
<1>5. CodexCursorCovered' /\ CursorsAdvance' /\ HandedTracked'
  BY <1>1 DEF CodexCursorCovered, CursorsAdvance, HandedTracked
<1>6. CyclesFollowCursor'
  BY <1>1, <1>3 DEF CyclesFollowCursor
<1>7. BatchesHeld'
  <2>1. ASSUME NEW j \in Inputs, NEW n \in 1 .. Len(queue'[j])
        PROVE  IF j \in Codex THEN /\ queue'[j][n].hold \in Holds
                                   /\ hold'[queue'[j][n].hold] = "pending"
                              ELSE queue'[j][n].hold = NoHold
    <3>1. PICK m \in 1 .. Len(queue[j]) :
             queue'[j][n] = queue[j][m] /\ m = IF j = i THEN n + 1 ELSE n
      BY <1>3
    <3>2. CASE j \notin Codex
      BY <3>1, <3>2 DEF BatchesHeld
    <3>3. CASE j \in Codex
      <4>1. queue[j][m].hold \in Holds /\ hold[queue[j][m].hold] = "pending"
        BY <3>3 DEF BatchesHeld
      <4>2. ~(j = i /\ m = 1)
        BY <3>1
      <4>3. i \in Codex => queue[j][m].hold # queue[i][1].hold
        BY <1>2, <3>3, <4>2 DEF BatchesHeld
      <4>4. hold'[queue[j][m].hold] = "pending"
        BY <1>1, <1>2, <4>1, <4>3
      <4> QED BY <3>1, <3>3, <4>1, <4>4
    <3> QED BY <3>2, <3>3
  <2>2. ASSUME NEW j \in Codex, NEW k \in Codex, NEW m \in 1 .. Len(queue'[j]),
               NEW n \in 1 .. Len(queue'[k]), queue'[j][m].hold = queue'[k][n].hold
        PROVE  j = k /\ m = n
    <3>1. PICK m0 \in 1 .. Len(queue[j]) :
             queue'[j][m] = queue[j][m0] /\ m0 = IF j = i THEN m + 1 ELSE m
      BY <1>3
    <3>2. PICK n0 \in 1 .. Len(queue[k]) :
             queue'[k][n] = queue[k][n0] /\ n0 = IF k = i THEN n + 1 ELSE n
      BY <1>3
    <3>3. j = k /\ m0 = n0
      BY <2>2, <3>1, <3>2 DEF BatchesHeld
    <3> QED BY <3>1, <3>2, <3>3
  <2> QED BY <2>1, <2>2 DEF BatchesHeld
<1>8. PassedIsTakenOrQueued'
  <2>1. \A j \in Inputs, o \in Outputs :
           /\ queue'[j] = <<>> => result'[j][o] = "open"
           /\ queue'[j] # <<>> /\ result'[j][o] = "ok" =>
                 Records(Head(queue'[j])) \subseteq accepted[o][j]
    BY <1>1 DEF PassedIsTakenOrQueued
  <2>2. ASSUME NEW j \in Codex, NEW o \in DurableOutputs, ~saveFailure', NEW r, InQueue(j, r)
        PROVE  r \in accepted[o][j] \/ InQueue(j, r)'
    <3>1. CASE j # i
      BY <1>1, <2>2, <3>1 DEF InQueue
    <3>2. CASE j = i
      <4>1. PICK n \in 1 .. Len(queue[i]) : r \in Records(queue[i][n])
        BY <2>2, <3>2 DEF InQueue
      <4>2. CASE n = 1
        BY <1>1, <1>2, <2>2, <3>2, <4>1, <4>2
      <4>3. CASE n # 1
        <5>1. n - 1 \in 1 .. Len(queue'[i]) /\ (n - 1) + 1 = n
          BY <1>2, <4>3
        <5>2. queue'[i][n - 1] = queue[i][n]
          BY <1>2, <5>1
        <5> QED BY <3>2, <4>1, <5>1, <5>2 DEF InQueue
      <4> QED BY <4>2, <4>3
    <3> QED BY <3>1, <3>2
  <2>3. \A j \in Codex, o \in DurableOutputs :
           /\ saver = "writing" => 1 .. OffsetIn(snapshot, j) \subseteq accepted[o][j]
           /\ ~saveFailure => \A r \in 1 .. OffsetIn(states, j) :
                                 r \in accepted[o][j] \/ InQueue(j, r)
           /\ ~saveFailure /\ cycle[j] = "advance" =>
                 \A r \in 1 .. to[j] : r \in accepted[o][j] \/ InQueue(j, r)
    BY DEF PassedIsTakenOrQueued
  <2>4. ASSUME NEW j \in Codex, NEW o \in DurableOutputs, ~saveFailure'
        PROVE  /\ \A r \in 1 .. OffsetIn(states, j) : r \in accepted[o][j] \/ InQueue(j, r)'
               /\ cycle[j] = "advance" =>
                     \A r \in 1 .. to[j] : r \in accepted[o][j] \/ InQueue(j, r)'
    BY <1>1, <2>2, <2>3, <2>4
  <2> QED BY <1>1, <2>1, <2>3, <2>4 DEF PassedIsTakenOrQueued
<1> QED BY <1>4, <1>5, <1>6, <1>7, <1>8

\* A restart reads the file, and every queue and every hold is gone.
LEMMA RestartIInv == ASSUME DeliveryInv, TypeOK', Restart PROVE DeliveryInv'
<1> USE DEF DeliveryInv
<1>1. /\ disk' = disk /\ states' = disk /\ snapshot' = NoStates /\ saver' = "none"
      /\ produced' = produced /\ accepted' = accepted
  BY DEF Restart, Crash, Fresh
<1>2. \A i \in Inputs : OffsetIn(disk, i) \in 0 .. MaxRecords /\ OffsetIn(disk, i) <= OffsetIn(disk, i)
  BY DEF CursorsAdvance
<1>3. DeliveryTypeOK'
  <2>1. \A i \in Inputs : queue'[i] \in Seq(Batches)
    BY DEF Restart
  <2> QED BY <1>1, <1>2, <2>1 DEF DeliveryTypeOK, Restart, AllOpen
<1>4. CodexCursorCovered' /\ CursorsAdvance'
  BY <1>1, <1>2, NoStatesOffset DEF CodexCursorCovered, CursorsAdvance
<1>5. CyclesFollowCursor' /\ HandedTracked' /\ BatchesHeld'
  BY <1>1, <1>2 DEF CyclesFollowCursor, HandedTracked, BatchesHeld, Restart
<1>6. PassedIsTakenOrQueued'
  BY <1>1 DEF PassedIsTakenOrQueued, CodexCursorCovered, Restart, AllOpen
<1> QED BY <1>3, <1>4, <1>5, <1>6

-----------------------------------------------------------------------------
LEMMA StepDIInv == DIInv /\ [DeliveryNext]_allvars => DIInv'
<1> SUFFICES ASSUME DIInv, [DeliveryNext]_allvars PROVE DIInv'
  OBVIOUS
<1>1. IInv' /\ TypeOK'
  <2>1. [Next]_vars
    BY StoreStep DEF DIInv, DeliveryInv
  <2>2. IInv'
    BY <2>1, StepIInv DEF DIInv
  <2> QED BY <2>2 DEF IInv
<1>2. DeliveryInv
  BY DEF DIInv
<1>3. /\ cycle \in [Inputs -> {"idle", "collect", "advance", "emit", "save", "wait"}]
      /\ from \in [Inputs -> 0 .. MaxRecords] /\ to \in [Inputs -> 0 .. MaxRecords]
      /\ 0 \in 0 .. MaxRecords
  BY <1>2 DEF DeliveryInv, DeliveryTypeOK
<1> SUFFICES DeliveryInv'
  BY <1>1 DEF DIInv
<1>4. CASE UNCHANGED allvars \/ Store
  <2>1. UNCHANGED delivery
    BY <1>4 DEF allvars, Store
  <2>2. WriterStep \/ UNCHANGED <<states, hold, saveFailure, disk, snapshot, saver>>
    BY <1>4, WriterSteps DEF allvars, Store, vars, memory, writer, outputs, file
  <2> QED BY <1>1, <1>2, <1>3, <2>1, <2>2, QuietIInv DEF delivery
<1>5. ASSUME NEW i \in Inputs,
             StartCycle(i) \/ CollectFails(i) \/ EndCycle(i) \/ SaveCycle(i)
      PROVE  DeliveryInv'
  <2>1. UNCHANGED <<produced, queue, result, accepted, handed>>
    BY <1>5 DEF StartCycle, CollectFails, EndCycle, SaveCycle
  <2>2. WriterStep \/ UNCHANGED <<states, hold, saveFailure, disk, snapshot, saver>>
    BY <1>5, WriterSteps
       DEF StartCycle, CollectFails, EndCycle, SaveCycle, store, vars, memory, writer, outputs, file
  <2>3. PICK c \in {"idle", "collect", "wait"} : cycle' = [cycle EXCEPT ![i] = c]
    BY <1>5 DEF StartCycle, CollectFails, EndCycle, SaveCycle
  <2>4. /\ from' \in [Inputs -> 0 .. MaxRecords] /\ to' \in [Inputs -> 0 .. MaxRecords]
        /\ \A j \in Inputs : j # i => from'[j] = from[j] /\ to'[j] = to[j]
    BY <1>3, <1>5 DEF StartCycle, CollectFails, EndCycle, SaveCycle
  <2>5. /\ cycle' \in [Inputs -> {"idle", "collect", "advance", "emit", "save", "wait"}]
        /\ \A j \in Inputs : j # i => cycle'[j] = cycle[j]
        /\ cycle'[i] \in {"idle", "collect", "save", "wait"}
    BY <1>3, <2>3
  <2>6. \A j \in Inputs : \/ cycle'[j] = cycle[j] /\ from'[j] = from[j] /\ to'[j] = to[j]
                          \/ cycle'[j] \in {"idle", "collect", "save", "wait"}
    BY <2>4, <2>5
  <2> QED BY <1>1, <1>2, <2>1, <2>2, <2>4, <2>5, <2>6, QuietIInv
<1>6. CASE \E i \in Inputs :
              \/ Produce(i) \/ StartCycle(i) \/ Collect(i) \/ Emit(i)
              \/ Advance(i) \/ CollectFails(i) \/ SaveCycle(i) \/ EndCycle(i) \/ Finish(i)
              \/ \E o \in Outputs : Take(i, o) \/ Fail(i, o)
  <2> PICK i \in Inputs :
              \/ Produce(i) \/ StartCycle(i) \/ Collect(i) \/ Emit(i)
              \/ Advance(i) \/ CollectFails(i) \/ SaveCycle(i) \/ EndCycle(i) \/ Finish(i)
              \/ \E o \in Outputs : Take(i, o) \/ Fail(i, o)
    BY <1>6
  <2>1. CASE Produce(i)
    BY <1>2, <2>1, ProduceIInv
  <2>2. CASE Collect(i)
    BY <1>2, <2>2, CollectIInv
  <2>3. CASE Emit(i)
    BY <1>1, <1>2, <2>3, EmitIInv
  <2>4. CASE Advance(i)
    BY <1>1, <1>2, <2>4, AdvanceIInv
  <2>5. CASE Finish(i)
    BY <1>1, <1>2, <2>5, FinishIInv
  <2>6. CASE \E o \in Outputs : Take(i, o) \/ Fail(i, o)
    BY <1>2, <2>6, TakeIInv
  <2>7. CASE StartCycle(i) \/ CollectFails(i) \/ EndCycle(i) \/ SaveCycle(i)
    BY <1>5, <2>7
  <2> QED BY <2>1, <2>2, <2>3, <2>4, <2>5, <2>6, <2>7
<1>7. CASE Restart
  BY <1>1, <1>2, <1>7, RestartIInv
<1> QED BY <1>4, <1>6, <1>7 DEF DeliveryNext

LEMMA DeliveryInvariance == DeliverySpec => []DIInv
BY InitDIInv, StepDIInv, PTL DEF DeliverySpec

\* The inputs and the outputs use the store as its own specification allows,
\* so that what is proved of the store (a hold is respected, a persisted
\* revision is on disk, writes only advance) holds of the daemon around it.
THEOREM StoreUsedAsSpecified == DeliverySpec => Spec
<1>1. DeliveryInit => Init
  BY DEF DeliveryInit
<1>2. DIInv /\ [DeliveryNext]_allvars => [Next]_vars
  BY StoreStep DEF DIInv, DeliveryInv
<1> QED BY <1>1, <1>2, DeliveryInvariance, PTL DEF DeliverySpec, Spec

\* Cursors move forward from the file to memory, batches keep their holds, and
\* whatever a Codex cursor has passed is taken by every durable output or still
\* queued (base-input.ts, input-manager.ts and multi-flusher.ts together).
THEOREM DeliverySound == DeliverySpec => []DeliveryInv
<1>1. DIInv => DeliveryInv
  BY DEF DIInv
<1> QED BY <1>1, DeliveryInvariance, PTL

\* What a restart would read as the cursor of a Codex input is behind every
\* output that reports durability errors (base-flusher.ts).
THEOREM CodexCursorsCovered == DeliverySpec => []CodexCursorCovered
<1>1. DIInv => CodexCursorCovered
  BY DEF DIInv, DeliveryInv
<1> QED BY <1>1, DeliveryInvariance, PTL

\* Nothing is handed out of order within a lifetime: a Codex input leaves no
\* gap and repeats at most, the others repeat nothing.
THEOREM HandOutOrder == DeliverySpec => HandedInOrder
<1> DEFINE Order ==
      \A i \in Inputs :
          crashes' = crashes /\ queue'[i] # queue[i] /\ handed'[i] = to[i]
              /\ Len(queue'[i]) > Len(queue[i])
          => IF i \in Codex THEN from[i] <= handed[i] ELSE from[i] >= handed[i]
<1>1. DIInv /\ [DeliveryNext]_allvars => [Order]_allvars
  <2> SUFFICES ASSUME DeliveryInv, [DeliveryNext]_allvars, NEW i \in Inputs,
                      queue'[i] # queue[i], Len(queue'[i]) > Len(queue[i])
               PROVE  IF i \in Codex THEN from[i] <= handed[i] ELSE from[i] >= handed[i]
    BY DEF DIInv
  <2> USE DEF DeliveryInv
  <2>1. queue[i] \in Seq(Batches)
    BY DEF DeliveryTypeOK
  <2>2. ~Restart
    BY <2>1 DEF Restart
  <2>3. ~Finish(i)
    <3> SUFFICES ASSUME Finish(i) PROVE FALSE
      OBVIOUS
    <3>1. queue'[i] = Tail(queue[i]) /\ queue[i] # <<>>
      BY FinishProperties
    <3>2. Len(queue'[i]) = Len(queue[i]) - 1 /\ Len(queue[i]) \in Nat
      BY <2>1, <3>1, HeadProperties
    <3> QED BY <3>2
  <2>4. \A j \in Inputs : j # i => ~Emit(j) /\ ~Finish(j)
    BY FinishProperties DEF Emit, Enqueue, DeliveryTypeOK
  <2>5. Emit(i)
    BY <2>2, <2>3, <2>4 DEF DeliveryNext, Produce, StartCycle, Collect, Advance, CollectFails,
       SaveCycle, EndCycle, Take, Fail, Store, delivery, allvars
  <2>6. ~saveFailure /\ cycle[i] = "emit"
    BY <2>5 DEF Emit
  <2> QED BY <2>6 DEF HandedTracked, CyclesFollowCursor
<1> QED BY <1>1, DeliveryInvariance, PTL DEF DeliverySpec, HandedInOrder

-----------------------------------------------------------------------------
(* The promise of AtLeastOnce, step by step.                               *)

LEMMA PromiseInit == DeliveryInit => Promise!Init
<1> SUFFICES ASSUME DeliveryInit PROVE Promise!Init
  OBVIOUS
<1>1. disk = NoStates
  BY DEF DeliveryInit, Init
<1>2. \A i \in Codex : produced[i] = 0 /\ OffsetIn(disk, i) = 0
  BY <1>1, NoStatesOffset DEF DeliveryInit
<1>3. \A o \in DurableOutputs, i \in Codex : accepted[o][i] = {}
  BY DEF DeliveryInit
<1> QED BY <1>2, <1>3 DEF Promise!Init

\* A step that leaves the log, the outputs' records and the file alone.
LEMMA PromiseStutters ==
    ASSUME UNCHANGED <<produced, accepted, disk>>
    PROVE  UNCHANGED Promise!vars
BY DEF Promise!vars

LEMMA PromiseProduce ==
    ASSUME DeliveryInv, NEW i \in Inputs, Produce(i)
    PROVE  [Promise!Next]_(Promise!vars)
<1>1. /\ produced[i] < MaxRecords /\ produced' = [produced EXCEPT ![i] = @ + 1]
      /\ accepted' = accepted /\ disk' = disk
      /\ produced \in [Inputs -> 0 .. MaxRecords]
  BY DEF Produce, store, vars, file, DeliveryInv, DeliveryTypeOK
<1>2. CASE i \notin Codex
  <2>1. \A j \in Codex : produced'[j] = produced[j]
    BY <1>1, <1>2
  <2> QED BY <1>1, <2>1 DEF Promise!vars
<1>3. CASE i \in Codex
  <2> DEFINE P == [j \in Codex |-> produced[j]]
  <2>1. P' = [P EXCEPT ![i] = @ + 1] /\ P[i] < MaxRecords
    BY <1>1, <1>3
  <2>2. Promise!Produce(i)
    BY <1>1, <2>1 DEF Promise!Produce
  <2> QED BY <1>3, <2>2 DEF Promise!Next
<1> QED BY <1>2, <1>3

\* Whatever an output takes of a batch, the agent has written.
LEMMA PromiseTake ==
    ASSUME DeliveryInv, NEW i \in Inputs, NEW o \in Outputs, Take(i, o) \/ Fail(i, o)
    PROVE  [Promise!Next]_(Promise!vars)
<1>1. produced' = produced /\ disk' = disk /\ accepted \in [Outputs -> [Inputs -> SUBSET (1 .. MaxRecords)]]
  BY DEF Take, Fail, store, vars, file, DeliveryInv, DeliveryTypeOK
<1>2. PICK records \in SUBSET (1 .. produced[i]) :
         accepted' = [accepted EXCEPT ![o][i] = @ \cup records]
  BY TakeProperties
<1> DEFINE T == [p \in DurableOutputs |-> [j \in Codex |-> accepted[p][j]]]
<1>3. \A p \in Outputs, j \in Inputs :
         accepted'[p][j] = IF p = o /\ j = i THEN accepted[p][j] \cup records ELSE accepted[p][j]
  BY <1>1, <1>2
<1>4. CASE i \notin Codex \/ o \notin DurableOutputs
  <2>1. \A p \in DurableOutputs, j \in Codex : accepted'[p][j] = accepted[p][j]
    BY <1>3, <1>4
  <2> QED BY <1>1, <2>1 DEF Promise!vars
<1>5. CASE i \in Codex /\ o \in DurableOutputs
  <2>1. T' = [T EXCEPT ![o][i] = @ \cup records]
    <3> DEFINE row(p) == [j \in Codex |-> accepted[p][j]]
               grown(p) == IF p = o THEN [row(o) EXCEPT ![i] = @ \cup records] ELSE row(p)
    <3>1. ASSUME NEW p \in DurableOutputs
          PROVE  [j \in Codex |-> accepted'[p][j]] = grown(p)
      <4>1. \A j \in Codex : accepted'[p][j] =
               IF p = o /\ j = i THEN accepted[p][j] \cup records ELSE accepted[p][j]
        BY <1>3
      <4>2. CASE p = o
        BY <1>5, <4>1, <4>2
      <4>3. CASE p # o
        BY <4>1, <4>3
      <4> QED BY <4>2, <4>3
    <3>2. T' = [p \in DurableOutputs |-> grown(p)]
      BY <3>1
    <3>3. [T EXCEPT ![o][i] = @ \cup records] = [p \in DurableOutputs |-> grown(p)]
      BY <1>5
    <3> QED BY <3>2, <3>3
  <2>2. Promise!Take(o, i)
    BY <1>1, <1>5, <2>1 DEF Promise!Take
  <2> QED BY <1>5, <2>2 DEF Promise!Next
<1> QED BY <1>4, <1>5

\* A write that lands moves cursors forward, over what every output has taken.
LEMMA PromiseCommit ==
    ASSUME DeliveryInv, WriteLands, UNCHANGED delivery
    PROVE  Promise!Next
<1>1. saver = "writing" /\ disk' = snapshot /\ produced' = produced /\ accepted' = accepted
  BY DEF WriteLands, delivery
<1>2. \A i \in Codex : /\ OffsetIn(snapshot, i) \in 0 .. MaxRecords
                       /\ OffsetIn(snapshot, i) >= OffsetIn(disk, i)
  BY <1>1 DEF DeliveryInv, CursorsAdvance
<1>3. \A i \in Codex, o \in DurableOutputs : 1 .. OffsetIn(snapshot, i) \subseteq accepted[o][i]
  BY <1>1 DEF DeliveryInv, PassedIsTakenOrQueued
<1>4. Promise!Commit
  BY <1>1, <1>2, <1>3 DEF Promise!Commit, Promise!Covered
<1> QED BY <1>4 DEF Promise!Next

\* Delivery, with its cycles, queues, shared store and restarts, implements
\* the abstract at-least-once promise for the Codex inputs (state-store.ts,
\* base-input.ts, input-manager.ts; docs/trace-output.md).
THEOREM DeliveryImplementsPromise == DeliverySpec => ImplementsAtLeastOnce
<1>1. DIInv /\ [DeliveryNext]_allvars => [Promise!Next]_(Promise!vars)
  <2> SUFFICES ASSUME DeliveryInv, [DeliveryNext]_allvars PROVE [Promise!Next]_(Promise!vars)
    BY DEF DIInv
  <2>1. ASSUME NEW i \in Inputs, StartCycle(i) \/ Collect(i) \/ Emit(i) \/ Advance(i)
                  \/ CollectFails(i) \/ SaveCycle(i) \/ EndCycle(i) \/ Finish(i)
        PROVE  UNCHANGED <<produced, accepted, disk>>
    BY <2>1, WriterSteps DEF StartCycle, Collect, Emit, Advance, CollectFails, SaveCycle,
       EndCycle, Finish, HoldSaveUntil, Update, Save, Accept, Reject, store, vars, file
  <2>2. CASE \E i \in Inputs :
              \/ Produce(i) \/ StartCycle(i) \/ Collect(i) \/ Emit(i)
              \/ Advance(i) \/ CollectFails(i) \/ SaveCycle(i) \/ EndCycle(i) \/ Finish(i)
              \/ \E o \in Outputs : Take(i, o) \/ Fail(i, o)
    BY <2>1, <2>2, PromiseStutters, PromiseProduce, PromiseTake
  <2>3. CASE Store
    <3>1. UNCHANGED delivery /\ (WriteLands \/ disk' = disk)
      BY <2>3 DEF Store, HoldsSettled, HoldsRejected, WriteFails, WriteResolves, SaveCleared, file
    <3> QED BY <3>1, PromiseCommit, PromiseStutters DEF delivery
  <2>4. CASE Restart \/ UNCHANGED allvars
    <3>1. UNCHANGED <<produced, accepted, disk>>
      BY <2>4 DEF Restart, Crash, allvars, delivery, vars, file
    <3> QED BY <3>1, PromiseStutters
  <2> QED BY <2>2, <2>3, <2>4 DEF DeliveryNext
<1> QED BY <1>1, PromiseInit, DeliveryInvariance, PTL DEF DeliverySpec, ImplementsAtLeastOnce, Promise!Spec

-----------------------------------------------------------------------------
(* The life of an input and the service that starts and stops it.  Each    *)
(* level uses the one below as that one specifies: the service is a caller *)
(* of the input, the input a user of the store, so every theorem of a      *)
(* lower level holds above it.                                             *)

USE DiscoveryAssumption
HIDE DurableDeliveryAssumption

LIInv == IInv /\ LifecycleInv

-----------------------------------------------------------------------------
(* The input.                                                              *)

\* An input changes the store by the store's actions only.
LEMMA LifecycleStoreStep == [LifecycleNext]_inputVars => [Next]_vars
<1> SUFFICES ASSUME [LifecycleNext]_inputVars PROVE [Next]_vars
  OBVIOUS
<1>1. CASE Writer \/ Activity \/ CollectDone
  BY <1>1 DEF Writer, Activity, CollectDone, Next, store
<1>2. CASE \/ OnStartWatches \/ OnStartDone \/ OnStartFails \/ CleanupDone \/ StartReady
           \/ BeginCycle \/ CollectionFails \/ StopDrained \/ OnStopDone
  BY <1>2 DEF OnStartWatches, OnStartDone, OnStartFails, CleanupDone, StartReady,
     BeginCycle, CollectionFails, StopDrained, OnStopDone, store
<1>3. CASE (Start \/ Stop) /\ UNCHANGED store
  BY <1>3 DEF store
<1>4. CASE UNCHANGED inputVars
  BY <1>4 DEF inputVars
<1> QED BY <1>1, <1>2, <1>3, <1>4 DEF LifecycleNext, Internal

LEMMA InitLIInv == LifecycleInit => LIInv
BY InitIInv DEF LifecycleInit, LIInv, IInv, LifecycleInv, LifecycleTypeOK, IdleHoldsNothing, Idle,
   TimerOnlyWhileRunning, NoCollectionDuringCleanup, FlagsAgree, WaitersAreServed

LEMMA StartIInv ==
    ASSUME LifecycleInv, TypeOK', Start, saver' = saver
    PROVE  LifecycleInv'
<1> USE DEF LifecycleInv, LifecycleTypeOK, IdleHoldsNothing, Idle, TimerOnlyWhileRunning,
        NoCollectionDuringCleanup, FlagsAgree, WaitersAreServed
<1>1. CASE stopper # "none"
  <2>1. chained' = TRUE /\ UNCHANGED <<running, startup, startFailed, stopper, cyclePromise, timer, watching>>
    BY <1>1 DEF Start
  <2>2. chained' /\ chained' \in BOOLEAN
    BY <2>1
  <2> QED BY <1>1, <2>1, <2>2
<1>2. CASE stopper = "none" /\ startup = "none" /\ ~running
  <2>1. /\ running' = TRUE /\ startup' = "onStart" /\ startFailed' = FALSE
        /\ UNCHANGED <<chained, stopper, cyclePromise, timer, watching>>
    BY <1>2 DEF Start, BeginStartup
  <2>2. running' /\ running' \in BOOLEAN /\ ~startFailed' /\ startFailed' \in BOOLEAN
    BY <2>1
  <2> QED BY <1>2, <2>1, <2>2
<1>3. CASE stopper = "none" /\ (startup # "none" \/ running)
  BY <1>3 DEF Start
<1> QED BY <1>1, <1>2, <1>3

LEMMA StopIInv ==
    ASSUME LifecycleInv, TypeOK', Stop, saver' = saver
    PROVE  LifecycleInv'
<1> USE DEF LifecycleInv, LifecycleTypeOK, IdleHoldsNothing, Idle, TimerOnlyWhileRunning,
        NoCollectionDuringCleanup, FlagsAgree, WaitersAreServed
<1>1. CASE Stops
  BY <1>1 DEF Stop, Stops, Readied
<1>2. CASE ~Stops
  BY <1>2 DEF Stop
<1> QED BY <1>1, <1>2

LEMMA StartupIInv ==
    ASSUME LifecycleInv, TypeOK', saver' = saver,
           OnStartWatches \/ OnStartDone \/ OnStartFails \/ CleanupDone \/ StartReady
    PROVE  LifecycleInv'
<1> USE DEF LifecycleInv, LifecycleTypeOK, IdleHoldsNothing, Idle, TimerOnlyWhileRunning,
        NoCollectionDuringCleanup, FlagsAgree, WaitersAreServed
<1>1. CASE OnStartWatches
  BY <1>1 DEF OnStartWatches
<1>2. CASE OnStartDone
  BY <1>2 DEF OnStartDone
<1>3. CASE OnStartFails
  BY <1>3 DEF OnStartFails
<1>4. CASE CleanupDone
  BY <1>4 DEF CleanupDone
<1>5. CASE StartReady
  BY <1>5 DEF StartReady
<1> QED BY <1>1, <1>2, <1>3, <1>4, <1>5

\* A save that somebody waits for is under way: the one that save() starts,
\* and the one it joins.
LEMMA SaveIsServed ==
    ASSUME IInv, SaveWaits, saver # "settled", Save \/ (~SaveStarts /\ saver' = saver)
    PROVE  saver' \in {"holds", "writing", "landed"}
<1>1. persistedRevision <= revision /\ persistedRevision \in Nat /\ revision \in Nat
  BY DEF IInv, TypeOK, RevisionsOrdered
<1>2. CASE Save
  BY <1>1, <1>2 DEF Save, FlushLoop, SaveWaits
<1>3. CASE ~SaveStarts /\ saver' = saver
  BY <1>3 DEF SaveStarts, IInv, TypeOK
<1> QED BY <1>2, <1>3

LEMMA CycleIInv ==
    ASSUME IInv, LifecycleInv, TypeOK', BeginCycle \/ CollectDone \/ CollectionFails
    PROVE  LifecycleInv'
<1> USE DEF LifecycleInv, LifecycleTypeOK, IdleHoldsNothing, Idle, TimerOnlyWhileRunning,
        NoCollectionDuringCleanup, FlagsAgree, WaitersAreServed, Readied
<1>1. CASE BeginCycle
  BY <1>1 DEF BeginCycle
<1>2. CASE CollectDone
  <2>1. cyclePromise' = "wait" => saver' \in {"holds", "writing", "landed"}
    BY <1>2, SaveIsServed DEF CollectDone, store, vars, writer
  <2>2. cyclePromise = "collect" /\ cyclePromise' \in {"wait", "none"} /\ startup' = Readied
        /\ UNCHANGED <<running, startFailed, stopper, chained, timer, watching>>
    BY <1>2 DEF CollectDone
  <2> QED BY <2>1, <2>2
<1>3. CASE CollectionFails
  BY <1>3 DEF CollectionFails
<1> QED BY <1>1, <1>2, <1>3

LEMMA WriterActivityIInv ==
    ASSUME LifecycleInv, TypeOK', Writer \/ Activity
    PROVE  LifecycleInv'
<1> USE DEF LifecycleInv, LifecycleTypeOK, IdleHoldsNothing, Idle, TimerOnlyWhileRunning,
        NoCollectionDuringCleanup, FlagsAgree, WaitersAreServed
<1>1. CASE Writer
  <2>1. cyclePromise = "wait" => saver' \in {"holds", "writing", "landed", "settled"}
    BY <1>1 DEF Writer, HoldsSettled, HoldsRejected, WriteLands, WriteFails, WriteResolves,
       SaveCleared, FlushLoop, Settled
  <2>2. /\ cyclePromise' = IF cyclePromise = "wait" /\ saver' = "settled" THEN "none" ELSE cyclePromise
        /\ UNCHANGED <<running, startup, startFailed, stopper, chained, timer, watching>>
    BY <1>1 DEF Writer
  <2> QED BY <2>1, <2>2
<1>2. CASE Activity
  <2>1. UNCHANGED lifecycle
    BY <1>2 DEF Activity
  <2>2. cyclePromise = "wait" => saver' = saver
    BY <1>2 DEF Activity, Change, Set, Update, Delete, HoldSaveUntil, Settle, Accept, Reject,
       Save, SaveStarts, writer
  <2> QED BY <2>1, <2>2 DEF lifecycle
<1> QED BY <1>1, <1>2

LEMMA StopEndIInv ==
    ASSUME LifecycleInv, TypeOK', saver' = saver, StopDrained \/ OnStopDone
    PROVE  LifecycleInv'
<1> USE DEF LifecycleInv, LifecycleTypeOK, IdleHoldsNothing, Idle, TimerOnlyWhileRunning,
        NoCollectionDuringCleanup, FlagsAgree, WaitersAreServed
<1>1. CASE StopDrained
  BY <1>1 DEF StopDrained
<1>2. CASE OnStopDone /\ chained
  BY <1>2 DEF OnStopDone, BeginStartup
<1>3. CASE OnStopDone /\ ~chained
  <2>1. /\ stopper = "onStop" /\ stopper' = "none" /\ watching' = FALSE /\ chained' = FALSE
        /\ UNCHANGED <<running, startup, startFailed, cyclePromise, timer>>
    BY <1>3 DEF OnStopDone
  <2>2. ~watching' /\ watching' \in BOOLEAN /\ ~chained' /\ chained' \in BOOLEAN
    BY <2>1
  <2> QED BY <2>1, <2>2
<1> QED BY <1>1, <1>2, <1>3

LEMMA StepLIInv == LIInv /\ [LifecycleNext]_inputVars => LIInv'
<1> SUFFICES ASSUME LIInv, [LifecycleNext]_inputVars PROVE LIInv'
  OBVIOUS
<1>1. IInv /\ LifecycleInv /\ IInv' /\ TypeOK'
  <2>1. IInv'
    BY LifecycleStoreStep, StepIInv DEF LIInv
  <2> QED BY <2>1 DEF LIInv, IInv
<1> SUFFICES LifecycleInv'
  BY <1>1 DEF LIInv
<1>2. UNCHANGED store => saver' = saver
  BY DEF store, vars, writer
<1>3. CASE (Start \/ Stop) /\ UNCHANGED store
  BY <1>1, <1>2, <1>3, StartIInv, StopIInv
<1>4. CASE OnStartWatches \/ OnStartDone \/ OnStartFails \/ CleanupDone \/ StartReady
  <2>1. UNCHANGED store
    BY <1>4 DEF OnStartWatches, OnStartDone, OnStartFails, CleanupDone, StartReady
  <2> QED BY <1>1, <1>2, <1>4, <2>1, StartupIInv
<1>5. CASE StopDrained \/ OnStopDone
  <2>1. UNCHANGED store
    BY <1>5 DEF StopDrained, OnStopDone
  <2> QED BY <1>1, <1>2, <1>5, <2>1, StopEndIInv
<1>6. CASE BeginCycle \/ CollectDone \/ CollectionFails \/ Writer \/ Activity
  BY <1>1, <1>6, CycleIInv, WriterActivityIInv
<1>7. CASE UNCHANGED inputVars
  BY <1>1, <1>7 DEF inputVars, vars, writer, lifecycle, LifecycleInv, LifecycleTypeOK, IdleHoldsNothing,
     Idle, TimerOnlyWhileRunning, NoCollectionDuringCleanup, FlagsAgree, WaitersAreServed
<1> QED BY <1>3, <1>4, <1>5, <1>6, <1>7 DEF LifecycleNext, Internal

LEMMA LifecycleInvariance == LifecycleSpec => []LIInv
BY InitLIInv, StepLIInv, PTL DEF LifecycleSpec

\* The flags, the timer and the watcher of an input agree after any overlap of
\* start(), stop() and failures; at rest nothing of it is left, and whoever
\* waits for a cycle or for the shared save is served (base-input.ts).
THEOREM LifecycleSound == LifecycleSpec => []LifecycleInv
<1>1. LIInv => LifecycleInv
  BY DEF LIInv
<1> QED BY <1>1, LifecycleInvariance, PTL

\* onStop runs with neither a startup nor a collection under way (stopOnce).
THEOREM CleanupIsAlone == LifecycleSpec => []NoCollectionDuringCleanup
<1>1. LIInv => NoCollectionDuringCleanup
  BY DEF LIInv, LifecycleInv
<1> QED BY <1>1, LifecycleInvariance, PTL

-----------------------------------------------------------------------------
(* The service.                                                            *)

\* The service calls start() and stop() of the input and does nothing else
\* to it.
LEMMA DiscoveryLifecycleStep == [DiscoveryNext]_discoveryVars => [LifecycleNext]_inputVars
<1> SUFFICES ASSUME [DiscoveryNext]_discoveryVars PROVE [LifecycleNext]_inputVars
  OBVIOUS
<1>1. CASE CheckStarts \/ CheckStops \/ Drained \/ StopAll
  BY <1>1 DEF CheckStarts, CheckStops, Drained, StopAll, LifecycleNext, inputVars, store
<1>2. CASE \/ ProcessEntry \/ CheckEnds \/ CheckKeeps \/ CheckMisses \/ CheckThrows
           \/ StartReturns \/ StopReturns \/ ShutDown \/ EntryStopped \/ AllStopped
  BY <1>2 DEF ProcessEntry, CheckEnds, CheckKeeps, CheckMisses, CheckThrows, StartReturns,
     StopReturns, ShutDown, EntryStopped, AllStopped
<1>3. CASE Internal \/ UNCHANGED discoveryVars
  BY <1>3 DEF LifecycleNext, discoveryVars
<1> QED BY <1>1, <1>2, <1>3 DEF DiscoveryNext

\* The service uses the input as its own specification allows.
THEOREM InputUsedAsSpecified == DiscoverySpec => LifecycleSpec
<1>1. DiscoveryInit => LifecycleInit
  BY DEF DiscoveryInit
<1> QED BY <1>1, DiscoveryLifecycleStep, PTL DEF DiscoverySpec, LifecycleSpec

LEMMA InitDiscovery == DiscoveryInit => DiscoveryInv
<1> SUFFICES ASSUME DiscoveryInit PROVE DiscoveryInv
  OBVIOUS
<1>1. LifecycleTypeOK
  BY InitLIInv DEF DiscoveryInit, LIInv, LifecycleInv
<1>2. DiscoveryTypeOK
  <2>1. /\ state = "idle" /\ processing = "none" /\ missed = 0 /\ shutdown = "no"
        /\ refresh = FALSE /\ stopping = FALSE /\ rejected = FALSE
    BY DEF DiscoveryInit
  <2>2. refresh \in BOOLEAN /\ stopping \in BOOLEAN /\ rejected \in BOOLEAN
    BY <2>1
  <2>3. missed \in 0 .. Threshold - 1
    BY <2>1
  <2> QED BY <1>1, <2>1, <2>2, <2>3 DEF DiscoveryTypeOK
<1>3. EntryStateTruthful /\ EntryFollowsInput /\ CallsArePending
  BY DEF DiscoveryInit, LifecycleInit, EntryStateTruthful, EntryFollowsInput, CallsArePending, Idle
<1> QED BY <1>2, <1>3 DEF DiscoveryInv

\* What the input does by itself leaves one at rest at rest, and a stop() or
\* a started input what they are.
LEMMA InternalProperties ==
    ASSUME LifecycleInv, ~chained, Internal
    PROVE  /\ ~chained'
           /\ running' => running
           /\ startup = "none" => startup' = "none" /\ running' = running
           /\ stopper = "none" => stopper' = "none"
           /\ stopper = "none" /\ (running \/ startFailed) => running' \/ startFailed'
<1> USE DEF LifecycleInv, FlagsAgree, NoCollectionDuringCleanup, LifecycleTypeOK
<1>1. CASE OnStartWatches \/ OnStartDone \/ OnStartFails \/ CleanupDone \/ StartReady
  BY <1>1 DEF OnStartWatches, OnStartDone, OnStartFails, CleanupDone, StartReady
<1>2. CASE BeginCycle \/ CollectDone \/ CollectionFails \/ Writer \/ Activity
  BY <1>2 DEF BeginCycle, CollectDone, CollectionFails, Writer, Activity, lifecycle, Readied
<1>3. CASE StopDrained \/ OnStopDone
  BY <1>3 DEF StopDrained, OnStopDone
<1> QED BY <1>1, <1>2, <1>3 DEF Internal

LEMMA StepDiscovery ==
    ASSUME LIInv, DiscoveryInv, LifecycleInv', [DiscoveryNext]_discoveryVars
    PROVE  DiscoveryInv'
<1>1. LifecycleInv
  BY DEF LIInv
<1> USE DEF DiscoveryInv, DiscoveryTypeOK, EntryStateTruthful, EntryFollowsInput, CallsArePending, Idle
<1>2. LifecycleTypeOK'
  BY DEF LifecycleInv
<1>3. CASE Internal /\ UNCHANGED discovery
  BY <1>1, <1>2, <1>3, InternalProperties DEF discovery
<1>4. CASE UNCHANGED discoveryVars
  BY <1>2, <1>4 DEF discoveryVars, discovery, inputVars, lifecycle
<1>5. CASE ProcessEntry
  BY <1>1, <1>2, <1>5 DEF ProcessEntry, inputVars, lifecycle
<1>13. CASE CheckEnds \/ CheckKeeps \/ CheckMisses
  <2>1. missed' \in 0 .. Threshold - 1
    BY <1>13 DEF CheckEnds, CheckKeeps, CheckMisses
  <2>2. UNCHANGED lifecycle /\ UNCHANGED <<state, stopping, shutdown, rejected>> /\ EndTurn
        /\ processing = "check"
    BY <1>13 DEF CheckEnds, CheckKeeps, CheckMisses, CheckCancelled, inputVars
  <2> QED BY <1>2, <2>1, <2>2 DEF EndTurn, lifecycle
<1>14. CASE CheckThrows
  BY <1>1, <1>2, <1>14 DEF CheckThrows, EndTurn, inputVars, lifecycle
<1>6. CASE CheckStarts
  BY <1>1, <1>2, <1>6 DEF CheckStarts, CheckCancelled, Start, BeginStartup
<1>7. CASE CheckStops
  BY <1>1, <1>2, <1>7 DEF CheckStops, CheckCancelled, Stop, Stops, Readied
<1>8. CASE StartReturns
  <2>1. /\ UNCHANGED lifecycle /\ UNCHANGED <<missed, stopping, shutdown>> /\ EndTurn
        /\ processing = "starting" /\ startup = "none" /\ stopper = "none" /\ rejected' = FALSE
        /\ state' = IF startFailed THEN "idle" ELSE IF stopping THEN state ELSE "running"
    BY <1>8 DEF StartReturns, StartSettled, inputVars
  <2>2. running <=> ~startFailed
    BY <1>1, <2>1 DEF LifecycleInv, LifecycleTypeOK, FlagsAgree
  <2>3. state = "starting"
    BY <2>1
  <2> QED BY <1>2, <2>1, <2>2, <2>3 DEF EndTurn, lifecycle
<1>9. CASE StopReturns
  BY <1>1, <1>2, <1>9 DEF StopReturns, EndTurn, inputVars, lifecycle
<1>10. CASE ShutDown
  BY <1>1, <1>2, <1>10 DEF ShutDown, inputVars, lifecycle
<1>15. CASE EntryStopped \/ AllStopped
  BY <1>1, <1>2, <1>15 DEF EntryStopped, AllStopped, inputVars, lifecycle
<1>11. CASE Drained
  BY <1>1, <1>2, <1>11 DEF Drained, Stoppable, Stop, Stops, Readied, lifecycle
<1>12. CASE StopAll
  BY <1>1, <1>2, <1>12 DEF StopAll, Stop, Stops, Readied, lifecycle
<1> QED BY <1>3, <1>4, <1>5, <1>6, <1>7, <1>8, <1>9, <1>10, <1>11, <1>12, <1>13, <1>14, <1>15
   DEF DiscoveryNext

LEMMA DiscoveryInvariance == DiscoverySpec => [](LIInv /\ DiscoveryInv)
<1>1. DiscoveryInit => LIInv /\ DiscoveryInv
  BY InitLIInv, InitDiscovery DEF DiscoveryInit
<1>2. LIInv /\ DiscoveryInv /\ [DiscoveryNext]_discoveryVars => (LIInv /\ DiscoveryInv)'
  <2> SUFFICES ASSUME LIInv, DiscoveryInv, [DiscoveryNext]_discoveryVars
               PROVE  LIInv' /\ DiscoveryInv'
    OBVIOUS
  <2>1. LIInv'
    BY DiscoveryLifecycleStep, StepLIInv
  <2>2. LifecycleInv'
    BY <2>1 DEF LIInv
  <2> QED BY <2>1, <2>2, StepDiscovery
<1> QED BY <1>1, <1>2, PTL DEF DiscoverySpec

\* The state of an entry follows its input: start() is never called into a
\* stop() in progress, and between two checks the state tells the truth
\* (agent-discovery-service.ts).
THEOREM DiscoverySound == DiscoverySpec => []DiscoveryInv
BY DiscoveryInvariance, PTL

\* However the shutdown met a check, a start or a stop in progress: once the
\* inputs are reported stopped, nothing of one is left or comes back.
THEOREM ShutdownLeavesNothing == DiscoverySpec => []ShutdownIsFinal
<1>1. LIInv /\ DiscoveryInv => ShutdownIsFinal
  BY DEF LIInv, LifecycleInv, DiscoveryInv, DiscoveryTypeOK, EntryFollowsInput, CallsArePending,
     IdleHoldsNothing, Idle, ShutdownIsFinal
<1> QED BY <1>1, DiscoveryInvariance, PTL

=============================================================================
