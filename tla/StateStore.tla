----------------------------- MODULE StateStore -----------------------------
(***************************************************************************)
(* The checkpoint store of the daemon (src/checkpoints/state-store.ts).    *)
(* Every input keeps its read cursor here; one file holds all of them.     *)
(* JavaScript runs one callback at a time, so a step of this module is the *)
(* code between two awaits.  A save is a shared background writer that     *)
(* waits for the "holds" (outputs that were emitted and are not accepted   *)
(* yet), writes a snapshot, and goes round again.  The file is replaced by *)
(* a rename, so it always holds a whole snapshot; the process may die at   *)
(* any point, also between the rename and the callback that learns of it.  *)
(***************************************************************************)
EXTENDS Naturals

CONSTANTS
    Inputs,      \* input ids
    Keys,        \* names in the "extra" part of a state
    Vals,        \* values of an extra key
    NoVal,       \* an extra key that is not there
    Offsets,     \* values of lastOffset
    Absent,      \* an input that has no state
    Holds,       \* output promises that may be outstanding at a time
    MaxRevision, \* bound: revisions of one process lifetime
    MaxCrash     \* bound: restarts

Extras == [Keys -> Vals \cup {NoVal}]
InputStates == [offset : Offsets, extra : Extras]
StoredStates == [Inputs -> InputStates \cup {Absent}]

ASSUME StateStoreAssumption ==
    /\ NoVal \notin Vals
    /\ 0 \in Offsets
    /\ MaxRevision \in Nat
    /\ MaxCrash \in Nat
    /\ Absent \notin InputStates

NoStates == [i \in Inputs |-> Absent]
NoExtra == [k \in Keys |-> NoVal]
EmptyState == [offset |-> 0, extra |-> NoExtra]   \* what get() answers for {}

VARIABLES
    states,            \* the in-memory map
    revision,          \* number of changes since load()
    persistedRevision, \* revision of the last write known to be on disk
    inputRev,          \* inputRevisions: last revision that touched the input
    extraRev,          \* extraRevisions: last revision that changed the key
    saver,             \* the shared save: "none" | "holds" | "writing" | "landed" | "settled"
    target,            \* targetRevision of the write in progress
    snapshot,          \* the states that write carries
    awaited,           \* holds the save sleeps on (its Promise.all)
    hold,              \* each of them: "free" | "pending" | "rejected"
    saveFailure,       \* the latched failure
    disk,              \* the checkpoint file
    diskRevision,      \* history: revision of the snapshot in the file
    heldAt,            \* history: revision at which a hold was taken
    crashes

memory == <<states, revision, inputRev, extraRev>>
writer == <<saver, target, snapshot, awaited>>
outputs == <<hold, saveFailure, heldAt>>
file == <<disk, diskRevision>>
vars == <<memory, persistedRevision, writer, outputs, file, crashes>>
store == vars \* the name the modules that use the store give it

saveHolds == {h \in Holds : hold[h] = "pending"}
waitingForOutput == saveHolds # {}

\* get(): the state of an input, {} when it has none.
Get(i) == IF states[i] = Absent THEN EmptyState ELSE states[i]

\* isPersisted(id) and isPersisted(id, extraKey).
IsPersisted(i) == ~saveFailure /\ inputRev[i] <= persistedRevision
IsExtraPersisted(i, k) == ~saveFailure /\ extraRev[i][k] <= persistedRevision

-----------------------------------------------------------------------------
(* load(): the process starts with what the file holds and fresh counters. *)

Fresh ==
    /\ states' = disk
    /\ revision' = 0
    /\ persistedRevision' = 0
    /\ inputRev' = [i \in Inputs |-> 0]
    /\ extraRev' = [i \in Inputs |-> [k \in Keys |-> 0]]
    /\ saver' = "none"
    /\ target' = 0
    /\ snapshot' = NoStates
    /\ awaited' = {}
    /\ hold' = [h \in Holds |-> "free"]
    /\ saveFailure' = FALSE
    /\ heldAt' = [h \in Holds |-> 0]
    /\ diskRevision' = 0

Init ==
    /\ disk = NoStates
    /\ states = disk
    /\ revision = 0
    /\ persistedRevision = 0
    /\ inputRev = [i \in Inputs |-> 0]
    /\ extraRev = [i \in Inputs |-> [k \in Keys |-> 0]]
    /\ saver = "none"
    /\ target = 0
    /\ snapshot = NoStates
    /\ awaited = {}
    /\ hold = [h \in Holds |-> "free"]
    /\ saveFailure = FALSE
    /\ heldAt = [h \in Holds |-> 0]
    /\ diskRevision = 0
    /\ crashes = 0

Crash ==
    /\ crashes < MaxCrash
    /\ crashes' = crashes + 1
    /\ Fresh
    /\ UNCHANGED disk

-----------------------------------------------------------------------------
(* Changes of the in-memory map: set, update, delete.                      *)

\* Mutant: the extra keys are stamped with the revision before the change.
PutStampingOld(i, next, before, after) ==
    /\ revision < MaxRevision
    /\ states' = [states EXCEPT ![i] = next]
    /\ revision' = revision + 1
    /\ inputRev' = [inputRev EXCEPT ![i] = revision + 1]
    /\ extraRev' = [extraRev EXCEPT ![i] =
                       [k \in Keys |-> IF before[k] = after[k]
                                         THEN extraRev[i][k]
                                         ELSE revision]]

\* The part set(), update() and delete() share: a new revision, recorded for
\* the input and for every extra key whose value changed (trackExtraRevision).
Put(i, next, before, after) ==
    /\ revision < MaxRevision
    /\ states' = [states EXCEPT ![i] = next]
    /\ revision' = revision + 1
    /\ inputRev' = [inputRev EXCEPT ![i] = revision + 1]
    /\ extraRev' = [extraRev EXCEPT ![i] =
                       [k \in Keys |-> IF before[k] = after[k]
                                         THEN extraRev[i][k]
                                         ELSE revision + 1]]

Set(i, state) ==
    /\ Put(i, state, Get(i).extra, state.extra)
    /\ UNCHANGED <<persistedRevision, writer, outputs, file, crashes>>

\* A key the partial state does not mention (NoVal here) keeps its value.
MergeExtra(old, partial) ==
    [k \in Keys |-> IF partial[k] = NoVal THEN old[k] ELSE partial[k]]

Update(i, offset, extra) ==
    LET merged == [offset |-> offset, extra |-> MergeExtra(Get(i).extra, extra)]
    IN  /\ Put(i, merged, Get(i).extra, merged.extra)
        /\ UNCHANGED <<persistedRevision, writer, outputs, file, crashes>>

Delete(i) ==
    /\ states[i] # Absent
    /\ Put(i, Absent, Get(i).extra, NoExtra)
    /\ UNCHANGED <<persistedRevision, writer, outputs, file, crashes>>

-----------------------------------------------------------------------------
(* Output holds.  A promise that is fulfilled leaves no trace, so its name  *)
(* serves the next one.                                                     *)

HoldSaveUntil(h) ==
    /\ hold[h] = "free" /\ h \notin awaited
    /\ hold' = [hold EXCEPT ![h] = "pending"]
    /\ heldAt' = [heldAt EXCEPT ![h] = revision]
    /\ UNCHANGED <<memory, persistedRevision, writer, saveFailure, file, crashes>>

Accept(h) ==
    /\ hold[h] = "pending"
    /\ hold' = [hold EXCEPT ![h] = "free"]
    /\ UNCHANGED <<memory, persistedRevision, writer, saveFailure, heldAt, file, crashes>>

\* The first failure stays until the process restarts.
Reject(h) ==
    /\ hold[h] = "pending"
    /\ hold' = [hold EXCEPT ![h] = "rejected"]
    /\ saveFailure' = TRUE
    /\ UNCHANGED <<memory, persistedRevision, writer, heldAt, file, crashes>>

-----------------------------------------------------------------------------
(* save() and the loop of flushPendingRevisions().                         *)

\* The promise is settled and the locals of the loop are gone.
Settled ==
    /\ saver' = "settled"
    /\ awaited' = {}
    /\ target' = 0
    /\ snapshot' = NoStates

\* Mutant: the loop writes although an output is still pending.
FlushLoopIgnoringHolds(persisted) ==
    \/ saveFailure /\ Settled
    \/ ~saveFailure /\ persisted >= revision /\ Settled
    \/ /\ ~saveFailure
       /\ persisted < revision
       /\ saver' = "writing"
       /\ awaited' = {}
       /\ target' = revision
       /\ snapshot' = states

\* Mutant: a latched failure no longer stops the loop.
FlushLoopIgnoringFailure(persisted) ==
    \/ /\ waitingForOutput
       /\ saver' = "holds"
       /\ awaited' = saveHolds
       /\ target' = 0
       /\ snapshot' = NoStates
    \/ ~waitingForOutput /\ persisted >= revision /\ Settled
    \/ /\ ~waitingForOutput
       /\ persisted < revision
       /\ saver' = "writing"
       /\ awaited' = {}
       /\ target' = revision
       /\ snapshot' = states

\* The loop from the top to its next await.  "settled" is the moment between
\* the end of the loop and the finally callback that clears savePromise.
FlushLoop(persisted) ==
    \/ /\ saveFailure
       /\ Settled
    \/ /\ ~saveFailure
       /\ waitingForOutput
       /\ saver' = "holds"
       /\ awaited' = saveHolds
       /\ target' = 0
       /\ snapshot' = NoStates
    \/ /\ ~saveFailure
       /\ ~waitingForOutput
       /\ persisted >= revision
       /\ Settled
    \/ /\ ~saveFailure
       /\ ~waitingForOutput
       /\ persisted < revision
       /\ saver' = "writing"
       /\ awaited' = {}
       /\ target' = revision
       /\ snapshot' = states

\* save() rejects after a failure and resolves when nothing is to be done;
\* else its caller waits for the shared writer, which it starts if need be.
SaveWaits ==
    /\ ~saveFailure
    /\ persistedRevision # revision \/ waitingForOutput
SaveStarts == SaveWaits /\ saver = "none"

Save ==
    /\ SaveStarts
    /\ FlushLoop(persistedRevision)
    /\ UNCHANGED <<memory, persistedRevision, outputs, file, crashes>>

\* Promise.all of the awaited holds fulfils: the loop goes round.
HoldsSettled ==
    /\ saver = "holds"
    /\ \A h \in awaited : hold[h] = "free"
    /\ FlushLoop(persistedRevision)
    /\ UNCHANGED <<memory, persistedRevision, outputs, file, crashes>>

\* ... or rejects with the first of them, whatever the others do.
HoldsRejected ==
    /\ saver = "holds"
    /\ \E h \in awaited : hold[h] = "rejected"
    /\ Settled
    /\ UNCHANGED <<memory, persistedRevision, outputs, file, crashes>>

\* writeJsonFile renames the temporary file over the checkpoint ...
WriteLands ==
    /\ saver = "writing"
    /\ disk' = snapshot
    /\ diskRevision' = target
    /\ saver' = "landed"
    /\ UNCHANGED <<memory, persistedRevision, target, snapshot, awaited, outputs, crashes>>

\* ... or fails and leaves the file alone; the save rejects, nothing latches.
WriteFails ==
    /\ saver = "writing"
    /\ Settled
    /\ UNCHANGED <<memory, persistedRevision, outputs, file, crashes>>

\* Revision entries of deleted inputs and keys are dropped once written; a
\* missing entry reads as 0.
PruneInputRev(persisted) ==
    [i \in Inputs |->
        IF states[i] = Absent /\ inputRev[i] <= persisted THEN 0 ELSE inputRev[i]]
PruneExtraRev(persisted) ==
    [i \in Inputs |-> [k \in Keys |->
        IF Get(i).extra[k] = NoVal /\ extraRev[i][k] <= persisted
          THEN 0 ELSE extraRev[i][k]]]

\* Mutant: a write is credited with the changes made while it was under way.
WriteResolvesLate ==
    /\ saver = "landed"
    /\ persistedRevision' = revision
    /\ inputRev' = PruneInputRev(revision)
    /\ extraRev' = PruneExtraRev(revision)
    /\ FlushLoop(revision)
    /\ UNCHANGED <<states, revision, outputs, file, crashes>>

\* The write resolves: record it, prune, and go round the loop.
WriteResolves ==
    /\ saver = "landed"
    /\ persistedRevision' = target
    /\ inputRev' = PruneInputRev(target)
    /\ extraRev' = PruneExtraRev(target)
    /\ FlushLoop(target)
    /\ UNCHANGED <<states, revision, outputs, file, crashes>>

\* Mutant: then() instead of finally(): a rejected save stays for ever.
SaveClearedOnSuccess ==
    /\ saver = "settled"
    /\ persistedRevision = revision
    /\ saver' = "none"
    /\ UNCHANGED <<memory, persistedRevision, target, snapshot, awaited, outputs, file, crashes>>

\* finally(): savePromise = null.
SaveCleared ==
    /\ saver = "settled"
    /\ saver' = "none"
    /\ UNCHANGED <<memory, persistedRevision, target, snapshot, awaited, outputs, file, crashes>>

-----------------------------------------------------------------------------
Change ==
    \E i \in Inputs :
        \/ \E state \in InputStates : Set(i, state)
        \/ \E offset \in Offsets, extra \in Extras : Update(i, offset, extra)
        \/ Delete(i)

Settle == \E h \in Holds : Accept(h) \/ Reject(h)

Next ==
    \/ Change
    \/ \E h \in Holds : HoldSaveUntil(h)
    \/ Settle
    \/ Save
    \/ HoldsSettled
    \/ HoldsRejected
    \/ WriteLands
    \/ WriteFails
    \/ WriteResolves
    \/ SaveCleared
    \/ Crash

Spec == Init /\ [][Next]_vars

\* The poll timers of the inputs call save() again and again; promises and
\* file operations settle; a disk that fails now and then also succeeds.  The
\* loop wakes in the turn in which the last pending output settles, so it does
\* not for ever miss the moments at which none is pending.
Fairness ==
    /\ WF_vars(Save)
    /\ WF_vars(HoldsSettled)
    /\ SF_vars(HoldsSettled /\ ~waitingForOutput)
    /\ WF_vars(HoldsRejected)
    /\ SF_vars(WriteLands)
    /\ WF_vars(WriteResolves)
    /\ WF_vars(SaveCleared)
    /\ \A h \in Holds : WF_vars(Accept(h) \/ Reject(h))

FairSpec == Spec /\ Fairness

-----------------------------------------------------------------------------
(* The inductive invariant.  It is what makes the counters trustworthy: the *)
(* file lags behind memory by exactly the changes the counters say it does. *)

ExtraOf(map, i) == IF map[i] = Absent THEN NoExtra ELSE map[i].extra

RevisionsOrdered ==
    /\ persistedRevision <= diskRevision
    /\ diskRevision <= revision
    /\ saver # "landed" => diskRevision = persistedRevision
    /\ saver = "writing" => diskRevision < target /\ target <= revision
    /\ saver = "landed" => diskRevision = target

HoldsBoundWrites ==
    \A h \in Holds :
        /\ hold[h] = "rejected" => saveFailure
        /\ hold[h] \in {"pending", "rejected"} =>
              /\ diskRevision <= heldAt[h]
              /\ saver = "writing" => target <= heldAt[h]

\* A map agrees with memory on whatever was last changed up to a revision.
AgreesUpTo(map, r) ==
    /\ \A i \in Inputs : inputRev[i] <= r => map[i] = states[i]
    /\ \A i \in Inputs, k \in Keys :
          extraRev[i][k] <= r => ExtraOf(map, i)[k] = ExtraOf(states, i)[k]

ContentTracked ==
    /\ AgreesUpTo(disk, diskRevision)
    /\ saver = "writing" => AgreesUpTo(snapshot, target)

TypeOK ==
    /\ states \in StoredStates
    /\ revision \in 0 .. MaxRevision
    /\ persistedRevision \in 0 .. MaxRevision
    /\ inputRev \in [Inputs -> 0 .. MaxRevision]
    /\ extraRev \in [Inputs -> [Keys -> 0 .. MaxRevision]]
    /\ saver \in {"none", "holds", "writing", "landed", "settled"}
    /\ target \in 0 .. MaxRevision
    /\ snapshot \in StoredStates
    /\ awaited \in SUBSET Holds
    /\ hold \in [Holds -> {"free", "pending", "rejected"}]
    /\ saveFailure \in BOOLEAN
    /\ disk \in StoredStates
    /\ diskRevision \in 0 .. MaxRevision
    /\ heldAt \in [Holds -> 0 .. MaxRevision]
    /\ crashes \in 0 .. MaxCrash

IInv == TypeOK /\ RevisionsOrdered /\ HoldsBoundWrites /\ ContentTracked

\* "Do not checkpoint source progress before its output has been durably
\* accepted" (holdSaveUntil): as long as an output is pending, and for ever
\* once it was rejected, the file holds no change made after the hold was
\* taken, although the store is shared, saves overlap and writes are slow.
UnacceptedOutputNotCheckpointed ==
    \A h \in Holds :
        hold[h] \in {"pending", "rejected"} => diskRevision <= heldAt[h]

\* isPersisted() answers for the file: an input it calls persisted would be
\* found after a restart exactly as it is in memory now, and likewise one extra
\* key, whose revisions are kept and pruned apart.  Inputs delete their own
\* evidence (spooled transcripts) on this answer.
PersistedIsOnDisk ==
    \A i \in Inputs :
        /\ IsPersisted(i) => disk[i] = states[i]
        /\ \A k \in Keys :
              IsExtraPersisted(i, k) => ExtraOf(disk, i)[k] = ExtraOf(states, i)[k]

\* Within one process lifetime the file never goes back to an older snapshot,
\* and after a latched failure no new write begins.
DiskOnlyAdvances ==
    [][crashes' = crashes =>
          /\ diskRevision' >= diskRevision
          /\ saveFailure => saver' # "writing" \/ saver = "writing"]_vars

\* Progress made is checkpointed in the end, unless an output was rejected
\* (then only a restart helps), the process dies first, or outputs overlap so
\* that from some time on one of them is always pending.
ChangesReachDisk ==
    []<>(~waitingForOutput) =>
        \A r \in 1 .. MaxRevision :
            revision = r ~> (persistedRevision >= r \/ saveFailure \/ revision < r)
=============================================================================
