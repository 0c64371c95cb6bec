-------------------------- MODULE DurableDelivery ---------------------------
(***************************************************************************)
(* From an agent's log to the outputs: the collection cycle of every input *)
(* (src/inputs/base/base-input.ts), the per-input FIFO that hands batches  *)
(* to the outputs (src/core/input-manager.ts, src/flushers/multi-flusher)  *)
(* and the one StateStore all inputs share.  A Codex input emits a batch,  *)
(* which takes a hold on the store, and moves its cursor afterwards; every *)
(* other input moves its cursor while it collects and emits later.         *)
(* The StateStore part keeps no extra keys here; an offset is the number   *)
(* of records read.                                                        *)
(***************************************************************************)
EXTENDS StateStore, Sequences

CONSTANTS
    Codex,          \* inputs of agent type Codex, a subset of Inputs
    Outputs,        \* configured flushers
    DurableOutputs, \* those that report a lost Codex batch by a durability error
    NoHold,         \* the hold of a batch that takes none
    MaxRecords      \* bound: records an agent writes

ASSUME DurableDeliveryAssumption ==
    /\ Codex \subseteq Inputs
    /\ DurableOutputs \subseteq Outputs
    /\ NoHold \notin Holds
    /\ MaxRecords \in Nat
    /\ 0 .. MaxRecords \subseteq Offsets

VARIABLES
    produced,  \* records in the agent's own log
    cycle,     \* the input's cycle: "idle" | "collect" | "advance" | "emit" | "save" | "wait"
    from, to,  \* the records (from, to] of the cycle's batch
    queue,     \* entryQueues: batches chained per input, the head is in the outputs
    result,    \* what the outputs did with the head: "open" | "ok" | "failed"
    accepted,  \* records each output has taken (survives the daemon)
    handed     \* history: last record handed to the queue in this lifetime

delivery == <<produced, cycle, from, to, queue, result, accepted, handed>>
allvars == <<vars, delivery>>

OffsetIn(map, i) == IF map[i] = Absent THEN 0 ELSE map[i].offset
\* Mutant: a batch starts at the last record of the previous one.
BatchOverlapping(i, hold_) == [first |-> from[i], last |-> to[i], hold |-> hold_]

Batch(i, hold_) == [first |-> from[i] + 1, last |-> to[i], hold |-> hold_]
Records(batch) == batch.first .. batch.last
AllOpen == [o \in Outputs |-> "open"]

DeliveryInit ==
    /\ Init
    /\ produced = [i \in Inputs |-> 0]
    /\ cycle = [i \in Inputs |-> "idle"]
    /\ from = [i \in Inputs |-> 0]
    /\ to = [i \in Inputs |-> 0]
    /\ queue = [i \in Inputs |-> <<>>]
    /\ result = [i \in Inputs |-> AllOpen]
    /\ accepted = [o \in Outputs |-> [i \in Inputs |-> {}]]
    /\ handed = [i \in Inputs |-> 0]

\* The agent appends to its log; the daemon has no part in it.
Produce(i) ==
    /\ produced[i] < MaxRecords
    /\ produced' = [produced EXCEPT ![i] = @ + 1]
    /\ UNCHANGED <<store, cycle, from, to, queue, result, accepted, handed>>

-----------------------------------------------------------------------------
(* One collection cycle.                                                   *)

\* runCycle(): one cycle at a time, and none after a latched failure.
\* collect() then reads what the log holds beyond the in-memory cursor.
StartCycle(i) ==
    /\ cycle[i] = "idle"
    /\ ~saveFailure
    /\ cycle' = [cycle EXCEPT ![i] = "collect"]
    /\ UNCHANGED <<store, produced, from, to, queue, result, accepted, handed>>

\* Mutant: reading starts at the cursor of the checkpoint file.
CollectFromDisk(i) ==
    /\ cycle[i] = "collect"
    /\ from' = [from EXCEPT ![i] = OffsetIn(disk, i)]
    /\ to' = [to EXCEPT ![i] = produced[i]]
    /\ cycle' = [cycle EXCEPT ![i] =
          IF produced[i] <= OffsetIn(disk, i) THEN "save"
          ELSE IF i \in Codex THEN "emit" ELSE "advance"]
    /\ UNCHANGED <<store, produced, queue, result, accepted, handed>>

Collect(i) ==
    /\ cycle[i] = "collect"
    /\ from' = [from EXCEPT ![i] = OffsetIn(states, i)]
    /\ to' = [to EXCEPT ![i] = produced[i]]
    /\ cycle' = [cycle EXCEPT ![i] =
          IF produced[i] <= OffsetIn(states, i) THEN "save"
          ELSE IF i \in Codex THEN "emit" ELSE "advance"]
    /\ UNCHANGED <<store, produced, queue, result, accepted, handed>>

\* emit('entries'), handled synchronously by InputManager: dropped after a
\* failure, else chained behind the input's earlier batches; a Codex batch
\* holds the checkpoint until it has been handled.
Enqueue(i, batch) ==
    /\ queue' = [queue EXCEPT ![i] = Append(@, batch)]
    /\ handed' = [handed EXCEPT ![i] = to[i]]

\* Mutant: no batch takes a hold.
EmitWithoutHold(i) ==
    /\ cycle[i] = "emit"
    /\ cycle' = [cycle EXCEPT ![i] = IF i \in Codex THEN "advance" ELSE "save"]
    /\ \/ saveFailure /\ UNCHANGED <<store, queue, handed>>
       \/ ~saveFailure /\ Enqueue(i, Batch(i, NoHold)) /\ UNCHANGED store
    /\ UNCHANGED <<produced, from, to, result, accepted>>

Emit(i) ==
    /\ cycle[i] = "emit"
    /\ cycle' = [cycle EXCEPT ![i] = IF i \in Codex THEN "advance" ELSE "save"]
    /\ \/ /\ saveFailure
          /\ UNCHANGED <<store, queue, handed>>
       \/ /\ ~saveFailure /\ i \in Codex
          /\ \E h \in Holds : HoldSaveUntil(h) /\ Enqueue(i, Batch(i, h))
       \/ /\ ~saveFailure /\ i \notin Codex
          /\ Enqueue(i, Batch(i, NoHold))
          /\ UNCHANGED store
    /\ UNCHANGED <<produced, from, to, result, accepted>>

\* The cursor moves in memory: after the emission for Codex (saveCheckpoint),
\* while still collecting for the others (setOffset / setState in collect()).
Advance(i) ==
    /\ cycle[i] = "advance"
    /\ Update(i, to[i], NoExtra)
    /\ cycle' = [cycle EXCEPT ![i] = IF i \in Codex THEN "save" ELSE "emit"]
    /\ UNCHANGED <<produced, from, to, queue, result, accepted, handed>>

\* runCycleOnce ends with save(), which starts the shared writer, joins it,
\* resolves at once or rejects.
SaveCycle(i) ==
    /\ cycle[i] = "save"
    /\ cycle' = [cycle EXCEPT ![i] = IF SaveWaits THEN "wait" ELSE "idle"]
    /\ Save \/ (~SaveStarts /\ UNCHANGED store)
    /\ from' = [from EXCEPT ![i] = 0]
    /\ to' = [to EXCEPT ![i] = 0]
    /\ UNCHANGED <<produced, queue, result, accepted, handed>>

\* collect() throws, before or after it moved the cursor or (Codex) emitted
\* the batch: the cycle is over and nothing is saved.
CollectFails(i) ==
    /\ cycle[i] \in {"collect", "advance", "emit"}
    /\ cycle' = [cycle EXCEPT ![i] = "idle"]
    /\ from' = [from EXCEPT ![i] = 0]
    /\ to' = [to EXCEPT ![i] = 0]
    /\ UNCHANGED <<store, produced, queue, result, accepted, handed>>

EndCycle(i) ==
    /\ cycle[i] = "wait"
    /\ saver \in {"none", "settled"}
    /\ cycle' = [cycle EXCEPT ![i] = "idle"]
    /\ UNCHANGED <<store, produced, from, to, queue, result, accepted, handed>>

-----------------------------------------------------------------------------
(* The head of an input's queue in the outputs (MultiFlusher.sendBatch:    *)
(* all of them in parallel, and it waits for all).                         *)

Take(i, o) ==
    /\ queue[i] # <<>>
    /\ result[i][o] = "open"
    /\ result' = [result EXCEPT ![i][o] = "ok"]
    /\ accepted' = [accepted EXCEPT ![o][i] = @ \cup Records(Head(queue[i]))]
    /\ UNCHANGED <<store, produced, cycle, from, to, queue, handed>>

\* Retries are exhausted, the send is cancelled, or the answer got lost after
\* some of the records arrived.
Fail(i, o) ==
    /\ queue[i] # <<>>
    /\ result[i][o] = "open"
    /\ result' = [result EXCEPT ![i][o] = "failed"]
    /\ \E n \in 0 .. Head(queue[i]).last :
          accepted' = [accepted EXCEPT ![o][i] =
                          @ \cup (Head(queue[i]).first .. n)]
    /\ UNCHANGED <<store, produced, cycle, from, to, queue, handed>>

\* Mutant: durability errors are swallowed like all others.
DurableFailureSwallowed(i) == FALSE

\* dispatchEntries swallows every failure but a durability error, which
\* rejects the hold of the batch.
DurableFailure(i) == \E o \in DurableOutputs : result[i][o] = "failed"

Finish(i) ==
    /\ queue[i] # <<>>
    /\ \A o \in Outputs : result[i][o] # "open"
    /\ queue' = [queue EXCEPT ![i] = Tail(@)]
    /\ result' = [result EXCEPT ![i] = AllOpen]
    /\ LET h == Head(queue[i]).hold
       IN  \/ h = NoHold /\ UNCHANGED store
           \/ h # NoHold /\ DurableFailure(i) /\ Reject(h)
           \/ h # NoHold /\ ~DurableFailure(i) /\ Accept(h)
    /\ UNCHANGED <<produced, cycle, from, to, accepted, handed>>

-----------------------------------------------------------------------------
\* The shared writer and the disk.
Store ==
    /\ HoldsSettled \/ HoldsRejected \/ WriteLands \/ WriteFails
          \/ WriteResolves \/ SaveCleared
    /\ UNCHANGED delivery

\* The process dies and starts again: queues and cycles are gone.
Restart ==
    /\ Crash
    /\ cycle' = [i \in Inputs |-> "idle"]
    /\ from' = [i \in Inputs |-> 0]
    /\ to' = [i \in Inputs |-> 0]
    /\ queue' = [i \in Inputs |-> <<>>]
    /\ result' = [i \in Inputs |-> AllOpen]
    /\ handed' = [i \in Inputs |-> OffsetIn(disk, i)]
    /\ UNCHANGED <<produced, accepted>>

DeliveryNext ==
    \/ \E i \in Inputs :
          \/ Produce(i) \/ StartCycle(i) \/ Collect(i) \/ Emit(i)
          \/ Advance(i) \/ CollectFails(i) \/ SaveCycle(i) \/ EndCycle(i) \/ Finish(i)
          \/ \E o \in Outputs : Take(i, o) \/ Fail(i, o)
    \/ Store
    \/ Restart

DeliverySpec == DeliveryInit /\ [][DeliveryNext]_allvars

\* Poll timers start cycles again and again, awaited calls settle, and reads
\* of a log or writes of the file that fail now and then also succeed.
DeliveryFairness ==
    /\ \A i \in Inputs :
          /\ WF_allvars(StartCycle(i)) /\ SF_allvars(Collect(i))
          /\ SF_allvars(Emit(i)) /\ SF_allvars(Advance(i))
          /\ WF_allvars(SaveCycle(i)) /\ SF_allvars(EndCycle(i))
          /\ WF_allvars(Finish(i))
          /\ \A o \in Outputs : WF_allvars(Take(i, o) \/ Fail(i, o))
    /\ WF_allvars(Store)
    /\ SF_allvars(HoldsSettled /\ ~waitingForOutput /\ UNCHANGED delivery)
    /\ SF_allvars(WriteLands /\ UNCHANGED delivery)

FairDeliverySpec == DeliverySpec /\ DeliveryFairness
-----------------------------------------------------------------------------
Batches == [first : 1 .. MaxRecords, last : 1 .. MaxRecords, hold : Holds \cup {NoHold}]

DeliveryTypeOK ==
    /\ TypeOK
    /\ produced \in [Inputs -> 0 .. MaxRecords]
    /\ cycle \in [Inputs -> {"idle", "collect", "advance", "emit", "save", "wait"}]
    /\ from \in [Inputs -> 0 .. MaxRecords]
    /\ to \in [Inputs -> 0 .. MaxRecords]
    /\ queue \in [Inputs -> Seq(Batches)]
    /\ result \in [Inputs -> [Outputs -> {"open", "ok", "failed"}]]
    /\ accepted \in [Outputs -> [Inputs -> SUBSET (1 .. MaxRecords)]]
    /\ handed \in [Inputs -> 0 .. MaxRecords]

\* "A Codex cursor must not advance until its configured log output accepts
\* the batch" (base-flusher.ts): whatever a restart would read as the Codex
\* cursor, every output that reports durability errors has taken all records
\* up to it. (A JsonlFlusher does not report them: what it fails to write is
\* behind the cursor all the same.)
CodexCursorCovered ==
    \A i \in Codex, o \in DurableOutputs : 1 .. OffsetIn(disk, i) \subseteq accepted[o][i]

\* Cursors only move forward, from the file over a write in progress to memory.
CursorsAdvance ==
    \A i \in Inputs :
        /\ {OffsetIn(disk, i), OffsetIn(snapshot, i), OffsetIn(states, i)} \subseteq 0 .. MaxRecords
        /\ OffsetIn(disk, i) <= OffsetIn(states, i)
        /\ saver = "writing" => /\ OffsetIn(disk, i) <= OffsetIn(snapshot, i)
                                /\ OffsetIn(snapshot, i) <= OffsetIn(states, i)

\* A cycle under way begins where the cursor in memory stands, or has moved it,
\* and no batch is ahead of its agent.
CyclesFollowCursor ==
    \A i \in Inputs :
        /\ cycle[i] \in {"emit", "advance"} => from[i] < to[i] /\ to[i] <= produced[i]
        /\ cycle[i] = "emit" /\ i \notin Codex => OffsetIn(states, i) = to[i]
        /\ cycle[i] = "advance" \/ (cycle[i] = "emit" /\ i \in Codex)
              => OffsetIn(states, i) = from[i]
        /\ \A n \in 1 .. Len(queue[i]) : queue[i][n].last <= produced[i]

\* The last record handed out is not behind a Codex cursor while nothing has
\* failed, and not ahead of the cursor of any other input.
HandedTracked ==
    \A i \in Inputs :
        IF i \in Codex
          THEN saveFailure \/ /\ OffsetIn(states, i) <= handed[i]
                              /\ cycle[i] = "advance" => to[i] <= handed[i]
          ELSE /\ handed[i] <= OffsetIn(states, i)
               /\ cycle[i] = "emit" => handed[i] <= from[i]

\* Every Codex batch in a queue has a pending hold of its own, no other has any.
BatchesHeld ==
    /\ \A i \in Inputs : \A n \in 1 .. Len(queue[i]) :
          IF i \in Codex THEN /\ queue[i][n].hold \in Holds
                              /\ hold[queue[i][n].hold] = "pending"
                         ELSE queue[i][n].hold = NoHold
    /\ \A i, j \in Codex : \A m \in 1 .. Len(queue[i]), n \in 1 .. Len(queue[j]) :
          queue[i][m].hold = queue[j][n].hold => i = j /\ m = n

InQueue(i, r) == \E n \in 1 .. Len(queue[i]) : r \in Records(queue[i][n])

\* A record a Codex cursor has passed, or is about to, is taken by every
\* durable output or still queued, until a failure stops all writes; one that
\* a write in progress carries is taken.
PassedIsTakenOrQueued ==
    /\ \A i \in Inputs, o \in Outputs :
          /\ queue[i] = <<>> => result[i][o] = "open"
          /\ queue[i] # <<>> /\ result[i][o] = "ok" =>
                Records(Head(queue[i])) \subseteq accepted[o][i]
    /\ \A i \in Codex, o \in DurableOutputs :
          /\ saver = "writing" => 1 .. OffsetIn(snapshot, i) \subseteq accepted[o][i]
          /\ ~saveFailure => \A r \in 1 .. OffsetIn(states, i) : r \in accepted[o][i] \/ InQueue(i, r)
          /\ ~saveFailure /\ cycle[i] = "advance" =>
                \A r \in 1 .. to[i] : r \in accepted[o][i] \/ InQueue(i, r)

\* The delivery is sound: cursors and batches stay within what the agents
\* wrote, and the durable Codex cursor is covered (base-input.ts,
\* input-manager.ts, multi-flusher.ts over state-store.ts).
DeliveryInv ==
    /\ DeliveryTypeOK
    /\ CodexCursorCovered
    /\ CursorsAdvance
    /\ CyclesFollowCursor
    /\ HandedTracked
    /\ BatchesHeld
    /\ PassedIsTakenOrQueued

\* Within a lifetime a collection that fails half way costs an input that
\* moves its cursor first some records, and makes Codex, which emits first,
\* repeat some: neither hands out of order, Codex leaves no gap and the
\* others repeat nothing.
HandedInOrder ==
    [][\A i \in Inputs :
          crashes' = crashes /\ queue'[i] # queue[i] /\ handed'[i] = to[i]
              /\ Len(queue'[i]) > Len(queue[i])
          => IF i \in Codex THEN from[i] <= handed[i] ELSE from[i] >= handed[i]]_allvars

\* What a Codex agent writes reaches every output and the durable cursor in
\* the end, unless an output reports a durability error or is for ever busy.
CodexRecordsCheckpointed ==
    []<>(~waitingForOutput) =>
        \A i \in Codex, n \in 1 .. MaxRecords :
            produced[i] >= n ~> (OffsetIn(disk, i) >= n \/ saveFailure)

\* The delivery of the Codex inputs implements the abstract promise.
Promise == INSTANCE AtLeastOnce WITH
    Sources <- Codex,
    Outputs <- DurableOutputs,
    produced <- [i \in Codex |-> produced[i]],
    taken <- [o \in DurableOutputs |-> [i \in Codex |-> accepted[o][i]]],
    cursor <- [i \in Codex |-> OffsetIn(disk, i)]
ImplementsAtLeastOnce == Promise!Spec
=============================================================================
