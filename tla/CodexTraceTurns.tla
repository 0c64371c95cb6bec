--------------------------- MODULE CodexTraceTurns ---------------------------
(***************************************************************************)
(* The turn buffers of OtlpTraceFlusher (src/flushers/                     *)
(* otlp-trace-flusher.ts) for Codex, over the turn journal: a batch is     *)
(* journaled before it is buffered, a turn is exported as one trace when   *)
(* its terminal record is in, and acknowledged when the export succeeded.  *)
(*                                                                         *)
(* One Codex input sends, one batch at a time; other inputs' batches are   *)
(* seen through batchDepth only.  A batch holds records of one turn.  The  *)
(* input's own side is its cursor: held while a batch is unresolved,       *)
(* frozen for good by one that fails.  The wait of sendBatch() for the     *)
(* exports it started is left out, so a cursor may be saved before them.   *)
(***************************************************************************)
EXTENDS CodexTurnJournal

CONSTANT
    MaxCrash    \* crashes, bound of the model

ASSUME TraceTurnsAssumption == MaxCrash \in Nat

VARIABLES
    buffer,       \* turnBuffers: records of an open turn, {} when it has none
    spilled,      \* turns of which only the event ids are in memory
    flushed,      \* flushedTurnKeys
    sender,       \* sendBatch() of the Codex input: "idle" | "check" | "append" | "buffer" | "finish"
    batch,        \* what it sends
    others,       \* another input's sendBatch() counts in batchDepth
    plainWaiting, \* a completed turn of another agent is buffered
    toRestore,    \* groups replayCodexJournal() has yet to yield at the start
    exporting,    \* records handed to flushSingleTurn(), {} when none
    exported,     \* records any successful export contained (history)
    emitted,      \* cursor of the input in memory
    saved,        \* cursor on disk
    latched,      \* a batch has failed: the cursor is not saved any more
    ahead,        \* turns with a batch handled after one had failed (history)
    forgotten,    \* turns whose ACK was trimmed, nothing appended since (history)
    crashes

input == <<emitted, saved, latched, ahead>>
memory == <<buffer, spilled, flushed, plainWaiting>>
calls == <<sender, batch, others>>
vars == <<journal, memory, calls, toRestore, exporting, exported, input, forgotten, crashes>>

NoBatch == [turn |-> NoTurn, first |-> 1, last |-> 0]
BatchRecords == batch.first .. batch.last

TraceInit ==
    /\ JournalInit
    /\ buffer = [t \in Turns |-> {}]
    /\ spilled = {}
    /\ flushed = {}
    /\ sender = "idle" /\ batch = NoBatch
    /\ others = FALSE
    /\ plainWaiting = FALSE
    /\ toRestore = {}
    /\ exporting = [t \in Turns |-> {}]
    /\ exported = [t \in Turns |-> {}]
    /\ emitted = [t \in Turns |-> 0]
    /\ saved = [t \in Turns |-> 0]
    /\ latched = FALSE
    /\ ahead = {}
    /\ forgotten = {}
    /\ crashes = 0

\* batchDepth = 0
NoBatchInProgress == sender = "idle" /\ ~others

\* isTerminalEvent(): task_complete or turn_aborted was observed.
Completed(records) == Length \in records

\* spillCodexPayloads() after an append: any payloads may be too large to stay.
Spills(buffers) ==
    \E S \in SUBSET {t \in Turns : buffers[t] # {}} : spilled' = spilled \cup S

\* rehydrateCodexTurn(): what is journaled now of what was spilled then.
Rehydrated(t) == IF t \in spilled THEN exporting[t] \cap Retained(t) ELSE exporting[t]

\* flushCompleted(): every completed buffer goes to its export, and late
\* records of its turn will be dropped.
FlushCompleted(buffers) ==
    LET ready == {t \in Turns : Completed(buffers[t])} IN
    /\ buffer' = [t \in Turns |-> IF t \in ready THEN {} ELSE buffers[t]]
    /\ exporting' = [t \in Turns |-> IF t \in ready THEN buffers[t] ELSE exporting[t]]
    /\ flushed' = flushed \cup ready
    /\ plainWaiting' = FALSE

-----------------------------------------------------------------------------
(* The process.                                                            *)

\* The process dies and another begins: the files and the saved cursor are
\* what is left.
Crash ==
    /\ crashes < MaxCrash
    /\ crashes' = crashes + 1
    /\ JournalRestart
    /\ buffer' = [t \in Turns |-> {}]
    /\ spilled' = {}
    /\ flushed' = {}
    /\ sender' = "idle" /\ batch' = NoBatch
    /\ others' = FALSE
    /\ plainWaiting' = FALSE
    /\ toRestore' = {t \in Turns : Retained(t) # {}}
    /\ exporting' = [t \in Turns |-> {}]
    /\ emitted' = saved
    /\ latched' = FALSE
    /\ UNCHANGED <<exported, saved, ahead, forgotten>>

\* start(): each retained group is buffered, and exported when complete,
\* before any batch is taken.
RestoreTurn(t) ==
    /\ t \in toRestore
    /\ ackStep = "none"
    /\ toRestore' = toRestore \ {t}
    /\ Spills([buffer EXCEPT ![t] = Retained(t)])
    /\ FlushCompleted([buffer EXCEPT ![t] = Retained(t)])
    /\ UNCHANGED <<journal, calls, exported, input, forgotten, crashes>>

-----------------------------------------------------------------------------
(* sendBatch() of the Codex input.                                         *)

\* A batch comes out of the queue.  One that was emitted before an earlier one
\* failed is handled all the same: checkpointFailed is tested at emission.
SendBegins(t, n) ==
    /\ sender = "idle"
    /\ toRestore = {}
    /\ n \in emitted[t] + 1 .. Length
    /\ sender' = "check"
    /\ batch' = [turn |-> t, first |-> emitted[t] + 1, last |-> n]
    /\ emitted' = [emitted EXCEPT ![t] = n]
    /\ ahead' = IF latched THEN ahead \cup {t} ELSE ahead
    /\ UNCHANGED <<journal, memory, others, toRestore, exporting, exported, saved,
                   latched, forgotten, crashes>>

\* persistCodexEntries(): a turn without a buffer is either acknowledged, and
\* its records will be dropped, or gets its retained prefix back.
Check ==
    LET t == batch.turn
        unknown == buffer[t] = {} /\ t \notin flushed
    IN
    /\ sender = "check"
    /\ ackStep = "none"
    /\ sender' = "append"
    /\ flushed' = IF unknown /\ Acknowledged(t) THEN flushed \cup {t} ELSE flushed
    /\ buffer' = IF unknown THEN [buffer EXCEPT ![t] = Retained(t)] ELSE buffer
    /\ IF unknown /\ Retained(t) # {} THEN Spills(buffer') ELSE UNCHANGED spilled
    /\ UNCHANGED <<journal, plainWaiting, batch, others, toRestore, exporting,
                   exported, input, forgotten, crashes>>

\* journal.append() of the records whose turn is not flushed.
Appends ==
    /\ sender = "append"
    /\ sender' = "buffer"
    /\ IF batch.turn \in flushed
         THEN UNCHANGED <<journal, forgotten>>
         ELSE /\ AppendDone(batch.turn, BatchRecords)
              /\ forgotten' = forgotten \ {batch.turn}
    /\ UNCHANGED <<memory, batch, others, toRestore, exporting, exported, input, crashes>>

\* Mutant: the cursor is saved in spite of a failed append.
AppendsUnlatched ==
    /\ sender = "append"
    /\ batch.turn \notin flushed
    /\ AppendFails(batch.turn, BatchRecords)
    /\ sender' = "idle" /\ batch' = NoBatch
    /\ forgotten' = forgotten \ {batch.turn}
    /\ UNCHANGED <<memory, others, toRestore, exporting, exported, input, crashes>>

\* Mutant: the failed append is noted and its records are buffered all the same.
AppendsInVainBuffered ==
    /\ sender = "append"
    /\ batch.turn \notin flushed
    /\ AppendFails(batch.turn, BatchRecords)
    /\ sender' = "buffer"
    /\ latched' = TRUE
    /\ forgotten' = forgotten \ {batch.turn}
    /\ UNCHANGED <<memory, batch, others, toRestore, exporting, exported, emitted, saved, ahead,
                   crashes>>

\* The append fails: sendBatch() rejects, the records are not buffered, and
\* finishBatch() is not called.
AppendsInVain ==
    /\ sender = "append"
    /\ batch.turn \notin flushed
    /\ AppendFails(batch.turn, BatchRecords)
    /\ sender' = "idle" /\ batch' = NoBatch
    /\ latched' = TRUE
    /\ forgotten' = forgotten \ {batch.turn}
    /\ UNCHANGED <<memory, others, toRestore, exporting, exported, emitted, saved, ahead,
                   crashes>>

\* appendEntry() for each record; those of a flushed turn are dropped.
Buffers ==
    /\ sender = "buffer"
    /\ sender' = "finish"
    /\ IF batch.turn \in flushed THEN UNCHANGED <<buffer, spilled>>
       ELSE /\ buffer' = [buffer EXCEPT ![batch.turn] = @ \cup BatchRecords]
            /\ Spills(buffer')
    /\ UNCHANGED <<journal, flushed, plainWaiting, batch, others, toRestore, exporting,
                   exported, input, forgotten, crashes>>

\* Mutant: a batch flushes only when it completed its own turn.
FinishesOwn ==
    /\ sender = "finish"
    /\ sender' = "idle" /\ batch' = NoBatch
    /\ IF others \/ ~Completed(buffer[batch.turn]) THEN UNCHANGED <<memory, exporting>>
       ELSE FlushCompleted(buffer)
    /\ UNCHANGED <<journal, spilled, others, toRestore, exported, input, forgotten, crashes>>

\* finishBatch(): completed turns leave when no other batch is in progress.
Finishes ==
    /\ sender = "finish"
    /\ sender' = "idle" /\ batch' = NoBatch
    /\ IF others THEN UNCHANGED <<memory, exporting>> ELSE FlushCompleted(buffer)
    /\ UNCHANGED <<journal, spilled, others, toRestore, exported, input, forgotten, crashes>>

\* The input's cursor goes to disk, once the batches it covers are settled.
Saves ==
    /\ sender = "idle"
    /\ ~latched
    /\ saved # emitted
    /\ saved' = emitted
    /\ UNCHANGED <<journal, memory, calls, toRestore, exporting, exported, emitted,
                   latched, ahead, forgotten, crashes>>

-----------------------------------------------------------------------------
(* Other inputs, and the bounds on the buffers.                            *)

OtherBegins ==
    /\ toRestore = {}
    /\ ~others
    /\ others' = TRUE
    /\ UNCHANGED <<journal, memory, sender, batch, toRestore, exporting, exported, input,
                   forgotten, crashes>>

\* Its batch may have completed a turn of its own agent.
OtherFinishes(completes) ==
    /\ others
    /\ others' = FALSE
    /\ IF sender = "idle"
         THEN FlushCompleted(buffer)
         ELSE /\ plainWaiting' = (plainWaiting \/ completes)
              /\ UNCHANGED <<buffer, flushed, exporting>>
    /\ UNCHANGED <<journal, spilled, sender, batch, toRestore, exported, input, forgotten,
                   crashes>>

\* Mutant: a buffer may be dropped while a batch is in progress.
EvictsAnyTime(t) ==
    /\ buffer[t] # {}
    /\ ~Completed(buffer[t])
    /\ buffer' = [buffer EXCEPT ![t] = {}]
    /\ spilled' = spilled \ {t}
    /\ UNCHANGED <<journal, flushed, plainWaiting, calls, toRestore, exporting, exported,
                   input, forgotten, crashes>>

\* trimTurnBuffers() over the limit, or tickIdleTimeout(): an open Codex turn
\* leaves memory; the journal keeps it.
Evicts(t) ==
    /\ NoBatchInProgress
    /\ buffer[t] # {}
    /\ ~Completed(buffer[t])
    /\ buffer' = [buffer EXCEPT ![t] = {}]
    /\ spilled' = spilled \ {t}
    /\ UNCHANGED <<journal, flushed, plainWaiting, calls, toRestore, exporting, exported,
                   input, forgotten, crashes>>

-----------------------------------------------------------------------------
(* flushSingleTurn(): one Codex turn at a time, through the acknowledge.   *)

Leaves(t) == spilled' = spilled \ {t} /\ exporting' = [exporting EXCEPT ![t] = {}]

\* convertAndExport() returned true and acknowledge() writes the ACK.
Exports(t) ==
    /\ exporting[t] # {} /\ Rehydrated(t) # {}
    /\ exported' = [exported EXCEPT ![t] = @ \cup Rehydrated(t)]
    /\ Leaves(t)
    /\ AckWrites(t)
    /\ UNCHANGED <<buffer, flushed, plainWaiting, calls, toRestore, input, forgotten, crashes>>

\* It returned true, and the ACK could not be written.
ExportsUnacknowledged(t) ==
    /\ exporting[t] # {} /\ Rehydrated(t) # {}
    /\ ackStep = "none"
    /\ exported' = [exported EXCEPT ![t] = @ \cup Rehydrated(t)]
    /\ Leaves(t)
    /\ UNCHANGED <<journal, buffer, flushed, plainWaiting, calls, toRestore, input, forgotten,
                   crashes>>

\* It returned false, or there is nothing left to rehydrate: the turn waits in
\* the journal for the next start.
ExportFails(t) ==
    /\ exporting[t] # {}
    /\ ackStep = "none"
    /\ Leaves(t)
    /\ UNCHANGED <<journal, buffer, flushed, plainWaiting, calls, toRestore, exported, input,
                   forgotten, crashes>>

\* acknowledge() goes on, or one of its file operations fails.
Acknowledges ==
    /\ \/ AckUnlinks /\ UNCHANGED forgotten
       \/ TrimUnlinks /\ UNCHANGED forgotten
       \/ TrimForgets /\ forgotten' = forgotten \cup {Head(done)}
       \/ AckFails /\ UNCHANGED forgotten
    /\ UNCHANGED <<memory, calls, toRestore, exporting, exported, input, crashes>>

Next ==
    \/ Crash
    \/ \E t \in Turns : RestoreTurn(t) \/ Evicts(t)
    \/ \E t \in Turns : Exports(t) \/ ExportsUnacknowledged(t) \/ ExportFails(t)
    \/ \E t \in Turns, n \in Records : SendBegins(t, n)
    \/ Check \/ Appends \/ AppendsInVain \/ Buffers \/ Finishes
    \/ Saves
    \/ OtherBegins
    \/ \E completes \in BOOLEAN : OtherFinishes(completes)
    \/ Acknowledges

TraceSpec == TraceInit /\ [][Next]_vars

-----------------------------------------------------------------------------
(* Properties                                                              *)

\* A turn that is buffered or exported is not acknowledged already, and a
\* batch is under way exactly when the sender is busy.
TraceTypeOK ==
    /\ JournalTypeOK
    /\ buffer \in [Turns -> SUBSET Records]
    /\ exporting \in [Turns -> SUBSET Records]
    /\ exported \in [Turns -> SUBSET Records]
    /\ flushed \subseteq Turns
    /\ spilled \subseteq Turns
    /\ \A t \in spilled : buffer[t] \cup exporting[t] # {}
    /\ ahead \subseteq Turns /\ forgotten \subseteq Turns
    /\ emitted \in [Turns -> 0 .. Length]
    /\ saved \in [Turns -> 0 .. Length]
    /\ \A t \in Turns : saved[t] <= emitted[t]
    /\ (sender = "idle") <=> (batch = NoBatch)
    /\ \A t \in Turns : buffer[t] # {} => t \notin flushed /\ ~Acknowledged(t)
    /\ \A t \in Turns : exporting[t] # {} => t \in flushed

\* Delivery of a Codex record to the trace output is at least once: one that
\* the saved cursor has passed, and no restart will read again, is in the
\* journal or was in an export that succeeded -- unless a batch of its turn
\* was handled behind one that failed: it may have closed the turn without the
\* records of that one, which are dropped as late when they are read again.
CommittedRecoverable ==
    \A t \in Turns \ ahead : \A r \in 1 .. saved[t] : r \in Retained(t) \cup exported[t]

\* acknowledge() makes the journal forget a turn and later records of it are
\* dropped, so every record of the turn has been exported by then, with the
\* same exception.
AcknowledgedTurnsComplete ==
    \A t \in Turns \ ahead : Acknowledged(t) => exported[t] = Records

\* trimAcknowledgements() never leaves content behind that a restart would
\* take for a pending turn and export again.
ForgottenLeavesNothing == \A t \in forgotten : lines[t] = {}

\* "Release only payloads whose durable journal already owns every event": a
\* spilled turn can be rebuilt, up to the end of its export -- again but for
\* turns with a batch handled behind a failed append, which may have left half
\* a line before it.
SpilledIsJournaled ==
    \A t \in spilled \ ahead : buffer[t] \cup exporting[t] \subseteq Retained(t)

-----------------------------------------------------------------------------
(* The inductive invariant.                                                *)

\* The batch between its append and its appendEntry() calls, and the records
\* of it that are in the journal and not yet in the buffer.
Attended(t) == sender \in {"append", "buffer"} /\ batch.turn = t /\ t \notin flushed
Unbuffered(t) == IF sender = "buffer" /\ batch.turn = t THEN BatchRecords ELSE {}

\* Records of a turn whose batches are past their append.
Handled(t) ==
    IF sender \in {"check", "append"} /\ batch.turn = t THEN 1 .. batch.first - 1
                                                        ELSE 1 .. emitted[t]

\* Which steps may overlap: no batch is taken before the restore is over or
\* while one of the input is in progress, acknowledge() works on a turn that
\* memory has let go of, and an incomplete line in a file this process has
\* repaired is the work of an append that failed.
StepsOrdered ==
    /\ sender \in {"idle", "check", "append", "buffer", "finish"}
    /\ latched \in BOOLEAN /\ others \in BOOLEAN
    /\ sender # "idle" =>
          /\ batch \in [turn : Turns, first : Records, last : Records]
          /\ batch.last = emitted[batch.turn]
          /\ latched => batch.turn \in ahead
    /\ toRestore # {} => sender = "idle" /\ ~others
    /\ toRestore \subseteq {t \in Turns \ flushed : buffer[t] = {} /\ ~Acknowledged(t)}
    /\ \A t \in Turns : Attended(t) \/ exporting[t] # {} => ~Acknowledged(t)
    /\ \A t \in Turns : TailJoined(t) => latched
    /\ ackStep = "unlink" => ack \in Turns /\ Acknowledged(ack)
    /\ ackStep \in {"trim", "forget"} => Len(done) > AckLimit
    /\ ackStep = "forget" => lines[Head(done)] = {}

\* Of a turn without a batch behind a failed one, memory holds journaled
\* records only, and all of them while nothing has failed.
MemoryIsJournaled ==
    \A t \in Turns \ ahead :
        /\ buffer[t] \cup exporting[t] \subseteq Retained(t)
        /\ Attended(t) => Unbuffered(t) \subseteq Retained(t)
        /\ ~latched /\ (buffer[t] # {} \/ Attended(t)) =>
              Retained(t) \subseteq buffer[t] \cup Unbuffered(t)

\* No copy of such a turn has the terminal record and lacks an earlier one
\* that was never exported.
ClosedIsComplete ==
    \A t \in Turns \ ahead :
        /\ Length \in Retained(t) \/ t \in flushed => Retained(t) \cup exported[t] = Records
        /\ Length \in buffer[t] => buffer[t] \cup exported[t] = Records
        /\ exporting[t] # {} => exporting[t] \cup exported[t] = Records

\* While nothing has failed, every record handled is journaled or exported.
HandledIsSecured ==
    ~latched => \A t \in Turns \ ahead : Handled(t) \subseteq Retained(t) \cup exported[t]

\* What memory holds of a turn agrees with what its journal files say, which
\* the next start will believe (CodexTurnJournal, turnBuffers).
TraceInv ==
    /\ TraceTypeOK
    /\ ForgottenLeavesNothing
    /\ SpilledIsJournaled
    /\ StepsOrdered
    /\ MemoryIsJournaled
    /\ ClosedIsComplete
    /\ HandledIsSecured

\* A completed turn waits in the buffers only for a batch that is in
\* progress: the last batch to end flushes it -- unless an append failed, for a
\* batch that rejects ends without flushing what others left to it.
NoCompletedTurnLeftBehind ==
    NoBatchInProgress /\ toRestore = {} /\ ~latched =>
        ~plainWaiting /\ \A t \in Turns : ~Completed(buffer[t])
=============================================================================
