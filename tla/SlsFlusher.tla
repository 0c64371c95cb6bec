----------------------------- MODULE SlsFlusher -----------------------------
(***************************************************************************)
(* The SLS output (src/flushers/sls-flusher.ts).  Every entry is fanned    *)
(* out to all endpoints and queued, in a bucket of its agent type where    *)
(* the endpoint has a service name; a timer, a full bucket or the shutdown *)
(* flushes a snapshot of all buckets through a pool of workers.  A Codex   *)
(* batch passes the queue by: it is posted at once and succeeds only when  *)
(* every endpoint has taken all of it.  A post is retried a few times; an  *)
(* endpoint may have taken logs whose answer got lost.                     *)
(*                                                                         *)
(* A log is a number, counted in the order of send(); one Codex batch per  *)
(* life of the flusher.  What an endpoint took and its counters are kept   *)
(* by bucket: a counter of the code is their sum over an endpoint.         *)
(***************************************************************************)
EXTENDS Naturals, Sequences, FiniteSets, SequencesExt

CONSTANTS
    Endpoints,         \* config.endpoints, 1 .. n in the order of the file
    ChunkLogs,         \* endpoint -> most logs of a request, WEBTRACKING_MAX_LOGS
    SplitByType,       \* endpoints with an effective service name
    AgentType,         \* entry -> its agent type, other than Codex
    MaxEntries,        \* bound: entries sent
    MaxDrops,          \* bound: times the failure log drops a record
    CodexLogs,         \* records of the Codex batch
    BatchMaxSize,      \* BATCH_MAX_SIZE
    FlushConcurrency,  \* resolvedFlushConcurrency
    RetryMaxAttempts   \* resolvedRetryMaxAttempts

ASSUME FlusherAssumption ==
    /\ IsFiniteSet(Endpoints) /\ Endpoints = 1 .. Cardinality(Endpoints) /\ Endpoints # {}
    /\ ChunkLogs \in [Endpoints -> Nat \ {0}]
    /\ {MaxEntries, MaxDrops} \subseteq Nat
    /\ SplitByType \subseteq Endpoints
    /\ AgentType \in [1 .. MaxEntries -> STRING] /\ "codex" \notin Range(AgentType)
    /\ {CodexLogs, BatchMaxSize, FlushConcurrency, RetryMaxAttempts} \subseteq Nat \ {0}

Entries == 1 .. MaxEntries

\* The bucket an entry is queued in at an endpoint. The records of a Codex batch
\* are never queued; here they have a bucket of their own, which stays empty.
Bucket(e, n) == <<e, IF e \in SplitByType THEN AgentType[n] ELSE "any">>
BucketsOf(n) == {Bucket(e, n) : e \in Endpoints}
CodexBuckets == {<<e, "codex">> : e \in Endpoints}
Buckets == (UNION {BucketsOf(n) : n \in Entries}) \cup CodexBuckets

VARIABLES
    sent,       \* entries passed to send() so far
    queue,      \* bucket -> the entries in it
    job,        \* kind, bucket -> the task of a flush or of a Codex batch
    inEntries, outEntries, outFailed,  \* the counters of an endpoint
    codex,      \* the Codex batch: "idle", "sending", "accepted" or "rejected"
    failed,     \* did an endpoint fail it?
    aborted,    \* its AbortSignal
    phase,      \* "up", "draining" (shutdown() waits for its flush) or "down"
    \* History.
    arrived,    \* bucket -> its entries in the order the endpoint took them first
    arrivedCodex,  \* bucket -> records of the Codex batch the endpoint took
    logged,     \* bucket -> logs counted in the failure log
    dropped,    \* bucket -> logs whose record the failure log did not take or keep
    drops,      \* how often it dropped one
    met         \* did shutdown() meet a flush in progress?

failureLog == <<logged, dropped, drops>>
counters == <<inEntries, outEntries, outFailed, failureLog>>
backend == <<arrived, arrivedCodex>>
batch == <<codex, failed, aborted>>
vars == <<sent, queue, job, counters, batch, phase, backend, met>>

Kinds == {"flush", "codex"}
Batch == [n \in 1 .. CodexLogs |-> n]

\* at: the first log of the request under way, tries: its failed attempts,
\* ok, bad: logs of the task that were taken, or given up.
NoJob == [state |-> "none", logs |-> <<>>, at |-> 1, tries |-> 0, ok |-> 0, bad |-> 0]
Task(logs) == IF logs = <<>> THEN NoJob ELSE [NoJob EXCEPT !.state = "todo", !.logs = logs]

\* The flag of the same name: a flush ends with the last of its tasks.
flushing == \E b \in Buckets : job["flush"][b].state # "none"
Open(k) == {b \in Buckets : job[k][b].state = "open"}

FlusherInit ==
    /\ sent = 0
    /\ queue = [b \in Buckets |-> <<>>]
    /\ job = [k \in Kinds |-> [b \in Buckets |-> NoJob]]
    /\ inEntries = [b \in Buckets |-> 0]
    /\ outEntries = [b \in Buckets |-> 0] /\ outFailed = [b \in Buckets |-> 0]
    /\ codex = "idle" /\ failed = FALSE /\ aborted = FALSE
    /\ phase = "up"
    /\ arrived = [b \in Buckets |-> <<>>] /\ arrivedCodex = [b \in Buckets |-> {}]
    /\ logged = [b \in Buckets |-> 0] /\ dropped = [b \in Buckets |-> 0] /\ drops = 0
    /\ met = FALSE

-----------------------------------------------------------------------------
(* Queueing and flushing.                                                  *)

\* flush() takes a snapshot of the buckets and empties them.
Snapshot(buckets) == [job EXCEPT !["flush"] = [b \in Buckets |-> Task(buckets[b])]]

\* send(): the first bucket that is full flushes, before the entry is queued
\* for the endpoints behind it; the flush is skipped when one is in progress.
Send ==
    LET n == sent + 1
        with == [b \in Buckets |-> IF b \in BucketsOf(n) THEN Append(queue[b], n) ELSE queue[b]]
        full == {e \in Endpoints : Len(with[Bucket(e, n)]) >= BatchMaxSize}
        first == CHOOSE e \in full : \A f \in full : e <= f
        behind == {b \in BucketsOf(n) : b[1] > first}
    IN
    /\ phase = "up" /\ sent < MaxEntries
    /\ sent' = n
    /\ inEntries' = [b \in Buckets |-> inEntries[b] + (IF b \in BucketsOf(n) THEN 1 ELSE 0)]
    /\ IF full = {} \/ flushing
       THEN queue' = with /\ UNCHANGED job
       ELSE /\ job' = Snapshot([b \in Buckets |-> IF b \in behind THEN queue[b] ELSE with[b]])
            /\ queue' = [b \in Buckets |-> IF b \in behind THEN <<n>> ELSE <<>>]
    /\ UNCHANGED <<outEntries, outFailed, failureLog, batch, phase, backend, met>>

\* Mutant: the timer, too, waits until a bucket is full.
FlushBeginsFull ==
    /\ phase = "up" /\ ~flushing
    /\ \E b \in Buckets : Len(queue[b]) >= BatchMaxSize
    /\ job' = Snapshot(queue)
    /\ queue' = [b \in Buckets |-> <<>>]
    /\ UNCHANGED <<sent, counters, batch, phase, backend, met>>

FlushBegins ==
    /\ phase = "up" /\ ~flushing
    /\ \E b \in Buckets : queue[b] # <<>>
    /\ job' = Snapshot(queue)
    /\ queue' = [b \in Buckets |-> <<>>]
    /\ UNCHANGED <<sent, counters, batch, phase, backend, met>>

\* The tasks of a kind wait in the order in which send() filled their buckets.
Before(k, b, c) ==
    \/ Head(job[k][b].logs) < Head(job[k][c].logs)
    \/ Head(job[k][b].logs) = Head(job[k][c].logs) /\ b[1] <= c[1]

\* A worker of the pool takes the next task. The logs of a Codex batch are
\* counted as they are made, those of a cancelled one are not made.
TaskStarts(k, b) ==
    /\ phase # "down"
    /\ job[k][b].state = "todo" /\ Cardinality(Open(k)) < FlushConcurrency
    /\ \A c \in Buckets : job[k][c].state = "todo" => Before(k, b, c)
    /\ IF k = "codex" /\ aborted
       THEN /\ job' = [job EXCEPT ![k][b] = NoJob] /\ failed' = TRUE
            /\ UNCHANGED inEntries
       ELSE /\ job' = [job EXCEPT ![k][b].state = "open"] /\ UNCHANGED failed
            /\ inEntries' = IF k = "flush" THEN inEntries
                            ELSE [inEntries EXCEPT ![b] = @ + Len(job[k][b].logs)]
    /\ UNCHANGED <<sent, queue, outEntries, outFailed, failureLog, codex, aborted, phase,
                   backend, met>>

-----------------------------------------------------------------------------
(* One request of a task (flushViaAk, flushViaApiKey, postWebtracking).    *)

Last_(k, b) ==
    LET j == job[k][b] IN
    IF Len(j.logs) < j.at + ChunkLogs[b[1]] - 1 THEN Len(j.logs) ELSE j.at + ChunkLogs[b[1]] - 1
Chunk(k, b) == SubSeq(job[k][b].logs, job[k][b].at, Last_(k, b))

\* The endpoint takes the logs of the request, whatever the flusher learns;
\* what it took of an earlier attempt are copies.
Taken(b) == Range(Chunk("flush", b)) \subseteq Range(arrived[b])
Arrives(k, b) ==
    IF k = "flush"
    THEN /\ arrived' = IF Taken(b) THEN arrived
                       ELSE [arrived EXCEPT ![b] = @ \o Chunk(k, b)]
         /\ UNCHANGED arrivedCodex
    ELSE /\ arrivedCodex' = [arrivedCodex EXCEPT ![b] = @ \cup Range(Chunk(k, b))]
         /\ UNCHANGED arrived

\* Mutant: what a task returned counts as written, also when it gave up.
CountSettled(k, b, j) ==
    /\ job' = [job EXCEPT ![k][b] = NoJob]
    /\ outEntries' = [outEntries EXCEPT ![b] = @ + j.ok + j.bad]
    /\ UNCHANGED outFailed
    /\ failed' = (failed \/ (k = "codex" /\ j.bad > 0))

\* Mutant: a Codex batch fails only when nothing of it arrived anywhere.
CountPartial(k, b, j) ==
    /\ job' = [job EXCEPT ![k][b] = NoJob]
    /\ outEntries' = [outEntries EXCEPT ![b] = @ + j.ok]
    /\ outFailed' = [outFailed EXCEPT ![b] = @ + j.bad]
    /\ failed' = (failed \/ (k = "codex" /\ j.ok = 0))

\* The outcome of a finished task goes into the counters.
Count(k, b, j) ==
    /\ job' = [job EXCEPT ![k][b] = NoJob]
    /\ outEntries' = [outEntries EXCEPT ![b] = @ + j.ok]
    /\ outFailed' = [outFailed EXCEPT ![b] = @ + j.bad]
    /\ failed' = (failed \/ (k = "codex" /\ j.bad > 0))

\* The request is settled: the next one, or the end of the task.
Proceed(k, b, j) ==
    IF Last_(k, b) = Len(j.logs) THEN Count(k, b, j)
    ELSE /\ job' = [job EXCEPT ![k][b] = [j EXCEPT !.at = Last_(k, b) + 1, !.tries = 0]]
         /\ UNCHANGED <<outEntries, outFailed, failed>>

Posted(k, b) ==
    /\ Arrives(k, b)
    /\ Proceed(k, b, [job[k][b] EXCEPT !.ok = @ + Len(Chunk(k, b))])
    /\ UNCHANGED failureLog

\* Mutant: every failed attempt is counted in the failure log.
RetriesLogged(k, b) ==
    /\ job[k][b].tries + 1 < RetryMaxAttempts
    /\ Arrives(k, b) \/ UNCHANGED backend
    /\ job' = [job EXCEPT ![k][b].tries = @ + 1]
    /\ logged' = [logged EXCEPT ![b] = @ + Len(Chunk(k, b))]
    /\ UNCHANGED <<inEntries, outEntries, outFailed, dropped, drops, failed>>

\* An answer that is worth a retry, or none: the logs may have arrived.
Retries(k, b) ==
    /\ job[k][b].tries + 1 < RetryMaxAttempts
    /\ Arrives(k, b) \/ UNCHANGED backend
    /\ job' = [job EXCEPT ![k][b].tries = @ + 1]
    /\ UNCHANGED <<counters, failed>>

\* The failure log loses a record of n logs of a bucket.
Drops(b, n) ==
    /\ drops < MaxDrops /\ drops' = drops + 1
    /\ dropped' = [dropped EXCEPT ![b] = @ + n]

\* persistFailedLogs(), which does not look at the answer of the writer: the
\* record is appended, or dropped when the append fails or the directory is full;
\* sealed segments with earlier records are deleted to make room.
Persists(b, n) ==
    \/ logged' = [logged EXCEPT ![b] = @ + n] /\ UNCHANGED <<dropped, drops>>
    \/ Drops(b, n) /\ UNCHANGED logged
    \/ \E c \in Buckets : \E m \in 1 .. logged[c] :
          Drops(c, m) /\ logged' = [logged EXCEPT ![c] = @ - m, ![b] = @ + n]

\* The last attempt failed, or the endpoint refused for good.
GivesUp(k, b) ==
    /\ \/ job[k][b].tries + 1 = RetryMaxAttempts /\ Arrives(k, b)
       \/ UNCHANGED backend
    /\ Proceed(k, b, [job[k][b] EXCEPT !.bad = @ + Len(Chunk(k, b))])
    /\ Persists(b, Len(Chunk(k, b)))

\* Mutant: a cancelled batch counts as failed what was not taken.
CancelledRest(k, b) ==
    /\ k = "codex" /\ aborted
    /\ Arrives(k, b) \/ UNCHANGED backend
    /\ job' = [job EXCEPT ![k][b] = NoJob]
    /\ outFailed' = [outFailed EXCEPT ![b] = @ + Len(job[k][b].logs) - job[k][b].ok]
    /\ failed' = TRUE
    /\ UNCHANGED <<outEntries, failureLog>>

\* A Codex batch is cancelled: the whole task counts as failed.
Cancelled(k, b) ==
    /\ k = "codex" /\ aborted
    /\ Arrives(k, b) \/ UNCHANGED backend
    /\ job' = [job EXCEPT ![k][b] = NoJob]
    /\ outFailed' = [outFailed EXCEPT ![b] = @ + Len(job[k][b].logs)]
    /\ failed' = TRUE
    /\ UNCHANGED <<outEntries, failureLog>>

\* Mutant: entries that could not be sent go back into the queue.
RequestRequeueing(k, b) ==
    /\ phase # "down"
    /\ job[k][b].state = "open" /\ ~(k = "codex" /\ aborted)
    /\ \/ (Posted(k, b) \/ Retries(k, b)) /\ UNCHANGED queue
       \/ /\ k = "flush" /\ queue' = [queue EXCEPT ![b] = @ \o Chunk(k, b)]
          /\ job' = [job EXCEPT ![k][b] = NoJob]
          /\ UNCHANGED <<outEntries, outFailed, failureLog, failed, backend>>
    /\ UNCHANGED <<sent, inEntries, codex, aborted, phase, met>>

Request(k, b) ==
    /\ phase # "down"
    /\ job[k][b].state = "open"
    /\ \/ ~(k = "codex" /\ aborted) /\ (Posted(k, b) \/ Retries(k, b) \/ GivesUp(k, b))
       \/ Cancelled(k, b)
    /\ UNCHANGED <<sent, queue, inEntries, codex, aborted, phase, met>>

-----------------------------------------------------------------------------
(* Codex batches and the shutdown.                                         *)

CodexBegins ==
    /\ phase = "up" /\ codex = "idle"
    /\ IF aborted THEN codex' = "rejected" /\ UNCHANGED job
       ELSE /\ codex' = "sending"
            /\ job' = [job EXCEPT !["codex"] = [b \in Buckets |->
                          Task(IF b \in CodexBuckets THEN Batch ELSE <<>>)]]
    /\ UNCHANGED <<sent, queue, counters, failed, aborted, phase, backend, met>>

CodexEnds ==
    /\ phase # "down" /\ codex = "sending"
    /\ \A b \in Buckets : job["codex"][b].state = "none"
    /\ codex' = IF failed \/ aborted THEN "rejected" ELSE "accepted"
    /\ UNCHANGED <<sent, queue, job, counters, failed, aborted, phase, backend, met>>

\* cancelPendingOutputs() of the shutdown, or the rejection of an output.
Abort ==
    /\ phase = "up" /\ ~aborted
    /\ aborted' = TRUE
    /\ UNCHANGED <<sent, queue, job, counters, codex, failed, phase, backend, met>>

\* Mutant: a shutdown that meets a flush takes it for its own.
ShutdownUnflushed ==
    /\ phase = "up" /\ codex # "sending"
    /\ met' = flushing
    /\ phase' = "down"
    /\ UNCHANGED <<sent, queue, job, counters, batch, backend>>

\* shutdown(), when the batches of all inputs are done: its flush() returns at
\* once when one is in progress, and the process exits.
Shutdown ==
    /\ phase = "up" /\ codex # "sending"
    /\ met' = flushing
    /\ IF flushing THEN phase' = "down" /\ UNCHANGED <<job, queue>>
       ELSE /\ phase' = "draining"
            /\ job' = Snapshot(queue)
            /\ queue' = [b \in Buckets |-> <<>>]
    /\ UNCHANGED <<sent, counters, batch, backend>>

Exits ==
    /\ phase = "draining" /\ ~flushing
    /\ phase' = "down"
    /\ UNCHANGED <<sent, queue, job, counters, batch, backend, met>>

FlusherNext ==
    \/ Send \/ FlushBegins
    \/ \E k \in Kinds, b \in Buckets : TaskStarts(k, b) \/ Request(k, b)
    \/ CodexBegins \/ CodexEnds \/ Abort \/ Shutdown \/ Exits
FlusherSpec == FlusherInit /\ [][FlusherNext]_vars

\* The timer fires, workers go on, and every request is answered or times out.
FairFlusherSpec ==
    /\ FlusherSpec
    /\ WF_vars(FlushBegins)
    /\ WF_vars(\E b \in Buckets : TaskStarts("flush", b))
    /\ WF_vars(\E b \in Buckets : Request("flush", b))

-----------------------------------------------------------------------------
(* Properties.                                                             *)

\* Every variable keeps its type, at most FlushConcurrency tasks of a kind are
\* under way, and a task has settled what lies before its request.
Jobs == [state : {"none", "todo", "open"}, logs : Seq(Nat), at : Nat \ {0},
         tries : 0 .. RetryMaxAttempts - 1, ok : Nat, bad : Nat]
JobOK(j) ==
    /\ j.state = "none" <=> j.logs = <<>>
    /\ j.at <= Len(j.logs) + 1 /\ j.ok + j.bad = j.at - 1
FlusherTypeOK ==
    /\ sent \in 0 .. MaxEntries
    /\ queue \in [Buckets -> Seq(Entries)]
    /\ job \in [Kinds -> [Buckets -> Jobs]]
    /\ \A k \in Kinds : Cardinality(Open(k)) <= FlushConcurrency
    /\ \A k \in Kinds, b \in Buckets : JobOK(job[k][b])
    /\ {inEntries, outEntries, outFailed, logged, dropped} \subseteq [Buckets -> Nat]
    /\ drops \in 0 .. MaxDrops
    /\ codex \in {"idle", "sending", "accepted", "rejected"}
    /\ {failed, aborted, met} \subseteq BOOLEAN
    /\ phase \in {"up", "draining", "down"}
    /\ arrived \in [Buckets -> Seq(Entries)]
    /\ arrivedCodex \in [Buckets -> SUBSET (1 .. CodexLogs)]

\* What came in is written, failed, queued or on its way, per bucket.
Unsettled(b) ==
    Len(queue[b]) + Len(job["flush"][b].logs)
    + (IF job["codex"][b].state = "open" THEN Len(job["codex"][b].logs) ELSE 0)
Accounted == \A b \in Buckets :
    inEntries[b] = outEntries[b] + outFailed[b] + Unsettled(b)

\* "counting here on resolution alone would bill every dropped batch as
\* written" (flush()): no more is counted as written than the endpoint took.
BilledIsWritten == \A b \in Buckets :
    outEntries[b] <= Cardinality(Range(arrived[b])) + Cardinality(arrivedCodex[b])

\* Every failed log, but those of a cancelled batch, was told to the failure log
\* once: its record is there, or was dropped (SlsFailureLogWriter.write()).
FailuresLogged == \A b \in Buckets :
    ~aborted => outFailed[b] + job["flush"][b].bad + job["codex"][b].bad = logged[b] + dropped[b]

\* The entries of a bucket -- an endpoint, or one agent type of an endpoint with
\* a service name -- arrive in the order of send(), as far as they arrive: only
\* copies of what a retry posted again come late.
Increasing(s) == \A i, j \in 1 .. Len(s) : i < j => s[i] < s[j]
ArriveInOrder == \A b \in Buckets : Increasing(arrived[b])

\* No more is counted as written than arrived before the requests under way.
CodexTaken(b) ==
    LET j == job["codex"][b] IN
    Cardinality(IF j.state = "none" THEN arrivedCodex[b] ELSE arrivedCodex[b] \cap 1 .. j.at - 1)
FlushTaken(b) ==
    Len(arrived[b]) - (IF Taken(b) THEN Last_("flush", b) + 1 - job["flush"][b].at ELSE 0)
BilledBeforeRequest == \A b \in Buckets :
    outEntries[b] + job["flush"][b].ok + job["codex"][b].ok <= FlushTaken(b) + CodexTaken(b)

\* The entries that came, those of the task and the queued ones are in the
\* order of send(), and none of a bucket is in two places, but those that an
\* attempt brought whose answer is still to come.
EntriesInOrder == \A b \in Buckets :
    LET j == job["flush"][b]
        next == IF Taken(b) THEN Last_("flush", b) + 1 ELSE j.at
    IN
    /\ Increasing(j.logs) /\ Increasing(queue[b])
    /\ \A i \in 1 .. Len(queue[b]) :
          /\ queue[b][i] <= sent
          /\ \A m \in 1 .. Len(j.logs) : j.logs[m] < queue[b][i]
          /\ \A m \in 1 .. Len(arrived[b]) : arrived[b][m] < queue[b][i]
    /\ \A i \in 1 .. Len(j.logs) : j.logs[i] \in 1 .. sent
    /\ \A m \in 1 .. Len(arrived[b]) : arrived[b][m] <= sent
    /\ \A i \in next .. Len(j.logs), m \in 1 .. Len(arrived[b]) : arrived[b][m] < j.logs[i]

\* Where a Codex batch stands: what was settled of it arrived at every
\* endpoint, or the batch has failed.
CodexProgress == \A b \in Buckets :
    LET j == job["codex"][b] IN
    /\ codex = "idle" => arrivedCodex[b] = {}
    /\ j.state # "none" => codex = "sending" /\ j.logs = Batch
    /\ j.state # "none" /\ j.bad = 0 => 1 .. j.at - 1 \subseteq arrivedCodex[b]
    /\ b \in CodexBuckets /\ j.state = "none" /\ codex = "sending" /\ ~failed /\ ~aborted =>
          arrivedCodex[b] = 1 .. CodexLogs

\* A shutdown waits for the Codex batch, and empties the queue or met a flush.
ShutdownEmptied ==
    phase # "up" =>
        /\ codex # "sending"
        /\ ~met => \A b \in Buckets : queue[b] = <<>>
        /\ ~met /\ phase = "down" => ~flushing

\* The books of the flusher balance: they and the failure log tell of the
\* endpoints what happened to each log, none counted as written that did not
\* arrive, in the order it came (metrics counters of flush() and
\* sendCodexBatch(), SlsFailureLogWriter).
BooksBalance ==
    /\ FlusherTypeOK /\ Accounted /\ BilledIsWritten /\ FailuresLogged /\ ArriveInOrder
    /\ BilledBeforeRequest /\ EntriesInOrder /\ CodexProgress /\ ShutdownEmptied

\* "A Codex cursor must not advance until its configured log output accepts
\* the batch": accepted means that every endpoint took every record.
AcceptedIsWritten ==
    codex = "accepted" => \A b \in CodexBuckets : arrivedCodex[b] = 1 .. CodexLogs

\* A shutdown that does not meet a flush in progress leaves nothing unsettled.
ShutdownSettles == phase = "down" /\ ~met => \A b \in Buckets : Unsettled(b) = 0

\* While the flusher is up, every entry is written or given up in the end.
Pending(n) == \E b \in Buckets : n \in Range(queue[b]) \cup Range(job["flush"][b].logs)
EntriesSettle == \A n \in Entries : Pending(n) ~> ~Pending(n) \/ phase # "up"
=============================================================================
