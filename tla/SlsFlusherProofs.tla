-------------------------- MODULE SlsFlusherProofs --------------------------
(***************************************************************************)
(* Proofs about the SLS output, for any number of endpoints, entries and   *)
(* records of a Codex batch, any sizes of requests and any limits.         *)
(***************************************************************************)
EXTENDS SlsFlusher, SequenceTheorems, FiniteSetTheorems, TLAPS

LEMMA BucketKinds ==
    \A b : b \in Buckets <=> b \in CodexBuckets \/ \E n \in Entries : b \in BucketsOf(n)
<1> DEFINE A == UNION {BucketsOf(n) : n \in Entries}
<1>1. \A b : b \in A <=> \E n \in Entries : b \in BucketsOf(n)
  OBVIOUS
<1>2. Buckets = A \cup CodexBuckets
  BY Zenon DEF Buckets
<1> HIDE DEF A
<1> QED BY <1>1, <1>2

\* What the proofs use of the assumption on the constants.
LEMMA Limits ==
    /\ IsFiniteSet(Buckets) /\ Buckets # {}
    /\ \A b \in Buckets : ChunkLogs[b[1]] \in Nat \ {0}
    /\ MaxEntries \in Nat /\ MaxDrops \in Nat
    /\ CodexLogs \in Nat \ {0} /\ BatchMaxSize \in Nat \ {0}
    /\ FlushConcurrency \in Nat \ {0} /\ RetryMaxAttempts \in Nat \ {0}
<1> DEFINE Types == Range(AgentType)
           Names == Types \cup {"any", "codex"}
<1>1. IsFiniteSet(Types)
  <2>1. IsFiniteSet(1 .. MaxEntries)
    BY FlusherAssumption, FS_Interval
  <2>2. AgentType \in Surjection(1 .. MaxEntries, Types)
    BY FlusherAssumption DEF Surjection, Range
  <2> QED BY <2>1, <2>2, FS_Surjection
<1>2. IsFiniteSet(Names)
  <2>1. IsFiniteSet(Types \cup {"any"})
    BY <1>1, FS_AddElement, Zenon
  <2>2. IsFiniteSet((Types \cup {"any"}) \cup {"codex"})
    BY <2>1, FS_AddElement, Zenon
  <2>3. (Types \cup {"any"}) \cup {"codex"} = Names
    OBVIOUS
  <2> HIDE DEF Types
  <2> QED BY <2>2, <2>3
<1>3. IsFiniteSet(Endpoints \X Names)
  BY <1>2, FlusherAssumption, FS_Product
<1>4. Buckets \subseteq Endpoints \X Names
  <2>1. ASSUME NEW n \in Entries, NEW e \in Endpoints
        PROVE  Bucket(e, n) \in Endpoints \X Names
    <3>1. AgentType[n] \in Types
      BY <2>1, FlusherAssumption DEF Entries, Range
    <3> HIDE DEF Types
    <3> QED BY <3>1 DEF Bucket
  <2> HIDE DEF Names
  <2>2. \A n \in Entries : BucketsOf(n) \subseteq Endpoints \X Names
    BY <2>1 DEF BucketsOf
  <2>3. CodexBuckets \subseteq Endpoints \X Names
    BY DEF CodexBuckets, Names
  <2> QED BY <2>2, <2>3, BucketKinds
<1>5. IsFiniteSet(Buckets)
  BY <1>3, <1>4, FS_Subset
<1>6. \A b \in Buckets : b[1] \in Endpoints
  BY <1>4
<1>7. Buckets # {}
  <2>1. PICK e \in Endpoints : TRUE
    BY FlusherAssumption
  <2>2. <<e, "codex">> \in CodexBuckets
    BY DEF CodexBuckets
  <2> QED BY <2>2, BucketKinds
<1> QED BY <1>5, <1>6, <1>7, FlusherAssumption

-----------------------------------------------------------------------------
(* The task at a place, and what becomes of it.                            *)

\* What FlusherTypeOK says of one task.
LEMMA JobType ==
    ASSUME FlusherTypeOK, NEW k \in Kinds, NEW b \in Buckets
    PROVE  /\ job[k][b] \in Jobs /\ JobOK(job[k][b])
           /\ job[k][b].logs \in Seq(Nat) /\ Len(job[k][b].logs) \in Nat
           /\ job[k][b].at \in Nat \ {0} /\ job[k][b].ok \in Nat /\ job[k][b].bad \in Nat
           /\ job[k][b].tries \in Nat /\ ChunkLogs[b[1]] \in Nat \ {0}
<1>1. job[k][b] \in Jobs /\ JobOK(job[k][b])
  BY DEF FlusherTypeOK
<1>2. job[k][b].logs \in Seq(Nat) /\ job[k][b].tries \in Nat
  BY <1>1 DEF Jobs
<1>3. job[k][b].at \in Nat \ {0} /\ job[k][b].ok \in Nat /\ job[k][b].bad \in Nat
  BY <1>1 DEF Jobs
<1> QED BY <1>1, <1>2, <1>3, Limits

LEMMA NoJobType == NoJob \in Jobs /\ JobOK(NoJob)
BY Limits DEF NoJob, Jobs, JobOK

LEMMA TaskType ==
    ASSUME NEW logs \in Seq(Nat)
    PROVE  /\ Task(logs) \in Jobs /\ JobOK(Task(logs)) /\ Task(logs).logs = logs
           /\ Task(logs).state # "open" /\ Task(logs).at = 1
           /\ Task(logs).ok = 0 /\ Task(logs).bad = 0
           /\ Task(logs).state = "none" <=> logs = <<>>
<1>1. CASE logs = <<>>
  BY <1>1, NoJobType DEF Task, NoJob
<1>2. CASE logs # <<>>
  <2>1. Task(logs) = [state |-> "todo", logs |-> logs, at |-> 1, tries |-> 0, ok |-> 0, bad |-> 0]
    BY <1>2 DEF Task, NoJob
  <2>2. Task(logs) \in Jobs
    BY <2>1, Limits DEF Jobs
  <2>3. Len(logs) \in Nat
    OBVIOUS
  <2>4. JobOK(Task(logs))
    BY <1>2, <2>1, <2>3 DEF JobOK
  <2> QED BY <1>2, <2>1, <2>2, <2>4
<1> QED BY <1>1, <1>2

\* A task that is over has nothing of the one before.
LEMMA NoneIsNoJob ==
    ASSUME FlusherTypeOK, NEW k \in Kinds, NEW b \in Buckets, job[k][b].state = "none"
    PROVE  /\ job[k][b].logs = <<>> /\ job[k][b].at = 1
           /\ job[k][b].ok = 0 /\ job[k][b].bad = 0
<1>1. job[k][b].logs = <<>>
  BY JobType DEF JobOK
<1>2. Len(job[k][b].logs) = 0 /\ job[k][b].at \in Nat \ {0}
  BY <1>1, JobType
<1>3. job[k][b].at <= 1 /\ job[k][b].ok + job[k][b].bad = job[k][b].at - 1
  BY <1>1, <1>2, JobType DEF JobOK
<1>4. job[k][b].ok \in Nat /\ job[k][b].bad \in Nat
  BY JobType
<1>5. job[k][b].at = 1 /\ job[k][b].ok = 0 /\ job[k][b].bad = 0
  <2> DEFINE at == job[k][b].at  ok == job[k][b].ok  bad == job[k][b].bad
  <2> SUFFICES at = 1 /\ ok = 0 /\ bad = 0
    OBVIOUS
  <2>1. at \in Nat /\ at # 0 /\ at <= 1 /\ ok \in Nat /\ bad \in Nat /\ ok + bad = at - 1
    BY <1>2, <1>3, <1>4
  <2> HIDE DEF at, ok, bad
  <2> QED BY <2>1
<1> QED BY <1>1, <1>5

\* The logs of the request are those from at to Last_.
LEMMA ChunkProperties ==
    ASSUME FlusherTypeOK, NEW k \in Kinds, NEW b \in Buckets
    PROVE  LET j == job[k][b] IN
           /\ Last_(k, b) \in Nat /\ Last_(k, b) <= Len(j.logs) /\ j.at <= Last_(k, b) + 1
           /\ j.at <= Len(j.logs) => j.at <= Last_(k, b)
           /\ Chunk(k, b) \in Seq(Nat) /\ Len(Chunk(k, b)) = Last_(k, b) + 1 - j.at
           /\ \A i \in 1 .. Len(Chunk(k, b)) : Chunk(k, b)[i] = j.logs[j.at + i - 1]
           /\ Range(Chunk(k, b)) = {j.logs[i] : i \in j.at .. Last_(k, b)}
<1> DEFINE j == job[k][b]
           l == Last_(k, b)
           c == Chunk(k, b)
<1>1. j.at \in Nat \ {0} /\ j.at <= Len(j.logs) + 1 /\ Len(j.logs) \in Nat
  BY JobType DEF JobOK
<1>2. l \in Nat /\ l <= Len(j.logs) /\ j.at <= l + 1 /\ (j.at <= Len(j.logs) => j.at <= l)
  <2>1. ChunkLogs[b[1]] \in Nat \ {0}
    BY JobType
  <2>2. l = IF Len(j.logs) < j.at + ChunkLogs[b[1]] - 1 THEN Len(j.logs) ELSE j.at + ChunkLogs[b[1]] - 1
    BY DEF Last_
  <2> HIDE DEF j, l
  <2> QED BY <1>1, <2>1, <2>2
<1>3. \A i \in j.at .. l : j.logs[i] \in Nat
  <2>1. j.logs \in Seq(Nat)
    BY JobType
  <2> HIDE DEF j, l
  <2> QED BY <1>1, <1>2, <2>1, ElementOfSeq
<1>4. /\ c \in Seq(Nat) /\ Len(c) = l + 1 - j.at
      /\ \A i \in 1 .. Len(c) : c[i] = j.logs[j.at + i - 1]
  <2> HIDE DEF j, l
  <2> DEFINE d == SubSeq(j.logs, j.at, l)
  <2>1. /\ d \in Seq(Nat) /\ Len(d) = IF j.at <= l THEN l - j.at + 1 ELSE 0
        /\ \A i \in 1 .. l - j.at + 1 : d[i] = j.logs[j.at + i - 1]
    BY <1>1, <1>2, <1>3, SubSeqProperties
  <2>2. Len(d) = l + 1 - j.at
    BY <1>1, <1>2, <2>1
  <2>3. c = d
    BY DEF Chunk, j, l
  <2> HIDE DEF d, c
  <2> QED BY <1>1, <1>2, <2>1, <2>2, <2>3
<1>5. Range(c) = {j.logs[i] : i \in j.at .. l}
  <2> HIDE DEF j, l, c
  <2>0. DOMAIN c = 1 .. Len(c)
    BY <1>4
  <2>1. ASSUME NEW x \in Range(c) PROVE x \in {j.logs[i] : i \in j.at .. l}
    <3>1. PICK i \in 1 .. Len(c) : x = c[i]
      BY <2>0, <2>1 DEF Range
    <3>2. x = j.logs[j.at + i - 1] /\ j.at + i - 1 \in j.at .. l
      BY <1>1, <1>2, <1>4, <3>1
    <3> QED BY <3>2
  <2>2. ASSUME NEW i \in j.at .. l PROVE j.logs[i] \in Range(c)
    <3>1. i - j.at + 1 \in 1 .. Len(c) /\ j.at + (i - j.at + 1) - 1 = i
      <4>1. Len(c) = l + 1 - j.at /\ j.at \in Nat /\ l \in Nat
        BY <1>1, <1>2, <1>4
      <4>2. i \in Nat /\ j.at <= i /\ i <= l
        BY <4>1
      <4> QED BY <4>1, <4>2
    <3>2. c[i - j.at + 1] = j.logs[i]
      BY <1>4, <3>1
    <3> QED BY <2>0, <3>1, <3>2 DEF Range
  <2> QED BY <2>1, <2>2
<1> QED BY <1>2, <1>4, <1>5

-----------------------------------------------------------------------------
(* What a step does to the tasks.                                          *)

\* At most FlushConcurrency tasks stay open while none is opened.
LEMMA OpenShrinks ==
    ASSUME FlusherTypeOK, NEW k \in Kinds,
           \A b \in Buckets : job'[k][b].state = "open" => job[k][b].state = "open"
    PROVE  (Cardinality(Open(k)) <= FlushConcurrency)'
<1>1. IsFiniteSet(Open(k)) /\ Open(k)' \subseteq Open(k)
  BY Limits, FS_Subset DEF Open
<1>2. /\ Cardinality(Open(k)') <= Cardinality(Open(k))
      /\ Cardinality(Open(k)') \in Nat /\ Cardinality(Open(k)) \in Nat
  BY <1>1, FS_Subset, FS_CardinalityType
<1>3. Cardinality(Open(k)) <= FlushConcurrency
  BY DEF FlusherTypeOK
<1> QED BY <1>2, <1>3, Limits

\* One more is opened where the pool has a worker left.
LEMMA OpenGrows ==
    ASSUME FlusherTypeOK, NEW k \in Kinds, NEW b \in Buckets,
           Cardinality(Open(k)) < FlushConcurrency,
           \A d \in Buckets \ {b} : job'[k][d].state = "open" => job[k][d].state = "open"
    PROVE  (Cardinality(Open(k)) <= FlushConcurrency)'
<1>1. IsFiniteSet(Open(k)) /\ Open(k)' \subseteq Open(k) \cup {b}
  BY Limits, FS_Subset DEF Open
<1>2. /\ IsFiniteSet(Open(k) \cup {b})
      /\ Cardinality(Open(k) \cup {b}) <= Cardinality(Open(k)) + 1
      /\ Cardinality(Open(k)) \in Nat /\ Cardinality(Open(k) \cup {b}) \in Nat
  <2>1. Cardinality(Open(k)) \in Nat
    BY <1>1, FS_CardinalityType
  <2>2. /\ IsFiniteSet(Open(k) \cup {b})
        /\ \/ Cardinality(Open(k) \cup {b}) = Cardinality(Open(k))
           \/ Cardinality(Open(k) \cup {b}) = Cardinality(Open(k)) + 1
    BY <1>1, FS_AddElement, Zenon
  <2> QED BY <2>1, <2>2
<1>3. /\ Cardinality(Open(k)') <= Cardinality(Open(k) \cup {b})
      /\ Cardinality(Open(k)') \in Nat
  BY <1>1, <1>2, FS_Subset, FS_CardinalityType
<1> QED BY <1>2, <1>3, Limits

\* A step that changes one task.
LEMMA OneTask ==
    ASSUME FlusherTypeOK, NEW k \in Kinds, NEW b \in Buckets, NEW x,
           job' = [job EXCEPT ![k][b] = x]
    PROVE  /\ job'[k][b] = x
           /\ \A m \in Kinds, d \in Buckets : <<m, d>> # <<k, b>> => job'[m][d] = job[m][d]
           /\ x \in Jobs /\ JobOK(x) =>
                 /\ job' \in [Kinds -> [Buckets -> Jobs]]
                 /\ \A m \in Kinds, d \in Buckets : JobOK(job'[m][d])
<1>1. job \in [Kinds -> [Buckets -> Jobs]] /\ \A m \in Kinds, d \in Buckets : JobOK(job[m][d])
  BY DEF FlusherTypeOK
<1>2. job'[k][b] = x
  BY <1>1
<1>3. ASSUME NEW m \in Kinds, NEW d \in Buckets, <<m, d>> # <<k, b>>
      PROVE  job'[m][d] = job[m][d]
  BY <1>1, <1>3
<1>4. ASSUME x \in Jobs, JobOK(x)
      PROVE  /\ job' \in [Kinds -> [Buckets -> Jobs]]
             /\ \A m \in Kinds, d \in Buckets : JobOK(job'[m][d])
  <2>1. job' \in [Kinds -> [Buckets -> Jobs]]
    BY <1>1, <1>4
  <2>2. ASSUME NEW m \in Kinds, NEW d \in Buckets PROVE JobOK(job'[m][d])
    BY <1>1, <1>2, <1>3, <1>4
  <2> QED BY <2>1, <2>2
<1> QED BY <1>2, <1>3, <1>4

\* A step that gives all endpoints a new task of a kind.
LEMMA AllTasks ==
    ASSUME FlusherTypeOK, NEW k \in Kinds, NEW logs \in [Buckets -> Seq(Nat)],
           job' = [job EXCEPT ![k] = [b \in Buckets |-> Task(logs[b])]]
    PROVE  /\ job' \in [Kinds -> [Buckets -> Jobs]]
           /\ \A m \in Kinds, d \in Buckets : JobOK(job'[m][d])
           /\ \A m \in Kinds : (Cardinality(Open(m)) <= FlushConcurrency)'
           /\ \A d \in Buckets : job'[k][d] = Task(logs[d])
           /\ \A m \in Kinds \ {k} : job'[m] = job[m]
<1>1. job \in [Kinds -> [Buckets -> Jobs]] /\ \A m \in Kinds, d \in Buckets : JobOK(job[m][d])
  BY DEF FlusherTypeOK
<1>2. ASSUME NEW d \in Buckets
      PROVE  Task(logs[d]) \in Jobs /\ JobOK(Task(logs[d])) /\ Task(logs[d]).state # "open"
  BY TaskType
<1>3. /\ \A d \in Buckets : job'[k][d] = Task(logs[d])
      /\ \A m \in Kinds \ {k} : job'[m] = job[m]
  BY <1>1
<1>4. job' \in [Kinds -> [Buckets -> Jobs]]
  BY <1>1, <1>2
<1>5. \A m \in Kinds, d \in Buckets : JobOK(job'[m][d])
  BY <1>1, <1>2, <1>3
<1>6. ASSUME NEW m \in Kinds PROVE (Cardinality(Open(m)) <= FlushConcurrency)'
  BY <1>2, <1>3, OpenShrinks
<1> QED BY <1>3, <1>4, <1>5, <1>6

\* The request is over, with ok and bad logs of the task by now.
Goes(k, b, ok, bad) ==
    \/ /\ Last_(k, b) = Len(job[k][b].logs) /\ job'[k][b] = NoJob
       /\ outEntries' = [outEntries EXCEPT ![b] = @ + ok]
       /\ outFailed' = [outFailed EXCEPT ![b] = @ + bad]
       /\ failed' = (failed \/ (k = "codex" /\ bad > 0))
    \/ /\ Last_(k, b) < Len(job[k][b].logs)
       /\ job'[k][b] = [job[k][b] EXCEPT !.ok = ok, !.bad = bad,
                                         !.at = Last_(k, b) + 1, !.tries = 0]
       /\ UNCHANGED <<outEntries, outFailed, failed>>

\* All other tasks stay as they are, and the new one is a task.
OthersStay(k, b) ==
    /\ \A m \in Kinds, d \in Buckets : <<m, d>> # <<k, b>> => job'[m][d] = job[m][d]
    /\ job' \in [Kinds -> [Buckets -> Jobs]]
    /\ \A m \in Kinds, d \in Buckets : JobOK(job'[m][d])

LEMMA TaskEnds ==
    ASSUME FlusherTypeOK, NEW k \in Kinds, NEW b \in Buckets,
           job' = [job EXCEPT ![k][b] = NoJob]
    PROVE  OthersStay(k, b) /\ job'[k][b] = NoJob
<1> DEFINE x == NoJob
<1>1. x \in Jobs /\ JobOK(x) /\ job' = [job EXCEPT ![k][b] = x]
  BY NoJobType
<1>2. job \in [Kinds -> [Buckets -> Jobs]] /\ \A m \in Kinds, d \in Buckets : JobOK(job[m][d])
  BY DEF FlusherTypeOK
<1> SUFFICES OthersStay(k, b) /\ job'[k][b] = x
  OBVIOUS
<1> HIDE DEF x
<1>3. job'[k][b] = x
  BY <1>1, <1>2
<1>4. ASSUME NEW m \in Kinds, NEW d \in Buckets, <<m, d>> # <<k, b>>
      PROVE  job'[m][d] = job[m][d]
  BY <1>1, <1>2, <1>4
<1>5. job' \in [Kinds -> [Buckets -> Jobs]]
  BY <1>1, <1>2
<1>6. ASSUME NEW m \in Kinds, NEW d \in Buckets PROVE JobOK(job'[m][d])
  BY <1>1, <1>2, <1>3, <1>4
<1> QED BY <1>3, <1>4, <1>5, <1>6 DEF OthersStay

LEMMA ProceedEffect ==
    ASSUME FlusherTypeOK, NEW k \in Kinds, NEW b \in Buckets, job[k][b].state = "open",
           NEW ok \in Nat, NEW bad \in Nat, ok + bad = Last_(k, b),
           Proceed(k, b, [job[k][b] EXCEPT !.ok = ok, !.bad = bad])
    PROVE  OthersStay(k, b) /\ Goes(k, b, ok, bad)
<1> USE DEF OthersStay, Goes
<1> DEFINE j == job[k][b]
           l == Last_(k, b)
           i == [j EXCEPT !.ok = ok, !.bad = bad]
           n == [j EXCEPT !.ok = ok, !.bad = bad, !.at = l + 1, !.tries = 0]
<1>1. j \in Jobs /\ JobOK(j) /\ l \in Nat /\ l <= Len(j.logs) /\ Len(j.logs) \in Nat
  BY JobType, ChunkProperties
<1>2. i.logs = j.logs /\ i.ok = ok /\ i.bad = bad
  BY <1>1 DEF Jobs
<1>3. CASE l = Len(j.logs)
  <2>1. Count(k, b, i)
    BY <1>2, <1>3 DEF Proceed
  <2>2. job' = [job EXCEPT ![k][b] = NoJob]
    BY <2>1 DEF Count
  <2>3. /\ outEntries' = [outEntries EXCEPT ![b] = @ + ok]
        /\ outFailed' = [outFailed EXCEPT ![b] = @ + bad]
        /\ failed' = (failed \/ (k = "codex" /\ bad > 0))
    BY <1>2, <2>1 DEF Count
  <2> QED BY <1>3, <2>2, <2>3, OneTask, NoJobType
<1>4. CASE l # Len(j.logs)
  <2>1. /\ job' = [job EXCEPT ![k][b] = [i EXCEPT !.at = l + 1, !.tries = 0]]
        /\ UNCHANGED <<outEntries, outFailed, failed>>
    BY <1>2, <1>4 DEF Proceed
  <2>2. [i EXCEPT !.at = l + 1, !.tries = 0] = n
    BY <1>1 DEF Jobs
  <2>3. n \in Jobs
    <3>1. l + 1 \in Nat \ {0} /\ 0 \in 0 .. RetryMaxAttempts - 1
      BY <1>1, Limits
    <3> HIDE DEF j, l
    <3> QED BY <1>1, <3>1 DEF Jobs
  <2>4. JobOK(n)
    <3>1. /\ n.state = j.state /\ n.logs = j.logs /\ n.at = l + 1
          /\ n.ok = ok /\ n.bad = bad /\ ok + bad = l
      BY <1>1 DEF Jobs
    <3> HIDE DEF n, j, l
    <3> QED BY <1>1, <1>4, <3>1 DEF JobOK
  <2>5. l < Len(j.logs)
    BY <1>1, <1>4
  <2>6. job' = [job EXCEPT ![k][b] = n]
    BY <2>1, <2>2
  <2> HIDE DEF n
  <2>7. /\ job'[k][b] = n
        /\ \A m \in Kinds, d \in Buckets : <<m, d>> # <<k, b>> => job'[m][d] = job[m][d]
        /\ job' \in [Kinds -> [Buckets -> Jobs]]
        /\ \A m \in Kinds, d \in Buckets : JobOK(job'[m][d])
    BY <2>3, <2>4, <2>6, OneTask
  <2> QED BY <2>1, <2>5, <2>7 DEF n
<1> QED BY <1>3, <1>4

-----------------------------------------------------------------------------
(* What an endpoint takes of a request.                                    *)

LEMMA BatchType ==
    /\ Batch \in Seq(Nat) /\ Len(Batch) = CodexLogs /\ Batch # <<>>
    /\ \A i \in 1 .. CodexLogs : Batch[i] = i
<1>1. CodexLogs \in Nat \ {0}
  BY Limits
<1>2. Batch \in Seq(Nat) /\ Len(Batch) = CodexLogs
  BY <1>1, IsASeq DEF Batch
<1> QED BY <1>1, <1>2 DEF Batch

\* What is known of the logs of a task.
LEMMA LogsOfTask ==
    ASSUME FlusherTypeOK, EntriesInOrder, CodexProgress, NEW b \in Buckets
    PROVE  /\ \A i \in 1 .. Len(job["flush"][b].logs) : job["flush"][b].logs[i] \in Entries
           /\ job["codex"][b].state # "none" => job["codex"][b].logs = Batch
<1>1. sent \in Nat /\ sent <= MaxEntries /\ MaxEntries \in Nat
  BY Limits DEF FlusherTypeOK
<1>2. \A i \in 1 .. Len(job["flush"][b].logs) : job["flush"][b].logs[i] \in 1 .. sent
  BY DEF EntriesInOrder
<1> QED BY <1>1, <1>2 DEF CodexProgress, Entries

\* A request of a Codex batch carries the records from at to Last_.
LEMMA CodexChunk ==
    ASSUME FlusherTypeOK, CodexProgress, NEW b \in Buckets, job["codex"][b].state # "none"
    PROVE  /\ Range(Chunk("codex", b)) = job["codex"][b].at .. Last_("codex", b)
           /\ Last_("codex", b) <= CodexLogs
<1>0. "codex" \in Kinds
  BY DEF Kinds
<1>1. job["codex"][b].logs = Batch
  BY DEF CodexProgress
<1>2. /\ job["codex"][b].at \in Nat \ {0} /\ Last_("codex", b) \in Nat
      /\ Last_("codex", b) <= CodexLogs
      /\ Range(Chunk("codex", b)) = {Batch[i] : i \in job["codex"][b].at .. Last_("codex", b)}
  <2>1. job["codex"][b].at \in Nat \ {0}
    BY <1>0, JobType
  <2>2. /\ Last_("codex", b) \in Nat /\ Last_("codex", b) <= Len(job["codex"][b].logs)
        /\ Range(Chunk("codex", b))
              = {job["codex"][b].logs[i] : i \in job["codex"][b].at .. Last_("codex", b)}
    BY <1>0, ChunkProperties
  <2> QED BY <1>1, <2>1, <2>2, BatchType
<1>3. \A i \in job["codex"][b].at .. Last_("codex", b) : Batch[i] = i
  BY <1>2, BatchType, Limits
<1> QED BY <1>2, <1>3

\* An endpoint that takes the request has its entries, once.
LEMMA FlushArrives ==
    ASSUME FlusherTypeOK, EntriesInOrder, CodexProgress, NEW b \in Buckets,
           Arrives("flush", b) \/ UNCHANGED backend
    PROVE  /\ arrived' \in [Buckets -> Seq(Entries)] /\ arrivedCodex' = arrivedCodex
           /\ \A d \in Buckets \ {b} : arrived'[d] = arrived[d]
           /\ \/ arrived'[b] = arrived[b]
              \/ ~Taken(b) /\ arrived'[b] = arrived[b] \o Chunk("flush", b)
           /\ Arrives("flush", b) => Range(Chunk("flush", b)) \subseteq Range(arrived'[b])
<1> DEFINE c == Chunk("flush", b)
           j == job["flush"][b]
<1>0. "flush" \in Kinds /\ arrived \in [Buckets -> Seq(Entries)]
  BY DEF Kinds, FlusherTypeOK
<1>1. c \in Seq(Entries)
  <2>1. /\ c \in Seq(Nat) /\ j.at \in Nat \ {0} /\ Last_("flush", b) <= Len(j.logs)
        /\ Len(c) = Last_("flush", b) + 1 - j.at /\ Last_("flush", b) \in Nat
        /\ \A i \in 1 .. Len(c) : c[i] = j.logs[j.at + i - 1]
        /\ Len(j.logs) \in Nat
    BY <1>0, JobType, ChunkProperties
  <2>2. \A i \in 1 .. Len(j.logs) : j.logs[i] \in Entries
    BY LogsOfTask
  <2> HIDE DEF c, j
  <2>3. ASSUME NEW i \in 1 .. Len(c) PROVE c[i] \in Entries
    <3>1. j.at + i - 1 \in 1 .. Len(j.logs)
      BY <2>1
    <3> QED BY <2>1, <2>2, <3>1
  <2>4. c \in [1 .. Len(c) -> Entries] /\ Len(c) \in Nat
    BY <2>1, <2>3, LenProperties
  <2> QED BY <2>4
<1>2. CASE UNCHANGED backend /\ ~Arrives("flush", b)
  BY <1>0, <1>2 DEF backend
<1>3. CASE Arrives("flush", b) /\ Taken(b)
  BY <1>0, <1>3 DEF Arrives, Taken
<1>4. CASE Arrives("flush", b) /\ ~Taken(b)
  <2> HIDE DEF c
  <2>1. /\ arrived' = [arrived EXCEPT ![b] = @ \o Chunk("flush", b)]
        /\ arrivedCodex' = arrivedCodex
    BY <1>4 DEF Arrives
  <2>2. arrived[b] \in Seq(Entries)
    BY <1>0
  <2>3. arrived[b] \o c \in Seq(Entries) /\ Range(arrived[b] \o c) = Range(arrived[b]) \cup Range(c)
    BY <1>1, <2>2, ConcatProperties, RangeConcatenation
  <2>4. arrived'[b] = arrived[b] \o c
    BY <1>0, <2>1 DEF c
  <2> QED BY <1>0, <1>4, <2>1, <2>3, <2>4 DEF c
<1> QED BY <1>2, <1>3, <1>4

LEMMA CodexArrives ==
    ASSUME FlusherTypeOK, CodexProgress, NEW b \in Buckets, job["codex"][b].state = "open",
           Arrives("codex", b) \/ UNCHANGED backend
    PROVE  /\ arrivedCodex' \in [Buckets -> SUBSET (1 .. CodexLogs)] /\ arrived' = arrived
           /\ \A d \in Buckets \ {b} : arrivedCodex'[d] = arrivedCodex[d]
           /\ arrivedCodex[b] \subseteq arrivedCodex'[b]
           /\ Arrives("codex", b) =>
                 job["codex"][b].at .. Last_("codex", b) \subseteq arrivedCodex'[b]
<1>0. /\ "codex" \in Kinds /\ "codex" # "flush"
      /\ arrivedCodex \in [Buckets -> SUBSET (1 .. CodexLogs)]
  BY DEF Kinds, FlusherTypeOK
<1>1. /\ Range(Chunk("codex", b)) = job["codex"][b].at .. Last_("codex", b)
      /\ Range(Chunk("codex", b)) \subseteq 1 .. CodexLogs
  <2>1. job["codex"][b].at \in Nat \ {0} /\ Last_("codex", b) \in Nat
    BY <1>0, JobType, ChunkProperties
  <2>2. /\ Range(Chunk("codex", b)) = job["codex"][b].at .. Last_("codex", b)
        /\ Last_("codex", b) <= CodexLogs
    BY CodexChunk
  <2> QED BY <2>1, <2>2, Limits
<1>2. CASE UNCHANGED backend /\ ~Arrives("codex", b)
  BY <1>0, <1>2 DEF backend
<1>3. CASE Arrives("codex", b)
  BY <1>0, <1>1, <1>3 DEF Arrives
<1> QED BY <1>2, <1>3

-----------------------------------------------------------------------------
(* A request, by what it does.                                             *)

Size(k, b) == Last_(k, b) + 1 - job[k][b].at

\* What the failure log was told of a bucket.
Told(b) == logged[b] + dropped[b]
LogType == /\ logged \in [Buckets -> Nat] /\ dropped \in [Buckets -> Nat]
           /\ drops \in 0 .. MaxDrops

\* Whatever the failure log keeps or drops, it was told of n logs of one bucket.
LEMMA PersistsEffect ==
    ASSUME LogType, NEW b \in Buckets, NEW n \in Nat, Persists(b, n)
    PROVE  /\ LogType' /\ Told(b)' = Told(b) + n
           /\ \A d \in Buckets \ {b} : Told(d)' = Told(d)
<1>0. LogType /\ MaxDrops \in Nat
  BY Limits
<1>1. CASE logged' = [logged EXCEPT ![b] = @ + n] /\ UNCHANGED <<dropped, drops>>
  BY <1>0, <1>1 DEF LogType, Told
<1>2. CASE Drops(b, n) /\ UNCHANGED logged
  BY <1>0, <1>2 DEF LogType, Told, Drops
<1>3. ASSUME NEW c \in Buckets, NEW m \in 1 .. logged[c], Drops(c, m),
             logged' = [logged EXCEPT ![c] = @ - m, ![b] = @ + n]
      PROVE  /\ LogType' /\ Told(b)' = Told(b) + n
             /\ \A d \in Buckets \ {b} : Told(d)' = Told(d)
  <2>1. /\ m \in Nat /\ logged[c] \in Nat /\ logged[c] - m \in Nat
        /\ \A d \in Buckets : logged[d] \in Nat /\ dropped[d] \in Nat
    BY <1>0, <1>3 DEF LogType
  <2>2. drops' \in 0 .. MaxDrops /\ dropped' = [dropped EXCEPT ![c] = @ + m]
    BY <1>0, <1>3 DEF LogType, Drops
  <2>3. \A d \in Buckets :
           /\ dropped'[d] = IF d = c THEN dropped[d] + m ELSE dropped[d]
           /\ logged'[d] = (IF d = c THEN logged[d] - m ELSE logged[d]) + (IF d = b THEN n ELSE 0)
    BY <1>0, <1>3, <2>1, <2>2 DEF LogType
  <2>4. dropped' \in [Buckets -> Nat]
    BY <1>0, <2>1, <2>2 DEF LogType
  <2>5. logged' \in [Buckets -> Nat]
    BY <1>0, <1>3, <2>1 DEF LogType
  <2> QED BY <2>1, <2>2, <2>3, <2>4, <2>5 DEF LogType, Told
<1> QED BY <1>1, <1>2, <1>3 DEF Persists

Settles(k, b) ==
    \/ /\ Arrives(k, b) /\ ~(k = "codex" /\ aborted)
       /\ Goes(k, b, job[k][b].ok + Size(k, b), job[k][b].bad)
       /\ UNCHANGED failureLog
    \/ /\ ~(k = "codex" /\ aborted)
       /\ Goes(k, b, job[k][b].ok, job[k][b].bad + Size(k, b))
       /\ LogType' /\ Told(b)' = Told(b) + Size(k, b)
       /\ \A d \in Buckets \ {b} : Told(d)' = Told(d)
TriesAgain(k, b) ==
    /\ job'[k][b] = [job[k][b] EXCEPT !.tries = @ + 1]
    /\ UNCHANGED <<outEntries, outFailed, failureLog, failed>>
IsCancelled(k, b) ==
    /\ k = "codex" /\ aborted /\ job'[k][b] = NoJob
    /\ outFailed' = [outFailed EXCEPT ![b] = @ + Len(job[k][b].logs)]
    /\ failed' = TRUE
    /\ UNCHANGED <<outEntries, failureLog>>

LEMMA RequestEffect ==
    ASSUME FlusherTypeOK, NEW k \in Kinds, NEW b \in Buckets, Request(k, b)
    PROVE  /\ OthersStay(k, b) /\ job[k][b].state = "open" /\ phase # "down"
           /\ Arrives(k, b) \/ UNCHANGED backend
           /\ Settles(k, b) \/ TriesAgain(k, b) \/ IsCancelled(k, b)
           /\ UNCHANGED <<sent, queue, inEntries, codex, aborted, phase, met>>
<1> DEFINE j == job[k][b]
           n == Size(k, b)
<1>1. /\ j.state = "open" /\ phase # "down"
      /\ UNCHANGED <<sent, queue, inEntries, codex, aborted, phase, met>>
  BY DEF Request
<1>2. /\ j \in Jobs /\ JobOK(j) /\ n \in Nat /\ n = Len(Chunk(k, b))
      /\ j.ok \in Nat /\ j.bad \in Nat /\ j.ok + j.bad + n = Last_(k, b)
  <2>1. /\ j \in Jobs /\ JobOK(j) /\ j.ok \in Nat /\ j.bad \in Nat /\ j.at \in Nat \ {0}
    BY JobType
  <2>2. /\ Last_(k, b) \in Nat /\ j.at <= Last_(k, b) + 1
        /\ Len(Chunk(k, b)) = Last_(k, b) + 1 - j.at
    BY ChunkProperties
  <2>3. j.ok + j.bad = j.at - 1
    BY <2>1 DEF JobOK
  <2>4. n = Last_(k, b) + 1 - j.at
    BY DEF Size
  <2> HIDE DEF j, n
  <2> QED BY <2>1, <2>2, <2>3, <2>4
<1>3. CASE ~(k = "codex" /\ aborted) /\ Posted(k, b)
  <2>1. /\ Arrives(k, b) /\ UNCHANGED failureLog
        /\ Proceed(k, b, [job[k][b] EXCEPT !.ok = @ + Len(Chunk(k, b))])
    BY <1>3 DEF Posted
  <2>2. [job[k][b] EXCEPT !.ok = @ + Len(Chunk(k, b))]
          = [job[k][b] EXCEPT !.ok = j.ok + n, !.bad = j.bad]
    BY <1>2 DEF Jobs
  <2>3. j.ok + n \in Nat /\ (j.ok + n) + j.bad = Last_(k, b)
    BY <1>2
  <2>4. OthersStay(k, b) /\ Goes(k, b, j.ok + n, j.bad)
    BY <1>1, <1>2, <2>1, <2>2, <2>3, ProceedEffect
  <2> QED BY <1>1, <1>3, <2>1, <2>4 DEF Settles
<1>4. CASE Retries(k, b)
  <2> DEFINE x == [j EXCEPT !.tries = @ + 1]
  <2>1. /\ j.tries + 1 < RetryMaxAttempts /\ (Arrives(k, b) \/ UNCHANGED backend)
        /\ job' = [job EXCEPT ![k][b].tries = @ + 1]
        /\ UNCHANGED <<counters, failed>>
    BY <1>4 DEF Retries
  <2>2. x \in Jobs /\ JobOK(x)
    <3>1. j.tries + 1 \in 0 .. RetryMaxAttempts - 1
      BY <2>1, JobType, Limits
    <3>2. x \in Jobs
      BY <1>2, <3>1 DEF Jobs
    <3>3. x.state = j.state /\ x.logs = j.logs /\ x.at = j.at /\ x.ok = j.ok /\ x.bad = j.bad
      BY <1>2 DEF Jobs
    <3> HIDE DEF x, j
    <3> QED BY <1>2, <3>2, <3>3 DEF JobOK
  <2>3. job' = [job EXCEPT ![k][b] = x]
    <3>1. job \in [Kinds -> [Buckets -> Jobs]]
      BY DEF FlusherTypeOK
    <3> QED BY <2>1, <3>1
  <2> HIDE DEF x
  <2>4. OthersStay(k, b) /\ job'[k][b] = x
    BY <2>2, <2>3, OneTask DEF OthersStay
  <2> QED BY <1>1, <2>1, <2>4 DEF x, TriesAgain, counters
<1>5. CASE ~(k = "codex" /\ aborted) /\ GivesUp(k, b)
  <2>1. /\ Arrives(k, b) \/ UNCHANGED backend
        /\ Persists(b, n)
        /\ Proceed(k, b, [job[k][b] EXCEPT !.bad = @ + Len(Chunk(k, b))])
    BY <1>2, <1>5 DEF GivesUp
  <2>2. [job[k][b] EXCEPT !.bad = @ + Len(Chunk(k, b))]
          = [job[k][b] EXCEPT !.ok = j.ok, !.bad = j.bad + n]
    BY <1>2 DEF Jobs
  <2>3. j.bad + n \in Nat /\ j.ok + (j.bad + n) = Last_(k, b)
    BY <1>2
  <2>4. OthersStay(k, b) /\ Goes(k, b, j.ok, j.bad + n)
    BY <1>1, <1>2, <2>1, <2>2, <2>3, ProceedEffect
  <2>5. LogType' /\ Told(b)' = Told(b) + n /\ \A d \in Buckets \ {b} : Told(d)' = Told(d)
    BY <1>2, <2>1, PersistsEffect DEF FlusherTypeOK, LogType
  <2> QED BY <1>1, <1>5, <2>1, <2>4, <2>5 DEF Settles
<1>6. CASE Cancelled(k, b)
  <2>1. /\ k = "codex" /\ aborted /\ (Arrives(k, b) \/ UNCHANGED backend)
        /\ job' = [job EXCEPT ![k][b] = NoJob]
        /\ outFailed' = [outFailed EXCEPT ![b] = @ + Len(job[k][b].logs)]
        /\ failed' = TRUE
        /\ UNCHANGED <<outEntries, failureLog>>
    BY <1>6 DEF Cancelled
  <2>2. OthersStay(k, b) /\ job'[k][b] = NoJob
    BY <2>1, TaskEnds
  <2> QED BY <1>1, <2>1, <2>2 DEF IsCancelled
<1> QED BY <1>3, <1>4, <1>5, <1>6 DEF Request

-----------------------------------------------------------------------------
(* The other steps, by what they do.                                       *)

\* A flush begins: it takes the logs given and finds no task of another.
Flushes(logs) ==
    /\ logs \in [Buckets -> Seq(Entries)]
    /\ \A b \in Buckets : job["flush"][b].state = "none"
    /\ \A b \in Buckets : job'["flush"][b] = Task(logs[b])
    /\ job'["codex"] = job["codex"]

LEMMA SnapshotEffect ==
    ASSUME FlusherTypeOK, ~flushing, NEW logs \in [Buckets -> Seq(Entries)],
           job' = Snapshot(logs)
    PROVE  /\ Flushes(logs)
           /\ job' \in [Kinds -> [Buckets -> Jobs]]
           /\ \A m \in Kinds, d \in Buckets : JobOK(job'[m][d])
           /\ \A m \in Kinds : (Cardinality(Open(m)) <= FlushConcurrency)'
<1>1. Entries \subseteq Nat
  BY Limits DEF Entries
<1>2. logs \in [Buckets -> Seq(Nat)]
  BY <1>1, SeqMonotonic
<1>3. job' = [job EXCEPT !["flush"] = [b \in Buckets |-> Task(logs[b])]]
  BY DEF Snapshot
<1>4. "flush" \in Kinds /\ "codex" \in Kinds \ {"flush"}
  BY DEF Kinds
<1>5. /\ job' \in [Kinds -> [Buckets -> Jobs]]
      /\ \A m \in Kinds, d \in Buckets : JobOK(job'[m][d])
      /\ \A m \in Kinds : (Cardinality(Open(m)) <= FlushConcurrency)'
      /\ \A d \in Buckets : job'["flush"][d] = Task(logs[d])
      /\ job'["codex"] = job["codex"]
  BY <1>2, <1>3, <1>4, AllTasks
<1>6. \A b \in Buckets : job["flush"][b].state = "none"
  BY DEF flushing
<1> QED BY <1>5, <1>6 DEF Flushes

\* send(): the entry is queued in a bucket of each endpoint, or a flush takes
\* what is queued in some buckets, F, and the entry goes to the queue of others.
Gets(b) == b \in BucketsOf(sent + 1)
With(b) == IF Gets(b) THEN Append(queue[b], sent + 1) ELSE queue[b]
LEMMA SendEffect ==
    ASSUME FlusherTypeOK, Send
    PROVE  /\ sent + 1 \in Entries /\ sent' = sent + 1 /\ phase = "up"
           /\ inEntries' = [b \in Buckets |-> inEntries[b] + (IF Gets(b) THEN 1 ELSE 0)]
           /\ UNCHANGED <<outEntries, outFailed, failureLog, batch, phase, backend, met>>
           /\ job' \in [Kinds -> [Buckets -> Jobs]]
           /\ \A m \in Kinds, d \in Buckets : JobOK(job'[m][d])
           /\ \A m \in Kinds : (Cardinality(Open(m)) <= FlushConcurrency)'
           /\ queue' \in [Buckets -> Seq(Entries)]
           /\ \/ job' = job /\ \A b \in Buckets : queue'[b] = With(b)
              \/ \E F \in SUBSET Buckets :
                    /\ \A b \in Buckets \ F : Gets(b)
                    /\ Flushes([b \in Buckets |-> IF b \in F THEN With(b) ELSE queue[b]])
                    /\ \A b \in Buckets : queue'[b] = IF b \in F THEN <<>> ELSE <<sent + 1>>
<1> DEFINE n == sent + 1
           with == [b \in Buckets |-> IF b \in BucketsOf(n) THEN Append(queue[b], n) ELSE queue[b]]
           full == {e \in Endpoints : Len(with[Bucket(e, n)]) >= BatchMaxSize}
           first == CHOOSE e \in full : \A f \in full : e <= f
           behind == {b \in BucketsOf(n) : b[1] > first}
           F == Buckets \ behind
           logs == [b \in Buckets |-> IF b \in F THEN With(b) ELSE queue[b]]
<1>1. n \in Entries /\ queue \in [Buckets -> Seq(Entries)]
  <2>1. sent \in Nat /\ sent < MaxEntries /\ MaxEntries \in Nat
    BY Limits DEF Send, FlusherTypeOK
  <2> QED BY <2>1 DEF FlusherTypeOK, Entries
<1>2. /\ \A b \in Buckets : With(b) \in Seq(Entries) /\ with[b] = With(b)
      /\ <<n>> \in Seq(Entries) /\ <<>> \in Seq(Entries)
  BY <1>1, AppendProperties DEF With, Gets
<1>3. /\ phase = "up" /\ sent' = n
      /\ inEntries' = [b \in Buckets |-> inEntries[b] + (IF Gets(b) THEN 1 ELSE 0)]
      /\ UNCHANGED <<outEntries, outFailed, failureLog, batch, phase, backend, met>>
      /\ IF full = {} \/ flushing
         THEN queue' = with /\ UNCHANGED job
         ELSE /\ job' = Snapshot([b \in Buckets |-> IF b \in behind THEN queue[b] ELSE with[b]])
              /\ queue' = [b \in Buckets |-> IF b \in behind THEN <<n>> ELSE <<>>]
  BY DEF Send, Gets
<1>4. CASE full = {} \/ flushing
  <2>1. queue' = with /\ job' = job
    BY <1>3, <1>4
  <2>2. queue' \in [Buckets -> Seq(Entries)] /\ \A b \in Buckets : queue'[b] = With(b)
    BY <1>2, <2>1
  <2>3. \A m \in Kinds : (Cardinality(Open(m)) <= FlushConcurrency)'
    BY <2>1, OpenShrinks
  <2> QED BY <1>1, <1>3, <2>1, <2>2, <2>3 DEF FlusherTypeOK
<1>5. CASE ~(full = {} \/ flushing)
  <2>1. /\ job' = Snapshot([b \in Buckets |-> IF b \in behind THEN queue[b] ELSE with[b]])
        /\ queue' = [b \in Buckets |-> IF b \in behind THEN <<n>> ELSE <<>>]
    BY <1>3, <1>5
  <2>6. \A b \in Buckets \ F : Gets(b)
    BY DEF Gets
  <2> HIDE DEF behind, full
  <2>2. [b \in Buckets |-> IF b \in behind THEN queue[b] ELSE with[b]] = logs
    BY <1>2
  <2>3. /\ queue' \in [Buckets -> Seq(Entries)]
        /\ \A b \in Buckets : queue'[b] = IF b \in F THEN <<>> ELSE <<n>>
    BY <1>2, <2>1
  <2>4. logs \in [Buckets -> Seq(Entries)]
    BY <1>1, <1>2
  <2> HIDE DEF logs
  <2>5. /\ Flushes(logs)
        /\ job' \in [Kinds -> [Buckets -> Jobs]]
        /\ \A m \in Kinds, d \in Buckets : JobOK(job'[m][d])
        /\ \A m \in Kinds : (Cardinality(Open(m)) <= FlushConcurrency)'
    BY <1>5, <2>1, <2>2, <2>4, SnapshotEffect
  <2>7. F \in SUBSET Buckets
    OBVIOUS
  <2> HIDE DEF F
  <2> QED BY <1>1, <1>3, <2>3, <2>5, <2>6, <2>7 DEF logs
<1> QED BY <1>4, <1>5

\* A flush of the timer or of the shutdown takes all there is.
Empties ==
    /\ queue' = [b \in Buckets |-> <<>>] /\ Flushes(queue)
    /\ job' \in [Kinds -> [Buckets -> Jobs]]
    /\ \A m \in Kinds, d \in Buckets : JobOK(job'[m][d])
    /\ \A m \in Kinds : (Cardinality(Open(m)) <= FlushConcurrency)'
LEMMA EmptiesQueue ==
    ASSUME FlusherTypeOK, ~flushing, job' = Snapshot(queue),
           queue' = [b \in Buckets |-> <<>>]
    PROVE  Empties
BY SnapshotEffect DEF FlusherTypeOK, Empties

\* A task is taken up, or dropped when its batch was cancelled before.
LEMMA TaskStartsEffect ==
    ASSUME FlusherTypeOK, NEW k \in Kinds, NEW b \in Buckets, TaskStarts(k, b)
    PROVE  /\ OthersStay(k, b) /\ job[k][b].state = "todo" /\ phase # "down"
           /\ \A m \in Kinds : (Cardinality(Open(m)) <= FlushConcurrency)'
           /\ \/ /\ k = "codex" /\ aborted /\ job'[k][b] = NoJob /\ failed' = TRUE
                 /\ UNCHANGED inEntries
              \/ /\ ~(k = "codex" /\ aborted) /\ UNCHANGED failed
                 /\ job'[k][b] = [job[k][b] EXCEPT !.state = "open"]
                 /\ inEntries' = IF k = "flush" THEN inEntries
                                 ELSE [inEntries EXCEPT ![b] = @ + Len(job[k][b].logs)]
           /\ UNCHANGED <<sent, queue, outEntries, outFailed, failureLog, codex, aborted, phase,
                          backend, met>>
<1> DEFINE x == [job[k][b] EXCEPT !.state = "open"]
<1>0. /\ job[k][b].state = "todo" /\ Cardinality(Open(k)) < FlushConcurrency /\ phase # "down"
      /\ UNCHANGED <<sent, queue, outEntries, outFailed, failureLog, codex, aborted, phase,
                     backend, met>>
  BY DEF TaskStarts
<1>1. CASE k = "codex" /\ aborted
  <2>1. job' = [job EXCEPT ![k][b] = NoJob] /\ failed' = TRUE /\ UNCHANGED inEntries
    BY <1>1 DEF TaskStarts
  <2>2. OthersStay(k, b) /\ job'[k][b] = NoJob
    BY <2>1, TaskEnds
  <2>3. ASSUME NEW m \in Kinds PROVE (Cardinality(Open(m)) <= FlushConcurrency)'
    BY <2>2, OpenShrinks DEF OthersStay, NoJob
  <2> QED BY <1>0, <1>1, <2>1, <2>2, <2>3
<1>2. CASE ~(k = "codex" /\ aborted)
  <2>1. /\ job' = [job EXCEPT ![k][b].state = "open"] /\ UNCHANGED failed
        /\ inEntries' = IF k = "flush" THEN inEntries
                        ELSE [inEntries EXCEPT ![b] = @ + Len(job[k][b].logs)]
    BY <1>2 DEF TaskStarts
  <2>2. job \in [Kinds -> [Buckets -> Jobs]] /\ job[k][b] \in Jobs /\ JobOK(job[k][b])
    BY DEF FlusherTypeOK
  <2>3. job' = [job EXCEPT ![k][b] = x]
    BY <2>1, <2>2
  <2>4. x \in Jobs /\ JobOK(x)
    BY <1>0, <2>2 DEF Jobs, JobOK
  <2> HIDE DEF x
  <2>5. OthersStay(k, b) /\ job'[k][b] = x
    BY <2>3, <2>4, OneTask DEF OthersStay
  <2>6. ASSUME NEW m \in Kinds PROVE (Cardinality(Open(m)) <= FlushConcurrency)'
    <3>1. CASE m = k
      BY <1>0, <2>5, <3>1, OpenGrows DEF OthersStay
    <3>2. CASE m # k
      BY <2>5, <3>2, OpenShrinks DEF OthersStay
    <3> QED BY <3>1, <3>2
  <2> QED BY <1>0, <1>2, <2>1, <2>5, <2>6 DEF x
<1> QED BY <1>1, <1>2

\* A Codex batch begins.
LEMMA CodexBeginsEffect ==
    ASSUME FlusherTypeOK, CodexProgress, CodexBegins
    PROVE  /\ phase = "up" /\ codex = "idle" /\ \A b \in Buckets : job["codex"][b].state = "none"
           /\ \/ aborted /\ codex' = "rejected" /\ job' = job
              \/ /\ ~aborted /\ codex' = "sending" /\ job'["flush"] = job["flush"]
                 /\ \A b \in Buckets : job'["codex"][b] = IF b \in CodexBuckets THEN Task(Batch)
                                                          ELSE NoJob
           /\ job' \in [Kinds -> [Buckets -> Jobs]]
           /\ \A m \in Kinds, d \in Buckets : JobOK(job'[m][d])
           /\ \A m \in Kinds : (Cardinality(Open(m)) <= FlushConcurrency)'
           /\ UNCHANGED <<sent, queue, counters, failed, aborted, phase, backend, met>>
<1>1. /\ phase = "up" /\ codex = "idle"
      /\ UNCHANGED <<sent, queue, counters, failed, aborted, phase, backend, met>>
  BY DEF CodexBegins
<1>2. \A b \in Buckets : job["codex"][b].state = "none"
  BY <1>1 DEF CodexProgress
<1>3. CASE aborted
  <2>1. codex' = "rejected" /\ job' = job
    BY <1>3 DEF CodexBegins
  <2>2. \A m \in Kinds : (Cardinality(Open(m)) <= FlushConcurrency)'
    BY <2>1, OpenShrinks
  <2> QED BY <1>1, <1>2, <1>3, <2>1, <2>2 DEF FlusherTypeOK
<1>4. CASE ~aborted
  <2> DEFINE logs == [b \in Buckets |-> IF b \in CodexBuckets THEN Batch ELSE <<>>]
  <2>1. /\ codex' = "sending"
        /\ job' = [job EXCEPT !["codex"] =
                      [b \in Buckets |-> Task(IF b \in CodexBuckets THEN Batch ELSE <<>>)]]
    BY <1>4 DEF CodexBegins
  <2>2. logs \in [Buckets -> Seq(Nat)]
    BY BatchType
  <2>3. job' = [job EXCEPT !["codex"] = [b \in Buckets |-> Task(logs[b])]]
    BY <2>1
  <2>4. \A b \in Buckets : Task(logs[b]) = IF b \in CodexBuckets THEN Task(Batch) ELSE NoJob
    BY DEF Task
  <2>5. "codex" \in Kinds /\ "flush" \in Kinds \ {"codex"}
    BY DEF Kinds
  <2> HIDE DEF logs
  <2>6. /\ job' \in [Kinds -> [Buckets -> Jobs]]
        /\ \A m \in Kinds, d \in Buckets : JobOK(job'[m][d])
        /\ \A m \in Kinds : (Cardinality(Open(m)) <= FlushConcurrency)'
        /\ \A d \in Buckets : job'["codex"][d] = Task(logs[d])
        /\ job'["flush"] = job["flush"]
    BY <2>2, <2>3, <2>5, AllTasks
  <2> QED BY <1>1, <1>2, <1>4, <2>1, <2>4, <2>6
<1> QED BY <1>3, <1>4

\* Every step is one of these, or leaves queue, tasks, books and endpoints alone.
FlushStep ==
    /\ Empties /\ phase = "up" /\ UNCHANGED <<sent, counters, batch, backend>>
    /\ \/ UNCHANGED <<phase, met>>
       \/ codex # "sending" /\ phase' = "draining" /\ met' = FALSE
QuietStep ==
    /\ UNCHANGED <<sent, queue, job, counters, failed, backend>>
    /\ \/ UNCHANGED <<codex, aborted, phase, met>>
       \/ codex = "sending" /\ CodexEnds
       \/ aborted' = TRUE /\ UNCHANGED <<codex, phase, met>>
       \/ /\ flushing /\ codex # "sending" /\ met' = TRUE /\ phase' = "down"
          /\ UNCHANGED <<codex, aborted>>
       \/ phase = "draining" /\ phase' = "down" /\ ~flushing /\ UNCHANGED <<codex, aborted, met>>

LEMMA StepCases ==
    ASSUME FlusherTypeOK, [FlusherNext]_vars
    PROVE  \/ Send \/ FlushStep \/ CodexBegins \/ QuietStep
           \/ \E k \in Kinds, b \in Buckets : TaskStarts(k, b) \/ Request(k, b)
<1>1. CASE UNCHANGED vars
  BY <1>1 DEF vars, batch, QuietStep
<1>2. CASE FlushBegins
  BY <1>2, EmptiesQueue DEF FlushBegins, FlushStep
<1>3. CASE CodexEnds
  BY <1>3 DEF CodexEnds, QuietStep
<1>4. CASE Abort
  BY <1>4 DEF Abort, QuietStep
<1>5. CASE Shutdown
  <2>1. CASE flushing
    BY <1>5, <2>1 DEF Shutdown, QuietStep, batch
  <2>2. CASE ~flushing
    <3>1. /\ phase = "up" /\ codex # "sending" /\ met' = flushing /\ phase' = "draining"
          /\ job' = Snapshot(queue) /\ queue' = [b \in Buckets |-> <<>>]
          /\ UNCHANGED <<sent, counters, batch, backend>>
      BY <1>5, <2>2 DEF Shutdown
    <3>2. met' = FALSE
      BY <2>2, <3>1
    <3>3. Empties
      BY <2>2, <3>1, EmptiesQueue
    <3> QED BY <3>1, <3>2, <3>3 DEF FlushStep
  <2> QED BY <2>1, <2>2
<1>6. CASE Exits
  BY <1>6 DEF Exits, QuietStep, batch
<1> QED BY <1>1, <1>2, <1>3, <1>4, <1>5, <1>6 DEF FlusherNext

-----------------------------------------------------------------------------
(* Types.                                                                  *)

LEMMA TypeStep ==
    ASSUME FlusherTypeOK, EntriesInOrder, CodexProgress, [FlusherNext]_vars
    PROVE  FlusherTypeOK'
<1> DEFINE Rest == /\ codex \in {"idle", "sending", "accepted", "rejected"}
                   /\ {failed, aborted, met} \subseteq BOOLEAN
                   /\ phase \in {"up", "draining", "down"}
           Books == {inEntries, outEntries, outFailed} \subseteq [Buckets -> Nat] /\ LogType
           Came == /\ arrived \in [Buckets -> Seq(Entries)]
                   /\ arrivedCodex \in [Buckets -> SUBSET (1 .. CodexLogs)]
           Queues == sent \in 0 .. MaxEntries /\ queue \in [Buckets -> Seq(Entries)]
           Tasks == /\ job \in [Kinds -> [Buckets -> Jobs]]
                    /\ \A m \in Kinds, d \in Buckets : JobOK(job[m][d])
                    /\ \A m \in Kinds : Cardinality(Open(m)) <= FlushConcurrency
<1>0. /\ Rest /\ Books /\ Came /\ Queues /\ Tasks
      /\ Rest' /\ Books' /\ Came' /\ Queues' /\ Tasks' => FlusherTypeOK'
  BY DEF FlusherTypeOK, LogType
<1>1. CASE Send
  <2>1. Rest' /\ Came' /\ Tasks' /\ Queues'
    <3>1. /\ UNCHANGED <<batch, phase, backend, met>> /\ Tasks'
          /\ sent' = sent + 1 /\ sent + 1 \in Entries /\ queue' \in [Buckets -> Seq(Entries)]
      BY <1>1, SendEffect
    <3>2. sent' \in 0 .. MaxEntries
      BY <3>1, Limits DEF Entries
    <3> QED BY <1>0, <3>1, <3>2 DEF batch, backend
  <2>2. Books'
    <3>1. /\ inEntries' = [b \in Buckets |-> inEntries[b] + (IF Gets(b) THEN 1 ELSE 0)]
          /\ UNCHANGED <<outEntries, outFailed, failureLog>>
      BY <1>1, SendEffect
    <3>2. inEntries' \in [Buckets -> Nat]
      BY <1>0, <3>1
    <3> QED BY <1>0, <3>1, <3>2 DEF LogType, failureLog
  <2> QED BY <1>0, <2>1, <2>2
<1>2. CASE FlushStep
  <2>1. Tasks'
    BY <1>2 DEF FlushStep, Empties
  <2>2. Queues'
    BY <1>0, <1>2 DEF FlushStep, Empties
  <2>3. Rest' /\ Books' /\ Came'
    BY <1>0, <1>2 DEF FlushStep, batch, counters, failureLog, LogType, backend
  <2> QED BY <1>0, <2>1, <2>2, <2>3
<1>3. CASE CodexBegins
  <2>1. Tasks' /\ UNCHANGED <<sent, queue, counters, failed, aborted, phase, backend, met>>
        /\ codex' \in {"rejected", "sending"}
    BY <1>3, CodexBeginsEffect
  <2> QED BY <1>0, <2>1 DEF counters, failureLog, LogType, backend
<1>4. CASE QuietStep
  <2>1. Tasks'
    <3>1. job' = job
      BY <1>4 DEF QuietStep
    <3> QED BY <1>0, <3>1 DEF Open
  <2>2. Rest'
    BY <1>0, <1>4 DEF QuietStep, CodexEnds
  <2>3. Books' /\ Came' /\ Queues'
    BY <1>0, <1>4 DEF QuietStep, counters, failureLog, LogType, backend
  <2> QED BY <1>0, <2>1, <2>2, <2>3
<1>5. ASSUME NEW k \in Kinds, NEW b \in Buckets, TaskStarts(k, b) PROVE FlusherTypeOK'
  <2>1. /\ Tasks' /\ UNCHANGED <<sent, queue, outEntries, outFailed, failureLog, codex, aborted,
                                 phase, backend, met>>
        /\ failed' \in {TRUE, failed}
        /\ \/ UNCHANGED inEntries
           \/ inEntries' = [inEntries EXCEPT ![b] = @ + Len(job[k][b].logs)]
    BY <1>5, TaskStartsEffect DEF OthersStay
  <2>2. Len(job[k][b].logs) \in Nat
    BY JobType
  <2>3. inEntries' \in [Buckets -> Nat]
    BY <1>0, <2>1, <2>2
  <2>4. Rest' /\ Came' /\ Queues'
    BY <1>0, <2>1 DEF backend
  <2>5. Books'
    BY <1>0, <2>1, <2>3 DEF failureLog, LogType
  <2> QED BY <1>0, <2>1, <2>4, <2>5
<1>6. ASSUME NEW k \in Kinds, NEW b \in Buckets, Request(k, b) PROVE FlusherTypeOK'
  <2>1. /\ OthersStay(k, b) /\ job[k][b].state = "open"
        /\ Arrives(k, b) \/ UNCHANGED backend
        /\ Settles(k, b) \/ TriesAgain(k, b) \/ IsCancelled(k, b)
        /\ UNCHANGED <<sent, queue, inEntries, codex, aborted, phase, met>>
    BY <1>6, RequestEffect
  <2>2. Tasks'
    <3>1. ASSUME NEW m \in Kinds PROVE (Cardinality(Open(m)) <= FlushConcurrency)'
      BY <2>1, OpenShrinks DEF OthersStay
    <3> QED BY <2>1, <3>1 DEF OthersStay
  <2>3. Came'
    <3>1. CASE k = "flush"
      BY <1>0, <2>1, <3>1, FlushArrives
    <3>2. CASE k = "codex"
      BY <1>0, <2>1, <3>2, CodexArrives
    <3> QED BY <3>1, <3>2 DEF Kinds
  <2>4. /\ job[k][b].ok \in Nat /\ job[k][b].bad \in Nat /\ Size(k, b) \in Nat
        /\ Len(job[k][b].logs) \in Nat
    <3>1. job[k][b].at \in Nat /\ Last_(k, b) \in Nat /\ job[k][b].at <= Last_(k, b) + 1
      BY JobType, ChunkProperties
    <3> QED BY <3>1, JobType DEF Size
  <2>5. outEntries' \in [Buckets -> Nat] /\ outFailed' \in [Buckets -> Nat]
        /\ LogType' /\ failed' \in BOOLEAN
    <3>1. /\ outEntries \in [Buckets -> Nat] /\ outFailed \in [Buckets -> Nat]
          /\ LogType /\ (UNCHANGED failureLog => LogType') /\ failed \in BOOLEAN
      BY <1>0 DEF LogType, failureLog
    <3>2. ASSUME NEW ok \in Nat, NEW bad \in Nat, Goes(k, b, ok, bad)
          PROVE  /\ outEntries' \in [Buckets -> Nat] /\ outFailed' \in [Buckets -> Nat]
                 /\ failed' \in BOOLEAN
      <4>1. CASE UNCHANGED <<outEntries, outFailed, failed>>
        BY <3>1, <4>1
      <4>2. CASE /\ outEntries' = [outEntries EXCEPT ![b] = @ + ok]
                 /\ outFailed' = [outFailed EXCEPT ![b] = @ + bad]
                 /\ failed' = (failed \/ (k = "codex" /\ bad > 0))
        <5>1. outEntries' \in [Buckets -> Nat]
          BY <3>1, <4>2
        <5>2. outFailed' \in [Buckets -> Nat]
          BY <3>1, <4>2
        <5>3. failed' \in BOOLEAN
          BY <4>2
        <5> QED BY <5>1, <5>2, <5>3
      <4> QED BY <3>2, <4>1, <4>2 DEF Goes
    <3>3. CASE Settles(k, b)
      <4>1. job[k][b].ok + Size(k, b) \in Nat /\ job[k][b].bad + Size(k, b) \in Nat
        BY <2>4
      <4>2. LogType'
        BY <3>1, <3>3 DEF Settles
      <4> QED BY <2>4, <3>2, <3>3, <4>1, <4>2 DEF Settles
    <3>4. CASE TriesAgain(k, b)
      BY <3>1, <3>4 DEF TriesAgain
    <3>5. CASE IsCancelled(k, b)
      <4>1. outFailed' = [outFailed EXCEPT ![b] = @ + Len(job[k][b].logs)]
        BY <3>5 DEF IsCancelled
      <4>2. outFailed' \in [Buckets -> Nat]
        <5>1. Len(job[k][b].logs) \in Nat
          BY <2>4
        <5>2. outFailed \in [Buckets -> Nat]
          BY <3>1
        <5> DEFINE n == Len(job[k][b].logs)
        <5>3. n \in Nat /\ outFailed' = [outFailed EXCEPT ![b] = @ + n]
          BY <4>1, <5>1
        <5> HIDE DEF n
        <5> QED BY <5>2, <5>3
      <4> QED BY <3>1, <3>5, <4>2 DEF IsCancelled
    <3> QED BY <2>1, <3>3, <3>4, <3>5
  <2>6. Books' /\ Rest' /\ Queues'
    BY <1>0, <2>1, <2>5
  <2> QED BY <1>0, <2>2, <2>3, <2>6
<1> QED BY <1>1, <1>2, <1>3, <1>4, <1>5, <1>6, StepCases

-----------------------------------------------------------------------------
(* The order of the entries.                                               *)

\* The order at one endpoint.
OrderAt(b) ==
    LET j == job["flush"][b]
        next == IF Taken(b) THEN Last_("flush", b) + 1 ELSE j.at
    IN
    /\ Increasing(arrived[b]) /\ Increasing(j.logs) /\ Increasing(queue[b])
    /\ \A i \in 1 .. Len(queue[b]) :
          /\ queue[b][i] <= sent
          /\ \A m \in 1 .. Len(j.logs) : j.logs[m] < queue[b][i]
          /\ \A m \in 1 .. Len(arrived[b]) : arrived[b][m] < queue[b][i]
    /\ \A i \in 1 .. Len(j.logs) : j.logs[i] \in 1 .. sent
    /\ \A m \in 1 .. Len(arrived[b]) : arrived[b][m] <= sent
    /\ \A i \in next .. Len(j.logs), m \in 1 .. Len(arrived[b]) : arrived[b][m] < j.logs[i]

LEMMA OrderByEndpoint ==
    /\ EntriesInOrder /\ ArriveInOrder <=> \A b \in Buckets : OrderAt(b)
    /\ (EntriesInOrder /\ ArriveInOrder)' <=> \A b \in Buckets : OrderAt(b)'
BY Zenon DEF EntriesInOrder, ArriveInOrder, OrderAt

\* Where neither queue, task nor endpoint changes, the order stays.
LEMMA OrderSame ==
    ASSUME NEW b \in Buckets, OrderAt(b), sent \in Nat, sent' \in Nat, sent <= sent',
           FlusherTypeOK,
           queue'[b] = queue[b], arrived'[b] = arrived[b],
           job'["flush"][b].logs = job["flush"][b].logs, job'["flush"][b].at = job["flush"][b].at
    PROVE  OrderAt(b)'
<1>1. Taken(b)' = Taken(b) /\ Last_("flush", b)' = Last_("flush", b)
  <2> DEFINE logs == job["flush"][b].logs  at == job["flush"][b].at
  <2>1. Last_("flush", b)' = Last_("flush", b)
    <3>1. logs' = logs /\ at' = at
      OBVIOUS
    <3>2. Last_("flush", b) = IF Len(logs) < at + ChunkLogs[b[1]] - 1 THEN Len(logs)
                              ELSE at + ChunkLogs[b[1]] - 1
      BY DEF Last_
    <3>3. Last_("flush", b)' = IF Len(logs') < at' + ChunkLogs[b[1]] - 1 THEN Len(logs')
                               ELSE at' + ChunkLogs[b[1]] - 1
      BY DEF Last_
    <3> HIDE DEF logs, at
    <3> QED BY <3>1, <3>2, <3>3
  <2>2. Chunk("flush", b)' = Chunk("flush", b)
    BY <2>1 DEF Chunk
  <2> QED BY <2>1, <2>2 DEF Taken
<1>2. /\ \A i \in 1 .. Len(queue[b]) : queue[b][i] \in Nat
      /\ \A m \in 1 .. Len(arrived[b]) : arrived[b][m] \in Nat
  <2>1. queue[b] \in Seq(Entries) /\ arrived[b] \in Seq(Entries)
    BY DEF FlusherTypeOK
  <2>2. /\ \A i \in 1 .. Len(queue[b]) : queue[b][i] \in Entries
        /\ \A m \in 1 .. Len(arrived[b]) : arrived[b][m] \in Entries
    BY <2>1, ElementOfSeq
  <2> QED BY <2>2, Limits DEF Entries
<1>3. /\ \A i \in 1 .. Len(queue[b]) : queue[b][i] <= sent'
      /\ \A m \in 1 .. Len(arrived[b]) : arrived[b][m] <= sent'
      /\ \A i \in 1 .. Len(job["flush"][b].logs) : job["flush"][b].logs[i] \in 1 .. sent'
  BY <1>2 DEF OrderAt
<1> QED BY <1>1, <1>3 DEF OrderAt

\* A new task finds the endpoint with less than it brings.
LEMMA OrderOfNewTask ==
    ASSUME NEW b \in Buckets, OrderAt(b), FlusherTypeOK, FlusherTypeOK',
           job["flush"][b].state = "none", arrived' = arrived,
           NEW logs \in Seq(Entries), job'["flush"][b] = Task(logs),
           Increasing(logs), Increasing(queue'[b]), sent <= sent',
           \A i \in 1 .. Len(logs) : logs[i] <= sent',
           \A i \in 1 .. Len(queue'[b]) : queue'[b][i] <= sent',
           \A i \in 1 .. Len(logs), m \in 1 .. Len(arrived[b]) : arrived[b][m] < logs[i],
           \A i \in 1 .. Len(queue'[b]), m \in 1 .. Len(logs) : logs[m] < queue'[b][i],
           \A i \in 1 .. Len(queue'[b]), m \in 1 .. Len(arrived[b]) :
               arrived[b][m] < queue'[b][i]
    PROVE  OrderAt(b)'
<1>1. job'["flush"][b].logs = logs /\ job'["flush"][b].at = 1
  <2>1. logs \in Seq(Nat)
    BY Limits, SeqMonotonic DEF Entries
  <2> QED BY <2>1, TaskType
<1>2. \A i \in 1 .. Len(logs) : logs[i] \in 1 .. sent'
  <2>1. \A i \in 1 .. Len(logs) : logs[i] \in Entries
    BY ElementOfSeq
  <2>2. sent' \in Nat /\ MaxEntries \in Nat
    BY Limits DEF FlusherTypeOK
  <2> QED BY <2>1, <2>2 DEF Entries
<1>3. \A m \in 1 .. Len(arrived[b]) : arrived[b][m] <= sent'
  <2>1. \A m \in 1 .. Len(arrived[b]) : arrived[b][m] \in Nat /\ arrived[b][m] <= sent
    <3>1. arrived[b] \in Seq(Entries)
      BY DEF FlusherTypeOK
    <3>2. \A m \in 1 .. Len(arrived[b]) : arrived[b][m] \in Entries
      BY <3>1, ElementOfSeq
    <3> QED BY <3>2, Limits DEF OrderAt, Entries
  <2>2. sent \in Nat /\ sent' \in Nat
    BY DEF FlusherTypeOK
  <2> QED BY <2>1, <2>2
<1>4. Last_("flush", b)' \in Nat
  <2>1. Len(logs) \in Nat /\ ChunkLogs[b[1]] \in Nat \ {0}
    BY Limits
  <2>2. Last_("flush", b)' = IF Len(logs) < 1 + ChunkLogs[b[1]] - 1 THEN Len(logs)
                             ELSE 1 + ChunkLogs[b[1]] - 1
    BY <1>1 DEF Last_
  <2> QED BY <2>1, <2>2
<1>5. \A i \in Nat, m \in 1 .. Len(arrived[b]) :
          1 <= i /\ i <= Len(logs) => arrived[b][m] < logs[i]
  OBVIOUS
<1>6. Increasing(arrived[b])
  BY DEF OrderAt
<1> QED BY <1>1, <1>2, <1>3, <1>4, <1>5, <1>6 DEF OrderAt

-----------------------------------------------------------------------------
LEMMA OrderAfterSend ==
    ASSUME FlusherTypeOK, FlusherTypeOK', Send, NEW b \in Buckets, OrderAt(b)
    PROVE  OrderAt(b)'
<1> DEFINE q == queue[b]
           w == With(b)
<1>1. /\ sent \in Nat /\ sent' = sent + 1 /\ sent + 1 \in Entries /\ arrived' = arrived
      /\ q \in Seq(Entries) /\ arrived[b] \in Seq(Entries)
  <2>1. sent' = sent + 1 /\ sent + 1 \in Entries /\ UNCHANGED backend
    BY SendEffect
  <2>2. sent \in Nat /\ q \in Seq(Entries) /\ arrived[b] \in Seq(Entries)
    BY DEF FlusherTypeOK
  <2> QED BY <2>1, <2>2 DEF backend
<1>2. /\ w \in Seq(Entries) /\ Len(q) \in Nat
      /\ \/ /\ Len(w) = Len(q) + 1 /\ w[Len(q) + 1] = sent + 1
            /\ \A i \in 1 .. Len(q) : w[i] = q[i]
         \/ w = q /\ ~Gets(b)
  BY <1>1, AppendProperties DEF With
<1>3. /\ \A i \in 1 .. Len(q) : q[i] \in Nat /\ q[i] <= sent
      /\ \A m \in 1 .. Len(arrived[b]) : arrived[b][m] \in Nat /\ arrived[b][m] <= sent
  <2>1. /\ \A i \in 1 .. Len(q) : q[i] \in Entries
        /\ \A m \in 1 .. Len(arrived[b]) : arrived[b][m] \in Entries
    BY <1>1, ElementOfSeq
  <2> QED BY <2>1, Limits DEF Entries, OrderAt
<1>4. \A i \in 1 .. Len(w) : (i \in 1 .. Len(q) /\ w[i] = q[i]) \/ (i = Len(q) + 1 /\ w[i] = sent + 1)
  BY <1>2
<1>5. Increasing(w) /\ \A i \in 1 .. Len(w) : w[i] <= sent'
  <2>1. \A i, j \in 1 .. Len(q) : i < j => q[i] < q[j]
    BY DEF OrderAt, Increasing
  <2> DEFINE n == Len(q)  l == Len(w)
  <2>2. /\ sent \in Nat /\ sent' = sent + 1 /\ n \in Nat /\ l \in Nat /\ l <= n + 1
        /\ \A i \in 1 .. n : q[i] \in Nat /\ q[i] <= sent
        /\ \A i \in 1 .. l : (i \in 1 .. n /\ w[i] = q[i]) \/ (i = n + 1 /\ w[i] = sent + 1)
        /\ \A i, j \in 1 .. n : i < j => q[i] < q[j]
    <3>1. Len(w) \in Nat /\ Len(w) <= Len(q) + 1
      BY <1>2
    <3> HIDE DEF q, w
    <3> QED BY <1>1, <1>2, <1>3, <1>4, <2>1, <3>1
  <2> SUFFICES /\ \A i, j \in 1 .. l : i < j => w[i] < w[j]
               /\ \A i \in 1 .. l : w[i] <= sent'
    BY DEF Increasing
  <2> HIDE DEF q, w, n, l
  <2>3. ASSUME NEW i \in 1 .. l, NEW j \in 1 .. l, i < j PROVE w[i] < w[j]
    <3>1. i \in 1 .. n /\ w[i] = q[i] /\ q[i] \in Nat /\ q[i] <= sent
      BY <2>2, <2>3
    <3>2. CASE j \in 1 .. n /\ w[j] = q[j]
      BY <2>2, <2>3, <3>1, <3>2
    <3>3. CASE j = n + 1 /\ w[j] = sent + 1
      BY <2>2, <3>1, <3>3
    <3> QED BY <2>2, <3>2, <3>3
  <2>4. ASSUME NEW i \in 1 .. l PROVE w[i] <= sent'
    BY <2>2, <2>4
  <2> QED BY <2>3, <2>4
<1>6. \A i \in 1 .. Len(w), m \in 1 .. Len(arrived[b]) : arrived[b][m] < w[i]
  <2>1. \A i \in 1 .. Len(q), m \in 1 .. Len(arrived[b]) : arrived[b][m] < q[i]
    BY DEF OrderAt
  <2> HIDE DEF q, w
  <2> QED BY <1>1, <1>3, <1>4, <2>1
<1>7. CASE job' = job /\ queue'[b] = w
  <2>1. \A m \in 1 .. Len(job["flush"][b].logs) :
            /\ job["flush"][b].logs[m] \in 1 .. sent
            /\ \A i \in 1 .. Len(q) : job["flush"][b].logs[m] < q[i]
    BY DEF OrderAt
  <2>2. \A i \in 1 .. Len(w), m \in 1 .. Len(job["flush"][b].logs) : job["flush"][b].logs[m] < w[i]
    <3> DEFINE l == job["flush"][b].logs
    <3>1. /\ sent \in Nat
          /\ \A m \in 1 .. Len(l) : l[m] \in 1 .. sent /\ \A i \in 1 .. Len(q) : l[m] < q[i]
      BY <1>1, <2>1
    <3> SUFFICES \A i \in 1 .. Len(w), m \in 1 .. Len(l) : l[m] < w[i]
      OBVIOUS
    <3> HIDE DEF q, w, l
    <3> TAKE i \in 1 .. Len(w), m \in 1 .. Len(l)
    <3>2. CASE i \in 1 .. Len(q) /\ w[i] = q[i]
      BY <3>1, <3>2
    <3>3. CASE i = Len(q) + 1 /\ w[i] = sent + 1
      BY <3>1, <3>3
    <3> QED BY <1>4, <3>2, <3>3
  <2>3. Taken(b)' = Taken(b) /\ Last_("flush", b)' = Last_("flush", b)
    BY <1>1, <1>7 DEF Taken, Chunk, Last_
  <2>4. \A m \in 1 .. Len(job["flush"][b].logs) : job["flush"][b].logs[m] \in 1 .. sent'
    BY <1>1, <2>1
  <2>5. \A m \in 1 .. Len(arrived[b]) : arrived[b][m] <= sent'
    BY <1>1, <1>3
  <2> HIDE DEF q, w
  <2> QED BY <1>1, <1>5, <1>6, <1>7, <2>2, <2>3, <2>4, <2>5 DEF OrderAt
<1>8. ASSUME NEW F \in SUBSET Buckets,
             b \notin F => Gets(b),
             Flushes([d \in Buckets |-> IF d \in F THEN With(d) ELSE queue[d]]),
             queue'[b] = IF b \in F THEN <<>> ELSE <<sent + 1>>
      PROVE  OrderAt(b)'
  <2> DEFINE logs == IF b \in F THEN w ELSE q
  <2>1. job["flush"][b].state = "none" /\ job'["flush"][b] = Task(logs)
    BY <1>8 DEF Flushes
  <2>2. /\ logs \in Seq(Entries) /\ Increasing(logs)
        /\ \A i \in 1 .. Len(logs) : logs[i] <= sent'
        /\ \A i \in 1 .. Len(logs), m \in 1 .. Len(arrived[b]) : arrived[b][m] < logs[i]
    <3>1. Increasing(q) /\ \A i \in 1 .. Len(q), m \in 1 .. Len(arrived[b]) : arrived[b][m] < q[i]
      BY DEF OrderAt
    <3> HIDE DEF q, w
    <3>2. \A i \in 1 .. Len(q) : q[i] <= sent'
      BY <1>1, <1>3
    <3> QED BY <1>1, <1>2, <1>5, <1>6, <3>1, <3>2
  <2>3. /\ Increasing(queue'[b])
        /\ \A i \in 1 .. Len(queue'[b]) :
              queue'[b][i] = sent' /\ b \notin F
    <3>1. CASE b \in F
      BY <1>8, <3>1 DEF Increasing
    <3>2. CASE b \notin F
      <4>1. queue'[b] = <<sent'>> /\ Len(<<sent'>>) = 1
        BY <1>1, <1>8, <3>2
      <4> QED BY <3>2, <4>1 DEF Increasing
    <3> QED BY <3>1, <3>2
  <2>4. \A i \in 1 .. Len(queue'[b]) :
            /\ queue'[b][i] <= sent'
            /\ \A m \in 1 .. Len(logs) : logs[m] < queue'[b][i]
            /\ \A m \in 1 .. Len(arrived[b]) : arrived[b][m] < queue'[b][i]
    <3> HIDE DEF q, w
    <3> QED BY <1>1, <1>3, <2>3
  <2> HIDE DEF logs, q, w
  <2> QED BY <1>1, <2>1, <2>2, <2>3, <2>4, OrderOfNewTask
<1>9. \/ job' = job /\ \A d \in Buckets : queue'[d] = With(d)
      \/ \E F \in SUBSET Buckets :
            /\ \A d \in Buckets \ F : Gets(d)
            /\ Flushes([d \in Buckets |-> IF d \in F THEN With(d) ELSE queue[d]])
            /\ \A d \in Buckets : queue'[d] = IF d \in F THEN <<>> ELSE <<sent + 1>>
  BY SendEffect
<1> QED BY <1>7, <1>8, <1>9

\* A flush of all that is queued.
LEMMA OrderAfterFlush ==
    ASSUME FlusherTypeOK, FlusherTypeOK', FlushStep, NEW b \in Buckets, OrderAt(b)
    PROVE  OrderAt(b)'
<1>1. /\ job["flush"][b].state = "none" /\ job'["flush"][b] = Task(queue[b])
      /\ queue'[b] = <<>> /\ arrived' = arrived /\ sent' = sent
  BY DEF FlushStep, Empties, Flushes, backend
<1>2. queue[b] \in Seq(Entries) /\ sent \in Nat
  BY DEF FlusherTypeOK
<1>3. /\ Increasing(queue[b]) /\ \A i \in 1 .. Len(queue[b]) : queue[b][i] <= sent'
      /\ \A i \in 1 .. Len(queue[b]), m \in 1 .. Len(arrived[b]) : arrived[b][m] < queue[b][i]
  BY <1>1 DEF OrderAt
<1>4. Len(queue'[b]) = 0 /\ Increasing(queue'[b])
  BY <1>1 DEF Increasing
<1> QED BY <1>1, <1>2, <1>3, <1>4, OrderOfNewTask

-----------------------------------------------------------------------------
\* A part c of s follows what came, a, which comes before all of that part.
LEMMA OrderedConcat ==
    ASSUME NEW a \in Seq(Nat), NEW s \in Seq(Nat), NEW c \in Seq(Nat),
           NEW at \in Nat \ {0}, NEW l \in Nat, l <= Len(s), at <= l + 1,
           Len(c) = l + 1 - at, \A i \in 1 .. Len(c) : c[i] = s[at + i - 1],
           Increasing(a), Increasing(s),
           \A i \in at .. Len(s), m \in 1 .. Len(a) : a[m] < s[i]
    PROVE  LET u == a \o c IN
           /\ Increasing(u) /\ Len(u) = Len(a) + (l + 1 - at) /\ Len(u) \in Nat
           /\ \A m \in 1 .. Len(u) :
                 \/ m \in 1 .. Len(a) /\ u[m] = a[m]
                 \/ \E i \in 1 .. Len(s) : u[m] = s[i]
           /\ \A m \in 1 .. Len(u), i \in l + 1 .. Len(s) : u[m] < s[i]
<1> DEFINE u == a \o c
<1>1. /\ Len(u) = Len(a) + Len(c) /\ Len(a) \in Nat /\ Len(c) \in Nat /\ Len(s) \in Nat
      /\ \A i \in 1 .. Len(u) : u[i] = IF i <= Len(a) THEN a[i] ELSE c[i - Len(a)]
  BY ConcatProperties, LenProperties
<1> HIDE DEF u
<1>2. \A m \in 1 .. Len(a) : m \in 1 .. Len(u) /\ u[m] = a[m]
  BY <1>1
<1>3. ASSUME NEW m \in 1 .. Len(u), m > Len(a)
      PROVE  m + at - Len(a) - 1 \in at .. l /\ u[m] = s[m + at - Len(a) - 1]
  <2>1. m - Len(a) \in 1 .. Len(c) /\ u[m] = c[m - Len(a)]
    BY <1>1, <1>3
  <2>2. at + (m - Len(a)) - 1 = m + at - Len(a) - 1
    BY <1>1
  <2>3. c[m - Len(a)] = s[at + (m - Len(a)) - 1]
    BY <2>1
  <2>4. m + at - Len(a) - 1 \in at .. l
    BY <1>1, <2>1
  <2> QED BY <2>1, <2>2, <2>3, <2>4
<1>4. \A i \in at .. l : i \in 1 .. Len(s) /\ i \in at .. Len(s)
  BY <1>1
<1>5. Increasing(u)
  <2> SUFFICES ASSUME NEW x \in 1 .. Len(u), NEW y \in 1 .. Len(u), x < y PROVE u[x] < u[y]
    BY DEF Increasing
  <2>1. CASE y <= Len(a)
    <3>1. x \in 1 .. Len(a) /\ y \in 1 .. Len(a)
      BY <1>1, <2>1
    <3> QED BY <1>2, <3>1 DEF Increasing
  <2>2. CASE x <= Len(a) /\ y > Len(a)
    <3>1. x \in 1 .. Len(a)
      BY <1>1, <2>2
    <3> QED BY <1>2, <1>3, <1>4, <2>2, <3>1
  <2>3. CASE x > Len(a)
    <3>1. y > Len(a) /\ x + at - Len(a) - 1 < y + at - Len(a) - 1
      <4>1. x \in Nat /\ y \in Nat /\ Len(a) \in Nat /\ at \in Nat
        BY <1>1
      <4> QED BY <2>3, <4>1
    <3>2. /\ x + at - Len(a) - 1 \in 1 .. Len(s) /\ u[x] = s[x + at - Len(a) - 1]
          /\ y + at - Len(a) - 1 \in 1 .. Len(s) /\ u[y] = s[y + at - Len(a) - 1]
      BY <1>3, <1>4, <2>3, <3>1
    <3> QED BY <3>1, <3>2 DEF Increasing
  <2> QED BY <1>1, <2>1, <2>2, <2>3
<1>6. ASSUME NEW m \in 1 .. Len(u)
      PROVE  (m \in 1 .. Len(a) /\ u[m] = a[m]) \/ \E i \in 1 .. Len(s) : u[m] = s[i]
  <2>1. CASE m <= Len(a)
    BY <1>1, <1>2, <2>1
  <2>2. CASE m > Len(a)
    BY <1>3, <1>4, <2>2
  <2> QED BY <1>1, <2>1, <2>2
<1>7. ASSUME NEW m \in 1 .. Len(u), NEW i \in l + 1 .. Len(s) PROVE u[m] < s[i]
  <2>1. i \in at .. Len(s) /\ i \in 1 .. Len(s) /\ l < i
    BY <1>1
  <2>2. CASE m <= Len(a)
    <3>1. m \in 1 .. Len(a)
      BY <1>1, <2>2
    <3> QED BY <1>2, <2>1, <3>1
  <2>3. CASE m > Len(a)
    <3>1. /\ m + at - Len(a) - 1 \in at .. l /\ m + at - Len(a) - 1 \in 1 .. Len(s)
          /\ u[m] = s[m + at - Len(a) - 1]
      BY <1>3, <1>4, <2>3
    <3>2. m + at - Len(a) - 1 < i
      BY <2>1, <3>1
    <3> QED BY <2>1, <3>1, <3>2 DEF Increasing
  <2> QED BY <1>1, <2>2, <2>3
<1>8. Len(u) = Len(a) + (l + 1 - at) /\ Len(u) \in Nat
  BY <1>1
<1> QED BY <1>5, <1>6, <1>7, <1>8 DEF u

\* What a request brings lies between what came and what is still to come.
LEMMA OrderOfArrivals ==
    ASSUME FlusherTypeOK, EntriesInOrder, CodexProgress, NEW b \in Buckets, OrderAt(b),
           job["flush"][b].state = "open",
           Arrives("flush", b) \/ UNCHANGED backend
    PROVE  LET j == job["flush"][b]
               l == Last_("flush", b)
           IN
           /\ Increasing(arrived'[b])
           /\ \A m \in 1 .. Len(arrived'[b]) : arrived'[b][m] <= sent
           /\ \A m \in 1 .. Len(arrived'[b]), i \in 1 .. Len(queue[b]) : arrived'[b][m] < queue[b][i]
           /\ \A m \in 1 .. Len(arrived'[b]), i \in l + 1 .. Len(j.logs) : arrived'[b][m] < j.logs[i]
           /\ Len(arrived'[b]) \in Nat
           /\ \/ arrived'[b] = arrived[b]
              \/ ~Taken(b) /\ Len(arrived'[b]) = Len(arrived[b]) + (l + 1 - j.at)
<1> DEFINE j == job["flush"][b]
           l == Last_("flush", b)
           a == arrived[b]
           u == arrived'[b]
           c == Chunk("flush", b)
           q == queue[b]
<1>1. /\ j.at \in Nat \ {0} /\ j.logs \in Seq(Nat) /\ l \in Nat /\ l <= Len(j.logs)
      /\ j.at <= l + 1 /\ Len(j.logs) \in Nat
      /\ c \in Seq(Nat) /\ Len(c) = l + 1 - j.at
      /\ \A i \in 1 .. Len(c) : c[i] = j.logs[j.at + i - 1]
  BY JobType, ChunkProperties DEF Kinds
<1>2. /\ a \in Seq(Nat) /\ Len(a) \in Nat /\ \A m \in 1 .. Len(a) : a[m] \in Nat
      /\ sent \in Nat
  <2>1. a \in Seq(Entries) /\ sent \in Nat /\ Entries \subseteq Nat
    BY Limits DEF FlusherTypeOK, Entries
  <2>2. a \in Seq(Nat)
    BY <2>1, SeqMonotonic
  <2> HIDE DEF a
  <2> QED BY <2>1, <2>2, ElementOfSeq
<1>3. /\ Increasing(a) /\ Increasing(j.logs)
      /\ \A i \in 1 .. Len(q), m \in 1 .. Len(j.logs) : j.logs[m] < q[i]
      /\ \A i \in 1 .. Len(q), m \in 1 .. Len(a) : a[m] < q[i]
      /\ \A i \in 1 .. Len(j.logs) : j.logs[i] \in 1 .. sent
      /\ \A m \in 1 .. Len(a) : a[m] <= sent
      /\ \A i \in (IF Taken(b) THEN l + 1 ELSE j.at) .. Len(j.logs), m \in 1 .. Len(a) :
            a[m] < j.logs[i]
  BY DEF OrderAt
<1>4. CASE u = a
  <2>1. \A i \in l + 1 .. Len(j.logs) : i \in (IF Taken(b) THEN l + 1 ELSE j.at) .. Len(j.logs)
    BY <1>1
  <2> QED BY <1>2, <1>3, <1>4, <2>1
<1>5. CASE ~Taken(b) /\ u = a \o c
  <2>1. \A i \in j.at .. Len(j.logs), m \in 1 .. Len(a) : a[m] < j.logs[i]
    BY <1>3, <1>5
  <2>2. /\ Increasing(u) /\ Len(u) = Len(a) + (l + 1 - j.at) /\ Len(u) \in Nat
        /\ \A m \in 1 .. Len(u) :
              \/ m \in 1 .. Len(a) /\ u[m] = a[m]
              \/ \E i \in 1 .. Len(j.logs) : u[m] = j.logs[i]
        /\ \A m \in 1 .. Len(u), i \in l + 1 .. Len(j.logs) : u[m] < j.logs[i]
    <3> HIDE DEF a, u, c, j, l
    <3>1. /\ j.logs \in Seq(Nat) /\ a \in Seq(Nat) /\ c \in Seq(Nat) /\ j.at \in Nat \ {0}
          /\ l \in Nat /\ l <= Len(j.logs) /\ j.at <= l + 1 /\ Len(c) = l + 1 - j.at
          /\ \A i \in 1 .. Len(c) : c[i] = j.logs[j.at + i - 1]
          /\ Increasing(a) /\ Increasing(j.logs)
      BY <1>1, <1>2, <1>3
    <3> DEFINE at == j.at
               s == j.logs
    <3>2. /\ s \in Seq(Nat) /\ at \in Nat \ {0} /\ l \in Nat /\ l <= Len(s) /\ at <= l + 1
          /\ Len(c) = l + 1 - at /\ \A i \in 1 .. Len(c) : c[i] = s[at + i - 1]
          /\ Increasing(s) /\ \A i \in at .. Len(s), m \in 1 .. Len(a) : a[m] < s[i]
      BY <2>1, <3>1
    <3> HIDE DEF at, s
    <3>3. /\ Increasing(a \o c) /\ Len(a \o c) = Len(a) + (l + 1 - at) /\ Len(a \o c) \in Nat
          /\ \A m \in 1 .. Len(a \o c) :
                \/ m \in 1 .. Len(a) /\ (a \o c)[m] = a[m]
                \/ \E i \in 1 .. Len(s) : (a \o c)[m] = s[i]
          /\ \A m \in 1 .. Len(a \o c), i \in l + 1 .. Len(s) : (a \o c)[m] < s[i]
      BY <3>1, <3>2, OrderedConcat
    <3>4. u = a \o c
      BY <1>5
    <3> QED BY <3>3, <3>4 DEF at, s
  <2>3. \A i \in 1 .. Len(j.logs) : j.logs[i] <= sent
    BY <1>2, <1>3
  <2>4. /\ \A m \in 1 .. Len(u) : u[m] <= sent
        /\ \A m \in 1 .. Len(u), i \in 1 .. Len(q) : u[m] < q[i]
    <3> HIDE DEF a, u, j, q
    <3> QED BY <1>3, <2>2, <2>3
  <2> QED BY <1>5, <2>2, <2>4
<1>6. u = a \/ (~Taken(b) /\ u = a \o c)
  BY FlushArrives
<1> QED BY <1>4, <1>5, <1>6

LEMMA OrderAfterRequest ==
    ASSUME FlusherTypeOK, FlusherTypeOK', EntriesInOrder, CodexProgress,
           NEW k \in Kinds, NEW d \in Buckets, Request(k, d),
           NEW b \in Buckets, OrderAt(b)
    PROVE  OrderAt(b)'
<1> DEFINE j == job["flush"][b]
           l == Last_("flush", b)
<1>1. /\ OthersStay(k, d) /\ job[k][d].state = "open"
      /\ Arrives(k, d) \/ UNCHANGED backend
      /\ Settles(k, d) \/ TriesAgain(k, d) \/ IsCancelled(k, d)
      /\ queue' = queue /\ sent' = sent /\ "flush" \in Kinds
  BY RequestEffect DEF Kinds
<1>2. CASE k = "codex" \/ d # b
  <2>1. job'["flush"][b] = j
    BY <1>1, <1>2 DEF OthersStay
  <2>2. arrived'[b] = arrived[b]
    BY <1>1, <1>2, CodexArrives, FlushArrives DEF Kinds
  <2>3. sent \in Nat
    BY DEF FlusherTypeOK
  <2> QED BY <1>1, <2>1, <2>2, <2>3, OrderSame
<1>3. CASE k = "flush" /\ d = b
  <2>1. /\ Increasing(arrived'[b])
        /\ \A m \in 1 .. Len(arrived'[b]) : arrived'[b][m] <= sent
        /\ \A m \in 1 .. Len(arrived'[b]), i \in 1 .. Len(queue[b]) : arrived'[b][m] < queue[b][i]
        /\ \A m \in 1 .. Len(arrived'[b]), i \in l + 1 .. Len(j.logs) : arrived'[b][m] < j.logs[i]
        /\ \/ arrived'[b] = arrived[b]
           \/ ~Taken(b) /\ Len(arrived'[b]) = Len(arrived[b]) + (l + 1 - j.at)
    BY <1>1, <1>3, OrderOfArrivals
  <2>2. /\ j \in Jobs /\ j.logs \in Seq(Nat) /\ j.at \in Nat \ {0} /\ l \in Nat /\ j.at <= l + 1
        /\ ChunkLogs[b[1]] \in Nat \ {0} /\ Len(j.logs) \in Nat
    BY <1>1, JobType, ChunkProperties
  <2>3. CASE job'["flush"][b] = NoJob
    <3>1. job'["flush"][b].logs = <<>> /\ Len(<<>>) = 0
      BY <2>3 DEF NoJob
    <3>2. /\ Increasing(<<>>) /\ \A x, y : x \in y .. 0 => x <= 0
      BY DEF Increasing
    <3>3. job'["flush"][b].at = 1 /\ Last_("flush", b)' = 0
      BY <2>2, <2>3, <3>1 DEF NoJob, Last_
    <3>4. \A i \in (IF Taken(b)' THEN 0 + 1 ELSE 1) .. 0 : FALSE
      OBVIOUS
    <3>5. \A i \in 1 .. Len(queue[b]) : queue[b][i] <= sent
      BY DEF OrderAt
    <3>6. Increasing(queue[b])
      BY DEF OrderAt
    <3> QED BY <1>1, <2>1, <3>1, <3>2, <3>3, <3>4, <3>5, <3>6 DEF OrderAt
  <2>4. CASE job'["flush"][b].logs = j.logs /\ job'["flush"][b].at = l + 1
    <3>1. Last_("flush", b)' \in Nat /\ l + 1 <= Last_("flush", b)' + 1
      <4>1. job'["flush"][b].at <= Len(j.logs) + 1
        BY <1>1, <2>4 DEF FlusherTypeOK, JobOK
      <4>2. Last_("flush", b)' = IF Len(j.logs) < (l + 1) + ChunkLogs[b[1]] - 1 THEN Len(j.logs)
                                 ELSE (l + 1) + ChunkLogs[b[1]] - 1
        BY <2>4 DEF Last_
      <4> HIDE DEF j, l
      <4> QED BY <2>2, <2>4, <4>1, <4>2
    <3>2. \A i \in (IF Taken(b)' THEN Last_("flush", b)' + 1 ELSE l + 1) .. Len(j.logs) :
              i \in l + 1 .. Len(j.logs)
      BY <2>2, <3>1
    <3> QED BY <1>1, <2>1, <2>4, <3>2 DEF OrderAt
  <2>5. CASE job'["flush"][b] = [j EXCEPT !.tries = @ + 1]
    <3>1. job'["flush"][b].logs = j.logs /\ job'["flush"][b].at = j.at
      BY <2>2, <2>5 DEF Jobs
    <3>2. Last_("flush", b)' = l /\ Chunk("flush", b)' = Chunk("flush", b)
      BY <3>1 DEF Last_, Chunk
    <3>3. CASE Taken(b)'
      BY <1>1, <2>1, <3>1, <3>2, <3>3 DEF OrderAt
    <3>4. CASE ~Taken(b)'
      <4>1. arrived'[b] = arrived[b] /\ ~Taken(b)
        <5>1. ~Arrives("flush", b)
          BY <1>1, <1>3, <3>2, <3>4, FlushArrives DEF Taken
        <5>2. arrived' = arrived
          BY <1>1, <1>3, <5>1 DEF backend
        <5> QED BY <3>2, <3>4, <5>2 DEF Taken
      <4> QED BY <1>1, <3>1, <3>2, <3>4, <4>1 DEF OrderAt
    <3> QED BY <3>3, <3>4
  <2>6. \/ job'["flush"][b] = NoJob
        \/ job'["flush"][b] = [j EXCEPT !.tries = @ + 1]
        \/ job'["flush"][b].logs = j.logs /\ job'["flush"][b].at = l + 1
    BY <1>1, <1>3, <2>2 DEF Settles, Goes, TriesAgain, IsCancelled, Jobs
  <2> QED BY <2>3, <2>4, <2>5, <2>6
<1> QED BY <1>2, <1>3 DEF Kinds

LEMMA OrderStep ==
    ASSUME FlusherTypeOK, FlusherTypeOK', EntriesInOrder, ArriveInOrder, CodexProgress,
           [FlusherNext]_vars
    PROVE  (EntriesInOrder /\ ArriveInOrder)'
<1> SUFFICES ASSUME NEW b \in Buckets PROVE OrderAt(b)'
  BY OrderByEndpoint
<1>0. OrderAt(b) /\ sent \in Nat /\ sent' \in Nat /\ "flush" \in Kinds
  BY OrderByEndpoint DEF FlusherTypeOK, Kinds
<1>1. CASE Send
  BY <1>0, <1>1, OrderAfterSend
<1>2. CASE FlushStep
  BY <1>0, <1>2, OrderAfterFlush
<1>3. CASE CodexBegins
  BY <1>0, <1>3, CodexBeginsEffect, OrderSame DEF backend
<1>4. CASE QuietStep
  BY <1>0, <1>4, OrderSame DEF QuietStep, backend
<1>5. ASSUME NEW k \in Kinds, NEW d \in Buckets, TaskStarts(k, d) PROVE OrderAt(b)'
  <2>1. /\ OthersStay(k, d) /\ UNCHANGED <<sent, queue, backend>>
        /\ \/ k = "codex" /\ job'[k][d] = NoJob
           \/ job'[k][d] = [job[k][d] EXCEPT !.state = "open"]
    BY <1>5, TaskStartsEffect
  <2>2. job'["flush"][b].logs = job["flush"][b].logs /\ job'["flush"][b].at = job["flush"][b].at
    <3>1. CASE k = "flush" /\ d = b
      BY <2>1, <3>1, JobType DEF Jobs
    <3>2. CASE ~(k = "flush" /\ d = b)
      BY <1>0, <2>1, <3>2 DEF OthersStay
    <3> QED BY <3>1, <3>2
  <2> QED BY <1>0, <2>1, <2>2, OrderSame DEF backend
<1>6. ASSUME NEW k \in Kinds, NEW d \in Buckets, Request(k, d) PROVE OrderAt(b)'
  BY <1>0, <1>6, OrderAfterRequest
<1> QED BY <1>1, <1>2, <1>3, <1>4, <1>5, <1>6, StepCases

-----------------------------------------------------------------------------
(* The books.                                                              *)

\* Nothing of a request came yet when all it brings is later than what came.
FreshAt(b) ==
    /\ FlushTaken(b) \in Int
    /\ Taken(b) => FlushTaken(b) = Len(arrived[b]) - Size("flush", b)
    /\ ~Taken(b) => FlushTaken(b) = Len(arrived[b])
    /\ Len(arrived[b]) \in Nat /\ Size("flush", b) \in Nat
    /\ (\A i \in job["flush"][b].at .. Len(job["flush"][b].logs), m \in 1 .. Len(arrived[b]) :
           arrived[b][m] < job["flush"][b].logs[i])
       => FlushTaken(b) = Len(arrived[b])
LEMMA FreshRequest == FlusherTypeOK => \A b \in Buckets : FreshAt(b)
<1> SUFFICES ASSUME FlusherTypeOK, NEW b \in Buckets PROVE FreshAt(b)
  OBVIOUS
<1> DEFINE j == job["flush"][b]
           l == Last_("flush", b)
           a == arrived[b]
<1>1. /\ j.at \in Nat \ {0} /\ l \in Nat /\ j.at <= l + 1 /\ l <= Len(j.logs)
      /\ j.at <= Len(j.logs) => j.at <= l
      /\ Range(Chunk("flush", b)) = {j.logs[i] : i \in j.at .. l}
      /\ Len(j.logs) \in Nat
  BY JobType, ChunkProperties DEF Kinds
<1>2. a \in Seq(Entries) /\ Len(a) \in Nat /\ Range(a) = {a[m] : m \in 1 .. Len(a)}
      /\ \A m \in 1 .. Len(a) : a[m] \in Nat
  <2>1. a \in Seq(Entries) /\ Entries \subseteq Nat
    BY Limits DEF FlusherTypeOK, Entries
  <2> HIDE DEF a
  <2> QED BY <2>1, RangeEquality, ElementOfSeq, LenProperties
<1>3. /\ Size("flush", b) = l + 1 - j.at /\ Size("flush", b) \in Nat
      /\ FlushTaken(b) = Len(a) - (IF Taken(b) THEN l + 1 - j.at ELSE 0)
  <2>1. /\ Size("flush", b) = l + 1 - j.at
        /\ FlushTaken(b) = Len(a) - (IF Taken(b) THEN l + 1 - j.at ELSE 0)
    BY DEF Size, FlushTaken
  <2> HIDE DEF j, l
  <2> QED BY <1>1, <2>1
<1>4. /\ FlushTaken(b) \in Int
      /\ Taken(b) => FlushTaken(b) = Len(a) - Size("flush", b)
      /\ ~Taken(b) => FlushTaken(b) = Len(a)
  <2> HIDE DEF j, l, a
  <2> QED BY <1>1, <1>2, <1>3
<1>5. ASSUME \A i \in j.at .. Len(j.logs), m \in 1 .. Len(a) : a[m] < j.logs[i],
             Taken(b), Size("flush", b) # 0
      PROVE  FALSE
  <2>1. l \in j.at .. l /\ l \in j.at .. Len(j.logs)
    <3> HIDE DEF j, l
    <3> QED BY <1>1, <1>3, <1>5
  <2>2. j.logs[l] \in Range(a)
    BY <1>1, <1>5, <2>1 DEF Taken
  <2>3. PICK m \in 1 .. Len(a) : a[m] = j.logs[l]
    BY <1>2, <2>2
  <2>4. a[m] < a[m] /\ a[m] \in Nat
    BY <1>2, <1>5, <2>1, <2>3
  <2> QED BY <2>4
<1>6. ASSUME \A i \in j.at .. Len(j.logs), m \in 1 .. Len(a) : a[m] < j.logs[i]
      PROVE  FlushTaken(b) = Len(a)
  BY <1>2, <1>3, <1>4, <1>5, <1>6
<1>7. (\A i \in j.at .. Len(j.logs), m \in 1 .. Len(a) : a[m] < j.logs[i])
      => FlushTaken(b) = Len(a)
  BY <1>6
<1>8. Len(a) \in Nat /\ Size("flush", b) \in Nat
  BY <1>2, <1>3
<1> QED BY <1>4, <1>7, <1>8 DEF FreshAt

LEMMA FreshRequestNext == (FlusherTypeOK => \A b \in Buckets : FreshAt(b))'
BY FreshRequest, PTL

\* The records of a Codex batch that came before the request, counted.
LEMMA CountedRecords ==
    ASSUME NEW A \in SUBSET (1 .. CodexLogs), NEW B \in SUBSET (1 .. CodexLogs), A \subseteq B,
           NEW at \in Nat \ {0}, NEW l \in Nat, at <= l + 1
    PROVE  /\ Cardinality(A) \in Nat /\ Cardinality(B) \in Nat /\ Cardinality(A \cap 1 .. at - 1) \in Nat
           /\ Cardinality(B \cap 1 .. l) \in Nat
           /\ Cardinality(A) <= Cardinality(B)
           /\ Cardinality(B \cap 1 .. l) <= Cardinality(B)
           /\ Cardinality(A \cap 1 .. at - 1) <= Cardinality(B \cap 1 .. l)
           /\ at .. l \subseteq B =>
                 Cardinality(A \cap 1 .. at - 1) + (l + 1 - at) <= Cardinality(B \cap 1 .. l)
<1>1. IsFiniteSet(1 .. CodexLogs)
  BY Limits, FS_Interval
<1>2. IsFiniteSet(A) /\ IsFiniteSet(B)
  BY <1>1, FS_Subset
<1> DEFINE X == A \cap 1 .. at - 1
           Y == B \cap 1 .. l
           I == at .. l
<1>3. IsFiniteSet(X) /\ IsFiniteSet(Y) /\ IsFiniteSet(I)
  BY <1>2, FS_Subset, FS_Interval
<1>4. /\ Cardinality(A) \in Nat /\ Cardinality(B) \in Nat /\ Cardinality(X) \in Nat
      /\ Cardinality(Y) \in Nat /\ Cardinality(A) <= Cardinality(B) /\ Cardinality(Y) <= Cardinality(B)
  BY <1>2, <1>3, FS_Subset, FS_CardinalityType
<1>5. X \subseteq Y
  OBVIOUS
<1>6. Cardinality(X) <= Cardinality(Y)
  BY <1>3, <1>5, FS_Subset
<1>7. ASSUME I \subseteq B PROVE Cardinality(X) + (l + 1 - at) <= Cardinality(Y)
  <2>1. X \cap I = {} /\ X \cup I \subseteq Y
    BY <1>5, <1>7
  <2>2. Cardinality(I) = l + 1 - at
    <3>1. Cardinality(I) = IF at > l THEN 0 ELSE l - at + 1
      BY FS_Interval
    <3> QED BY <3>1
  <2>3. /\ IsFiniteSet(X \cup I)
        /\ Cardinality(X \cup I) = Cardinality(X) + Cardinality(I) - Cardinality(X \cap I)
    BY <1>3, FS_Union
  <2>4. Cardinality(X \cap I) = 0
    BY <2>1, FS_EmptySet
  <2>5. Cardinality(X \cup I) <= Cardinality(Y)
    BY <1>3, <2>1, FS_Subset
  <2>6. Cardinality(X \cup I) \in Nat /\ Cardinality(I) \in Nat
    BY <1>3, <2>3, FS_CardinalityType
  <2> HIDE DEF X, Y, I
  <2> QED BY <1>4, <2>2, <2>3, <2>4, <2>5, <2>6
<1> QED BY <1>4, <1>6, <1>7 DEF X, Y, I

-----------------------------------------------------------------------------
\* The numbers of an endpoint are numbers.
LEMMA Numbers ==
    FlusherTypeOK => \A b \in Buckets :
        /\ inEntries[b] \in Nat /\ outEntries[b] \in Nat /\ outFailed[b] \in Nat
        /\ Told(b) \in Nat /\ Len(queue[b]) \in Nat /\ queue[b] \in Seq(Entries)
        /\ \A k \in Kinds : /\ Len(job[k][b].logs) \in Nat /\ job[k][b].bad \in Nat
                            /\ job[k][b].ok \in Nat
<1> SUFFICES ASSUME FlusherTypeOK, NEW b \in Buckets
             PROVE  /\ inEntries[b] \in Nat /\ outEntries[b] \in Nat /\ outFailed[b] \in Nat
                    /\ Told(b) \in Nat /\ Len(queue[b]) \in Nat /\ queue[b] \in Seq(Entries)
                    /\ \A k \in Kinds : /\ Len(job[k][b].logs) \in Nat /\ job[k][b].bad \in Nat
                                        /\ job[k][b].ok \in Nat
  OBVIOUS
<1>1. queue[b] \in Seq(Entries)
  BY DEF FlusherTypeOK
<1>2. Len(queue[b]) \in Nat
  BY <1>1, LenProperties
<1>3. /\ inEntries \in [Buckets -> Nat] /\ outEntries \in [Buckets -> Nat]
      /\ outFailed \in [Buckets -> Nat] /\ Told(b) \in Nat
  BY DEF FlusherTypeOK, Told
<1>4. \A k \in Kinds : /\ Len(job[k][b].logs) \in Nat /\ job[k][b].bad \in Nat
                       /\ job[k][b].ok \in Nat
  BY JobType
<1> QED BY <1>1, <1>2, <1>3, <1>4

\* What a request does to the numbers of its endpoint.
LEMMA RequestBooks ==
    ASSUME FlusherTypeOK, FlusherTypeOK', NEW k \in Kinds, NEW b \in Buckets, Request(k, b)
    PROVE  LET j == job[k][b]
               i == job'[k][b]
           IN
           /\ \A d \in Buckets \ {b} :
                 /\ outEntries'[d] = outEntries[d] /\ outFailed'[d] = outFailed[d]
                 /\ Told(d)' = Told(d)
           /\ outEntries'[b] + outFailed'[b] + Len(i.logs)
                = outEntries[b] + outFailed[b] + Len(j.logs)
           /\ i.state = "open" \/ Len(i.logs) = 0
           /\ ~aborted => outFailed'[b] + i.bad + Told(b) = outFailed[b] + j.bad + Told(b)'
           /\ \/ outEntries'[b] + i.ok <= outEntries[b] + j.ok
              \/ /\ Arrives(k, b) /\ outEntries'[b] + i.ok = outEntries[b] + j.ok + Size(k, b)
                 /\ i = NoJob \/ i.at = Last_(k, b) + 1
           /\ \/ i.at = j.at /\ i.logs = j.logs /\ i.state = j.state
              \/ /\ i.at = Last_(k, b) + 1 /\ i.logs = j.logs /\ i.state = j.state
                 /\ Last_(k, b) < Len(j.logs)
              \/ i = NoJob
<1> DEFINE j == job[k][b]
           i == job'[k][b]
           n == Size(k, b)
           l == Last_(k, b)
<1>1. /\ j.state = "open" /\ (Settles(k, b) \/ TriesAgain(k, b) \/ IsCancelled(k, b))
      /\ aborted' = aborted
  BY RequestEffect
<1>2. /\ j \in Jobs /\ i \in Jobs /\ j.ok \in Nat /\ j.bad \in Nat /\ n \in Nat /\ l \in Nat
      /\ Len(j.logs) \in Nat /\ j.ok + j.bad + n = l
  <2>1. j \in Jobs /\ JobOK(j) /\ j.ok \in Nat /\ j.bad \in Nat /\ j.at \in Nat \ {0}
        /\ Len(j.logs) \in Nat
    BY JobType
  <2>2. l \in Nat /\ j.at <= l + 1
    BY ChunkProperties
  <2>3. j.ok + j.bad = j.at - 1 /\ n = l + 1 - j.at
    BY <2>1 DEF JobOK, Size
  <2>4. i \in Jobs
    BY DEF FlusherTypeOK
  <2>5. j.ok \in Nat /\ j.bad \in Nat /\ j.at \in Nat
    BY <2>1
  <2>6. n \in Nat /\ j.ok + j.bad + n = l
    <3> HIDE DEF j, n, l
    <3> QED BY <2>2, <2>3, <2>5
  <2> QED BY <2>1, <2>2, <2>4, <2>6
<1>3. /\ outEntries \in [Buckets -> Nat] /\ outFailed \in [Buckets -> Nat]
      /\ \A d \in Buckets : Told(d) \in Nat
      /\ UNCHANGED failureLog => \A d \in Buckets : Told(d)' = Told(d)
  <2>1. \A d \in Buckets : Told(d) \in Nat
    BY Numbers
  <2>2. UNCHANGED failureLog => \A d \in Buckets : Told(d)' = Told(d)
    BY DEF Told, failureLog
  <2> QED BY <2>1, <2>2 DEF FlusherTypeOK
<1>4. NoJob.logs = <<>> /\ Len(<<>>) = 0 /\ NoJob.ok = 0 /\ NoJob.bad = 0
  BY DEF NoJob
<1>5. ASSUME NEW ok \in Nat, NEW bad \in Nat, ok + bad = l, Goes(k, b, ok, bad)
      PROVE  /\ \A d \in Buckets \ {b} :
                   outEntries'[d] = outEntries[d] /\ outFailed'[d] = outFailed[d]
             /\ outEntries'[b] + outFailed'[b] + Len(i.logs)
                  = outEntries[b] + outFailed[b] + Len(j.logs)
             /\ i.state = "open" \/ Len(i.logs) = 0
             /\ outEntries'[b] + i.ok = outEntries[b] + ok
             /\ outFailed'[b] + i.bad = outFailed[b] + bad
             /\ \/ i.at = l + 1 /\ i.logs = j.logs /\ i.state = j.state /\ l < Len(j.logs)
                \/ i = NoJob
  <2>1. CASE /\ l = Len(j.logs) /\ i = NoJob
             /\ outEntries' = [outEntries EXCEPT ![b] = @ + ok]
             /\ outFailed' = [outFailed EXCEPT ![b] = @ + bad]
    <3>1. /\ \A d \in Buckets \ {b} :
                outEntries'[d] = outEntries[d] /\ outFailed'[d] = outFailed[d]
          /\ outEntries'[b] = outEntries[b] + ok /\ outFailed'[b] = outFailed[b] + bad
          /\ outEntries[b] \in Nat /\ outFailed[b] \in Nat
      BY <1>3, <2>1
    <3>2. i.logs = <<>> /\ i.ok = 0 /\ i.bad = 0 /\ Len(i.logs) = 0
      BY <1>4, <2>1
    <3>3. ok + bad = Len(j.logs) /\ Len(j.logs) \in Nat
      BY <1>2, <1>5, <2>1
    <3>4. outEntries'[b] + outFailed'[b] = outEntries[b] + outFailed[b] + Len(j.logs)
      BY <3>1, <3>3
    <3>5. outEntries'[b] + outFailed'[b] \in Nat
      BY <3>1
    <3> QED BY <2>1, <3>1, <3>2, <3>4, <3>5
  <2>2. CASE /\ l < Len(j.logs)
             /\ i = [j EXCEPT !.ok = ok, !.bad = bad, !.at = l + 1, !.tries = 0]
             /\ UNCHANGED <<outEntries, outFailed, failed>>
    <3>1. i.ok = ok /\ i.bad = bad /\ i.at = l + 1 /\ i.logs = j.logs /\ i.state = j.state
      BY <1>2, <2>2 DEF Jobs
    <3> QED BY <1>1, <2>2, <3>1
  <2> QED BY <1>5, <2>1, <2>2 DEF Goes
<1>6. CASE Settles(k, b)
  <2>1. CASE Arrives(k, b) /\ Goes(k, b, j.ok + n, j.bad) /\ UNCHANGED failureLog
    <3>1. j.ok + n \in Nat /\ (j.ok + n) + j.bad = l
      BY <1>2
    <3>2. /\ \A d \in Buckets \ {b} :
                outEntries'[d] = outEntries[d] /\ outFailed'[d] = outFailed[d]
          /\ outEntries'[b] + outFailed'[b] + Len(i.logs)
               = outEntries[b] + outFailed[b] + Len(j.logs)
          /\ i.state = "open" \/ Len(i.logs) = 0
          /\ outEntries'[b] + i.ok = outEntries[b] + (j.ok + n)
          /\ outFailed'[b] + i.bad = outFailed[b] + j.bad
          /\ \/ i.at = l + 1 /\ i.logs = j.logs /\ i.state = j.state /\ l < Len(j.logs)
             \/ i = NoJob
      BY <1>2, <1>5, <2>1, <3>1
    <3>3. outEntries[b] + (j.ok + n) = outEntries[b] + j.ok + n
      BY <1>2, <1>3
    <3> QED BY <1>3, <2>1, <3>2, <3>3
  <2>2. CASE /\ Goes(k, b, j.ok, j.bad + n)
             /\ Told(b)' = Told(b) + n /\ \A d \in Buckets \ {b} : Told(d)' = Told(d)
    <3>1. j.bad + n \in Nat /\ j.ok + (j.bad + n) = l
      BY <1>2
    <3>2. /\ \A d \in Buckets \ {b} :
                outEntries'[d] = outEntries[d] /\ outFailed'[d] = outFailed[d]
          /\ outEntries'[b] + outFailed'[b] + Len(i.logs)
               = outEntries[b] + outFailed[b] + Len(j.logs)
          /\ i.state = "open" \/ Len(i.logs) = 0
          /\ outEntries'[b] + i.ok = outEntries[b] + j.ok
          /\ outFailed'[b] + i.bad = outFailed[b] + (j.bad + n)
          /\ \/ i.at = l + 1 /\ i.logs = j.logs /\ i.state = j.state /\ l < Len(j.logs)
             \/ i = NoJob
      BY <1>2, <1>5, <2>2, <3>1
    <3>4. outFailed'[b] + i.bad + Told(b) = outFailed[b] + j.bad + Told(b)'
      <4>1. outFailed[b] \in Nat /\ Told(b) \in Nat
        BY <1>3
      <4> QED BY <1>2, <2>2, <3>2, <4>1
    <3>5. outEntries'[b] + i.ok <= outEntries[b] + j.ok
      BY <1>2, <1>3, <3>2
    <3> QED BY <2>2, <3>2, <3>4, <3>5
  <2> QED BY <1>6, <2>1, <2>2 DEF Settles
<1>7. CASE TriesAgain(k, b)
  <2>1. UNCHANGED <<outEntries, outFailed, failureLog>> /\ i = [j EXCEPT !.tries = @ + 1]
    BY <1>7 DEF TriesAgain
  <2>2. i.ok = j.ok /\ i.bad = j.bad /\ i.at = j.at /\ i.logs = j.logs /\ i.state = j.state
    BY <1>2, <2>1 DEF Jobs
  <2>3. \A d \in Buckets : Told(d)' = Told(d)
    BY <1>3, <2>1
  <2>4. outFailed'[b] + i.bad + Told(b) = outFailed[b] + j.bad + Told(b)'
    BY <2>1, <2>2, <2>3
  <2>5. outEntries'[b] + i.ok <= outEntries[b] + j.ok
    BY <1>2, <1>3, <2>1, <2>2
  <2> HIDE DEF i, j
  <2> QED BY <1>1, <2>1, <2>2, <2>3, <2>4, <2>5 DEF i, j
<1>8. CASE IsCancelled(k, b)
  <2>1. /\ aborted /\ i = NoJob /\ UNCHANGED <<outEntries, failureLog>>
        /\ outFailed' = [outFailed EXCEPT ![b] = @ + Len(j.logs)]
    BY <1>8 DEF IsCancelled
  <2>2. /\ outFailed'[b] = outFailed[b] + Len(j.logs) /\ outFailed[b] \in Nat
        /\ \A d \in Buckets \ {b} : outFailed'[d] = outFailed[d]
        /\ outEntries[b] \in Nat
    BY <1>2, <1>3, <2>1
  <2>3. i.logs = <<>> /\ i.ok = 0 /\ i.bad = 0 /\ Len(i.logs) = 0
    BY <1>4, <2>1
  <2>4. Len(j.logs) \in Nat /\ j.ok \in Nat /\ j.bad \in Nat
    BY <1>2
  <2>5. /\ outEntries'[b] + outFailed'[b] + 0 = outEntries[b] + outFailed[b] + Len(j.logs)
        /\ outEntries'[b] + 0 <= outEntries[b] + j.ok
    <3> DEFINE o == outEntries[b]  f == outFailed[b]  m == Len(j.logs)  x == j.ok
    <3>1. /\ outEntries'[b] = o /\ outFailed'[b] = f + m
          /\ o \in Nat /\ f \in Nat /\ m \in Nat /\ x \in Nat
      BY <2>1, <2>2, <2>4
    <3> SUFFICES /\ outEntries'[b] + outFailed'[b] + 0 = o + f + m
                 /\ outEntries'[b] + 0 <= o + x
      OBVIOUS
    <3> HIDE DEF o, f, m, x
    <3> QED BY <3>1
  <2>6. \A d \in Buckets : Told(d)' = Told(d)
    BY <1>3, <2>1
  <2> QED BY <2>1, <2>2, <2>3, <2>5, <2>6
<1> QED BY <1>1, <1>6, <1>7, <1>8

LEMMA AccountedStep ==
    ASSUME FlusherTypeOK, FlusherTypeOK', CodexProgress, Accounted, [FlusherNext]_vars
    PROVE  Accounted'
<1> SUFFICES ASSUME NEW b \in Buckets
             PROVE  inEntries'[b] = outEntries'[b] + outFailed'[b]
                        + (Len(queue'[b]) + Len(job'["flush"][b].logs)
                           + (IF job'["codex"][b].state = "open"
                              THEN Len(job'["codex"][b].logs) ELSE 0))
  BY DEF Accounted, Unsettled
<1> DEFINE i == inEntries[b]
           o == outEntries[b]
           f == outFailed[b]
           q == Len(queue[b])
           l == Len(job["flush"][b].logs)
           old == IF job["codex"][b].state = "open" THEN Len(job["codex"][b].logs) ELSE 0
           i1 == inEntries'[b]
           o1 == outEntries'[b]
           f1 == outFailed'[b]
           q1 == Len(queue'[b])
           l1 == Len(job'["flush"][b].logs)
           new == IF job'["codex"][b].state = "open" THEN Len(job'["codex"][b].logs) ELSE 0
           Goal == i1 = o1 + f1 + (q1 + l1 + new)
<1> SUFFICES Goal
  OBVIOUS
<1>0. /\ i = o + f + (q + l + old)
      /\ i \in Nat /\ o \in Nat /\ f \in Nat /\ q \in Nat /\ l \in Nat /\ old \in Nat
  BY Numbers DEF Accounted, Unsettled, Kinds
<1>01. /\ queue[b] \in Seq(Entries) /\ "flush" \in Kinds /\ "codex" \in Kinds
       /\ Len(job["codex"][b].logs) \in Nat
  BY Numbers DEF Kinds
<1>1. CASE Send
  <2> DEFINE g == IF Gets(b) THEN 1 ELSE 0
  <2>1. /\ inEntries'[b] = inEntries[b] + g /\ UNCHANGED <<outEntries, outFailed>>
        /\ \/ job' = job /\ queue'[b] = With(b)
           \/ \E F \in SUBSET Buckets :
                 /\ b \notin F => Gets(b)
                 /\ Flushes([d \in Buckets |-> IF d \in F THEN With(d) ELSE queue[d]])
                 /\ queue'[b] = IF b \in F THEN <<>> ELSE <<sent + 1>>
    BY <1>1, SendEffect
  <2>2. Len(With(b)) = Len(queue[b]) + g /\ g \in Nat
    <3>1. sent + 1 \in Entries
      BY <1>1, SendEffect
    <3>2. Len(Append(queue[b], sent + 1)) = Len(queue[b]) + 1
      BY <1>01, <3>1, AppendProperties
    <3>3. CASE Gets(b)
      BY <3>2, <3>3 DEF With
    <3>4. CASE ~Gets(b)
      BY <1>0, <3>4 DEF With
    <3> QED BY <3>3, <3>4
  <2>3. CASE job' = job /\ queue'[b] = With(b)
    <3>1. new = old
      BY <2>3
    <3>2. i1 = i + g /\ o1 = o /\ f1 = f /\ q1 = q + g /\ l1 = l
      BY <2>1, <2>2, <2>3
    <3> HIDE DEF i, o, f, q, l, old, i1, o1, f1, q1, l1, new, g
    <3> QED BY <1>0, <2>2, <3>1, <3>2
  <2>4. ASSUME NEW F \in SUBSET Buckets, b \notin F => Gets(b),
               Flushes([d \in Buckets |-> IF d \in F THEN With(d) ELSE queue[d]]),
               queue'[b] = IF b \in F THEN <<>> ELSE <<sent + 1>>
        PROVE  Goal
    <3> DEFINE logs == IF b \in F THEN With(b) ELSE queue[b]
    <3>1. /\ job["flush"][b].state = "none" /\ job'["codex"] = job["codex"]
          /\ job'["flush"][b] = Task(logs) /\ logs \in Seq(Entries)
      BY <2>4 DEF Flushes
    <3>2. job'["flush"][b].logs = logs
      <4>1. logs \in Seq(Nat)
        BY <3>1, Limits, SeqMonotonic DEF Entries
      <4> QED BY <3>1, <4>1, TaskType
    <3>3. Len(job["flush"][b].logs) = 0
      BY <1>0, <1>01, <3>1, NoneIsNoJob
    <3>4. Len(logs) + Len(queue'[b]) = Len(queue[b]) + g
      <4>1. Len(<<>>) = 0 /\ Len(<<sent + 1>>) = 1
        OBVIOUS
      <4>2. CASE b \in F
        <5>1. logs = With(b) /\ queue'[b] = <<>>
          BY <2>4, <4>2
        <5>2. Len(logs) = q + g /\ Len(queue'[b]) = 0 /\ q \in Nat /\ g \in Nat
          BY <1>0, <2>2, <4>1, <5>1
        <5> HIDE DEF logs, g
        <5> QED BY <5>2
      <4>3. CASE b \notin F
        BY <1>0, <2>4, <4>1, <4>3
      <4> QED BY <4>2, <4>3
    <3>5. Len(logs) \in Nat /\ Len(queue'[b]) \in Nat
      <4>1. queue' \in [Buckets -> Seq(Entries)]
        BY DEF FlusherTypeOK
      <4> HIDE DEF logs
      <4> QED BY <3>1, <4>1, LenProperties
    <3>6. new = old
      BY <3>1
    <3>7. i1 = i + g /\ o1 = o /\ f1 = f /\ l = 0 /\ l1 + q1 = q + g /\ l1 \in Nat /\ q1 \in Nat
      BY <2>1, <3>2, <3>3, <3>4, <3>5
    <3> HIDE DEF i, o, f, q, l, old, i1, o1, f1, q1, l1, new, g
    <3> QED BY <1>0, <1>01, <2>2, <3>6, <3>7
  <2> QED BY <2>1, <2>3, <2>4
<1>2. CASE FlushStep
  <2>1. /\ job["flush"][b].state = "none" /\ job'["flush"][b] = Task(queue[b])
        /\ queue'[b] = <<>> /\ job'["codex"] = job["codex"]
        /\ UNCHANGED <<inEntries, outEntries, outFailed>>
    BY <1>2 DEF FlushStep, Empties, Flushes, counters
  <2>2. job'["flush"][b].logs = queue[b] /\ Len(queue'[b]) = 0
    <3>1. queue[b] \in Seq(Nat)
      BY <1>0, <1>01, Limits, SeqMonotonic DEF Entries
    <3> QED BY <2>1, <3>1, TaskType
  <2>3. Len(job["flush"][b].logs) = 0
    BY <1>0, <1>01, <2>1, NoneIsNoJob
  <2>4. new = old
    BY <2>1
  <2>5. i1 = i /\ o1 = o /\ f1 = f /\ l = 0 /\ l1 = q /\ q1 = 0
    BY <2>1, <2>2, <2>3
  <2> HIDE DEF i, o, f, q, l, old, i1, o1, f1, q1, l1, new
  <2> QED BY <1>0, <2>4, <2>5
<1>3. CASE CodexBegins
  <2>1. UNCHANGED <<queue, counters>> /\ job'["flush"] = job["flush"]
        /\ job["codex"][b].state = "none" /\ job'["codex"][b].state # "open"
    BY <1>3, CodexBeginsEffect, TaskType, BatchType DEF NoJob
  <2> QED BY <1>0, <1>01, <2>1 DEF counters
<1>4. CASE QuietStep
  BY <1>0, <1>01, <1>4 DEF QuietStep, counters
<1>5. ASSUME NEW k \in Kinds, NEW d \in Buckets, TaskStarts(k, d) PROVE Goal
  <2>1. /\ OthersStay(k, d) /\ job[k][d].state = "todo"
        /\ \/ k = "codex" /\ job'[k][d] = NoJob /\ UNCHANGED inEntries
           \/ /\ job'[k][d] = [job[k][d] EXCEPT !.state = "open"]
              /\ inEntries' = IF k = "flush" THEN inEntries
                              ELSE [inEntries EXCEPT ![d] = @ + Len(job[k][d].logs)]
        /\ UNCHANGED <<queue, outEntries, outFailed>>
    BY <1>5, TaskStartsEffect
  <2>2. CASE d # b
    <3>1. job'["flush"][b] = job["flush"][b] /\ job'["codex"][b] = job["codex"][b]
          /\ inEntries'[b] = inEntries[b]
      BY <1>0, <1>01, <2>1, <2>2 DEF OthersStay, FlusherTypeOK
    <3> QED BY <1>0, <1>01, <2>1, <3>1
  <2>3. CASE d = b /\ k = "flush"
    <3>1. /\ job'["flush"][b].logs = job["flush"][b].logs /\ job'["codex"][b] = job["codex"][b]
          /\ inEntries'[b] = inEntries[b]
      <4>1. job'["codex"][b] = job["codex"][b] /\ inEntries' = inEntries
        BY <1>0, <1>01, <2>1, <2>3 DEF OthersStay
      <4>2. job["flush"][b] \in Jobs /\ job'["flush"][b] = [job["flush"][b] EXCEPT !.state = "open"]
        BY <1>0, <1>01, <2>1, <2>3, JobType
      <4>3. job'["flush"][b].logs = job["flush"][b].logs
        BY <4>2 DEF Jobs
      <4> QED BY <4>1, <4>3
    <3> QED BY <1>0, <1>01, <2>1, <3>1
  <2>4. CASE d = b /\ k = "codex"
    <3>1. job'["flush"][b] = job["flush"][b] /\ old = 0
      BY <1>0, <1>01, <2>1, <2>4 DEF OthersStay
    <3>2. CASE job'["codex"][b] = NoJob /\ UNCHANGED inEntries
      <4>1. new = 0
        BY <3>2 DEF NoJob
      <4>2. i1 = i /\ o1 = o /\ f1 = f /\ l1 = l /\ q1 = q
        BY <2>1, <3>1, <3>2
      <4> HIDE DEF i, o, f, q, l, old, i1, o1, f1, q1, l1, new
      <4> QED BY <1>0, <1>01, <3>1, <4>1, <4>2
    <3>3. CASE /\ job'["codex"][b] = [job["codex"][b] EXCEPT !.state = "open"]
               /\ inEntries' = [inEntries EXCEPT ![b] = @ + Len(job["codex"][b].logs)]
      <4>1. new = Len(job["codex"][b].logs)
        BY <1>0, <1>01, <3>3, JobType DEF Jobs
      <4>2. inEntries'[b] = inEntries[b] + Len(job["codex"][b].logs)
        BY <3>3 DEF FlusherTypeOK
      <4>3. i1 = i + new /\ o1 = o /\ f1 = f /\ l1 = l /\ q1 = q /\ new \in Nat
        BY <1>01, <2>1, <3>1, <4>1, <4>2
      <4> HIDE DEF i, o, f, q, l, old, i1, o1, f1, q1, l1, new
      <4> QED BY <1>0, <1>01, <3>1, <4>3
    <3> QED BY <2>1, <2>4, <3>2, <3>3
  <2> QED BY <2>2, <2>3, <2>4 DEF Kinds
<1>6. ASSUME NEW k \in Kinds, NEW d \in Buckets, Request(k, d) PROVE Goal
  <2>1. OthersStay(k, d) /\ job[k][d].state = "open" /\ UNCHANGED <<queue, inEntries>>
    BY <1>6, RequestEffect
  <2>2. /\ d # b => outEntries'[b] = outEntries[b] /\ outFailed'[b] = outFailed[b]
        /\ outEntries'[d] + outFailed'[d] + Len(job'[k][d].logs)
             = outEntries[d] + outFailed[d] + Len(job[k][d].logs)
        /\ job'[k][d].state = "open" \/ Len(job'[k][d].logs) = 0
    BY <1>6, RequestBooks
  <2>3. CASE d # b
    <3>1. job'["flush"][b] = job["flush"][b] /\ job'["codex"][b] = job["codex"][b]
      BY <1>0, <1>01, <2>1, <2>3 DEF OthersStay
    <3> QED BY <1>0, <1>01, <2>1, <2>2, <2>3, <3>1
  <2>4. /\ outEntries'[b] \in Nat /\ outFailed'[b] \in Nat
        /\ Len(job'["flush"][b].logs) \in Nat /\ Len(job'["codex"][b].logs) \in Nat
    <3>1. job'["flush"][b].logs \in Seq(Nat) /\ job'["codex"][b].logs \in Seq(Nat)
      <4>1. job'["flush"][b] \in Jobs /\ job'["codex"][b] \in Jobs
        BY <1>01 DEF FlusherTypeOK
      <4> QED BY <4>1 DEF Jobs
    <3>2. outEntries' \in [Buckets -> Nat] /\ outFailed' \in [Buckets -> Nat]
      BY DEF FlusherTypeOK
    <3> QED BY <3>1, <3>2, LenProperties
  <2>5. CASE d = b /\ k = "flush"
    <3>1. new = old
      BY <1>0, <1>01, <2>1, <2>5 DEF OthersStay
    <3>2. i1 = i /\ q1 = q /\ o1 + f1 + l1 = o + f + l
      BY <2>1, <2>2, <2>5
    <3>3. o1 \in Nat /\ f1 \in Nat /\ l1 \in Nat
      BY <2>4
    <3> HIDE DEF i, o, f, q, l, old, i1, o1, f1, q1, l1, new
    <3> QED BY <1>0, <1>01, <3>1, <3>2, <3>3
  <2>6. CASE d = b /\ k = "codex"
    <3>1. /\ job'["flush"][b] = job["flush"][b]
          /\ old = Len(job["codex"][b].logs) /\ new = Len(job'["codex"][b].logs)
      BY <1>0, <1>01, <2>1, <2>2, <2>6 DEF OthersStay
    <3>2. i1 = i /\ q1 = q /\ l1 = l /\ o1 + f1 + new = o + f + old
      BY <2>1, <2>2, <2>6, <3>1
    <3>3. o1 \in Nat /\ f1 \in Nat /\ new \in Nat
      BY <2>4, <3>1
    <3> HIDE DEF i, o, f, q, l, old, i1, o1, f1, q1, l1, new
    <3> QED BY <1>0, <1>01, <3>2, <3>3
  <2> QED BY <2>3, <2>5, <2>6 DEF Kinds
<1> QED BY <1>1, <1>2, <1>3, <1>4, <1>5, <1>6, StepCases

\* A step that is no request of a task: the books of the settled requests stay,
\* and a task goes on, begins, or is dropped with its cancelled batch.
Stays(k, b) ==
    /\ job'[k][b].logs = job[k][b].logs /\ job'[k][b].at = job[k][b].at
    /\ job'[k][b].ok = job[k][b].ok /\ job'[k][b].bad = job[k][b].bad
    /\ \/ job'[k][b].state = job[k][b].state
       \/ job[k][b].state = "todo" /\ job'[k][b].state = "open"
Begins(b) ==
    /\ job["codex"][b].state = "none" /\ codex = "idle" /\ ~aborted /\ codex' = "sending"
    /\ job'["codex"][b] = Task(Batch)
DropsTask(k, b) == /\ k = "codex" /\ aborted /\ job[k][b].state # "none" /\ job'[k][b] = NoJob
LEMMA NoRequest ==
    ASSUME FlusherTypeOK, CodexProgress,
           \/ Send \/ FlushStep \/ CodexBegins \/ QuietStep
           \/ \E k \in Kinds, b \in Buckets : TaskStarts(k, b)
    PROVE  /\ UNCHANGED <<outEntries, outFailed, failureLog, backend>>
           /\ aborted => aborted'
           /\ \A b \in Buckets :
                 /\ \/ Stays("flush", b)
                    \/ /\ job["flush"][b].state = "none"
                       /\ \/ job'["flush"][b] = Task(queue[b])
                          \/ (Send /\ job'["flush"][b] = Task(With(b)))
                 /\ Stays("codex", b) \/ Begins(b) \/ DropsTask("codex", b)
<1>0. "flush" \in Kinds /\ "codex" \in Kinds
  BY DEF Kinds
<1>1. CASE Send
  <2>1. UNCHANGED <<outEntries, outFailed, failureLog, backend>> /\ aborted' = aborted
    BY <1>1, SendEffect DEF batch
  <2>2. ASSUME NEW b \in Buckets
        PROVE  /\ \/ Stays("flush", b)
                  \/ /\ job["flush"][b].state = "none"
                     /\ job'["flush"][b] = Task(queue[b]) \/ job'["flush"][b] = Task(With(b))
               /\ Stays("codex", b)
    <3>1. CASE job' = job
      BY <3>1 DEF Stays
    <3>2. CASE \E F \in SUBSET Buckets :
                  Flushes([d \in Buckets |-> IF d \in F THEN With(d) ELSE queue[d]])
      <4>1. PICK F \in SUBSET Buckets :
                    Flushes([d \in Buckets |-> IF d \in F THEN With(d) ELSE queue[d]])
        BY <3>2
      <4>2. /\ job["flush"][b].state = "none" /\ job'["codex"] = job["codex"]
            /\ job'["flush"][b] = Task(IF b \in F THEN With(b) ELSE queue[b])
        BY <4>1 DEF Flushes
      <4> QED BY <4>2 DEF Stays
    <3> QED BY <1>1, <3>1, <3>2, SendEffect
  <2> QED BY <1>1, <2>1, <2>2
<1>2. CASE FlushStep
  <2>1. /\ UNCHANGED <<outEntries, outFailed, failureLog, backend>> /\ aborted' = aborted
        /\ job'["codex"] = job["codex"]
        /\ \A b \in Buckets : /\ job["flush"][b].state = "none"
                                /\ job'["flush"][b] = Task(queue[b])
    BY <1>2 DEF FlushStep, Empties, Flushes, counters, batch
  <2> QED BY <2>1 DEF Stays
<1>3. CASE CodexBegins
  <2>1. /\ UNCHANGED <<outEntries, outFailed, failureLog, backend>> /\ aborted' = aborted
        /\ codex = "idle" /\ \A b \in Buckets : job["codex"][b].state = "none"
        /\ \/ job' = job
           \/ /\ ~aborted /\ codex' = "sending" /\ job'["flush"] = job["flush"]
              /\ \A b \in Buckets : job'["codex"][b] = IF b \in CodexBuckets THEN Task(Batch)
                                                       ELSE NoJob
    BY <1>3, CodexBeginsEffect DEF counters
  <2>2. ASSUME NEW b \in Buckets PROVE Stays("flush", b) /\ (Stays("codex", b) \/ Begins(b))
    <3>1. CASE job' = job
      BY <3>1 DEF Stays
    <3>2. CASE job' # job /\ b \in CodexBuckets
      BY <2>1, <3>2 DEF Stays, Begins
    <3>3. CASE job' # job /\ b \notin CodexBuckets
      <4>1. job'["codex"][b] = NoJob /\ job["codex"][b].state = "none"
        BY <2>1, <3>3
      <4>2. Stays("codex", b)
        BY <1>0, <4>1, NoneIsNoJob DEF Stays, NoJob
      <4> QED BY <2>1, <3>3, <4>2 DEF Stays
    <3> QED BY <3>1, <3>2, <3>3
  <2> QED BY <2>1, <2>2
<1>4. CASE QuietStep
  <2>1. UNCHANGED <<job, outEntries, outFailed, failureLog, backend>> /\ (aborted => aborted')
    BY <1>4 DEF QuietStep, counters, CodexEnds
  <2>2. \A b \in Buckets : Stays("flush", b) /\ Stays("codex", b)
    BY <2>1 DEF Stays
  <2> QED BY <2>1, <2>2
<1>5. ASSUME NEW k \in Kinds, NEW d \in Buckets, TaskStarts(k, d)
      PROVE  /\ UNCHANGED <<outEntries, outFailed, failureLog, backend, aborted>>
             /\ \A b \in Buckets :
                   /\ Stays("flush", b) /\ (Stays("codex", b) \/ DropsTask("codex", b))
  <2>1. /\ UNCHANGED <<outEntries, outFailed, failureLog, backend, aborted>>
        /\ OthersStay(k, d) /\ job[k][d].state = "todo"
        /\ \/ k = "codex" /\ aborted /\ job'[k][d] = NoJob
           \/ job'[k][d] = [job[k][d] EXCEPT !.state = "open"]
    BY <1>5, TaskStartsEffect
  <2>2. ASSUME NEW m \in Kinds, NEW b \in Buckets, <<m, b>> # <<k, d>> PROVE Stays(m, b)
    BY <2>1, <2>2 DEF OthersStay, Stays
  <2>3. Stays(k, d) \/ DropsTask(k, d)
    <3>1. CASE job'[k][d] = [job[k][d] EXCEPT !.state = "open"]
      <4>1. job[k][d] \in Jobs
        BY JobType
      <4> QED BY <2>1, <3>1, <4>1 DEF Jobs, Stays
    <3> QED BY <2>1, <3>1 DEF DropsTask
  <2>4. ASSUME NEW b \in Buckets, NEW m \in Kinds PROVE Stays(m, b) \/ DropsTask(m, b)
    BY <2>2, <2>3
  <2> QED BY <1>0, <2>1, <2>4 DEF DropsTask
<1> QED BY <1>1, <1>2, <1>3, <1>4, <1>5

LEMMA FailuresStep ==
    ASSUME FlusherTypeOK, FlusherTypeOK', CodexProgress, FailuresLogged, [FlusherNext]_vars
    PROVE  FailuresLogged'
<1> SUFFICES ASSUME NEW b \in Buckets, ~aborted'
             PROVE  outFailed'[b] + job'["flush"][b].bad + job'["codex"][b].bad = Told(b)'
  BY DEF FailuresLogged, Told
<1>0. /\ ~aborted => outFailed[b] + job["flush"][b].bad + job["codex"][b].bad = Told(b)
      /\ "flush" \in Kinds /\ "codex" \in Kinds
  BY DEF FailuresLogged, Told, Kinds
<1>1. CASE \/ Send \/ FlushStep \/ CodexBegins \/ QuietStep
           \/ \E k \in Kinds, d \in Buckets : TaskStarts(k, d)
  <2>1. /\ UNCHANGED <<outFailed, failureLog>> /\ ~aborted
        /\ \/ Stays("flush", b)
           \/ /\ job["flush"][b].state = "none"
              /\ \/ job'["flush"][b] = Task(queue[b])
                 \/ (Send /\ job'["flush"][b] = Task(With(b)))
        /\ Stays("codex", b) \/ Begins(b) \/ DropsTask("codex", b)
    BY <1>1, NoRequest
  <2>2. job'["codex"][b].bad = job["codex"][b].bad
    BY <1>0, <2>1, TaskType, BatchType, NoneIsNoJob DEF Stays, Begins, DropsTask
  <2>3. job'["flush"][b].bad = job["flush"][b].bad
    <3>1. CASE Stays("flush", b)
      BY <3>1 DEF Stays
    <3>2. CASE job["flush"][b].state = "none" /\ job'["flush"][b] = Task(queue[b])
      <4>1. queue[b] \in Seq(Nat)
        BY Numbers, Limits, SeqMonotonic DEF Entries
      <4> QED BY <1>0, <3>2, <4>1, TaskType, NoneIsNoJob
    <3>3. CASE job["flush"][b].state = "none" /\ Send /\ job'["flush"][b] = Task(With(b))
      <4>1. With(b) \in Seq(Nat)
        <5>1. queue[b] \in Seq(Nat) /\ sent + 1 \in Nat
          BY <3>3, Numbers, SendEffect, Limits, SeqMonotonic DEF Entries
        <5> QED BY <5>1, AppendProperties DEF With
      <4> QED BY <1>0, <3>3, <4>1, TaskType, NoneIsNoJob
    <3> QED BY <2>1, <3>1, <3>2, <3>3
  <2>4. Told(b)' = Told(b)
    BY <2>1 DEF Told, failureLog
  <2> QED BY <1>0, <2>1, <2>2, <2>3, <2>4
<1>2. ASSUME NEW k \in Kinds, NEW d \in Buckets, Request(k, d)
      PROVE  outFailed'[b] + job'["flush"][b].bad + job'["codex"][b].bad = Told(b)'
  <2>1. OthersStay(k, d) /\ ~aborted
    BY <1>2, RequestEffect
  <2>2. /\ d # b => outFailed'[b] = outFailed[b] /\ Told(b)' = Told(b)
        /\ outFailed'[d] + job'[k][d].bad + Told(d) = outFailed[d] + job[k][d].bad + Told(d)'
    BY <1>2, <2>1, RequestBooks
  <2>3. CASE d # b
    <3>1. job'["flush"][b] = job["flush"][b] /\ job'["codex"][b] = job["codex"][b]
      BY <1>0, <2>1, <2>3 DEF OthersStay
    <3> QED BY <1>0, <2>1, <2>2, <2>3, <3>1
  <2> DEFINE f == outFailed[b]
             u == job["flush"][b].bad
             c == job["codex"][b].bad
             g == Told(b)
             f1 == outFailed'[b]
             b1 == job'["flush"][b].bad
             c1 == job'["codex"][b].bad
             g1 == Told(b)'
  <2>4. /\ f \in Nat /\ u \in Nat /\ c \in Nat /\ g \in Nat /\ f + u + c = g
    BY <1>0, <2>1, Numbers
  <2>5. f1 \in Nat /\ b1 \in Nat /\ c1 \in Nat /\ g1 \in Nat
    <3>1. job'["flush"][b] \in Jobs /\ job'["codex"][b] \in Jobs
      BY <1>0 DEF FlusherTypeOK
    <3>2. outFailed' \in [Buckets -> Nat] /\ Told(b)' \in Nat
      <4>1. /\ outFailed' \in [Buckets -> Nat] /\ logged' \in [Buckets -> Nat]
            /\ dropped' \in [Buckets -> Nat]
        BY DEF FlusherTypeOK
      <4> QED BY <4>1 DEF Told
    <3> QED BY <3>1, <3>2 DEF Jobs
  <2>6. CASE d = b /\ k = "flush"
    <3>1. c1 = c /\ f1 + b1 + g = f + u + g1
      BY <1>0, <2>1, <2>2, <2>6 DEF OthersStay
    <3>2. SUFFICES f1 + b1 + c1 = g1
      OBVIOUS
    <3> HIDE DEF f, u, c, g, f1, b1, c1, g1
    <3> QED BY <2>4, <2>5, <3>1
  <2>7. CASE d = b /\ k = "codex"
    <3>1. b1 = u /\ f1 + c1 + g = f + c + g1
      BY <1>0, <2>1, <2>2, <2>7 DEF OthersStay
    <3>2. SUFFICES f1 + b1 + c1 = g1
      OBVIOUS
    <3> HIDE DEF f, u, c, g, f1, b1, c1, g1
    <3> QED BY <2>4, <2>5, <3>1
  <2> QED BY <2>3, <2>6, <2>7 DEF Kinds
<1> QED BY <1>1, <1>2, StepCases

\* A request leaves what the endpoint took before it counted: with the request
\* settled, all that it brought is counted, too.
LEMMA FlushTakenByRequest ==
    ASSUME FlusherTypeOK, FlusherTypeOK', EntriesInOrder, ArriveInOrder, CodexProgress,
           NEW b \in Buckets, Request("flush", b)
    PROVE  /\ FlushTaken(b) \in Int /\ FlushTaken(b)' \in Int
           /\ FlushTaken(b) <= FlushTaken(b)'
           /\ Arrives("flush", b) /\ (job'["flush"][b] = NoJob \/
                                      job'["flush"][b].at = Last_("flush", b) + 1) =>
                 FlushTaken(b) + Size("flush", b) <= FlushTaken(b)'
<1> DEFINE j == job["flush"][b]
           i == job'["flush"][b]
           l == Last_("flush", b)
           n == Size("flush", b)
           t == FlushTaken(b)
           t1 == FlushTaken(b)'
           a == Len(arrived[b])
           a1 == Len(arrived'[b])
<1>0. "flush" \in Kinds
  BY DEF Kinds
<1>1. /\ OthersStay("flush", b) /\ j.state = "open"
      /\ Arrives("flush", b) \/ UNCHANGED backend
  BY <1>0, RequestEffect
<1>2. /\ t \in Int /\ (Taken(b) => t = a - n) /\ (~Taken(b) => t = a) /\ a \in Nat /\ n \in Nat
  BY FreshRequest DEF FreshAt
<1>3. /\ t1 \in Int /\ (Taken(b)' => t1 = a1 - n') /\ a1 \in Nat
      /\ (~Taken(b)' => t1 = a1) /\ n' \in Nat
      /\ (\A m \in i.at .. Len(i.logs), o \in 1 .. a1 : arrived'[b][o] < i.logs[m]) => t1 = a1
  BY FreshRequestNext DEF FreshAt
<1>4. /\ \A m \in 1 .. a1, o \in l + 1 .. Len(j.logs) : arrived'[b][m] < j.logs[o]
      /\ arrived'[b] = arrived[b] \/ (~Taken(b) /\ a1 = a + n)
  <2>1. OrderAt(b)
    BY OrderByEndpoint
  <2> QED BY <1>1, <2>1, OrderOfArrivals DEF Size
<1>5. Arrives("flush", b) => Range(Chunk("flush", b)) \subseteq Range(arrived'[b])
  BY FlushArrives
<1>6. /\ \/ i.at = j.at /\ i.logs = j.logs
         \/ i.at = l + 1 /\ i.logs = j.logs
         \/ i = NoJob
      /\ Len(j.logs) \in Nat /\ l \in Nat /\ j.at \in Nat
  BY <1>0, RequestBooks, JobType, ChunkProperties
<1>7. ~Taken(b) /\ Arrives("flush", b) => a1 = a + n
  BY <1>4, <1>5 DEF Taken
<1>8. ASSUME i = NoJob \/ (i.at = l + 1 /\ i.logs = j.logs)
      PROVE  t1 = a1
  <2>1. CASE i = NoJob
    <3>1. i.logs = <<>> /\ i.at = 1 /\ Len(<<>>) = 0
      BY <2>1 DEF NoJob
    <3>2. i.at .. Len(i.logs) = {}
      BY <3>1
    <3> QED BY <1>3, <3>2
  <2>2. CASE i.at = l + 1 /\ i.logs = j.logs
    BY <1>3, <1>4, <2>2
  <2> QED BY <1>8, <2>1, <2>2
<1>9. CASE i = NoJob \/ (i.at = l + 1 /\ i.logs = j.logs)
  <2>1. t1 = a1 /\ (a1 = a \/ a1 = a + n) /\ t <= a
    <3>1. t1 = a1 /\ (a1 = a \/ a1 = a + n)
      BY <1>4, <1>8, <1>9
    <3>2. t <= a
      <4> HIDE DEF t, a, n
      <4> QED BY <1>2
    <3> QED BY <3>1, <3>2
  <2>2. Arrives("flush", b) => (t = a - n \/ a1 = a + n)
    BY <1>2, <1>7
  <2> SUFFICES /\ t \in Int /\ t1 \in Int /\ t <= t1
               /\ Arrives("flush", b) => t + n <= t1
    OBVIOUS
  <2>3. t \in Int /\ t1 \in Int /\ t <= t1
    <3> HIDE DEF t, t1, a, a1, n
    <3> QED BY <1>2, <1>3, <2>1
  <2>4. ASSUME Arrives("flush", b) PROVE t + n <= t1
    <3>1. t = a - n \/ a1 = a + n
      BY <2>2, <2>4
    <3> HIDE DEF t, t1, a, a1, n
    <3> QED BY <1>2, <1>3, <2>1, <3>1
  <2> QED BY <2>3, <2>4
<1>10. CASE i.at = j.at /\ i.logs = j.logs /\ ~(i = NoJob \/ i.at = l + 1)
  <2>1. Chunk("flush", b)' = Chunk("flush", b) /\ n' = n
    BY <1>10 DEF Chunk, Last_, Size
  <2>2. t <= t1
    <3>1. CASE arrived'[b] = arrived[b]
      <4>1. Taken(b)' = Taken(b) /\ a1 = a
        BY <2>1, <3>1 DEF Taken
      <4>2. t1 = t
        BY <1>2, <1>3, <2>1, <4>1
      <4> HIDE DEF t, t1
      <4> QED BY <1>2, <4>2
    <3>2. CASE arrived'[b] # arrived[b]
      <4>1. ~Taken(b) /\ a1 = a + n
        BY <1>4, <3>2
      <4>2. Arrives("flush", b)
        BY <1>1, <3>2 DEF backend
      <4>3. t = a
        BY <1>2, <4>1
      <4>4. t1 = a1 - n \/ t1 = a1
        BY <1>3, <2>1
      <4> HIDE DEF t, t1, a, a1, n
      <4> QED BY <1>2, <4>1, <4>3, <4>4
    <3> QED BY <3>1, <3>2
  <2> QED BY <1>2, <1>3, <1>10, <2>2
<1> QED BY <1>6, <1>9, <1>10

\* The same of the records of a Codex batch.
LEMMA CodexTakenByRequest ==
    ASSUME FlusherTypeOK, FlusherTypeOK', CodexProgress, NEW b \in Buckets, Request("codex", b)
    PROVE  /\ CodexTaken(b) \in Nat /\ CodexTaken(b)' \in Nat
           /\ CodexTaken(b) <= CodexTaken(b)'
           /\ Arrives("codex", b) /\ (job'["codex"][b] = NoJob \/
                                      job'["codex"][b].at = Last_("codex", b) + 1) =>
                 CodexTaken(b) + Size("codex", b) <= CodexTaken(b)'
<1> DEFINE j == job["codex"][b]
           i == job'["codex"][b]
           l == Last_("codex", b)
           A == arrivedCodex[b]
           B == arrivedCodex'[b]
<1>0. "codex" \in Kinds
  BY DEF Kinds
<1>1. j.state = "open" /\ (Arrives("codex", b) \/ UNCHANGED backend)
  BY <1>0, RequestEffect
<1>2. /\ A \in SUBSET (1 .. CodexLogs) /\ B \in SUBSET (1 .. CodexLogs) /\ A \subseteq B
      /\ Arrives("codex", b) => j.at .. l \subseteq B
  <2>1. A \in SUBSET (1 .. CodexLogs) /\ B \in SUBSET (1 .. CodexLogs)
    BY DEF FlusherTypeOK
  <2> QED BY <1>1, <2>1, CodexArrives
<1>3. j.at \in Nat \ {0} /\ l \in Nat /\ j.at <= l + 1
  BY <1>0, JobType, ChunkProperties
<1>4. \/ i.at = j.at /\ i.state = j.state
      \/ i.at = l + 1 /\ i.state = j.state
      \/ i = NoJob
  BY <1>0, RequestBooks
<1>5. CodexTaken(b) = Cardinality(A \cap 1 .. j.at - 1)
  BY <1>1 DEF CodexTaken
<1>6. /\ Cardinality(B) \in Nat /\ Cardinality(A \cap 1 .. j.at - 1) \in Nat
      /\ Cardinality(B \cap 1 .. l) \in Nat
      /\ Cardinality(B \cap 1 .. l) <= Cardinality(B)
      /\ Cardinality(A \cap 1 .. j.at - 1) <= Cardinality(B \cap 1 .. l)
      /\ j.at .. l \subseteq B =>
            Cardinality(A \cap 1 .. j.at - 1) + (l + 1 - j.at) <= Cardinality(B \cap 1 .. l)
  <2> HIDE DEF j, l, A, B
  <2> QED BY <1>2, <1>3, CountedRecords
<1>7. CASE i = NoJob \/ (i.at = l + 1 /\ i.state = j.state)
  <2>1. CodexTaken(b)' = Cardinality(B) \/ CodexTaken(b)' = Cardinality(B \cap 1 .. l)
    <3>1. CASE i = NoJob
      <4>1. i.state = "none"
        BY <3>1 DEF NoJob
      <4> QED BY <4>1 DEF CodexTaken
    <3>2. CASE i.at = l + 1 /\ i.state = j.state
      <4>1. i.state = "open" /\ i.at - 1 = l
        BY <1>1, <1>3, <3>2
      <4> QED BY <4>1 DEF CodexTaken
    <3> QED BY <1>7, <3>1, <3>2
  <2>2. CodexTaken(b)' \in Nat /\ Cardinality(B \cap 1 .. l) <= CodexTaken(b)'
    BY <1>6, <2>1
  <2> DEFINE x == Cardinality(A \cap 1 .. j.at - 1)
             y == Cardinality(B \cap 1 .. l)
             z == CodexTaken(b)'
             n == l + 1 - j.at
  <2>3. Arrives("codex", b) => x + n <= y
    BY <1>2, <1>6
  <2>4. x \in Nat /\ y \in Nat /\ x <= y /\ z \in Nat /\ y <= z /\ n \in Nat
    BY <1>3, <1>6, <2>2
  <2>5. x <= z /\ (x + n <= y => x + n <= z)
    <3> HIDE DEF x, y, z, n
    <3> QED BY <2>4
  <2> QED BY <1>5, <2>3, <2>4, <2>5 DEF Size
<1>8. CASE i.at = j.at /\ i.state = j.state /\ ~(i = NoJob \/ i.at = l + 1)
  <2>1. CodexTaken(b)' = Cardinality(B \cap 1 .. j.at - 1)
    BY <1>1, <1>8 DEF CodexTaken
  <2>2. /\ Cardinality(B \cap 1 .. j.at - 1) \in Nat
        /\ Cardinality(A \cap 1 .. j.at - 1) <= Cardinality(B \cap 1 .. j.at - 1)
    <3>1. j.at - 1 \in Nat /\ j.at <= (j.at - 1) + 1
      BY <1>3
    <3> HIDE DEF j, l, A, B
    <3> QED BY <1>2, <1>3, <3>1, CountedRecords
  <2> QED BY <1>5, <1>6, <1>8, <2>1, <2>2
<1> QED BY <1>4, <1>7, <1>8

\* A step that is no request takes nothing back of what the endpoint took.
LEMMA TakenByOthers ==
    ASSUME FlusherTypeOK, FlusherTypeOK', EntriesInOrder, CodexProgress, NEW b \in Buckets,
           \/ Send \/ FlushStep \/ CodexBegins \/ QuietStep
           \/ \E k \in Kinds, d \in Buckets : TaskStarts(k, d)
    PROVE  /\ FlushTaken(b) \in Int /\ FlushTaken(b)' \in Int /\ FlushTaken(b) <= FlushTaken(b)'
           /\ CodexTaken(b) \in Nat /\ CodexTaken(b)' \in Nat /\ CodexTaken(b) <= CodexTaken(b)'
           /\ job'["flush"][b].ok = job["flush"][b].ok
           /\ job'["codex"][b].ok \in Nat /\ job'["codex"][b].ok <= job["codex"][b].ok
<1>0. "flush" \in Kinds /\ "codex" \in Kinds
  BY DEF Kinds
<1>1. /\ UNCHANGED backend
      /\ \/ Stays("flush", b)
         \/ /\ job["flush"][b].state = "none"
            /\ \/ job'["flush"][b] = Task(queue[b])
               \/ (Send /\ job'["flush"][b] = Task(With(b)))
      /\ Stays("codex", b) \/ Begins(b) \/ DropsTask("codex", b)
  BY NoRequest
<1>2. /\ FlushTaken(b) \in Int /\ FlushTaken(b) <= FlushTaken(b)' /\ FlushTaken(b)' \in Int
      /\ job'["flush"][b].ok = job["flush"][b].ok
  <2> DEFINE t == FlushTaken(b)
             t1 == FlushTaken(b)'
             a == Len(arrived[b])
  <2>1. /\ t \in Int /\ (t = a - Size("flush", b) \/ t = a) /\ Size("flush", b) \in Nat
        /\ a \in Nat
    BY FreshRequest DEF FreshAt
  <2>2. t <= a
    BY <2>1
  <2>3. CASE Stays("flush", b)
    <3>1. /\ job'["flush"][b].logs = job["flush"][b].logs
          /\ job'["flush"][b].at = job["flush"][b].at
          /\ job'["flush"][b].ok = job["flush"][b].ok
          /\ arrived' = arrived
      BY <1>1, <2>3 DEF Stays, backend
    <3>2. t1 = t
      BY <3>1 DEF FlushTaken, Taken, Chunk, Last_
    <3>3. t \in Int
      BY <2>1
    <3> SUFFICES /\ t \in Int /\ t <= t1 /\ t1 \in Int
                 /\ job'["flush"][b].ok = job["flush"][b].ok
      OBVIOUS
    <3> HIDE DEF t, t1
    <3> QED BY <3>1, <3>2, <3>3
  <2>4. ASSUME NEW s \in Seq(Entries), job["flush"][b].state = "none",
               job'["flush"][b] = Task(s),
               \A i \in 1 .. Len(s), m \in 1 .. Len(arrived[b]) : arrived[b][m] < s[i]
        PROVE  t <= t1 /\ t1 \in Int /\ job'["flush"][b].ok = job["flush"][b].ok
    <3>1. s \in Seq(Nat)
      BY Limits, SeqMonotonic DEF Entries
    <3>2. /\ job'["flush"][b].logs = s /\ job'["flush"][b].at = 1
          /\ job'["flush"][b].ok = 0 /\ job["flush"][b].ok = 0
      BY <1>0, <2>4, <3>1, TaskType, NoneIsNoJob
    <3>3. arrived' = arrived
      BY <1>1 DEF backend
    <3>4. /\ t1 \in Int
          /\ (\A i \in job'["flush"][b].at .. Len(job'["flush"][b].logs),
                 m \in 1 .. Len(arrived'[b]) : arrived'[b][m] < job'["flush"][b].logs[i])
             => t1 = Len(arrived'[b])
      BY FreshRequestNext DEF FreshAt
    <3>5. t1 = a
      BY <2>4, <3>2, <3>3, <3>4
    <3> HIDE DEF t, t1, a
    <3> QED BY <2>1, <2>2, <3>2, <3>5
  <2>5. /\ queue[b] \in Seq(Entries)
        /\ \A i \in 1 .. Len(queue[b]), m \in 1 .. Len(arrived[b]) : arrived[b][m] < queue[b][i]
        /\ \A m \in 1 .. Len(arrived[b]) : arrived[b][m] <= sent
    BY Numbers DEF EntriesInOrder
  <2>6. CASE job["flush"][b].state = "none" /\ job'["flush"][b] = Task(queue[b])
    BY <2>1, <2>4, <2>5, <2>6
  <2>7. CASE job["flush"][b].state = "none" /\ Send /\ job'["flush"][b] = Task(With(b))
    <3>1. sent + 1 \in Entries /\ sent \in Nat
      <4>1. sent + 1 \in Entries
        BY <2>7, SendEffect
      <4>2. sent \in Nat
        BY Limits DEF FlusherTypeOK
      <4> QED BY <4>1, <4>2
    <3>2. /\ With(b) \in Seq(Entries)
          /\ \/ /\ Len(With(b)) = Len(queue[b]) + 1
                /\ \A i \in 1 .. Len(queue[b]) : With(b)[i] = queue[b][i]
                /\ With(b)[Len(queue[b]) + 1] = sent + 1
             \/ With(b) = queue[b]
      BY <2>5, <3>1, AppendProperties DEF With
    <3>3. \A m \in 1 .. Len(arrived[b]) : arrived[b][m] \in Nat
      <4>1. arrived[b] \in Seq(Nat)
        <5>1. arrived[b] \in Seq(Entries)
          BY DEF FlusherTypeOK
        <5> QED BY <5>1, Limits, SeqMonotonic DEF Entries
      <4> QED BY <4>1, ElementOfSeq
    <3>4. ASSUME NEW i \in 1 .. Len(With(b)), NEW m \in 1 .. Len(arrived[b])
          PROVE  arrived[b][m] < With(b)[i]
      <4>1. CASE i \in 1 .. Len(queue[b]) /\ With(b)[i] = queue[b][i]
        BY <2>5, <4>1
      <4>2. CASE i = Len(queue[b]) + 1 /\ With(b)[i] = sent + 1
        BY <2>5, <3>1, <3>3, <4>2
      <4>3. Len(queue[b]) \in Nat
        BY Numbers
      <4>4. \/ i \in 1 .. Len(queue[b]) /\ With(b)[i] = queue[b][i]
            \/ i = Len(queue[b]) + 1 /\ With(b)[i] = sent + 1
        BY <3>2, <4>3
      <4> QED BY <4>1, <4>2, <4>4
    <3> QED BY <2>1, <2>4, <2>7, <3>2, <3>4
  <2> QED BY <1>1, <2>1, <2>3, <2>6, <2>7
<1> DEFINE j == job["codex"][b]
           i == job'["codex"][b]
           A == arrivedCodex[b]
<1>3. A \in SUBSET (1 .. CodexLogs) /\ arrivedCodex'[b] = A
  BY <1>1 DEF backend, FlusherTypeOK
<1>4. j.at \in Nat \ {0} /\ j.ok \in Nat
  BY <1>0, JobType
<1>5. /\ Cardinality(A) \in Nat /\ Cardinality(A \cap 1 .. j.at - 1) \in Nat
      /\ Cardinality(A \cap 1 .. j.at - 1) <= Cardinality(A)
  <2>1. j.at - 1 \in Nat /\ j.at <= (j.at - 1) + 1
    BY <1>4
  <2> HIDE DEF j, A
  <2> QED BY <1>3, <1>4, <2>1, CountedRecords
<1>6. CASE Stays("codex", b)
  <2>1. i.at = j.at /\ i.ok = j.ok /\ (i.state = "none" <=> j.state = "none")
    BY <1>6 DEF Stays
  <2>2. CodexTaken(b)' = CodexTaken(b)
    BY <1>3, <2>1 DEF CodexTaken
  <2>3. CodexTaken(b) \in Nat
    BY <1>5 DEF CodexTaken
  <2> QED BY <1>2, <1>4, <2>1, <2>2, <2>3
<1>7. CASE Begins(b)
  <2>1. j.state = "none" /\ i.state # "none" /\ i.at = 1 /\ i.ok = 0 /\ A = {}
    BY <1>7, BatchType, TaskType DEF Begins, CodexProgress
  <2>2. j.ok = 0
    BY <1>0, <2>1, NoneIsNoJob
  <2>3. CodexTaken(b) = 0 /\ CodexTaken(b)' = 0
    BY <1>3, <2>1, FS_EmptySet DEF CodexTaken
  <2> QED BY <1>2, <2>1, <2>2, <2>3
<1>8. CASE DropsTask("codex", b)
  <2>1. j.state # "none" /\ i.state = "none" /\ i.ok = 0
    BY <1>8 DEF DropsTask, NoJob
  <2>2. CodexTaken(b) = Cardinality(A \cap 1 .. j.at - 1) /\ CodexTaken(b)' = Cardinality(A)
    BY <1>3, <2>1 DEF CodexTaken
  <2> QED BY <1>2, <1>4, <1>5, <2>1, <2>2
<1> QED BY <1>1, <1>6, <1>7, <1>8

LEMMA BilledStep ==
    ASSUME FlusherTypeOK, FlusherTypeOK', EntriesInOrder, ArriveInOrder, CodexProgress,
           BilledBeforeRequest, [FlusherNext]_vars
    PROVE  BilledBeforeRequest'
<1> SUFFICES ASSUME NEW b \in Buckets
             PROVE  outEntries'[b] + job'["flush"][b].ok + job'["codex"][b].ok
                      <= FlushTaken(b)' + CodexTaken(b)'
  BY DEF BilledBeforeRequest
<1> DEFINE o == outEntries[b]
           p == job["flush"][b].ok
           c == job["codex"][b].ok
           t == FlushTaken(b)
           r == CodexTaken(b)
           o1 == outEntries'[b]
           p1 == job'["flush"][b].ok
           c1 == job'["codex"][b].ok
           t1 == FlushTaken(b)'
           r1 == CodexTaken(b)'
           Goal == o1 + p1 + c1 <= t1 + r1
<1> SUFFICES Goal
  OBVIOUS
<1>0. "flush" \in Kinds /\ "codex" \in Kinds
  BY DEF Kinds
<1>1. /\ o + p + c <= t + r /\ o \in Nat /\ p \in Nat /\ c \in Nat
      /\ o1 \in Nat /\ p1 \in Nat /\ c1 \in Nat
  <2>1. job'["flush"][b] \in Jobs /\ job'["codex"][b] \in Jobs /\ o1 \in Nat
    BY <1>0 DEF FlusherTypeOK
  <2> QED BY <1>0, <2>1, Numbers DEF BilledBeforeRequest, Jobs
<1>2. CASE \/ Send \/ FlushStep \/ CodexBegins \/ QuietStep
           \/ \E k \in Kinds, d \in Buckets : TaskStarts(k, d)
  <2>1. o1 = o
    BY <1>2, NoRequest
  <2>2. /\ t \in Int /\ t1 \in Int /\ t <= t1 /\ r \in Nat /\ r1 \in Nat /\ r <= r1
        /\ p1 = p /\ c1 <= c
    BY <1>2, TakenByOthers
  <2> HIDE DEF o, p, c, t, r, o1, p1, c1, t1, r1
  <2> QED BY <1>1, <2>1, <2>2
<1>3. ASSUME NEW k \in Kinds, NEW d \in Buckets, Request(k, d) PROVE Goal
  <2>1. OthersStay(k, d) /\ job[k][d].state = "open" /\ (Arrives(k, d) \/ UNCHANGED backend)
    BY <1>3, RequestEffect
  <2>2. /\ d # b => o1 = o
        /\ \/ outEntries'[d] + job'[k][d].ok <= outEntries[d] + job[k][d].ok
           \/ /\ Arrives(k, d) /\ (job'[k][d] = NoJob \/ job'[k][d].at = Last_(k, d) + 1)
              /\ outEntries'[d] + job'[k][d].ok = outEntries[d] + job[k][d].ok + Size(k, d)
    BY <1>3, RequestBooks
  <2>3. Size(k, d) \in Nat
    <3>1. job[k][d].at \in Nat /\ Last_(k, d) \in Nat /\ job[k][d].at <= Last_(k, d) + 1
      BY JobType, ChunkProperties
    <3> QED BY <3>1 DEF Size
  <2>4. ASSUME ~(k = "flush" /\ d = b) PROVE t1 = t /\ p1 = p /\ t \in Int
    <3>1. job'["flush"][b] = job["flush"][b]
      BY <1>0, <2>1, <2>4 DEF OthersStay
    <3>2. arrived'[b] = arrived[b]
      <4>1. CASE k = "codex"
        BY <2>1, <4>1, CodexArrives
      <4>2. CASE k = "flush"
        BY <2>1, <2>4, <4>2, FlushArrives
      <4> QED BY <4>1, <4>2 DEF Kinds
    <3>3. t1 = t
      BY <3>1, <3>2 DEF FlushTaken, Taken, Chunk, Last_
    <3> QED BY <3>1, <3>3, FreshRequest DEF FreshAt
  <2>5. ASSUME ~(k = "codex" /\ d = b) PROVE r1 = r /\ c1 = c /\ r \in Nat
    <3>1. job'["codex"][b] = job["codex"][b]
      BY <1>0, <2>1, <2>5 DEF OthersStay
    <3>2. arrivedCodex'[b] = arrivedCodex[b]
      <4>1. CASE k = "codex"
        BY <2>1, <2>5, <4>1, CodexArrives
      <4>2. CASE k = "flush"
        BY <2>1, <4>2, FlushArrives
      <4> QED BY <4>1, <4>2 DEF Kinds
    <3>3. r1 = r
      BY <3>1, <3>2 DEF CodexTaken
    <3>4. r \in Nat
      <4>1. /\ arrivedCodex[b] \in SUBSET (1 .. CodexLogs)
            /\ job["codex"][b].at - 1 \in Nat /\ job["codex"][b].at \in Nat \ {0}
            /\ job["codex"][b].at <= (job["codex"][b].at - 1) + 1
        <5>1. arrivedCodex[b] \in SUBSET (1 .. CodexLogs)
          BY DEF FlusherTypeOK
        <5>2. job["codex"][b].at \in Nat \ {0}
          BY <1>0, JobType
        <5>3. /\ job["codex"][b].at - 1 \in Nat
              /\ job["codex"][b].at <= (job["codex"][b].at - 1) + 1
          BY <5>2
        <5> QED BY <5>1, <5>2, <5>3
      <4>2. /\ Cardinality(arrivedCodex[b]) \in Nat
            /\ Cardinality(arrivedCodex[b] \cap 1 .. job["codex"][b].at - 1) \in Nat
        BY <4>1, CountedRecords
      <4> QED BY <4>2 DEF CodexTaken
    <3> QED BY <3>1, <3>3, <3>4
  <2>6. CASE d # b
    <3>1. o1 = o /\ t1 = t /\ p1 = p /\ t \in Int /\ r1 = r /\ c1 = c /\ r \in Nat
      BY <2>2, <2>4, <2>5, <2>6
    <3> HIDE DEF o, p, c, t, r, o1, p1, c1, t1, r1
    <3> QED BY <1>1, <3>1
  <2> DEFINE n == Size(k, d)
  <2>7. CASE d = b /\ k = "flush"
    <3>1. r1 = r /\ c1 = c /\ r \in Nat
      BY <2>5, <2>7
    <3>2. /\ t \in Int /\ t1 \in Int /\ t <= t1
          /\ Arrives("flush", b) /\ (job'["flush"][b] = NoJob \/
                                     job'["flush"][b].at = Last_("flush", b) + 1) => t + n <= t1
      BY <1>3, <2>7, FlushTakenByRequest
    <3>3. \/ o1 + p1 <= o + p
          \/ o1 + p1 = o + p + n /\ t + n <= t1
      BY <2>2, <2>7, <3>2
    <3>4. n \in Nat
      BY <2>3
    <3> HIDE DEF o, p, c, t, r, o1, p1, c1, t1, r1, n
    <3> QED BY <1>1, <3>1, <3>2, <3>3, <3>4
  <2>8. CASE d = b /\ k = "codex"
    <3>1. t1 = t /\ p1 = p /\ t \in Int
      BY <2>4, <2>8
    <3>2. /\ r \in Nat /\ r1 \in Nat /\ r <= r1
          /\ Arrives("codex", b) /\ (job'["codex"][b] = NoJob \/
                                     job'["codex"][b].at = Last_("codex", b) + 1) => r + n <= r1
      BY <1>3, <2>8, CodexTakenByRequest
    <3>3. \/ o1 + c1 <= o + c
          \/ o1 + c1 = o + c + n /\ r + n <= r1
      BY <2>2, <2>8, <3>2
    <3>4. n \in Nat
      BY <2>3
    <3> HIDE DEF o, p, c, t, r, o1, p1, c1, t1, r1, n
    <3> QED BY <1>1, <3>1, <3>2, <3>3, <3>4
  <2> QED BY <2>6, <2>7, <2>8 DEF Kinds
<1> QED BY <1>2, <1>3, StepCases

\* A request of a Codex batch leaves its task where CodexProgress wants it.
LEMMA ProgressByRequest ==
    ASSUME FlusherTypeOK, FlusherTypeOK', CodexProgress, NEW b \in Buckets, Request("codex", b)
    PROVE  /\ job["codex"][b].logs = Batch /\ codex = "sending"
           /\ \/ /\ job'["codex"][b].state = "open" /\ job'["codex"][b].logs = Batch
                 /\ job'["codex"][b].bad = 0 =>
                       1 .. job'["codex"][b].at - 1 \subseteq arrivedCodex'[b]
              \/ /\ job'["codex"][b] = NoJob
                 /\ failed' \/ aborted \/ arrivedCodex'[b] = 1 .. CodexLogs
<1> DEFINE j == job["codex"][b]
           i == job'["codex"][b]
           l == Last_("codex", b)
           n == Size("codex", b)
           A == arrivedCodex[b]
           B == arrivedCodex'[b]
<1>0. "codex" \in Kinds
  BY DEF Kinds
<1>1. /\ j.state = "open" /\ (Arrives("codex", b) \/ UNCHANGED backend)
      /\ Settles("codex", b) \/ TriesAgain("codex", b) \/ IsCancelled("codex", b)
  BY <1>0, RequestEffect
<1>2. /\ A \subseteq B /\ B \subseteq 1 .. CodexLogs
      /\ Arrives("codex", b) => j.at .. l \subseteq B
  BY <1>1, CodexArrives DEF FlusherTypeOK
<1>3. /\ j.logs = Batch /\ codex = "sending" /\ Len(j.logs) = CodexLogs
      /\ j.bad = 0 => 1 .. j.at - 1 \subseteq A
  BY <1>1, BatchType DEF CodexProgress
<1>4. /\ j \in Jobs /\ j.at \in Nat \ {0} /\ l \in Nat /\ j.at <= l + 1 /\ j.bad \in Nat
      /\ j.ok \in Nat /\ n \in Nat /\ n = l + 1 - j.at
  <2>1. j \in Jobs /\ j.at \in Nat \ {0} /\ l \in Nat /\ j.at <= l + 1 /\ j.bad \in Nat
        /\ j.ok \in Nat
    BY <1>0, JobType, ChunkProperties
  <2> QED BY <2>1 DEF Size
<1>5. ASSUME NEW ok \in Nat, NEW bad \in Nat, Goes("codex", b, ok, bad), bad >= j.bad,
             bad = 0 => Arrives("codex", b) \/ n = 0
      PROVE  \/ /\ i.state = "open" /\ i.logs = Batch
                /\ i.bad = 0 => 1 .. i.at - 1 \subseteq B
             \/ i = NoJob /\ (failed' \/ B = 1 .. CodexLogs)
  <2>1. bad = 0 => 1 .. l \subseteq B
    <3> SUFFICES ASSUME bad = 0 PROVE 1 .. l \subseteq B
      OBVIOUS
    <3>1. 1 .. j.at - 1 \subseteq B
      BY <1>2, <1>3, <1>4, <1>5
    <3>2. j.at .. l \subseteq B
      <4>1. CASE n = 0
        BY <1>4, <4>1
      <4> QED BY <1>2, <1>5, <4>1
    <3> QED BY <1>4, <3>1, <3>2
  <2>2. CASE /\ l = Len(j.logs) /\ i = NoJob
             /\ failed' = (failed \/ ("codex" = "codex" /\ bad > 0))
    <3>1. ~failed' => bad = 0
      <4> DEFINE P == bad > 0
      <4>1. ~P => bad = 0
        OBVIOUS
      <4>2. failed' = (failed \/ P)
        BY <2>2
      <4> HIDE DEF P
      <4> QED BY Zenon, <4>1, <4>2
    <3> QED BY <1>2, <1>3, <2>1, <2>2, <3>1
  <2>3. CASE i = [j EXCEPT !.ok = ok, !.bad = bad, !.at = l + 1, !.tries = 0]
    <3>1. i.state = j.state /\ i.logs = j.logs /\ i.bad = bad /\ i.at = l + 1
      BY <1>4, <2>3 DEF Jobs
    <3>2. i.at - 1 = l
      BY <1>4, <3>1
    <3> QED BY <1>1, <1>3, <2>1, <3>1, <3>2
  <2> QED BY <1>5, <2>2, <2>3 DEF Goes
<1>6. CASE Settles("codex", b)
  <2>1. CASE Arrives("codex", b) /\ Goes("codex", b, j.ok + n, j.bad)
    <3>1. j.ok + n \in Nat /\ j.bad >= j.bad
      BY <1>4
    <3> QED BY <1>3, <1>4, <1>5, <2>1, <3>1
  <2>2. CASE Goes("codex", b, j.ok, j.bad + n)
    <3>1. j.bad + n \in Nat /\ j.bad + n >= j.bad /\ (j.bad + n = 0 => n = 0)
      <4> HIDE DEF j, n
      <4> QED BY <1>4
    <3> QED BY <1>3, <1>4, <1>5, <2>2, <3>1
  <2> QED BY <1>6, <2>1, <2>2 DEF Settles
<1>7. CASE TriesAgain("codex", b)
  <2>1. i = [j EXCEPT !.tries = @ + 1]
    BY <1>7 DEF TriesAgain
  <2>2. i.state = j.state /\ i.logs = j.logs /\ i.bad = j.bad /\ i.at = j.at
    BY <1>4, <2>1 DEF Jobs
  <2> QED BY <1>1, <1>2, <1>3, <2>2
<1>8. CASE IsCancelled("codex", b)
  BY <1>3, <1>8 DEF IsCancelled
<1> QED BY <1>1, <1>6, <1>7, <1>8

\* A request of one task leaves the Codex tasks of the other endpoints alone.
LEMMA CodexElsewhere ==
    ASSUME FlusherTypeOK, EntriesInOrder, CodexProgress, NEW k \in Kinds, NEW d \in Buckets,
           Request(k, d), NEW b \in Buckets, ~(k = "codex" /\ d = b)
    PROVE  /\ job'["codex"][b] = job["codex"][b] /\ arrivedCodex'[b] = arrivedCodex[b]
           /\ codex' = codex /\ aborted' = aborted /\ (failed => failed')
<1>1. /\ OthersStay(k, d) /\ job[k][d].state = "open" /\ (Arrives(k, d) \/ UNCHANGED backend)
      /\ Settles(k, d) \/ TriesAgain(k, d) \/ IsCancelled(k, d)
      /\ codex' = codex /\ aborted' = aborted
  BY RequestEffect
<1>2. job'["codex"][b] = job["codex"][b]
  BY <1>1 DEF OthersStay, Kinds
<1>3. arrivedCodex'[b] = arrivedCodex[b]
  <2>1. CASE k = "codex"
    BY <1>1, <2>1, CodexArrives
  <2>2. CASE k = "flush"
    BY <1>1, <2>2, FlushArrives
  <2> QED BY <2>1, <2>2 DEF Kinds
<1>4. failed => failed'
  BY <1>1 DEF Settles, Goes, TriesAgain, IsCancelled
<1> QED BY <1>1, <1>2, <1>3, <1>4

\* CodexProgress, for one endpoint.
ProgressAt(b) ==
    LET j == job["codex"][b] IN
    /\ codex = "idle" => arrivedCodex[b] = {}
    /\ j.state # "none" => codex = "sending" /\ j.logs = Batch
    /\ j.state # "none" /\ j.bad = 0 => 1 .. j.at - 1 \subseteq arrivedCodex[b]
    /\ b \in CodexBuckets /\ j.state = "none" /\ codex = "sending" /\ ~failed /\ ~aborted =>
          arrivedCodex[b] = 1 .. CodexLogs
LEMMA ProgressByEndpoint ==
    /\ CodexProgress <=> \A b \in Buckets : ProgressAt(b)
    /\ CodexProgress' <=> \A b \in Buckets : ProgressAt(b)'
BY Zenon DEF CodexProgress, ProgressAt

LEMMA ProgressStep ==
    ASSUME FlusherTypeOK, FlusherTypeOK', EntriesInOrder, CodexProgress, [FlusherNext]_vars
    PROVE  CodexProgress'
<1> SUFFICES ASSUME NEW b \in Buckets PROVE ProgressAt(b)'
  BY ProgressByEndpoint
<1> DEFINE j == job["codex"][b]
           i == job'["codex"][b]
<1>0. "codex" \in Kinds /\ ProgressAt(b)
  BY ProgressByEndpoint DEF Kinds
<1>1. CASE Send
  <2>1. codex' = codex /\ failed' = failed /\ aborted' = aborted /\ arrivedCodex' = arrivedCodex
    BY <1>1, SendEffect DEF batch, backend
  <2>2. i = j
    BY <1>1, SendEffect DEF Flushes
  <2> QED BY <1>0, <2>1, <2>2 DEF ProgressAt
<1>2. CASE FlushStep
  <2>1. /\ codex' = codex /\ failed' = failed /\ aborted' = aborted
        /\ arrivedCodex' = arrivedCodex /\ i = j
    BY <1>2 DEF FlushStep, Empties, Flushes, batch, backend
  <2> QED BY <1>0, <2>1 DEF ProgressAt
<1>3. CASE CodexBegins
  <2>1. /\ codex = "idle" /\ j.state = "none" /\ arrivedCodex' = arrivedCodex
        /\ \/ codex' = "rejected" /\ i = j
           \/ codex' = "sending" /\ i = IF b \in CodexBuckets THEN Task(Batch) ELSE NoJob
    BY <1>3, CodexBeginsEffect DEF backend
  <2>2. CASE codex' = "rejected" /\ i = j
    BY <2>1, <2>2 DEF ProgressAt
  <2>4. CASE codex' = "sending" /\ b \notin CodexBuckets /\ i = NoJob
    BY <2>4 DEF ProgressAt, NoJob
  <2>3. CASE codex' = "sending" /\ i = Task(Batch)
    <3>1. i.state # "none" /\ i.logs = Batch /\ i.at = 1
      BY <2>3, BatchType, TaskType
    <3>2. 1 .. i.at - 1 = {}
      BY <3>1
    <3> QED BY <2>3, <3>1, <3>2 DEF ProgressAt
  <2> QED BY <2>1, <2>2, <2>3, <2>4
<1>4. CASE QuietStep
  <2>1. /\ i = j /\ failed' = failed /\ arrivedCodex' = arrivedCodex
        /\ \/ codex' = codex /\ (aborted => aborted')
           \/ j.state = "none" /\ codex' \in {"accepted", "rejected"}
    BY <1>4 DEF QuietStep, CodexEnds, backend
  <2> QED BY <1>0, <2>1 DEF ProgressAt
<1>5. ASSUME NEW k \in Kinds, NEW d \in Buckets, TaskStarts(k, d) PROVE ProgressAt(b)'
  <2>1. /\ OthersStay(k, d) /\ job[k][d].state = "todo"
        /\ codex' = codex /\ aborted' = aborted /\ arrivedCodex' = arrivedCodex
        /\ \/ k = "codex" /\ aborted /\ job'[k][d] = NoJob /\ failed' = TRUE
           \/ failed' = failed /\ job'[k][d] = [job[k][d] EXCEPT !.state = "open"]
    BY <1>5, TaskStartsEffect DEF backend
  <2>2. CASE ~(k = "codex" /\ d = b)
    <3>1. i = j
      BY <1>0, <2>1, <2>2 DEF OthersStay
    <3> QED BY <1>0, <2>1, <3>1 DEF ProgressAt
  <2>3. CASE k = "codex" /\ d = b /\ i = NoJob /\ aborted
    <3>1. i.state = "none" /\ codex = "sending"
      BY <1>0, <2>1, <2>3 DEF NoJob, ProgressAt
    <3> QED BY <2>1, <2>3, <3>1 DEF ProgressAt
  <2>4. CASE k = "codex" /\ d = b /\ failed' = failed /\ i = [j EXCEPT !.state = "open"]
    <3>1. i.state = "open" /\ i.logs = j.logs /\ i.at = j.at /\ i.bad = j.bad
      <4>1. j \in Jobs
        BY <1>0, JobType
      <4> QED BY <2>4, <4>1 DEF Jobs
    <3>2. j.state # "none"
      BY <2>1, <2>4
    <3> QED BY <1>0, <2>1, <2>4, <3>1, <3>2 DEF ProgressAt
  <2> QED BY <2>1, <2>2, <2>3, <2>4
<1>6. ASSUME NEW k \in Kinds, NEW d \in Buckets, Request(k, d) PROVE ProgressAt(b)'
  <2>1. CASE ~(k = "codex" /\ d = b)
    <3>1. /\ i = j /\ arrivedCodex'[b] = arrivedCodex[b] /\ codex' = codex
          /\ aborted' = aborted /\ (failed => failed')
      BY <1>6, <2>1, CodexElsewhere
    <3> QED BY <1>0, <3>1 DEF ProgressAt
  <2>2. CASE k = "codex" /\ d = b
    <3>1. codex' = codex /\ aborted' = aborted
      BY <1>6, RequestEffect
    <3>2. /\ codex = "sending"
          /\ \/ /\ i.state = "open" /\ i.logs = Batch
                /\ i.bad = 0 => 1 .. i.at - 1 \subseteq arrivedCodex'[b]
             \/ i = NoJob /\ (failed' \/ aborted \/ arrivedCodex'[b] = 1 .. CodexLogs)
      BY <1>6, <2>2, ProgressByRequest
    <3>3. NoJob.state = "none"
      BY DEF NoJob
    <3> QED BY <3>1, <3>2, <3>3 DEF ProgressAt
  <2> QED BY <2>1, <2>2
<1> QED BY <1>1, <1>2, <1>3, <1>4, <1>5, <1>6, StepCases

-----------------------------------------------------------------------------
(* The shutdown, and what a Codex batch was answered.                      *)

LEMMA EmptiedStep ==
    ASSUME FlusherTypeOK, CodexProgress, ShutdownEmptied, [FlusherNext]_vars
    PROVE  ShutdownEmptied'
<1> DEFINE Quiet == \A b \in Buckets : job["flush"][b].state = "none"
<1>0. flushing <=> ~Quiet
  BY DEF flushing
<1>1. CASE Send
  BY <1>1, SendEffect DEF ShutdownEmptied
<1>2. CASE FlushStep
  <2>1. /\ phase = "up" /\ codex' = codex /\ \A b \in Buckets : queue'[b] = <<>>
        /\ phase' = "up" \/ (codex # "sending" /\ phase' = "draining")
    BY <1>2 DEF FlushStep, Empties, batch
  <2> QED BY <2>1 DEF ShutdownEmptied
<1>3. CASE CodexBegins
  <2>1. phase = "up" /\ phase' = phase
    BY <1>3, CodexBeginsEffect
  <2> QED BY <2>1 DEF ShutdownEmptied
<1>4. CASE QuietStep
  <2>1. queue' = queue /\ flushing' = flushing
    BY <1>4 DEF QuietStep, flushing
  <2>2. CASE UNCHANGED <<codex, aborted, phase, met>>
    BY <2>1, <2>2 DEF ShutdownEmptied
  <2>3. CASE codex = "sending" /\ CodexEnds
    BY <2>1, <2>3 DEF ShutdownEmptied, CodexEnds
  <2>4. CASE UNCHANGED <<codex, phase, met>>
    BY <2>1, <2>4 DEF ShutdownEmptied
  <2>5. CASE codex # "sending" /\ met' = TRUE /\ codex' = codex
    BY <2>5 DEF ShutdownEmptied
  <2>6. CASE phase = "draining" /\ phase' = "down" /\ ~flushing /\ UNCHANGED <<codex, met>>
    BY <2>1, <2>6 DEF ShutdownEmptied
  <2> QED BY <1>4, <2>2, <2>3, <2>4, <2>5, <2>6 DEF QuietStep
<1>5. ASSUME NEW k \in Kinds, NEW d \in Buckets, TaskStarts(k, d) \/ Request(k, d)
      PROVE  ShutdownEmptied'
  <2>1. phase # "down" /\ UNCHANGED <<queue, codex, phase, met>>
    BY <1>5, TaskStartsEffect, RequestEffect
  <2> QED BY <2>1 DEF ShutdownEmptied
<1> QED BY <1>1, <1>2, <1>3, <1>4, <1>5, StepCases

LEMMA AcceptedStep ==
    ASSUME FlusherTypeOK, EntriesInOrder, CodexProgress, AcceptedIsWritten, [FlusherNext]_vars
    PROVE  AcceptedIsWritten'
<1> SUFFICES ASSUME codex' = "accepted", NEW b \in CodexBuckets
             PROVE  arrivedCodex'[b] = 1 .. CodexLogs
  BY DEF AcceptedIsWritten
<1>0. b \in Buckets
  BY BucketKinds
<1>1. codex = "accepted" => arrivedCodex[b] = 1 .. CodexLogs
  BY DEF AcceptedIsWritten
<1>2. CASE Send
  BY <1>1, <1>2, SendEffect DEF batch, backend
<1>3. CASE FlushStep
  BY <1>1, <1>3 DEF FlushStep, batch, backend
<1>4. CASE CodexBegins
  BY <1>4, CodexBeginsEffect
<1>5. CASE QuietStep
  <2>1. arrivedCodex' = arrivedCodex
    BY <1>5 DEF QuietStep, backend
  <2>2. CASE codex = "sending" /\ CodexEnds
    <3>1. ~failed /\ ~aborted /\ job["codex"][b].state = "none" /\ codex = "sending"
      BY <1>0, <2>2 DEF CodexEnds
    <3> QED BY <1>0, <2>1, <3>1 DEF CodexProgress
  <2>3. CASE codex' = codex
    BY <1>1, <2>1, <2>3
  <2> QED BY <1>5, <2>2, <2>3 DEF QuietStep
<1>6. ASSUME NEW k \in Kinds, NEW d \in Buckets, TaskStarts(k, d)
      PROVE  arrivedCodex'[b] = 1 .. CodexLogs
  BY <1>1, <1>6, TaskStartsEffect DEF backend
<1>7. ASSUME NEW k \in Kinds, NEW d \in Buckets, Request(k, d)
      PROVE  arrivedCodex'[b] = 1 .. CodexLogs
  <2>1. codex' = codex /\ job[k][d].state = "open"
    BY <1>7, RequestEffect
  <2>2. ~(k = "codex" /\ d = b)
    BY <1>0, <2>1 DEF CodexProgress
  <2>3. arrivedCodex'[b] = arrivedCodex[b]
    BY <1>0, <1>7, <2>2, CodexElsewhere
  <2> QED BY <1>1, <2>1, <2>3
<1> QED BY <1>2, <1>3, <1>4, <1>5, <1>6, <1>7, StepCases

-----------------------------------------------------------------------------
(* The theorems.                                                           *)

\* What the endpoint took, entry by entry, is as many entries as it is long.
LEMMA WrittenCounts ==
    ASSUME FlusherTypeOK, ArriveInOrder, BilledBeforeRequest
    PROVE  BilledIsWritten
<1> SUFFICES ASSUME NEW b \in Buckets
             PROVE  outEntries[b] <= Cardinality(Range(arrived[b])) + Cardinality(arrivedCodex[b])
  BY DEF BilledIsWritten
<1> DEFINE a == arrived[b]
           n == Len(a)
           c == Cardinality(arrivedCodex[b])
           p == job["flush"][b].ok
           q == job["codex"][b].ok
<1>0. "flush" \in Kinds /\ "codex" \in Kinds
  BY DEF Kinds
<1>1. Cardinality(Range(a)) = n
  <2>1. /\ a \in Seq(Nat) /\ n \in Nat /\ DOMAIN a = 1 .. n
    <3>1. a \in Seq(Nat)
      BY Limits, SeqMonotonic DEF FlusherTypeOK, Entries
    <3> QED BY <3>1, LenProperties
  <2>2. \A i, m \in 1 .. n : i < m => a[i] < a[m]
    BY DEF ArriveInOrder, Increasing
  <2>3. \A i \in 1 .. n : a[i] \in Nat
    BY <2>1, ElementOfSeq
  <2>4. \A i, m \in 1 .. n : a[i] = a[m] => i = m
    BY <2>1, <2>2, <2>3
  <2>5. a \in Bijection(1 .. n, Range(a))
    <3>1. a \in [1 .. n -> Range(a)]
      BY <2>1 DEF Range
    <3>2. \A y \in Range(a) : \E i \in 1 .. n : a[i] = y
      BY <2>1 DEF Range
    <3> HIDE DEF a, n
    <3>3. a \in Injection(1 .. n, Range(a))
      BY <2>4, <3>1 DEF Injection, IsInjective
    <3>4. a \in Surjection(1 .. n, Range(a))
      BY <3>1, <3>2 DEF Surjection
    <3> QED BY <3>3, <3>4 DEF Bijection
  <2>6. IsFiniteSet(1 .. n) /\ Cardinality(1 .. n) = n
    BY <2>1, FS_Interval
  <2>7. ExistsBijection(1 .. n, Range(a))
    BY <2>5 DEF ExistsBijection
  <2> QED BY <2>6, <2>7, FS_Bijection
<1>2. FlushTaken(b) \in Int /\ FlushTaken(b) <= n /\ n \in Nat
  <2>1. /\ FlushTaken(b) \in Int /\ (FlushTaken(b) = n - Size("flush", b) \/ FlushTaken(b) = n)
        /\ Size("flush", b) \in Nat /\ n \in Nat
    BY FreshRequest DEF FreshAt
  <2> HIDE DEF n
  <2> QED BY <2>1
<1>3. CodexTaken(b) \in Nat /\ CodexTaken(b) <= c /\ c \in Nat
  <2>1. arrivedCodex[b] \in SUBSET (1 .. CodexLogs)
    BY DEF FlusherTypeOK
  <2>2. job["codex"][b].at \in Nat \ {0}
    BY <1>0, JobType
  <2>3. /\ job["codex"][b].at - 1 \in Nat
        /\ job["codex"][b].at <= (job["codex"][b].at - 1) + 1
    BY <2>2
  <2>4. /\ c \in Nat /\ Cardinality(arrivedCodex[b] \cap 1 .. job["codex"][b].at - 1) \in Nat
        /\ Cardinality(arrivedCodex[b] \cap 1 .. job["codex"][b].at - 1) <= c
    BY <2>1, <2>2, <2>3, CountedRecords
  <2> QED BY <2>4 DEF CodexTaken
<1>4. outEntries[b] + p + q <= FlushTaken(b) + CodexTaken(b)
  BY DEF BilledBeforeRequest
<1>5. outEntries[b] \in Nat /\ p \in Nat /\ q \in Nat
  BY <1>0, Numbers
<1>6. outEntries[b] <= n + c
  <2> HIDE DEF n, c, p, q
  <2> QED BY <1>2, <1>3, <1>4, <1>5
<1> QED BY <1>1, <1>6

\* All that is inductive together.
FlusherInv ==
    /\ FlusherTypeOK /\ Accounted /\ FailuresLogged /\ ArriveInOrder
    /\ BilledBeforeRequest /\ EntriesInOrder /\ CodexProgress /\ ShutdownEmptied
    /\ AcceptedIsWritten
LEMMA InitOK == FlusherInit => FlusherInv
<1> SUFFICES ASSUME FlusherInit PROVE FlusherInv
  OBVIOUS
<1>0. \A k \in Kinds, b \in Buckets : job[k][b] = NoJob
  BY DEF FlusherInit
<1>1. NoJob.state = "none" /\ NoJob.logs = <<>> /\ NoJob.at = 1 /\ NoJob.ok = 0 /\ NoJob.bad = 0
  BY DEF NoJob
<1>2. "flush" \in Kinds /\ "codex" \in Kinds
  BY DEF Kinds
<1>3. FlusherTypeOK
  <2>1. sent \in 0 .. MaxEntries /\ codex \in {"idle", "sending", "accepted", "rejected"}
        /\ phase \in {"up", "draining", "down"}
    BY Limits DEF FlusherInit
  <2>2. {failed, aborted, met} \subseteq BOOLEAN
    BY DEF FlusherInit
  <2>3. queue \in [Buckets -> Seq(Entries)] /\ arrived \in [Buckets -> Seq(Entries)]
    BY EmptySeq DEF FlusherInit
  <2>4. /\ {inEntries, outEntries, outFailed, logged, dropped} \subseteq [Buckets -> Nat]
        /\ drops \in 0 .. MaxDrops
    BY Limits DEF FlusherInit
  <2>5. arrivedCodex \in [Buckets -> SUBSET (1 .. CodexLogs)]
    BY DEF FlusherInit
  <2>6. /\ job \in [Kinds -> [Buckets -> Jobs]]
        /\ \A k \in Kinds, b \in Buckets : JobOK(job[k][b])
    BY <1>0, NoJobType DEF FlusherInit
  <2>7. \A k \in Kinds : Cardinality(Open(k)) <= FlushConcurrency
    <3> SUFFICES ASSUME NEW k \in Kinds PROVE Cardinality(Open(k)) <= FlushConcurrency
      OBVIOUS
    <3>1. Open(k) = {}
      BY <1>0, <1>1 DEF Open
    <3> QED BY <3>1, FS_EmptySet, Limits
  <2> QED BY <2>1, <2>2, <2>3, <2>4, <2>5, <2>6, <2>7 DEF FlusherTypeOK
<1>4. ASSUME NEW b \in Buckets
      PROVE  /\ queue[b] = <<>> /\ arrived[b] = <<>> /\ Len(<<>>) = 0 /\ arrivedCodex[b] = {}
             /\ job["flush"][b] = NoJob /\ job["codex"][b] = NoJob
             /\ inEntries[b] = 0 /\ outEntries[b] = 0 /\ outFailed[b] = 0
             /\ logged[b] = 0 /\ dropped[b] = 0
  BY <1>0, <1>2 DEF FlusherInit
<1>5. Accounted
  <2> SUFFICES ASSUME NEW b \in Buckets
               PROVE  inEntries[b] = outEntries[b] + outFailed[b] + Unsettled(b)
    BY DEF Accounted
  <2>1. Len(queue[b]) = 0 /\ Len(job["flush"][b].logs) = 0 /\ job["codex"][b].state # "open"
    BY <1>1, <1>4
  <2>2. Unsettled(b) = 0
    BY <2>1 DEF Unsettled
  <2> QED BY <1>4, <2>2
<1>6. FailuresLogged
  BY <1>1, <1>4 DEF FailuresLogged
<1>7. EntriesInOrder /\ ArriveInOrder
  <2> SUFFICES ASSUME NEW b \in Buckets PROVE OrderAt(b)
    BY OrderByEndpoint
  <2>1. 1 .. Len(<<>>) = {}
    OBVIOUS
  <2>2. /\ \A n \in Nat : n > 0 => n .. Len(<<>>) = {}
    OBVIOUS
  <2>3. Last_("flush", b) = 0
    <3>1. ChunkLogs[b[1]] \in Nat \ {0}
      BY Limits
    <3> QED BY <1>1, <1>4, <3>1 DEF Last_
  <2>4. Increasing(<<>>)
    BY <2>1 DEF Increasing
  <2> QED BY <1>1, <1>4, <2>1, <2>2, <2>3, <2>4 DEF OrderAt
<1>8. BilledBeforeRequest
  <2> SUFFICES ASSUME NEW b \in Buckets
               PROVE  outEntries[b] + job["flush"][b].ok + job["codex"][b].ok
                        <= FlushTaken(b) + CodexTaken(b)
    BY DEF BilledBeforeRequest
  <2>1. FlushTaken(b) = 0
    <3>1. /\ (\A i \in job["flush"][b].at .. Len(job["flush"][b].logs), m \in 1 .. Len(arrived[b]) :
                 arrived[b][m] < job["flush"][b].logs[i]) => FlushTaken(b) = Len(arrived[b])
      BY <1>3, FreshRequest DEF FreshAt
    <3>2. 1 .. Len(arrived[b]) = {} /\ Len(arrived[b]) = 0
      BY <1>4
    <3> QED BY <3>1, <3>2
  <2>2. CodexTaken(b) = 0
    BY <1>1, <1>4, FS_EmptySet DEF CodexTaken
  <2> QED BY <1>1, <1>4, <2>1, <2>2
<1>9. CodexProgress
  BY <1>1, <1>4 DEF CodexProgress, FlusherInit
<1>10. ShutdownEmptied /\ AcceptedIsWritten
  BY DEF ShutdownEmptied, AcceptedIsWritten, FlusherInit
<1> QED BY <1>3, <1>5, <1>6, <1>7, <1>8, <1>9, <1>10 DEF FlusherInv

LEMMA FlusherInvStep == FlusherInv /\ [FlusherNext]_vars => FlusherInv'
<1> SUFFICES ASSUME FlusherInv, [FlusherNext]_vars PROVE FlusherInv'
  OBVIOUS
<1>1. /\ FlusherTypeOK /\ Accounted /\ FailuresLogged /\ ArriveInOrder
      /\ BilledBeforeRequest /\ EntriesInOrder /\ CodexProgress /\ ShutdownEmptied
      /\ AcceptedIsWritten
  BY DEF FlusherInv
<1>2. FlusherTypeOK'
  BY <1>1, TypeStep
<1>3. (EntriesInOrder /\ ArriveInOrder)'
  BY <1>1, <1>2, OrderStep
<1>4. Accounted' /\ FailuresLogged'
  BY <1>1, <1>2, AccountedStep, FailuresStep
<1>5. BilledBeforeRequest'
  BY <1>1, <1>2, BilledStep
<1>6. CodexProgress'
  BY <1>1, <1>2, ProgressStep
<1>7. ShutdownEmptied' /\ AcceptedIsWritten'
  BY <1>1, EmptiedStep, AcceptedStep
<1> QED BY <1>2, <1>3, <1>4, <1>5, <1>6, <1>7 DEF FlusherInv

\* The books of every bucket of an endpoint balance, whatever the endpoints take,
\* refuse or leave unanswered: each entry is written, failed, queued or on its
\* way, the failure log was told of every failure, whose record it keeps or
\* dropped, no more is counted as written than arrived, and the entries of a
\* bucket arrive in the order of send().
THEOREM BooksAreSound == FlusherSpec => []BooksBalance
<1>1. FlusherInv => BooksBalance
  BY WrittenCounts DEF FlusherInv, BooksBalance
<1> QED BY <1>1, InitOK, FlusherInvStep, PTL DEF FlusherSpec

\* A Codex batch that its input is told was accepted has arrived, all of it,
\* at every endpoint.
THEOREM AcceptedMeansWritten == FlusherSpec => []AcceptedIsWritten
<1>1. FlusherInv => AcceptedIsWritten
  BY DEF FlusherInv
<1> QED BY <1>1, InitOK, FlusherInvStep, PTL DEF FlusherSpec

\* A process that ends without a flush in progress leaves no entry unsettled.
THEOREM ShutdownLeavesNothing == FlusherSpec => []ShutdownSettles
<1>1. FlusherInv => ShutdownSettles
  <2> SUFFICES ASSUME FlusherInv, phase = "down", ~met, NEW b \in Buckets
               PROVE  Unsettled(b) = 0
    BY DEF ShutdownSettles
  <2>1. FlusherTypeOK /\ CodexProgress /\ ShutdownEmptied
    BY DEF FlusherInv
  <2>2. queue[b] = <<>> /\ job["flush"][b].state = "none" /\ codex # "sending"
    BY <2>1 DEF ShutdownEmptied, flushing
  <2>3. job["flush"][b].logs = <<>>
    BY <2>1, <2>2, NoneIsNoJob DEF Kinds
  <2>4. job["codex"][b].state # "open"
    BY <2>1, <2>2 DEF CodexProgress
  <2> QED BY <2>2, <2>3, <2>4 DEF Unsettled
<1> QED BY <1>1, InitOK, FlusherInvStep, PTL DEF FlusherSpec

-----------------------------------------------------------------------------
=============================================================================
