----------------------- MODULE CodexTraceTurnsProofs -----------------------
(***************************************************************************)
(* Proofs about the turn buffers of the trace flusher over the turn        *)
(* journal, for any number of turns, records and crashes: no step of the   *)
(* process or of an acknowledgement, and no crash between two of them,     *)
(* loses a record the saved cursor has passed.                             *)
(***************************************************************************)
EXTENDS CodexTraceTurns, TLAPS

USE JournalAssumption, TraceTurnsAssumption

\* TraceInv with what is read off it.
IInv == TraceInv /\ CommittedRecoverable /\ AcknowledgedTurnsComplete

-----------------------------------------------------------------------------
(* The journal.                                                            *)

\* A step that leaves content and acknowledgements alone changes nothing a
\* restart would find.
LEMMA FilesUnchanged ==
    ASSUME lines' = lines, done' = done
    PROVE  \A t : /\ Acknowledged(t)' = Acknowledged(t)
                  /\ Retained(t)' = Retained(t)
BY DEF Acknowledged, Retained

\* The acknowledgement of one more turn is the newest.
LEMMA AckWritesProperties ==
    ASSUME JournalTypeOK, NEW t \in Turns, AckWrites(t)
    PROVE  /\ JournalTypeOK'
           /\ \A x \in Turns : Acknowledged(x)' <=> Acknowledged(x) \/ x = t
<1>1. CASE Acknowledged(t)
  BY <1>1 DEF JournalTypeOK, AckWrites, Acknowledged
<1>2. CASE ~Acknowledged(t)
  <2>1. done' = Append(done, t) /\ done \in Seq(Turns)
    BY <1>2 DEF JournalTypeOK, AckWrites
  <2>2. /\ done' \in Seq(Turns)
        /\ Len(done') = Len(done) + 1
        /\ \A i \in 1 .. Len(done) : done'[i] = done[i]
        /\ done'[Len(done) + 1] = t
    BY <2>1
  <2>3. \A x \in Turns : Acknowledged(x)' <=> Acknowledged(x) \/ x = t
    BY <2>1, <2>2 DEF Acknowledged, ToSet
  <2>4. \A i \in 1 .. Len(done) : done[i] # t
    BY <1>2, <2>1 DEF Acknowledged, ToSet
  <2>5. IsInjective(done')
    BY <2>1, <2>2, <2>4 DEF JournalTypeOK, IsInjective
  <2> QED BY <2>2, <2>3, <2>5 DEF JournalTypeOK, AckWrites
<1> QED BY <1>1, <1>2

\* Trimming forgets the oldest acknowledgement and no other.
LEMMA TrimForgetsProperties ==
    ASSUME JournalTypeOK, TrimForgets, done # <<>>
    PROVE  /\ JournalTypeOK'
           /\ Head(done) \in Turns
           /\ \A x \in Turns : Acknowledged(x)' <=> Acknowledged(x) /\ x # Head(done)
<1>1. done' = Tail(done) /\ done \in Seq(Turns)
  BY DEF JournalTypeOK, TrimForgets
<1>2. /\ done' \in Seq(Turns)
      /\ Head(done) \in Turns /\ Head(done) = done[1]
      /\ Len(done') = Len(done) - 1
      /\ \A i \in 1 .. Len(done') : done'[i] = done[i + 1]
  BY <1>1
<1>3. \A i, j \in 1 .. Len(done) : done[i] = done[j] => i = j
  BY <1>1 DEF JournalTypeOK, IsInjective
<1>4. IsInjective(done')
  BY <1>1, <1>2, <1>3 DEF IsInjective
<1>5. ASSUME NEW x \in Turns
      PROVE  Acknowledged(x)' <=> Acknowledged(x) /\ x # Head(done)
  <2>1. ASSUME NEW i \in 1 .. Len(done'), done'[i] = x
        PROVE  Acknowledged(x) /\ x # Head(done)
    BY <1>1, <1>2, <1>3, <2>1 DEF Acknowledged, ToSet
  <2>2. ASSUME NEW i \in 1 .. Len(done), done[i] = x, x # Head(done)
        PROVE  Acknowledged(x)'
    <3>1. i - 1 \in 1 .. Len(done') /\ done'[i - 1] = x
      BY <1>1, <1>2, <2>2
    <3>2. DOMAIN done' = 1 .. Len(done')
      BY <1>2
    <3> QED BY <3>1, <3>2 DEF Acknowledged, ToSet
  <2> QED BY <1>1, <1>2, <2>1, <2>2 DEF Acknowledged, ToSet
<1> QED BY <1>2, <1>4, <1>5 DEF JournalTypeOK, TrimForgets

\* flushCompleted() moves each completed buffer, and only those, to its export.
LEMMA FlushCompletedProperties ==
    ASSUME NEW buffers \in [Turns -> SUBSET Records], FlushCompleted(buffers), TraceTypeOK
    PROVE  /\ buffer' \in [Turns -> SUBSET Records]
           /\ exporting' \in [Turns -> SUBSET Records]
           /\ flushed' \subseteq Turns
           /\ \A x \in Turns : Length \in buffers[x] =>
                 buffer'[x] = {} /\ exporting'[x] = buffers[x] /\ x \in flushed'
           /\ \A x \in Turns : Length \notin buffers[x] =>
                 buffer'[x] = buffers[x] /\ exporting'[x] = exporting[x]
                 /\ (x \in flushed' <=> x \in flushed)
BY DEF FlushCompleted, Completed, TraceTypeOK

\* The parts of the invariant make the whole: SpilledIsJournaled follows.
LEMMA PartsMakeIInv ==
    ASSUME TraceTypeOK', ForgottenLeavesNothing', StepsOrdered', MemoryIsJournaled',
           ClosedIsComplete', HandledIsSecured', CommittedRecoverable',
           AcknowledgedTurnsComplete'
    PROVE  IInv'
<1>1. SpilledIsJournaled'
  BY DEF SpilledIsJournaled, MemoryIsJournaled, TraceTypeOK
<1> QED BY <1>1 DEF IInv, TraceInv

LEMMA InitIInv == TraceInit => IInv
<1> SUFFICES ASSUME TraceInit PROVE IInv
  OBVIOUS
<1> USE DEF TraceInit, JournalInit
<1>1. \A t : ~Acknowledged(t)
  BY DEF Acknowledged, ToSet
<1>2. TraceTypeOK
  <2>1. JournalTypeOK
    BY DEF JournalTypeOK, IsInjective
  <2> QED BY <2>1 DEF TraceTypeOK
<1>3. ForgottenLeavesNothing
  BY DEF ForgottenLeavesNothing
<1>4. StepsOrdered
  BY <1>1 DEF StepsOrdered, Attended, TailJoined
<1>5. MemoryIsJournaled /\ ClosedIsComplete
  BY <1>1 DEF MemoryIsJournaled, ClosedIsComplete, Retained, Attended
<1>6. HandledIsSecured /\ CommittedRecoverable
  BY DEF HandledIsSecured, Handled, CommittedRecoverable
<1>7. AcknowledgedTurnsComplete
  BY <1>1 DEF AcknowledgedTurnsComplete
<1>8. SpilledIsJournaled
  BY DEF SpilledIsJournaled
<1> QED BY <1>2, <1>3, <1>4, <1>5, <1>6, <1>7, <1>8 DEF IInv, TraceInv

-----------------------------------------------------------------------------
(* Steps that leave the journal alone.                                     *)

LEMMA SendBeginsIInv ==
    ASSUME IInv, NEW t \in Turns, NEW n \in Records, SendBegins(t, n)
    PROVE  IInv'
<1> USE DEF IInv, TraceInv, SendBegins, journal, files, memory
<1>1. \A x : Acknowledged(x)' = Acknowledged(x) /\ Retained(x)' = Retained(x)
  BY FilesUnchanged
<1>2. batch'.turn = t /\ batch' # NoBatch /\ batch' \in [turn : Turns, first : Records, last : Records]
  BY DEF TraceTypeOK, NoBatch, Records
<1>3. TraceTypeOK'
  <2>1. JournalTypeOK'
    BY DEF TraceTypeOK, JournalTypeOK
  <2> QED BY <1>1, <1>2, <2>1 DEF TraceTypeOK, Records
<1>4. ForgottenLeavesNothing'
  BY DEF ForgottenLeavesNothing
<1>5. StepsOrdered'
  BY <1>1, <1>2 DEF StepsOrdered, TraceTypeOK, TailJoined, Attended
<1>6. MemoryIsJournaled' /\ ClosedIsComplete'
  BY <1>1 DEF MemoryIsJournaled, ClosedIsComplete, Attended, Unbuffered
<1>7. HandledIsSecured' /\ CommittedRecoverable' /\ AcknowledgedTurnsComplete'
  BY <1>1, <1>2 DEF HandledIsSecured, CommittedRecoverable, AcknowledgedTurnsComplete,
     Handled, TraceTypeOK
<1> QED BY <1>3, <1>4, <1>5, <1>6, <1>7, PartsMakeIInv

\* persistCodexEntries(): what the turn gets back is what the journal has.
LEMMA CheckIInv == ASSUME IInv, Check PROVE IInv'
<1> DEFINE t == batch.turn
           unknown == buffer[t] = {} /\ t \notin flushed
<1> USE DEF IInv, TraceInv, journal, files, input
<1>1. \A x : Acknowledged(x)' = Acknowledged(x) /\ Retained(x)' = Retained(x)
  BY FilesUnchanged DEF Check
<1>2. /\ t \in Turns /\ sender' = "append" /\ batch' = batch
      /\ Retained(t) \in SUBSET Records
  BY DEF Check, StepsOrdered, TraceTypeOK, JournalTypeOK, Retained
<1>3. /\ buffer' \in [Turns -> SUBSET Records]
      /\ buffer'[t] = IF unknown THEN Retained(t) ELSE buffer[t]
      /\ \A x \in Turns : x # t => buffer'[x] = buffer[x]
  BY <1>2 DEF Check, TraceTypeOK
<1>4. /\ flushed' \subseteq Turns
      /\ t \in flushed' <=> t \in flushed \/ (unknown /\ Acknowledged(t))
      /\ \A x \in Turns : x # t => (x \in flushed' <=> x \in flushed)
  BY <1>2 DEF Check, TraceTypeOK
<1>5. TraceTypeOK'
  <2>1. JournalTypeOK'
    BY DEF Check, TraceTypeOK, JournalTypeOK
  <2>2. spilled' \subseteq Turns /\ \A x \in spilled' : buffer'[x] \cup exporting'[x] # {}
    BY <1>2, <1>3 DEF Check, Spills, TraceTypeOK
  <2>3. \A x \in Turns : buffer'[x] # {} => x \notin flushed' /\ ~Acknowledged(x)'
    BY <1>1, <1>3, <1>4 DEF TraceTypeOK, Retained
  <2> QED BY <1>2, <1>3, <1>4, <2>1, <2>2, <2>3 DEF Check, TraceTypeOK
<1>6. ForgottenLeavesNothing'
  BY DEF Check, ForgottenLeavesNothing
<1>7. StepsOrdered'
  <2>1. Attended(t)' => ~Acknowledged(t)'
    BY <1>1, <1>2, <1>4 DEF Attended, TraceTypeOK
  <2>2. toRestore' = {}
    BY DEF Check, StepsOrdered
  <2> QED BY <1>1, <1>2, <1>3, <1>4, <2>1, <2>2 DEF Check, StepsOrdered, TailJoined, Attended
<1>8. MemoryIsJournaled'
  BY <1>1, <1>2, <1>3, <1>4 DEF Check, MemoryIsJournaled, Attended, Unbuffered
<1>9. ClosedIsComplete'
  BY <1>1, <1>2, <1>3, <1>4
     DEF Check, ClosedIsComplete, AcknowledgedTurnsComplete, TraceTypeOK, Retained
<1>10. HandledIsSecured' /\ CommittedRecoverable' /\ AcknowledgedTurnsComplete'
  BY <1>1, <1>2 DEF Check, HandledIsSecured, CommittedRecoverable, AcknowledgedTurnsComplete,
     Handled
<1> QED BY <1>5, <1>6, <1>7, <1>8, <1>9, <1>10, PartsMakeIInv

\* appendEntry(): the records it buffers are those just journaled.
LEMMA BuffersIInv == ASSUME IInv, Buffers PROVE IInv'
<1> DEFINE t == batch.turn
<1> USE DEF IInv, TraceInv, journal, files, input
<1>1. \A x : Acknowledged(x)' = Acknowledged(x) /\ Retained(x)' = Retained(x)
  BY FilesUnchanged DEF Buffers
<1>2. /\ t \in Turns /\ sender' = "finish" /\ batch' = batch
      /\ BatchRecords \in SUBSET Records
      /\ flushed' = flushed
  BY DEF Buffers, StepsOrdered, BatchRecords, Records
<1>3. /\ buffer' \in [Turns -> SUBSET Records]
      /\ buffer'[t] = IF t \in flushed THEN buffer[t] ELSE buffer[t] \cup BatchRecords
      /\ \A x \in Turns : x # t => buffer'[x] = buffer[x]
  <2>1. buffer \in [Turns -> SUBSET Records] /\ buffer[t] \cup BatchRecords \in SUBSET Records
    BY <1>2 DEF TraceTypeOK
  <2> HIDE DEF IInv
  <2> QED BY <1>2, <2>1 DEF Buffers
<1>4. Attended(t) <=> t \notin flushed
  BY DEF Buffers, Attended
<1>5. TraceTypeOK'
  <2>1. JournalTypeOK'
    BY DEF Buffers, TraceTypeOK, JournalTypeOK
  <2>2. spilled' \subseteq Turns /\ \A x \in spilled' : buffer'[x] \cup exporting'[x] # {}
    BY <1>2, <1>3 DEF Buffers, Spills, TraceTypeOK
  <2>3. \A x \in Turns : buffer'[x] # {} => x \notin flushed' /\ ~Acknowledged(x)'
    BY <1>1, <1>2, <1>3, <1>4 DEF TraceTypeOK, StepsOrdered
  <2> QED BY <1>2, <1>3, <2>1, <2>2, <2>3 DEF Buffers, TraceTypeOK
<1>6. ForgottenLeavesNothing'
  BY DEF Buffers, ForgottenLeavesNothing
<1>7. StepsOrdered'
  BY <1>1, <1>2 DEF Buffers, StepsOrdered, TailJoined, Attended
<1>8. MemoryIsJournaled'
  <2>1. Unbuffered(t) = BatchRecords /\ \A x \in Turns : Unbuffered(x)' = {} /\ ~Attended(x)'
    BY <1>2 DEF Buffers, Unbuffered, Attended
  <2>2. \A x \in Turns : x # t => Unbuffered(x) = {}
    BY <1>2 DEF Buffers, Unbuffered
  <2>3. t \in flushed => buffer[t] = {}
    BY <1>2 DEF TraceTypeOK
  <2> QED BY <1>1, <1>2, <1>3, <1>4, <2>1, <2>2, <2>3 DEF Buffers, MemoryIsJournaled
<1>9. ClosedIsComplete'
  <2>1. ASSUME t \notin ahead, t \notin flushed, Length \in buffer'[t]
        PROVE  buffer'[t] \cup exported[t] = Records
    <3>1. CASE Length \in buffer[t]
      BY <1>2, <1>3, <2>1, <3>1 DEF ClosedIsComplete
    <3>2. CASE Length \in BatchRecords
      <4>1. ~latched /\ emitted[t] = Length
        BY <2>1, <3>2 DEF Buffers, StepsOrdered, BatchRecords, TraceTypeOK
      <4>2. Records \subseteq Retained(t) \cup exported[t]
        BY <1>2, <2>1, <4>1 DEF Buffers, HandledIsSecured, Handled, Records
      <4>3. Retained(t) \subseteq buffer'[t]
        BY <1>2, <1>3, <1>4, <2>1, <4>1 DEF Buffers, MemoryIsJournaled, Unbuffered
      <4> QED BY <1>2, <1>3, <4>2, <4>3 DEF TraceTypeOK
    <3> QED BY <1>3, <2>1, <3>1, <3>2
  <2> QED BY <1>1, <1>2, <1>3, <2>1 DEF Buffers, ClosedIsComplete
<1>10. HandledIsSecured' /\ CommittedRecoverable' /\ AcknowledgedTurnsComplete'
  BY <1>1, <1>2 DEF Buffers, HandledIsSecured, CommittedRecoverable, AcknowledgedTurnsComplete,
     Handled
<1> QED BY <1>5, <1>6, <1>7, <1>8, <1>9, <1>10, PartsMakeIInv

\* The saved cursor passes only what is handled.
LEMMA SavesIInv == ASSUME IInv, Saves PROVE IInv'
<1> USE DEF IInv, TraceInv, Saves, journal, files, memory, calls
<1>1. \A x : Acknowledged(x)' = Acknowledged(x) /\ Retained(x)' = Retained(x)
  BY FilesUnchanged
<1>2. TraceTypeOK'
  <2>1. JournalTypeOK'
    BY DEF TraceTypeOK, JournalTypeOK
  <2> QED BY <1>1, <2>1 DEF TraceTypeOK
<1>3. ForgottenLeavesNothing' /\ StepsOrdered'
  BY <1>1 DEF ForgottenLeavesNothing, StepsOrdered, TailJoined, Attended
<1>4. MemoryIsJournaled' /\ ClosedIsComplete'
  <2>1. \A x : Attended(x)' = Attended(x) /\ Unbuffered(x)' = Unbuffered(x)
    BY DEF Attended, Unbuffered, BatchRecords
  <2> QED BY <1>1, <2>1 DEF MemoryIsJournaled, ClosedIsComplete
<1>5. HandledIsSecured' /\ CommittedRecoverable' /\ AcknowledgedTurnsComplete'
  BY <1>1 DEF HandledIsSecured, CommittedRecoverable, AcknowledgedTurnsComplete, Handled
<1> QED BY <1>2, <1>3, <1>4, <1>5, PartsMakeIInv

LEMMA OtherBeginsIInv == ASSUME IInv, OtherBegins PROVE IInv'
<1> USE DEF IInv, TraceInv, OtherBegins, journal, files, memory, input
<1>1. \A x : Acknowledged(x)' = Acknowledged(x) /\ Retained(x)' = Retained(x)
  BY FilesUnchanged
<1>2. TraceTypeOK'
  <2>1. JournalTypeOK'
    BY DEF TraceTypeOK, JournalTypeOK
  <2> QED BY <1>1, <2>1 DEF TraceTypeOK
<1>3. ForgottenLeavesNothing' /\ StepsOrdered'
  BY <1>1 DEF ForgottenLeavesNothing, StepsOrdered, TailJoined, Attended
<1>4. MemoryIsJournaled' /\ ClosedIsComplete'
  <2>1. \A x : Attended(x)' = Attended(x) /\ Unbuffered(x)' = Unbuffered(x)
    BY DEF Attended, Unbuffered, BatchRecords
  <2> QED BY <1>1, <2>1 DEF MemoryIsJournaled, ClosedIsComplete
<1>5. HandledIsSecured' /\ CommittedRecoverable' /\ AcknowledgedTurnsComplete'
  BY <1>1 DEF HandledIsSecured, CommittedRecoverable, AcknowledgedTurnsComplete, Handled
<1> QED BY <1>2, <1>3, <1>4, <1>5, PartsMakeIInv

\* flushCompleted(), over the buffers as they are or with a turn restored from
\* the journal: a completed turn leaves with every record.
LEMMA FlushIInv ==
    ASSUME IInv,
           NEW buffers \in [Turns -> SUBSET Records], FlushCompleted(buffers),
           \A x \in Turns : \/ buffers[x] = buffer[x]
                            \/ x \in toRestore \ toRestore' /\ buffers[x] = Retained(x),
           sender \in {"idle", "finish"}, sender' = "idle", batch' = NoBatch,
           others' \in BOOLEAN, others' => others, toRestore' \subseteq toRestore,
           spilled' \subseteq Turns,
           \A x \in spilled' : buffers[x] \cup exporting[x] # {},
           UNCHANGED <<journal, exported, input, forgotten>>
    PROVE  IInv'
<1> USE DEF IInv, TraceInv, journal, files, input
<1>1. \A x : Acknowledged(x)' = Acknowledged(x) /\ Retained(x)' = Retained(x)
  BY FilesUnchanged
<1>2. /\ buffer' \in [Turns -> SUBSET Records]
      /\ exporting' \in [Turns -> SUBSET Records]
      /\ flushed' \subseteq Turns
      /\ \A x \in Turns : Length \in buffers[x] =>
            buffer'[x] = {} /\ exporting'[x] = buffers[x] /\ x \in flushed'
      /\ \A x \in Turns : Length \notin buffers[x] =>
            buffer'[x] = buffers[x] /\ exporting'[x] = exporting[x]
            /\ (x \in flushed' <=> x \in flushed)
  BY FlushCompletedProperties
<1>3. \A x \in Turns : buffers[x] # {} => x \notin flushed /\ ~Acknowledged(x)
  BY DEF TraceTypeOK, StepsOrdered
<1>4. \A x : ~Attended(x) /\ ~Attended(x)' /\ Unbuffered(x) = {} /\ Unbuffered(x)' = {}
  BY DEF Attended, Unbuffered
<1>5. \A x \in Turns \ ahead :
         /\ buffers[x] \subseteq Retained(x)
         /\ ~latched /\ buffers[x] # {} => Retained(x) \subseteq buffers[x]
         /\ Length \in buffers[x] => buffers[x] \cup exported[x] = Records
  BY <1>4 DEF MemoryIsJournaled, ClosedIsComplete
<1>6. TraceTypeOK'
  <2>1. JournalTypeOK'
    BY DEF TraceTypeOK, JournalTypeOK
  <2>2. \A x \in spilled' : buffer'[x] \cup exporting'[x] # {}
    BY <1>2
  <2>3. \A x \in Turns : buffer'[x] # {} => x \notin flushed' /\ ~Acknowledged(x)'
    BY <1>1, <1>2, <1>3
  <2>4. \A x \in Turns : exporting'[x] # {} => x \in flushed'
    BY <1>2 DEF TraceTypeOK
  <2> QED BY <1>2, <2>1, <2>2, <2>3, <2>4 DEF TraceTypeOK
<1>7. ForgottenLeavesNothing'
  BY DEF ForgottenLeavesNothing
<1>8. StepsOrdered'
  <2>1. toRestore' \subseteq {x \in Turns \ flushed' : buffer'[x] = {} /\ ~Acknowledged(x)'}
    BY <1>1, <1>2 DEF StepsOrdered
  <2>2. \A x \in Turns : exporting'[x] # {} => ~Acknowledged(x)'
    BY <1>1, <1>2, <1>3 DEF StepsOrdered
  <2> QED BY <1>1, <1>4, <2>1, <2>2 DEF StepsOrdered, TailJoined
<1>9. MemoryIsJournaled'
  BY <1>1, <1>2, <1>4, <1>5 DEF MemoryIsJournaled
<1>10. ClosedIsComplete'
  <2>1. ASSUME NEW x \in Turns \ ahead, Length \in Retained(x) \/ x \in flushed'
        PROVE  Retained(x) \cup exported[x] = Records
    <3>1. CASE Length \in buffers[x]
      BY <1>5, <2>1, <3>1 DEF ClosedIsComplete
    <3>2. CASE Length \notin buffers[x]
      BY <1>2, <2>1, <3>2 DEF ClosedIsComplete
    <3> QED BY <3>1, <3>2
  <2> QED BY <1>1, <1>2, <1>5, <2>1 DEF ClosedIsComplete
<1>11. HandledIsSecured' /\ CommittedRecoverable' /\ AcknowledgedTurnsComplete'
  BY <1>1 DEF HandledIsSecured, CommittedRecoverable, AcknowledgedTurnsComplete, Handled
<1> QED BY <1>6, <1>7, <1>8, <1>9, <1>10, <1>11, PartsMakeIInv

LEMMA RestoreTurnIInv == ASSUME IInv, NEW t \in Turns, RestoreTurn(t) PROVE IInv'
<1> DEFINE buffers == [buffer EXCEPT ![t] = Retained(t)]
<1>1. buffers \in [Turns -> SUBSET Records]
  BY DEF IInv, TraceInv, TraceTypeOK, JournalTypeOK, Retained
<1>2. spilled' \subseteq Turns /\ \A x \in spilled' : buffers[x] \cup exporting[x] # {}
  <2>1. t \notin spilled
    BY DEF IInv, TraceInv, TraceTypeOK, StepsOrdered, RestoreTurn
  <2>2. PICK S \in SUBSET {x \in Turns : buffers[x] # {}} : spilled' = spilled \cup S
    BY DEF RestoreTurn, Spills
  <2> QED BY <1>1, <2>1, <2>2 DEF IInv, TraceInv, TraceTypeOK
<1>3. /\ sender = "idle" /\ sender' = "idle" /\ batch' = NoBatch /\ others' = others
      /\ others \in BOOLEAN
  BY DEF IInv, TraceInv, StepsOrdered, TraceTypeOK, RestoreTurn, calls
<1>4. \A x \in Turns : \/ buffers[x] = buffer[x]
                       \/ x \in toRestore \ toRestore' /\ buffers[x] = Retained(x)
  BY DEF IInv, TraceInv, TraceTypeOK, RestoreTurn
<1>5. /\ FlushCompleted(buffers) /\ toRestore' \subseteq toRestore
      /\ UNCHANGED <<journal, exported, input, forgotten>>
  BY DEF RestoreTurn
<1> HIDE DEF buffers
<1> QED BY <1>1, <1>2, <1>3, <1>4, <1>5, FlushIInv

LEMMA FinishesIInv == ASSUME IInv, Finishes PROVE IInv'
<1>1. CASE others
  <2> USE <1>1 DEF IInv, TraceInv, Finishes, journal, files, memory, input
  <2>1. \A x : Acknowledged(x)' = Acknowledged(x) /\ Retained(x)' = Retained(x)
    BY FilesUnchanged
  <2>2. \A x : ~Attended(x) /\ ~Attended(x)' /\ Unbuffered(x) = {} /\ Unbuffered(x)' = {}
    BY DEF Attended, Unbuffered
  <2>3. TraceTypeOK'
    <3>1. JournalTypeOK'
      BY DEF TraceTypeOK, JournalTypeOK
    <3> QED BY <2>1, <3>1 DEF TraceTypeOK
  <2>4. ForgottenLeavesNothing' /\ StepsOrdered'
    BY <2>1, <2>2 DEF ForgottenLeavesNothing, StepsOrdered, TailJoined
  <2>5. MemoryIsJournaled' /\ ClosedIsComplete'
    BY <2>1, <2>2 DEF MemoryIsJournaled, ClosedIsComplete
  <2>6. HandledIsSecured' /\ CommittedRecoverable' /\ AcknowledgedTurnsComplete'
    BY <2>1 DEF HandledIsSecured, CommittedRecoverable, AcknowledgedTurnsComplete, Handled
  <2> QED BY <2>3, <2>4, <2>5, <2>6, PartsMakeIInv
<1>2. CASE ~others
  BY <1>2, FlushIInv DEF Finishes, IInv, TraceInv, TraceTypeOK, StepsOrdered
<1> QED BY <1>1, <1>2

LEMMA OtherFinishesIInv ==
    ASSUME IInv, NEW completes \in BOOLEAN, OtherFinishes(completes) PROVE IInv'
<1>1. CASE sender # "idle"
  <2> USE <1>1 DEF IInv, TraceInv, OtherFinishes, journal, files, input
  <2>1. \A x : Acknowledged(x)' = Acknowledged(x) /\ Retained(x)' = Retained(x)
    BY FilesUnchanged
  <2>2. \A x : Attended(x)' = Attended(x) /\ Unbuffered(x)' = Unbuffered(x)
    BY DEF Attended, Unbuffered, BatchRecords
  <2>3. TraceTypeOK'
    <3>1. JournalTypeOK'
      BY DEF TraceTypeOK, JournalTypeOK
    <3> QED BY <2>1, <3>1 DEF TraceTypeOK
  <2>4. ForgottenLeavesNothing' /\ StepsOrdered'
    BY <2>1, <2>2 DEF ForgottenLeavesNothing, StepsOrdered, TailJoined
  <2>5. MemoryIsJournaled' /\ ClosedIsComplete'
    BY <2>1, <2>2 DEF MemoryIsJournaled, ClosedIsComplete
  <2>6. HandledIsSecured' /\ CommittedRecoverable' /\ AcknowledgedTurnsComplete'
    BY <2>1 DEF HandledIsSecured, CommittedRecoverable, AcknowledgedTurnsComplete, Handled
  <2> QED BY <2>3, <2>4, <2>5, <2>6, PartsMakeIInv
<1>2. CASE sender = "idle"
  <2>1. batch' = NoBatch /\ buffer \in [Turns -> SUBSET Records]
    BY <1>2 DEF IInv, TraceInv, TraceTypeOK, OtherFinishes
  <2>2. spilled' \subseteq Turns /\ \A x \in spilled' : buffer[x] \cup exporting[x] # {}
    BY <1>2 DEF IInv, TraceInv, TraceTypeOK, OtherFinishes
  <2> QED BY <1>2, <2>1, <2>2, FlushIInv DEF OtherFinishes
<1> QED BY <1>1, <1>2

\* trimTurnBuffers(), tickIdleTimeout(): the turn it drops is in the journal.
LEMMA EvictsIInv == ASSUME IInv, NEW t \in Turns, Evicts(t) PROVE IInv'
<1> USE DEF IInv, TraceInv, Evicts, NoBatchInProgress, journal, files, calls, input
<1>1. \A x : Acknowledged(x)' = Acknowledged(x) /\ Retained(x)' = Retained(x)
  BY FilesUnchanged
<1>2. \A x : ~Attended(x) /\ ~Attended(x)' /\ Unbuffered(x) = {} /\ Unbuffered(x)' = {}
  BY DEF Attended, Unbuffered
<1>3. /\ buffer' \in [Turns -> SUBSET Records]
      /\ buffer'[t] = {}
      /\ \A x \in Turns : x # t => buffer'[x] = buffer[x]
  BY DEF TraceTypeOK
<1>4. TraceTypeOK'
  <2>1. JournalTypeOK'
    BY DEF TraceTypeOK, JournalTypeOK
  <2> QED BY <1>1, <1>3, <2>1 DEF TraceTypeOK
<1>5. ForgottenLeavesNothing' /\ StepsOrdered'
  BY <1>1, <1>2, <1>3 DEF ForgottenLeavesNothing, StepsOrdered, TailJoined
<1>6. MemoryIsJournaled' /\ ClosedIsComplete'
  BY <1>1, <1>2, <1>3 DEF MemoryIsJournaled, ClosedIsComplete
<1>7. HandledIsSecured' /\ CommittedRecoverable' /\ AcknowledgedTurnsComplete'
  BY <1>1 DEF HandledIsSecured, CommittedRecoverable, AcknowledgedTurnsComplete, Handled
<1> QED BY <1>4, <1>5, <1>6, <1>7, PartsMakeIInv

-----------------------------------------------------------------------------
(* flushSingleTurn().                                                      *)

\* Of a turn without a batch behind a failed one, all that was handed over is
\* exported, whether it comes from memory or from the journal.
LEMMA ExportIsComplete ==
    ASSUME IInv, NEW t \in Turns \ ahead, exporting[t] # {}
    PROVE  Rehydrated(t) = exporting[t] /\ Rehydrated(t) \cup exported[t] = Records
BY DEF IInv, TraceInv, MemoryIsJournaled, ClosedIsComplete, Rehydrated

\* What the end of an export does to memory and to what was exported.
LEMMA LeavesProperties ==
    ASSUME TraceTypeOK, NEW t \in Turns, Leaves(t), exporting[t] # {},
           UNCHANGED buffer,
           exported' = exported \/ exported' = [exported EXCEPT ![t] = @ \cup Rehydrated(t)]
    PROVE  /\ exporting' \in [Turns -> SUBSET Records]
           /\ exporting'[t] = {} /\ buffer[t] = {} /\ t \in flushed
           /\ \A x \in Turns : x # t => exporting'[x] = exporting[x] /\ exported'[x] = exported[x]
           /\ exported' \in [Turns -> SUBSET Records]
           /\ \A x \in Turns : exported[x] \subseteq exported'[x]
           /\ spilled' = spilled \ {t}
<1>1. Rehydrated(t) \subseteq Records
  BY DEF TraceTypeOK, Rehydrated
<1>2. exporting[t] # {} => t \in flushed /\ buffer[t] = {}
  BY DEF TraceTypeOK
<1>3. /\ exporting' \in [Turns -> SUBSET Records] /\ exporting'[t] = {}
      /\ \A x \in Turns : x # t => exporting'[x] = exporting[x]
      /\ spilled' = spilled \ {t}
  BY DEF Leaves, TraceTypeOK
<1>4. /\ exported' \in [Turns -> SUBSET Records]
      /\ \A x \in Turns : x # t => exported'[x] = exported[x]
      /\ \A x \in Turns : exported[x] \subseteq exported'[x]
  BY <1>1 DEF TraceTypeOK
<1> QED BY <1>2, <1>3, <1>4

\* An export that does not reach its acknowledgement leaves the journal as it is.
LEMMA LeavesIInv ==
    ASSUME IInv, NEW t \in Turns, exporting[t] # {}, Leaves(t),
           exported' = exported \/ exported' = [exported EXCEPT ![t] = @ \cup Rehydrated(t)],
           UNCHANGED <<journal, buffer, flushed, plainWaiting, calls, toRestore, input,
                       forgotten, crashes>>
    PROVE  IInv'
<1> USE DEF IInv, TraceInv, journal, files, calls, input
<1>1. \A x : Acknowledged(x)' = Acknowledged(x) /\ Retained(x)' = Retained(x)
  BY FilesUnchanged
<1>2. /\ exporting' \in [Turns -> SUBSET Records]
      /\ exporting'[t] = {} /\ buffer[t] = {} /\ t \in flushed
      /\ \A x \in Turns : x # t => exporting'[x] = exporting[x] /\ exported'[x] = exported[x]
      /\ exported' \in [Turns -> SUBSET Records]
      /\ \A x \in Turns : exported[x] \subseteq exported'[x]
      /\ spilled' = spilled \ {t}
  BY LeavesProperties
<1>3. \A x : Attended(x)' = Attended(x) /\ Unbuffered(x)' = Unbuffered(x) /\ Handled(x)' = Handled(x)
  BY DEF Attended, Unbuffered, BatchRecords, Handled
<1>4. TraceTypeOK'
  <2>1. JournalTypeOK'
    BY DEF TraceTypeOK, JournalTypeOK
  <2> QED BY <1>1, <1>2, <2>1 DEF TraceTypeOK
<1>5. ForgottenLeavesNothing' /\ StepsOrdered'
  BY <1>1, <1>2, <1>3 DEF ForgottenLeavesNothing, StepsOrdered, TailJoined
<1>6. MemoryIsJournaled'
  BY <1>1, <1>2, <1>3 DEF MemoryIsJournaled
<1>7. ClosedIsComplete'
  <2>1. \A x \in Turns : Retained(x) \subseteq Records /\ buffer[x] \subseteq Records
    BY DEF TraceTypeOK, JournalTypeOK, Retained
  <2> QED BY <1>1, <1>2, <2>1 DEF ClosedIsComplete
<1>8. HandledIsSecured' /\ CommittedRecoverable'
  BY <1>1, <1>2, <1>3 DEF HandledIsSecured, CommittedRecoverable
<1>9. AcknowledgedTurnsComplete'
  BY <1>1, <1>2 DEF AcknowledgedTurnsComplete
<1> QED BY <1>4, <1>5, <1>6, <1>7, <1>8, <1>9, PartsMakeIInv

\* An export that is acknowledged held every record of its turn.
LEMMA ExportsIInv == ASSUME IInv, NEW t \in Turns, Exports(t) PROVE IInv'
<1> USE DEF IInv, TraceInv, Exports, calls, input
<1>1. JournalTypeOK' /\ \A x \in Turns : Acknowledged(x)' <=> Acknowledged(x) \/ x = t
  BY AckWritesProperties DEF TraceTypeOK
<1>2. /\ exporting' \in [Turns -> SUBSET Records]
      /\ exporting'[t] = {} /\ buffer[t] = {} /\ t \in flushed
      /\ \A x \in Turns : x # t => exporting'[x] = exporting[x] /\ exported'[x] = exported[x]
      /\ exported' \in [Turns -> SUBSET Records]
      /\ \A x \in Turns : exported[x] \subseteq exported'[x]
      /\ spilled' = spilled \ {t}
  BY LeavesProperties
<1>3. \A x \in Turns : Retained(x)' = IF x = t THEN {} ELSE Retained(x)
  BY <1>1 DEF Retained, AckWrites
<1>4. t \notin ahead => exported'[t] = Records
  BY <1>2, ExportIsComplete DEF TraceTypeOK
<1>5. \A x : Attended(x)' = Attended(x) /\ Unbuffered(x)' = Unbuffered(x) /\ Handled(x)' = Handled(x)
  BY DEF Attended, Unbuffered, BatchRecords, Handled
<1>6. TraceTypeOK'
  BY <1>1, <1>2 DEF TraceTypeOK
<1>7. ForgottenLeavesNothing'
  BY DEF ForgottenLeavesNothing, AckWrites
<1>8. StepsOrdered'
  <2>1. ~Attended(t) /\ t \notin toRestore
    BY <1>2 DEF Attended, StepsOrdered
  <2> QED BY <1>1, <1>2, <1>5, <2>1 DEF StepsOrdered, TailJoined, AckWrites
<1>9. MemoryIsJournaled'
  <2>1. ~Attended(t)
    BY <1>2 DEF Attended
  <2> QED BY <1>2, <1>3, <1>5, <2>1 DEF MemoryIsJournaled
<1>10. ClosedIsComplete'
  BY <1>2, <1>3, <1>4 DEF ClosedIsComplete
<1>11. HandledIsSecured'
  <2>1. \A x \in Turns : Handled(x) \subseteq Records
    BY DEF Handled, StepsOrdered, TraceTypeOK, Records
  <2> QED BY <1>2, <1>3, <1>4, <1>5, <2>1 DEF HandledIsSecured
<1>12. CommittedRecoverable'
  <2>1. \A r \in 1 .. saved[t] : r \in Records
    BY DEF TraceTypeOK, Records
  <2> QED BY <1>2, <1>3, <1>4, <2>1 DEF CommittedRecoverable
<1>13. AcknowledgedTurnsComplete'
  BY <1>1, <1>2, <1>4 DEF AcknowledgedTurnsComplete
<1> QED BY <1>6, <1>7, <1>8, <1>9, <1>10, <1>11, <1>12, <1>13, PartsMakeIInv

-----------------------------------------------------------------------------
(* Steps of the journal.                                                   *)

\* A step of acknowledge() deletes nothing a restart would find.
LEMMA JournalStepIInv ==
    ASSUME IInv, JournalTypeOK', ForgottenLeavesNothing', forgotten' \subseteq Turns,
           \A x \in Turns : Acknowledged(x)' => Acknowledged(x),
           \A x \in Turns : Retained(x)' = Retained(x),
           \A x \in Turns : TailJoined(x)' => TailJoined(x),
           ackStep' = "unlink" => ack' \in Turns /\ Acknowledged(ack)',
           ackStep' \in {"trim", "forget"} => Len(done') > AckLimit,
           ackStep' = "forget" => lines'[Head(done')] = {},
           UNCHANGED <<memory, calls, toRestore, exporting, exported, input>>
    PROVE  IInv'
<1> USE DEF IInv, TraceInv, memory, calls, input
<1>1. \A x : Attended(x)' = Attended(x) /\ Unbuffered(x)' = Unbuffered(x) /\ Handled(x)' = Handled(x)
  BY DEF Attended, Unbuffered, BatchRecords, Handled
<1>2. TraceTypeOK'
  BY DEF TraceTypeOK
<1>3. StepsOrdered'
  BY <1>1 DEF StepsOrdered
<1>4. MemoryIsJournaled' /\ ClosedIsComplete'
  BY <1>1 DEF MemoryIsJournaled, ClosedIsComplete
<1>5. HandledIsSecured' /\ CommittedRecoverable' /\ AcknowledgedTurnsComplete'
  BY <1>1 DEF HandledIsSecured, CommittedRecoverable, AcknowledgedTurnsComplete
<1> QED BY <1>2, <1>3, <1>4, <1>5, PartsMakeIInv

\* Deleting the content of an acknowledged turn.
LEMMA UnlinkProperties ==
    ASSUME JournalTypeOK, NEW t \in Turns, Acknowledged(t),
           lines' = [lines EXCEPT ![t] = {}], torn' = [torn EXCEPT ![t] = FALSE],
           initialized' = initialized \ {t}, done' = done
    PROVE  /\ lines' \in [Turns -> SUBSET Records] /\ torn' \in [Turns -> BOOLEAN]
           /\ initialized' \subseteq Turns
           /\ lines'[t] = {} /\ \A x \in Turns : lines[x] = {} => lines'[x] = {}
           /\ \A x : Acknowledged(x)' = Acknowledged(x)
           /\ \A x \in Turns : Retained(x)' = Retained(x)
           /\ \A x \in Turns : TailJoined(x)' => TailJoined(x)
<1>1. \A x : Acknowledged(x)' = Acknowledged(x)
  BY DEF Acknowledged
<1>2. /\ lines' \in [Turns -> SUBSET Records] /\ torn' \in [Turns -> BOOLEAN]
      /\ initialized' \subseteq Turns /\ lines'[t] = {} /\ torn'[t] = FALSE
      /\ \A x \in Turns : x # t => lines'[x] = lines[x] /\ torn'[x] = torn[x]
  BY DEF JournalTypeOK
<1> QED BY <1>1, <1>2 DEF Retained, TailJoined

\* The oldest acknowledgement, when there is one.
LEMMA OldestProperties ==
    ASSUME JournalTypeOK, Len(done) > AckLimit
    PROVE  done # <<>> /\ Head(done) \in Turns /\ Acknowledged(Head(done))
<1>1. done \in Seq(Turns) /\ Len(done) > 0
  BY DEF JournalTypeOK
<1>2. done # <<>> /\ Head(done) = done[1] /\ 1 \in DOMAIN done /\ done[1] \in Turns
  BY <1>1
<1> QED BY <1>2 DEF Acknowledged, ToSet

\* acknowledge() and trimAcknowledgements() after the acknowledgement is there.
LEMMA AcknowledgesIInv == ASSUME IInv, Acknowledges PROVE IInv'
<1> USE DEF IInv, TraceInv
<1>1. JournalTypeOK
  BY DEF TraceTypeOK
<1>2. CASE AckUnlinks /\ UNCHANGED forgotten
  <2>1. ack \in Turns /\ Acknowledged(ack)
    BY <1>2 DEF AckUnlinks, StepsOrdered
  <2>2. /\ lines' \in [Turns -> SUBSET Records] /\ torn' \in [Turns -> BOOLEAN]
        /\ initialized' \subseteq Turns
        /\ \A x \in Turns : lines[x] = {} => lines'[x] = {}
        /\ \A x : Acknowledged(x)' = Acknowledged(x)
        /\ \A x \in Turns : Retained(x)' = Retained(x)
        /\ \A x \in Turns : TailJoined(x)' => TailJoined(x)
    BY <1>1, <1>2, <2>1, UnlinkProperties DEF AckUnlinks
  <2>3. JournalTypeOK'
    BY <1>1, <1>2, <2>2 DEF JournalTypeOK, AckUnlinks
  <2>4. ForgottenLeavesNothing'
    BY <1>2, <2>2 DEF ForgottenLeavesNothing, TraceTypeOK
  <2> QED BY <1>2, <2>2, <2>3, <2>4, JournalStepIInv DEF Acknowledges, AckUnlinks, TraceTypeOK
<1>3. CASE TrimUnlinks /\ UNCHANGED forgotten
  <2>1. Len(done) > AckLimit
    BY <1>3 DEF TrimUnlinks, StepsOrdered
  <2>2. done # <<>> /\ Head(done) \in Turns /\ Acknowledged(Head(done))
    BY <1>1, <2>1, OldestProperties
  <2>3. /\ lines' \in [Turns -> SUBSET Records] /\ torn' \in [Turns -> BOOLEAN]
        /\ initialized' \subseteq Turns
        /\ lines'[Head(done)] = {}
        /\ \A x \in Turns : lines[x] = {} => lines'[x] = {}
        /\ \A x : Acknowledged(x)' = Acknowledged(x)
        /\ \A x \in Turns : Retained(x)' = Retained(x)
        /\ \A x \in Turns : TailJoined(x)' => TailJoined(x)
    BY <1>1, <1>3, <2>2, UnlinkProperties DEF TrimUnlinks
  <2>4. JournalTypeOK'
    BY <1>1, <1>3, <2>3 DEF JournalTypeOK, TrimUnlinks
  <2>5. ForgottenLeavesNothing'
    BY <1>3, <2>3 DEF ForgottenLeavesNothing, TraceTypeOK
  <2> QED BY <1>3, <2>1, <2>3, <2>4, <2>5, JournalStepIInv DEF Acknowledges, TrimUnlinks, TraceTypeOK
<1>4. CASE TrimForgets /\ forgotten' = forgotten \cup {Head(done)}
  <2>1. Len(done) > AckLimit /\ lines[Head(done)] = {}
    BY <1>4 DEF TrimForgets, StepsOrdered
  <2>2. done # <<>> /\ Head(done) \in Turns
    BY <1>1, <2>1, OldestProperties
  <2>3. /\ JournalTypeOK'
        /\ \A x \in Turns : Acknowledged(x)' <=> Acknowledged(x) /\ x # Head(done)
    BY <1>1, <1>4, <2>2, TrimForgetsProperties
  <2>4. \A x \in Turns : Retained(x)' = Retained(x) /\ (TailJoined(x)' => TailJoined(x))
    BY <1>4, <2>1, <2>2, <2>3 DEF TrimForgets, Retained, TailJoined
  <2>5. ForgottenLeavesNothing'
    BY <1>4, <2>1 DEF TrimForgets, ForgottenLeavesNothing
  <2>6. ackStep' \in {"none", "trim"} /\ (ackStep' = "trim" => Len(done') > AckLimit)
    BY <1>1, <1>4, <2>2 DEF TrimForgets, JournalTypeOK
  <2>7. forgotten' \subseteq Turns
    BY <1>4, <2>2 DEF TraceTypeOK
  <2> QED BY <1>4, <2>3, <2>4, <2>5, <2>6, <2>7, JournalStepIInv DEF Acknowledges
<1>5. CASE AckFails /\ UNCHANGED forgotten
  <2>1. \A x : Acknowledged(x)' = Acknowledged(x) /\ Retained(x)' = Retained(x)
    BY <1>5, FilesUnchanged DEF AckFails, files
  <2>2. JournalTypeOK'
    BY <1>1, <1>5 DEF AckFails, files, JournalTypeOK
  <2>3. ForgottenLeavesNothing' /\ \A x \in Turns : TailJoined(x)' => TailJoined(x)
    BY <1>5 DEF AckFails, files, ForgottenLeavesNothing, TailJoined
  <2> QED BY <1>5, <2>1, <2>2, <2>3, JournalStepIInv DEF Acknowledges, AckFails, TraceTypeOK
<1> QED BY <1>2, <1>3, <1>4, <1>5 DEF Acknowledges

\* A batch that is journaled is appended whole: the tail of its file is repaired
\* unless a write has failed, and then its turn is one of ahead.
LEMMA AppendDoneProperties ==
    ASSUME IInv, NEW t \in Turns, t = batch.turn, sender = "append", t \notin flushed,
           AppendDone(t, BatchRecords)
    PROVE  /\ JournalTypeOK'
           /\ \A x : Acknowledged(x)' = Acknowledged(x)
           /\ \A x \in Turns : x # t =>
                 lines'[x] = lines[x] /\ Retained(x)' = Retained(x)
           /\ Retained(t) \subseteq Retained(t)'
           /\ t \notin ahead =>
                 Retained(t)' = Retained(t) \cup BatchRecords
           /\ \A x \in Turns : TailJoined(x)' => TailJoined(x)
<1> USE DEF IInv, TraceInv
<1>1. /\ Attended(t) /\ ~Acknowledged(t)
      /\ BatchRecords \in SUBSET Records
      /\ JournalTypeOK
  BY DEF StepsOrdered, Attended, BatchRecords, Records, TraceTypeOK
<1>2. \A x : Acknowledged(x)' = Acknowledged(x)
  BY DEF AppendDone, Acknowledged
<1>3. PICK new \in SUBSET BatchRecords :
         /\ lines' = [lines EXCEPT ![t] = @ \cup new]
         /\ ~TailJoined(t) => new = BatchRecords
  <2>1. CASE TailJoined(t)
    <3>1. {r \in BatchRecords : \E q \in BatchRecords : q < r} \in SUBSET BatchRecords
      OBVIOUS
    <3> QED BY <1>1, <2>1, <3>1 DEF AppendDone
  <2>2. CASE ~TailJoined(t)
    BY <1>1, <2>2 DEF AppendDone
  <2> QED BY <2>1, <2>2
<1>4. torn' = [torn EXCEPT ![t] = FALSE] /\ initialized' = initialized \cup {t}
  BY <1>1 DEF AppendDone
<1>5. lines'[t] = lines[t] \cup new /\ \A x \in Turns : x # t => lines'[x] = lines[x]
  BY <1>1, <1>3 DEF JournalTypeOK
<1>6. JournalTypeOK'
  <2>1. lines' \in [Turns -> SUBSET Records]
    BY <1>1, <1>3 DEF JournalTypeOK
  <2> QED BY <1>1, <1>4, <2>1 DEF JournalTypeOK, AppendDone
<1>7. t \notin ahead => ~TailJoined(t)
  BY <1>1 DEF StepsOrdered
<1>8. \A x \in Turns : TailJoined(x)' => TailJoined(x)
  BY <1>1, <1>4 DEF TailJoined, JournalTypeOK
<1>9. /\ \A x \in Turns : x # t => Retained(x)' = Retained(x)
      /\ Retained(t) = lines[t] /\ Retained(t)' = lines'[t]
  BY <1>1, <1>2, <1>5 DEF Retained
<1> QED BY <1>2, <1>3, <1>5, <1>6, <1>7, <1>8, <1>9

LEMMA AppendsIInv == ASSUME IInv, Appends PROVE IInv'
<1> PICK t \in Turns : t = batch.turn /\ sender = "append"
  BY DEF IInv, TraceInv, StepsOrdered, Appends, AppendsInVain
<1> USE DEF IInv, TraceInv, memory, input
<1>1. /\ sender' = "buffer" /\ batch' = batch
      /\ flushed' = flushed /\ buffer' = buffer /\ exporting' = exporting
      /\ exported' = exported /\ emitted' = emitted /\ saved' = saved
      /\ latched' = latched /\ ahead' = ahead
      /\ BatchRecords \in SUBSET Records
      /\ t \notin ahead => ~latched
  BY DEF Appends, StepsOrdered, BatchRecords, Records
<1>2. CASE t \in flushed
  <2>1. \A x : Acknowledged(x)' = Acknowledged(x) /\ Retained(x)' = Retained(x)
    BY <1>2, FilesUnchanged DEF Appends, journal, files
  <2>2. \A x \in Turns : /\ Attended(x)' = Attended(x)
                         /\ ~Attended(x)
                         /\ x # t => Handled(x)' = Handled(x) /\ Unbuffered(x)' = Unbuffered(x)
    BY <1>1, <1>2 DEF Attended, Handled, Unbuffered
  <2>3. TraceTypeOK'
    <3>1. JournalTypeOK'
      BY <1>2 DEF Appends, journal, files, TraceTypeOK, JournalTypeOK
    <3> QED BY <1>1, <1>2, <2>1, <3>1 DEF Appends, TraceTypeOK
  <2>4. ForgottenLeavesNothing' /\ StepsOrdered'
    BY <1>1, <1>2, <2>1, <2>2
       DEF Appends, journal, files, ForgottenLeavesNothing, StepsOrdered, TailJoined
  <2>5. MemoryIsJournaled' /\ ClosedIsComplete'
    <3>1. buffer[t] = {}
      BY <1>1, <1>2 DEF TraceTypeOK
    <3> QED BY <1>1, <1>2, <2>1, <2>2, <3>1 DEF MemoryIsJournaled, ClosedIsComplete
  <2>6. HandledIsSecured'
    <3>1. Handled(t)' \subseteq Records
      BY <1>1, <1>2 DEF Handled, TraceTypeOK, Records
    <3> QED BY <1>1, <1>2, <2>1, <2>2, <3>1 DEF HandledIsSecured, ClosedIsComplete
  <2>7. CommittedRecoverable' /\ AcknowledgedTurnsComplete'
    BY <1>1, <2>1 DEF CommittedRecoverable, AcknowledgedTurnsComplete
  <2> QED BY <2>3, <2>4, <2>5, <2>6, <2>7, PartsMakeIInv
<1>3. CASE t \notin flushed
  <2>1. /\ JournalTypeOK'
        /\ \A x : Acknowledged(x)' = Acknowledged(x)
        /\ \A x \in Turns : x # t => lines'[x] = lines[x] /\ Retained(x)' = Retained(x)
        /\ Retained(t) \subseteq Retained(t)'
        /\ t \notin ahead => Retained(t)' = Retained(t) \cup BatchRecords
        /\ \A x \in Turns : TailJoined(x)' => TailJoined(x)
    BY <1>1, <1>3, AppendDoneProperties DEF Appends
  <2>2. /\ Attended(t) /\ Attended(t)' /\ Unbuffered(t) = {} /\ Unbuffered(t)' = BatchRecords
        /\ \A x \in Turns : x # t => /\ ~Attended(x) /\ ~Attended(x)'
                                     /\ Unbuffered(x) = {} /\ Unbuffered(x)' = {}
                                     /\ Handled(x)' = Handled(x)
    BY <1>1, <1>3 DEF Attended, Unbuffered, BatchRecords, Handled, Appends
  <2>3. /\ Handled(t) = 1 .. batch.first - 1
        /\ Handled(t)' = 1 .. emitted[t]
        /\ Handled(t)' \subseteq Handled(t) \cup BatchRecords
    <3>1. batch.last = emitted[t] /\ batch.first \in Nat /\ emitted[t] \in Nat
      BY <1>1 DEF StepsOrdered, TraceTypeOK, Records
    <3>2. Handled(t) = 1 .. batch.first - 1 /\ Handled(t)' = 1 .. emitted[t]
      BY <1>1, <1>3 DEF Handled, Appends
    <3> QED BY <3>1, <3>2 DEF BatchRecords
  <2>4. TraceTypeOK'
    <3>1. forgotten' \subseteq Turns
      BY <1>3 DEF Appends, TraceTypeOK
    <3> QED BY <1>1, <2>1, <3>1 DEF Appends, TraceTypeOK
  <2>5. ForgottenLeavesNothing'
    BY <1>3, <2>1 DEF Appends, ForgottenLeavesNothing, TraceTypeOK
  <2>6. StepsOrdered'
    BY <1>1, <1>3, <2>1, <2>2 DEF Appends, AppendDone, StepsOrdered
  <2>7. MemoryIsJournaled'
    BY <1>1, <1>3, <2>1, <2>2 DEF MemoryIsJournaled
  <2>8. HandledIsSecured'
    BY <1>1, <1>3, <2>1, <2>2, <2>3 DEF HandledIsSecured
  <2>9. ClosedIsComplete'
    <3>1. ASSUME t \notin ahead, Length \in Retained(t)'
          PROVE  Retained(t)' \cup exported[t] = Records
      <4>1. CASE Length \in Retained(t)
        BY <1>1, <2>1, <3>1, <4>1 DEF ClosedIsComplete
      <4>2. CASE Length \in BatchRecords
        <5>1. Length \in BatchRecords => emitted[t] >= Length
          BY <1>1 DEF BatchRecords, StepsOrdered, Records, TraceTypeOK
        <5>2. Handled(t)' = Records
          BY <1>1, <2>3, <4>2, <5>1 DEF TraceTypeOK, Records
        <5>3. Handled(t) \subseteq Retained(t) \cup exported[t]
          BY <1>1, <3>1 DEF HandledIsSecured
        <5>4. Retained(t)' \cup exported[t] \subseteq Records
          BY <1>1, <2>1 DEF TraceTypeOK, JournalTypeOK, Retained
        <5> QED BY <1>1, <2>1, <2>3, <3>1, <5>2, <5>3, <5>4
      <4> QED BY <2>1, <3>1, <4>1, <4>2
    <3> QED BY <1>1, <1>3, <2>1, <3>1 DEF ClosedIsComplete
  <2>10. CommittedRecoverable' /\ AcknowledgedTurnsComplete'
    <3>1. \A x \in Turns : Retained(x) \subseteq Retained(x)'
      BY <2>1
    <3> QED BY <1>1, <2>1, <3>1 DEF CommittedRecoverable, AcknowledgedTurnsComplete
  <2> QED BY <2>4, <2>5, <2>6, <2>7, <2>8, <2>9, <2>10, PartsMakeIInv
<1> QED BY <1>2, <1>3

\* A write that fails may leave lines, never the batch's last one, and latches
\* the cursor.
LEMMA AppendsInVainIInv == ASSUME IInv, AppendsInVain PROVE IInv'
<1> PICK t \in Turns : t = batch.turn /\ sender = "append"
  BY DEF IInv, TraceInv, StepsOrdered, Appends, AppendsInVain
<1> USE DEF IInv, TraceInv, memory
<1>1. /\ sender' = "idle" /\ batch' = NoBatch /\ latched'
      /\ flushed' = flushed /\ buffer' = buffer /\ exporting' = exporting
      /\ exported' = exported /\ ahead' = ahead
      /\ BatchRecords \in SUBSET Records
      /\ JournalTypeOK /\ ~Acknowledged(t)
  BY DEF AppendsInVain, StepsOrdered, BatchRecords, Records, Attended, TraceTypeOK
<1>2. \A x : Acknowledged(x)' = Acknowledged(x)
  BY DEF AppendsInVain, AppendFails, Acknowledged
<1>3. PICK n \in 0 .. Length, part \in BOOLEAN :
         /\ \E r \in BatchRecords : r > n
         /\ lines' = [lines EXCEPT ![t] = @ \cup
               (IF TailJoined(t) THEN {r \in BatchRecords : r <= n /\ \E q \in BatchRecords : q < r}
                                 ELSE {r \in BatchRecords : r <= n})]
         /\ torn' = [torn EXCEPT ![t] = part]
  BY <1>1 DEF AppendsInVain, AppendFails
<1>4. PICK new \in SUBSET Records : Length \notin new /\ lines' = [lines EXCEPT ![t] = @ \cup new]
  <2>1. n < Length
    BY <1>1, <1>3 DEF Records
  <2> DEFINE new == IF TailJoined(t)
                      THEN {r \in BatchRecords : r <= n /\ \E q \in BatchRecords : q < r}
                      ELSE {r \in BatchRecords : r <= n}
  <2>2. new \in SUBSET BatchRecords /\ \A r \in new : r <= n
    OBVIOUS
  <2>3. new \in SUBSET Records /\ Length \notin new
    BY <1>1, <2>1, <2>2
  <2> QED BY <1>3, <2>3
<1>5. lines'[t] = lines[t] \cup new /\ \A x \in Turns : x # t => lines'[x] = lines[x]
  BY <1>1, <1>4 DEF JournalTypeOK
<1>6. /\ \A x \in Turns : x # t => Retained(x)' = Retained(x)
      /\ Retained(t)' = Retained(t) \cup new
  <2>1. ~Acknowledged(t)'
    BY <1>1, <1>2
  <2> QED BY <1>1, <1>2, <1>5, <2>1 DEF Retained
<1>7. \A x : ~Attended(x)' /\ Unbuffered(x)' = {}
  BY <1>1 DEF Attended, Unbuffered
<1>8. TraceTypeOK'
  <2>1. lines' \in [Turns -> SUBSET Records] /\ torn' \in [Turns -> BOOLEAN]
    BY <1>1, <1>3, <1>4 DEF JournalTypeOK
  <2>2. JournalTypeOK'
    BY <1>1, <2>1 DEF JournalTypeOK, AppendsInVain, AppendFails
  <2> QED BY <1>1, <1>2, <2>2 DEF AppendsInVain, TraceTypeOK
<1>9. ForgottenLeavesNothing'
  BY <1>5 DEF AppendsInVain, ForgottenLeavesNothing, TraceTypeOK
<1>10. StepsOrdered'
  <2>1. ackStep' = "none"
    BY DEF AppendsInVain, AppendFails
  <2> QED BY <1>1, <1>2, <1>7, <2>1 DEF AppendsInVain, StepsOrdered
<1>11. MemoryIsJournaled'
  BY <1>1, <1>6, <1>7 DEF MemoryIsJournaled
<1>12. ClosedIsComplete'
  <2>1. exported[t] \subseteq Records
    BY <1>1 DEF TraceTypeOK
  <2> QED BY <1>1, <1>4, <1>6, <2>1 DEF ClosedIsComplete
<1>13. HandledIsSecured' /\ AcknowledgedTurnsComplete'
  BY <1>1, <1>2 DEF HandledIsSecured, AcknowledgedTurnsComplete
<1>14. CommittedRecoverable'
  BY <1>1, <1>6 DEF AppendsInVain, CommittedRecoverable
<1> QED BY <1>8, <1>9, <1>10, <1>11, <1>12, <1>13, <1>14, PartsMakeIInv

-----------------------------------------------------------------------------
\* The cursor on disk is the cursor of the next process, and what it has
\* passed is in the files.
LEMMA CrashIInv == ASSUME IInv, Crash PROVE IInv'
<1> USE DEF IInv, TraceInv, Crash, JournalRestart, files
<1>1. \A x : Acknowledged(x)' = Acknowledged(x) /\ Retained(x)' = Retained(x)
  BY FilesUnchanged
<1>2. \A x : ~Attended(x)' /\ Unbuffered(x)' = {} /\ Handled(x)' = 1 .. saved[x]
  BY DEF Attended, Unbuffered, Handled
<1>3. TraceTypeOK'
  <2>1. JournalTypeOK'
    BY DEF TraceTypeOK, JournalTypeOK
  <2> QED BY <1>1, <2>1 DEF TraceTypeOK
<1>4. ForgottenLeavesNothing'
  BY DEF ForgottenLeavesNothing
<1>5. StepsOrdered'
  <2>1. toRestore' \subseteq {x \in Turns \ flushed' : buffer'[x] = {} /\ ~Acknowledged(x)'}
    BY <1>1 DEF Retained
  <2> QED BY <1>1, <1>2, <2>1 DEF StepsOrdered, TailJoined
<1>6. MemoryIsJournaled' /\ ClosedIsComplete'
  BY <1>1, <1>2 DEF MemoryIsJournaled, ClosedIsComplete
<1>7. HandledIsSecured' /\ CommittedRecoverable' /\ AcknowledgedTurnsComplete'
  BY <1>1, <1>2 DEF HandledIsSecured, CommittedRecoverable, AcknowledgedTurnsComplete
<1> QED BY <1>3, <1>4, <1>5, <1>6, <1>7, PartsMakeIInv

LEMMA StepIInv == IInv /\ [Next]_vars => IInv'
<1> SUFFICES ASSUME IInv, [Next]_vars PROVE IInv'
  OBVIOUS
<1>1. CASE UNCHANGED vars
  <2> USE <1>1 DEF vars, journal, files, memory, calls, input
  <2>1. \A x : /\ Attended(x)' = Attended(x) /\ Unbuffered(x)' = Unbuffered(x)
               /\ Handled(x)' = Handled(x) /\ TailJoined(x)' = TailJoined(x)
               /\ Acknowledged(x)' = Acknowledged(x) /\ Retained(x)' = Retained(x)
    BY FilesUnchanged DEF Attended, Unbuffered, BatchRecords, Handled, TailJoined
  <2>2. JournalTypeOK' /\ ForgottenLeavesNothing'
    BY DEF IInv, TraceInv, TraceTypeOK, JournalTypeOK, ForgottenLeavesNothing
  <2>3. ackStep = "unlink" => ack \in Turns /\ Acknowledged(ack)
    BY DEF IInv, TraceInv, StepsOrdered
  <2> QED BY <2>1, <2>2, <2>3, JournalStepIInv DEF IInv, TraceInv, TraceTypeOK, StepsOrdered
<1>2. CASE Crash
  BY <1>2, CrashIInv
<1>3. CASE \E t \in Turns : RestoreTurn(t) \/ Evicts(t)
  BY <1>3, RestoreTurnIInv, EvictsIInv
<1>4. ASSUME NEW t \in Turns, Exports(t) PROVE IInv'
  BY <1>4, ExportsIInv
<1>5. ASSUME NEW t \in Turns, ExportsUnacknowledged(t) \/ ExportFails(t) PROVE IInv'
  BY <1>5, LeavesIInv DEF ExportsUnacknowledged, ExportFails
<1>6. CASE \E t \in Turns, n \in Records : SendBegins(t, n)
  BY <1>6, SendBeginsIInv
<1>7. CASE Check \/ Appends \/ AppendsInVain \/ Buffers \/ Finishes
  BY <1>7, CheckIInv, AppendsIInv, AppendsInVainIInv, BuffersIInv, FinishesIInv
<1>8. CASE Saves \/ OtherBegins \/ Acknowledges
  BY <1>8, SavesIInv, OtherBeginsIInv, AcknowledgesIInv
<1>9. CASE \E completes \in BOOLEAN : OtherFinishes(completes)
  BY <1>9, OtherFinishesIInv
<1> QED BY <1>1, <1>2, <1>3, <1>4, <1>5, <1>6, <1>7, <1>8, <1>9 DEF Next

LEMMA Invariance == TraceSpec => []IInv
BY InitIInv, StepIInv, PTL DEF TraceSpec

-----------------------------------------------------------------------------
(* What follows.                                                           *)

\* What memory holds of a turn agrees with what its journal files say, in every
\* state of every behaviour (CodexTurnJournal, turnBuffers).
THEOREM TraceInvariance == TraceSpec => []TraceInv
<1>1. IInv => TraceInv
  BY DEF IInv
<1> QED BY <1>1, Invariance, PTL

\* A record the saved cursor has passed is journaled or exported: no crash,
\* failed export or trimmed acknowledgement loses it.
THEOREM NothingCommittedIsLost == TraceSpec => []CommittedRecoverable
<1>1. IInv => CommittedRecoverable
  BY DEF IInv
<1> QED BY <1>1, Invariance, PTL

\* acknowledge() is reached only by a turn all of which was exported.
THEOREM AcknowledgedOnlyWhenComplete == TraceSpec => []AcknowledgedTurnsComplete
<1>1. IInv => AcknowledgedTurnsComplete
  BY DEF IInv
<1> QED BY <1>1, Invariance, PTL

\* finishBatch() of the last batch in progress leaves no completed turn behind,
\* while no append has failed.
THEOREM LastBatchFlushes == TraceSpec => []NoCompletedTurnLeftBehind
<1> DEFINE Left == \E t \in Turns : Completed(buffer[t])
           LInv == NoBatchInProgress /\ ~latched => ~plainWaiting /\ ~Left
<1>1. TraceInit => LInv
  BY DEF TraceInit, Left, Completed
<1>2. ASSUME NEW buffers \in [Turns -> SUBSET Records], FlushCompleted(buffers), TraceTypeOK
      PROVE  ~plainWaiting' /\ ~Left'
  <2>1. ~plainWaiting'
    BY <1>2 DEF FlushCompleted
  <2>2. \A t \in Turns : ~Completed(buffer'[t])
    BY <1>2, FlushCompletedProperties DEF Completed
  <2> QED BY <2>1, <2>2 DEF Completed
<1>3. IInv /\ LInv /\ [Next]_vars => LInv'
  <2> SUFFICES ASSUME IInv, LInv, [Next]_vars, NoBatchInProgress', ~latched'
               PROVE  ~plainWaiting' /\ ~Left'
    OBVIOUS
  <2> USE DEF NoBatchInProgress
  <2>1. TraceTypeOK /\ buffer \in [Turns -> SUBSET Records] /\ sender \in {"idle", "check", "append", "buffer", "finish"}
    BY DEF IInv, TraceInv, TraceTypeOK, StepsOrdered
  <2>2. CASE UNCHANGED vars
    BY <2>2 DEF vars, memory, calls, input, Completed
  <2>3. CASE Crash
    BY <2>3 DEF Crash, Completed
  <2>4. ASSUME NEW t \in Turns, RestoreTurn(t) PROVE ~plainWaiting' /\ ~Left'
    <3>1. [buffer EXCEPT ![t] = Retained(t)] \in [Turns -> SUBSET Records]
      BY <2>1 DEF TraceTypeOK, JournalTypeOK, Retained
    <3> QED BY <1>2, <2>1, <2>4, <3>1 DEF RestoreTurn
  <2>5. ASSUME NEW t \in Turns, Evicts(t) PROVE ~plainWaiting' /\ ~Left'
    BY <2>1, <2>5 DEF Evicts, calls, input, Completed
  <2>6. ASSUME NEW t \in Turns, Exports(t) \/ ExportsUnacknowledged(t) \/ ExportFails(t)
        PROVE  ~plainWaiting' /\ ~Left'
    BY <2>6 DEF Exports, ExportsUnacknowledged, ExportFails, calls, input, Completed
  <2>7. CASE (\E t \in Turns, n \in Records : SendBegins(t, n)) \/ Check \/ Appends \/ Buffers
    BY <2>7 DEF SendBegins, Check, Appends, Buffers
  <2>8. CASE AppendsInVain
    BY <2>8 DEF AppendsInVain
  <2>9. CASE Finishes
    BY <1>2, <2>1, <2>9 DEF Finishes
  <2>10. CASE Saves \/ OtherBegins
    BY <2>10 DEF Saves, OtherBegins, memory, calls, Completed
  <2>11. ASSUME NEW completes \in BOOLEAN, OtherFinishes(completes)
         PROVE  ~plainWaiting' /\ ~Left'
    BY <1>2, <2>1, <2>11 DEF OtherFinishes
  <2>12. CASE Acknowledges
    BY <2>12 DEF Acknowledges, memory, calls, input, Completed
  <2> QED BY <2>2, <2>3, <2>4, <2>5, <2>6, <2>7, <2>8, <2>9, <2>10, <2>11, <2>12 DEF Next
<1>4. LInv => NoCompletedTurnLeftBehind
  BY DEF NoCompletedTurnLeftBehind
<1> QED BY <1>1, <1>3, <1>4, Invariance, PTL DEF TraceSpec
=============================================================================
