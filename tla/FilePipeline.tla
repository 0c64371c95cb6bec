---------------------------- MODULE FilePipeline ----------------------------
(***************************************************************************)
(* One file pipeline (FilePipeline, FileTailer, FileSlsSender) over one    *)
(* path of its pattern: the path's file is written, renamed away, replaced *)
(* and truncated by its owner while a poll cycle follows it through a      *)
(* queue of readers, one per inode, and hands its lines to a bounded       *)
(* buffer that a timer sends.  Offsets are checkpointed per inode.         *)
(*                                                                         *)
(* A line is a number, counted in the order of writing, and an offset      *)
(* counts lines: the half line a reader caches belongs to its offset.      *)
(* A step of the cycle ends where the code awaits the file system.         *)
(***************************************************************************)
EXTENDS Naturals, Sequences, FiniteSets, SequencesExt, Functions

CONSTANTS
    Inodes,         \* 1 .. n, in the order the owner creates its files
    MaxLines,       \* bound: lines written
    MaxFaults,      \* bound: truncations, removals, idle hours, I/O errors, crashes, and
                    \* files renamed between the check for a rotation and the read
    MaxStarts,      \* bound: starts of the pipeline
    MaxReaders,     \* MAX_READER_QUEUE_LENGTH
    ReadLines,      \* lines in MAX_READ_BYTES
    SigLines,       \* lines in SIGNATURE_BYTES
    HighWatermark,  \* HIGH_WATERMARK
    MaxBuffer,      \* MAX_BUFFER_SIZE
    MaxAttempts,    \* flushes shutdown() tries
    SliceLines      \* batchSize * FLUSH_CONCURRENCY

NoFile == 0

ASSUME FileAssumption ==
    /\ IsFiniteSet(Inodes) /\ Inodes = 1 .. Cardinality(Inodes) /\ Inodes # {}
    /\ {MaxLines, MaxFaults, MaxStarts} \subseteq Nat
    /\ \A n \in {MaxReaders, ReadLines, SigLines, HighWatermark, MaxBuffer, SliceLines,
                MaxAttempts} :
          n \in Nat /\ n > 0
    /\ HighWatermark <= MaxBuffer

VARIABLES
    content,  \* inode -> lines in the file
    owner,    \* line -> inode it was written to, in the order of writing
    cur,      \* inode at the path
    linked,   \* inodes found in the directory
    queue,    \* readerQueues.get(path), oldest reader first
    pending,  \* pendingLines.get(path): lines the sender had no room for
    dirty,    \* is the path in dirtyFiles?
    poll,     \* what the poll cycle does next with the path
    bucket,   \* lines in the sender's buffer
    flight,   \* those of them a flush is sending
    tries,    \* flushes begun by shutdown()
    gaveUp,   \* has shutdown() persisted and cleared the buffer?
    disk,     \* checkpoints in the state file
    pipe,     \* "off", "running", or what stop() is at
    \* History and fault counters.
    settled,  \* lines acknowledged by SLS, or counted in the failure log
    met,      \* inodes a reader was set up for
    again,    \* was a file followed from its beginning, or a saved offset, again?
    taken,    \* line -> how often the sender took it, until then
    misread,  \* inodes whose reader read the file that had taken their path
    lossy,    \* did lines in memory die, or did a read outlive the drain of a stop?
    starts,   \* of the pipeline, so far
    faults    \* of each kind, so far

files == <<content, owner, cur, linked>>
cycle == <<pending, dirty, poll>>
sender == <<bucket, flight, tries, gaveUp, settled>>
history == <<met, again, taken>>
life == <<pipe, lossy, starts>>
vars == <<files, queue, cycle, sender, history, misread, disk, life, faults>>

Lines == 1 .. MaxLines
Reader == [ino : Inodes, off : Nat, deleted : BOOLEAN, sig : Seq(Lines)]
Checkpoint == [ino : Inodes, off : Nat, sig : Seq(Lines)]

Prefix(s, n) == SubSeq(s, 1, IF n < Len(s) THEN n ELSE Len(s))
Signature(i) == Prefix(content[i], SigLines)
NewReader(i) == [ino |-> i, off |-> 0, deleted |-> FALSE, sig |-> Signature(i)]
FaultKinds == {"rotation", "race", "truncation", "removal", "idle", "error", "crash"}
FaultsSpent == FoldFunction(+, 0, [faults EXCEPT !.rotation = 0])
Fault(kind) ==
    /\ kind = "rotation" \/ FaultsSpent < MaxFaults
    /\ faults' = [faults EXCEPT ![kind] = @ + 1]

NotTaken == [l \in Lines |-> 0]

FileInit ==
    /\ content = [i \in Inodes |-> <<>>] /\ owner = <<>>
    /\ cur = 1 /\ linked = {1}
    /\ queue = <<>>
    /\ pending = <<>> /\ dirty = FALSE /\ poll = "idle"
    /\ bucket = <<>> /\ flight = <<>> /\ tries = 0 /\ gaveUp = FALSE
    /\ settled = {}
    /\ met = {} /\ again = FALSE /\ taken = NotTaken /\ misread = {}
    /\ disk = {}
    /\ pipe = "off" /\ lossy = FALSE /\ starts = 0
    /\ faults = [kind \in FaultKinds |-> 0]

-----------------------------------------------------------------------------
(* The owner of the files.                                                 *)

\* A truncated file does not outgrow a reader's position before it is looked
\* at again: this is what "copytruncate" support rests on.
Noticeable(i) ==
    \A r \in Range(queue) \cup disk :
        r.ino = i /\ Len(content[i]) < r.off => Len(content[i]) + 1 < r.off

Writes ==
    /\ cur # NoFile /\ Len(owner) < MaxLines /\ Noticeable(cur)
    /\ owner' = Append(owner, cur)
    /\ content' = [content EXCEPT ![cur] = Append(@, Len(owner) + 1)]
    /\ UNCHANGED <<cur, linked, queue, cycle, sender, history, misread, disk, life, faults>>

\* Renames the file to a name outside the pattern, in the same directory, also
\* between the cycle's check for a rotation and its read. A running pipeline has
\* looked at the file by then: one rotation per poll interval is the fastest it
\* can follow.
RenamesAway ==
    /\ cur # NoFile
    /\ \/ pipe = "off"
       \/ content[cur] = <<>>
       \/ \E r \in Range(queue) : r.ino = cur /\ r.off <= Len(content[cur])
    /\ IF poll = "read" THEN Fault("race") ELSE UNCHANGED faults
    /\ cur' = NoFile
    /\ UNCHANGED <<content, owner, linked, queue, cycle, sender, history, misread, disk, life>>

Creates ==
    /\ cur = NoFile
    /\ Fault("rotation") /\ faults.rotation + 1 < Cardinality(Inodes)
    /\ cur' = faults'.rotation + 1
    /\ linked' = linked \cup {cur'}
    /\ UNCHANGED <<content, owner, queue, cycle, sender, history, misread, disk, life>>

Truncates ==
    /\ cur # NoFile /\ content[cur] # <<>>
    /\ Fault("truncation")
    /\ content' = [content EXCEPT ![cur] = <<>>]
    /\ UNCHANGED <<owner, cur, linked, queue, cycle, sender, history, misread, disk, life>>

\* A rotated file is compressed, moved or deleted: one a reader still follows,
\* since nothing looks for the others.
Removes ==
    /\ Fault("removal")
    /\ \E r \in Range(queue) : r.ino # cur /\ r.ino \in linked /\ linked' = linked \ {r.ino}
    /\ UNCHANGED <<content, owner, cur, queue, cycle, sender, history, misread, disk, life>>

-----------------------------------------------------------------------------
(* FileSlsSender.                                                          *)

Full == Len(bucket) >= MaxBuffer
IsBackpressured(lines) == Len(lines) >= HighWatermark

\* enqueue() of lines the sender has room for, and what the history makes of it.
Enqueue(lines) == bucket' = bucket \o lines
Counted(lines) ==
    /\ taken' = IF again THEN taken
                ELSE [l \in Lines |-> IF l \in Range(lines) THEN taken[l] + 1 ELSE taken[l]]
    /\ UNCHANGED <<met, again>>

\* flush() is called by its timer, or by shutdown() while lines are left.
FlushStarts ==
    /\ flight = <<>> /\ bucket # <<>>
    /\ \/ pipe = "running" /\ UNCHANGED tries
       \/ pipe = "draining" /\ tries < MaxAttempts /\ tries' = tries + 1
    /\ flight' = Prefix(bucket, SliceLines)
    /\ UNCHANGED <<files, queue, cycle, bucket, gaveUp, settled, history, misread, disk, life,
                   faults>>

\* Mutant: the lines of a failed slice are put back behind the others.
SliceDoneRequeueing(ok) ==
    /\ flight # <<>>
    /\ settled' = IF ok THEN settled \cup Range(flight) ELSE settled
    /\ LET rest == SubSeq(bucket, Len(flight) + 1, Len(bucket)) IN
       bucket' = IF gaveUp THEN bucket ELSE IF ok THEN rest ELSE rest \o flight
    /\ flight' = IF ok /\ ~gaveUp THEN Prefix(bucket', SliceLines) ELSE <<>>
    /\ UNCHANGED <<files, queue, cycle, tries, gaveUp, history, misread, disk, life, faults>>

\* The requests of a slice are settled: its lines were sent, or some were and
\* the others are counted in the failure log. All of them leave the buffer; the
\* flush goes on with the next slice unless a request failed.
SliceDone(ok) ==
    /\ flight # <<>>
    /\ settled' = settled \cup Range(flight)
    /\ bucket' = IF gaveUp THEN bucket ELSE SubSeq(bucket, Len(flight) + 1, Len(bucket))
    /\ flight' = IF ok /\ ~gaveUp THEN Prefix(bucket', SliceLines) ELSE <<>>
    /\ UNCHANGED <<files, queue, cycle, tries, gaveUp, history, misread, disk, life, faults>>

-----------------------------------------------------------------------------
(* FileTailer.                                                             *)

Checkpoints(readers) == {[ino |-> r.ino, off |-> r.off, sig |-> r.sig] : r \in Range(readers)}

MarkDeleted(readers) == [readers EXCEPT ![Len(readers)].deleted = TRUE]

Evicted(readers) ==
    IF Len(readers) > MaxReaders THEN Tail(readers) ELSE readers

\* Mutant: a truncated file gets a reader of its own.
DetectedAnew(readers) ==
    IF cur = NoFile THEN MarkDeleted(readers)
    ELSE IF Last(readers).ino # cur \/ Len(content[cur]) < Last(readers).off
         THEN Evicted(Append(MarkDeleted(readers), NewReader(cur)))
    ELSE readers

\* Mutant: the reader of the new file replaces the one of the rotated file.
DetectedOnly(readers) ==
    IF cur = NoFile THEN MarkDeleted(readers)
    ELSE IF Last(readers).ino # cur THEN <<NewReader(cur)>>
    ELSE readers

\* detectRotation(): the file is gone, another one, shorter, or the same.
Detected(readers) ==
    LET latest == Last(readers) IN
    IF cur = NoFile THEN MarkDeleted(readers)
    ELSE IF latest.ino # cur THEN Evicted(Append(MarkDeleted(readers), NewReader(cur)))
    ELSE IF Len(content[cur]) < latest.off
         THEN [readers EXCEPT ![Len(readers)].off = 0, ![Len(readers)].sig = Signature(cur)]
    ELSE readers

\* What the detection adds to the history: a reader is set up from offset 0 for
\* the file at the path when none follows it yet.
Meets(readers) ==
    IF cur = NoFile \/ (readers # <<>> /\ Last(readers).ino = cur) THEN UNCHANGED history
    ELSE IF cur \in met \/ again THEN met' = {} /\ again' = TRUE /\ taken' = NotTaken
    ELSE met' = met \cup {cur} /\ UNCHANGED <<again, taken>>

\* The cycle has served its path: cleanupStaleReaders() drops a reader without
\* progress for an hour, saveCheckpoints(), and the state file is written.
CycleEnds(readers) ==
    /\ \/ queue' = readers /\ UNCHANGED faults
       \/ /\ Fault("idle")
          /\ \E k \in DOMAIN readers : queue' = RemoveAt(readers, k)
    /\ disk' = Checkpoints(queue')
    /\ poll' = "idle"

\* checkRotation(): without reading, while the sender has no room.
ChecksRotation ==
    /\ poll = "check"
    /\ IF queue = <<>> THEN CycleEnds(queue) /\ UNCHANGED history
       ELSE CycleEnds(Detected(queue)) /\ Meets(queue)
    /\ UNCHANGED <<files, misread, pending, dirty, sender, life>>

\* readNewLines(), until the check for a rotation is done.
LooksForRotation ==
    /\ poll = "look"
    /\ IF queue = <<>> /\ cur = NoFile
       THEN CycleEnds(queue) /\ UNCHANGED history
       ELSE /\ poll' = "read"
            /\ queue' = Detected(IF queue = <<>> THEN <<NewReader(cur)>> ELSE queue)
            /\ Meets(queue)
            /\ UNCHANGED <<disk, faults>>
    /\ UNCHANGED <<files, misread, pending, dirty, sender, life>>

\* The file processQueue() reads from for its first reader.
Source ==
    LET r == Head(queue) IN
    IF ~r.deleted THEN cur ELSE IF r.ino \in linked THEN r.ino ELSE NoFile

Unread == IF Source = NoFile THEN <<>>
          ELSE SubSeq(content[Source], Head(queue).off + 1, Len(content[Source]))

\* Mutant: rejected lines are not kept for the next cycle.
HandOverDropping(readers, lines, hasMore) ==
    IF lines # <<>> /\ Full
    THEN /\ dirty' = TRUE /\ CycleEnds(readers)
         /\ UNCHANGED <<pending, bucket>>
    ELSE /\ Enqueue(lines)
         /\ dirty' = (dirty \/ hasMore)
         /\ \/ CycleEnds(readers)
            \/ hasMore /\ poll' = "look" /\ queue' = readers /\ UNCHANGED <<disk, faults>>
         /\ UNCHANGED pending

\* The cycle hands lines to the sender, or keeps them for the next cycle; it
\* reads on while there is more and its time slice lasts.
HandOver(readers, lines, hasMore) ==
    IF lines # <<>> /\ Full
    THEN /\ pending' = lines /\ dirty' = TRUE /\ CycleEnds(readers)
         /\ UNCHANGED bucket
    ELSE /\ Enqueue(lines)
         /\ dirty' = (dirty \/ hasMore)
         /\ \/ CycleEnds(readers)
            \/ hasMore /\ poll' = "look" /\ queue' = readers /\ UNCHANGED <<disk, faults>>
         /\ UNCHANGED pending

\* The first reader has lines: a rotated file read to its end loses its reader.
ReadsLines ==
    /\ poll = "read" /\ queue # <<>> /\ Unread # <<>>
    /\ Source = Head(queue).ino
    /\ LET r == Head(queue)
           lines == Prefix(Unread, ReadLines)
           more == Len(lines) < Len(Unread)
       IN  /\ IF r.deleted /\ ~more
              THEN HandOver(Tail(queue), lines, Len(queue) > 1)
              ELSE HandOver([queue EXCEPT ![1].off = @ + Len(lines)], lines,
                            more \/ Len(queue) > 1)
           /\ IF Full THEN UNCHANGED history ELSE Counted(lines)
    /\ UNCHANGED <<files, flight, tries, gaveUp, settled, misread, life>>

\* The file was renamed after the check for it, and another one is at its path:
\* the reader goes on from its offset in that one, as far as the size says, which
\* is of either file. What it gets it gets again from the file's own reader.
ReadsAnother ==
    /\ poll = "read" /\ queue # <<>>
    /\ ~Head(queue).deleted /\ Source \notin {Head(queue).ino, NoFile}
    /\ \E size \in Lines :
          LET r == Head(queue)
              n == IF size - r.off < ReadLines THEN size - r.off ELSE ReadLines
          IN  /\ r.off < size
              /\ size <= Len(content[r.ino]) \/ size = Len(content[Source])
              /\ HandOver([queue EXCEPT ![1].off = @ + n], Prefix(Unread, n),
                          r.off + n < size \/ Len(queue) > 1)
    /\ misread' = misread \cup {Head(queue).ino}
    /\ met' = {} /\ again' = TRUE /\ taken' = NotTaken
    /\ UNCHANGED <<files, flight, tries, gaveUp, settled, life>>

\* The file at the path has nothing new.
ReadsNothing ==
    /\ poll = "read" /\ queue # <<>> /\ Unread = <<>>
    /\ ~Head(queue).deleted
    /\ CycleEnds(queue)
    /\ UNCHANGED <<files, pending, dirty, sender, history, misread, life>>

\* A rotated file has nothing more, was removed since it was found, or was not
\* found for an hour: its reader goes and the next one is read.
DropsReader ==
    /\ poll = "read" /\ queue # <<>> /\ Unread = <<>>
    /\ Head(queue).deleted
    /\ IF Len(queue) = 1
       THEN Source # NoFile /\ CycleEnds(<<>>)
       ELSE /\ queue' = Tail(queue)
            /\ UNCHANGED <<poll, disk, faults>>
    /\ UNCHANGED <<files, pending, dirty, sender, history, misread, life>>

\* A rotated file is not found: the readers of the path are all deleted.
LosesReaders ==
    /\ poll = "read" /\ queue # <<>>
    /\ Head(queue).deleted /\ Source = NoFile
    /\ CycleEnds(<<>>)
    /\ UNCHANGED <<files, pending, dirty, sender, history, misread, life>>

\* open() or read() fails, by itself or because the path is gone since it was
\* looked at: the error is logged.
ReadFails ==
    /\ poll = "read"
    /\ \/ Fault("error")
       \/ cur = NoFile /\ queue # <<>> /\ ~Head(queue).deleted /\ UNCHANGED faults
    /\ poll' = "idle" /\ disk' = Checkpoints(queue)
    /\ UNCHANGED <<files, queue, pending, dirty, sender, history, misread, life>>

-----------------------------------------------------------------------------
(* FilePipeline.                                                           *)

\* Mutant: a path is read on while its pending lines wait.
PollStartsAhead ==
    /\ pipe = "running" /\ poll = "idle"
    /\ dirty' = IsBackpressured(bucket)
    /\ poll' = IF IsBackpressured(bucket) THEN "check" ELSE "look"
    /\ UNCHANGED <<files, queue, pending, sender, history, misread, disk, life, faults>>

\* pollCycle() up to its first await: is the path to be processed, and how?
PollStarts ==
    /\ pipe = "running" /\ poll = "idle"
    /\ \/ /\ ~dirty /\ queue = <<>>  \* no event, and no rescan is due
          /\ CycleEnds(queue)
          /\ UNCHANGED <<pending, dirty, bucket, history>>
       \/ /\ pending # <<>> /\ Full
          /\ dirty' = TRUE /\ poll' = "check"
          /\ UNCHANGED <<queue, pending, bucket, history, disk, faults>>
       \/ /\ pending = <<>> \/ ~Full
          /\ Enqueue(pending) /\ Counted(pending) /\ pending' = <<>>
          /\ dirty' = IsBackpressured(bucket')
          /\ poll' = IF IsBackpressured(bucket') THEN "check" ELSE "look"
          /\ UNCHANGED <<queue, disk, faults>>
    /\ UNCHANGED <<files, misread, flight, tries, gaveUp, settled, life>>

\* handleWake() saves and asks for a rescan, whatever the cycle is at.
Wakes ==
    /\ pipe = "running"
    /\ disk' = Checkpoints(queue)
    /\ UNCHANGED <<files, queue, cycle, sender, history, misread, life, faults>>

\* start(): a checkpoint is taken up if its inode is still at the path and the
\* file begins with what it began with then.
Restorable(c) == c.ino = cur /\ (c.sig = <<>> \/ Signature(cur) \in {<<>>, c.sig})
RestoredFromStart ==  \* Mutant: the offset of a checkpoint is not used.
    SetToSeq({[ino |-> c.ino, off |-> 0, deleted |-> FALSE, sig |-> c.sig] :
                 c \in {d \in disk : Restorable(d)}})
RestoredReaders ==
    SetToSeq({[ino |-> c.ino, off |-> c.off, deleted |-> FALSE, sig |-> c.sig] :
                 c \in {d \in disk : Restorable(d)}})

Starts ==
    /\ pipe = "off" /\ starts < MaxStarts /\ starts' = starts + 1
    /\ pipe' = "running"
    /\ queue' = RestoredReaders
    /\ again' = (again \/ lossy \/ faults.crash > 0)
    /\ met' = (IF again' THEN {} ELSE met) /\ taken' = (IF again' THEN NotTaken ELSE taken)
    /\ pending' = <<>> /\ dirty' = FALSE /\ poll' = "idle"
    /\ bucket' = <<>> /\ flight' = <<>> /\ tries' = 0 /\ gaveUp' = FALSE
    /\ UNCHANGED <<files, misread, settled, disk, lossy, faults>>

\* stop() up to its first await. What a read in progress will bring, and
\* pending lines the sender has no room for, are lost.
Stops ==
    /\ pipe = "running"
    /\ pipe' = "draining"
    /\ dirty' = FALSE
    /\ IF Full THEN UNCHANGED <<bucket, history>> ELSE Enqueue(pending) /\ Counted(pending)
    /\ pending' = <<>>
    /\ lossy' = (lossy \/ poll \in {"look", "read"} \/ (Full /\ pending # <<>>))
    /\ UNCHANGED <<files, misread, queue, poll, flight, tries, gaveUp, settled, disk, starts,
                   faults>>

\* shutdown() found the buffer empty; the checkpoints are saved.
Drains ==
    /\ pipe = "draining" /\ bucket = <<>> /\ flight = <<>>
    /\ pipe' = "off"
    /\ disk' = Checkpoints(queue)
    /\ UNCHANGED <<files, queue, cycle, sender, history, misread, lossy, starts, faults>>

\* shutdown() has waited 30 seconds for a flush, or flushed three times: the
\* rest is counted in the failure log.
GivesUp ==
    /\ pipe = "draining" /\ bucket # <<>>
    /\ \/ flight # <<>> /\ tries = 0
       \/ flight = <<>> /\ tries = MaxAttempts
    /\ settled' = settled \cup Range(bucket)
    /\ bucket' = <<>> /\ gaveUp' = TRUE
    /\ pipe' = "off"
    /\ disk' = Checkpoints(queue)
    /\ UNCHANGED <<files, queue, cycle, flight, tries, history, misread, lossy, starts, faults>>

\* The daemon dies.
Crash ==
    /\ pipe # "off" /\ Fault("crash")
    /\ pipe' = "off"
    /\ lossy' = (lossy \/ bucket \o flight \o pending # <<>>)
    /\ queue' = <<>>
    /\ pending' = <<>> /\ dirty' = FALSE /\ poll' = "idle"
    /\ bucket' = <<>> /\ flight' = <<>> /\ tries' = 0 /\ gaveUp' = FALSE
    /\ UNCHANGED <<files, settled, history, misread, disk, starts>>

Owner == Writes \/ RenamesAway \/ Creates \/ Truncates \/ Removes
Tailer ==
    \/ ChecksRotation \/ LooksForRotation
    \/ ReadsLines \/ ReadsAnother \/ ReadsNothing \/ DropsReader \/ LosesReaders \/ ReadFails
Pipeline ==
    \/ PollStarts \/ Wakes
    \/ Starts \/ Stops \/ Drains \/ GivesUp
FileNext ==
    \/ Owner \/ Tailer \/ Pipeline \/ FlushStarts \/ Crash
    \/ \E ok \in BOOLEAN : SliceDone(ok)
FileSpec == FileInit /\ [][FileNext]_vars

-----------------------------------------------------------------------------
(* Properties.                                                             *)

\* Every variable keeps its type; a flush is under way on the head of the
\* buffer, and at most one reader follows an inode.
FileTypeOK ==
    /\ content \in [Inodes -> Seq(Lines)] /\ owner \in Seq(Inodes)
    /\ cur \in Inodes \cup {NoFile} /\ linked \subseteq Inodes
    /\ queue \in Seq(Reader) /\ Len(queue) <= MaxReaders
    /\ met \subseteq Inodes /\ again \in BOOLEAN /\ misread \subseteq Inodes
    /\ pending \in Seq(Lines) /\ dirty \in BOOLEAN
    /\ poll \in {"idle", "check", "look", "read"}
    /\ bucket \in Seq(Lines) /\ flight \in Seq(Lines)
    /\ gaveUp \/ IsPrefix(flight, bucket)
    /\ tries \in 0 .. MaxAttempts /\ gaveUp \in BOOLEAN
    /\ settled \subseteq Lines /\ taken \in [Lines -> Nat]
    /\ disk \subseteq Checkpoint
    /\ pipe \in {"off", "running", "draining"} /\ lossy \in BOOLEAN
    /\ starts \in 0 .. MaxStarts
    /\ faults \in [FaultKinds -> Nat]
    /\ \A j, k \in DOMAIN queue : queue[j].ino = queue[k].ino => j = k

\* An offset never passes a line that is not sent, in the failure log, or in
\* the memory of the pipeline, be it the offset of a reader or of a checkpoint
\* in the state file -- unless a crash took lines along, stop() was called
\* during a read or with lines the sender had no room for, or the file was
\* replaced between the check for a rotation and its read: then the reader moves
\* on over the lines of its own file that it has not read (`misread`).
Handled == settled \cup Range(bucket) \cup Range(pending) \cup Range(flight)
NothingSkipped ==
    ~lossy => \A r \in Range(queue) \cup disk :
                  /\ r.off <= Len(content[r.ino])  \* else its truncation is not noticed yet
                  /\ r.ino \notin misread
                  => Range(Prefix(content[r.ino], r.off)) \subseteq Handled

\* The sender takes a line only once, whether the line had to wait as pending
\* or not, and over a stop and a start, as long as no file was read a second
\* time: after a crash, a lossy stop, an idle hour, a discarded checkpoint, or
\* by the reader of the file it replaced between a check and a read.
TakenOnce == again \/ \A l \in Lines : taken[l] <= 1

\* What waits in the pipeline is then in the order of writing, rotated files
\* before their successors.
WaitingInOrder ==
    again \/ LET waiting == bucket \o pending IN
             \A j, k \in DOMAIN waiting : j < k => waiting[j] < waiting[k]

-----------------------------------------------------------------------------
(* The inductive invariant.                                                *)

Newest == faults.rotation + 1  \* the last file the owner created

\* A line stands in the file it was written to, and files are written one
\* after the other.
FilesInOrder ==
    /\ cur \in {NoFile, Newest}
    /\ faults.removal = 0 => linked = 1 .. Newest
    /\ \A l \in DOMAIN owner : owner[l] <= Newest
    /\ \A l, m \in DOMAIN owner : l <= m => owner[l] <= owner[m]
    /\ \A i \in Inodes :
          /\ \A k \in DOMAIN content[i] : content[i][k] \in DOMAIN owner /\ owner[content[i][k]] = i
          /\ \A j, k \in DOMAIN content[i] : j < k => content[i][j] < content[i][k]

\* The readers of the path follow its files, oldest first; only the last one
\* may read what is at the path. A file was looked at before its owner renamed
\* it: none is read beyond its end, but by a reader that read another one.
ReadersInOrder ==
    /\ \A j, k \in DOMAIN queue : j < k => queue[j].ino < queue[k].ino /\ queue[j].deleted
    /\ \A r \in Range(queue) :
          /\ r.ino <= Newest
          /\ r.deleted => r.ino # cur
          /\ pipe # "off" /\ r.ino # cur =>
                \/ r.off <= Len(content[r.ino]) \/ content[r.ino] = <<>>
                \/ r.ino \in misread
    /\ \A c, d \in disk : c.ino = d.ino => c = d

\* What stop() leaves behind is settled, or counts as lost.
StoppedIsSettled ==
    /\ gaveUp => pipe = "off" /\ Range(flight) \subseteq settled
    /\ pipe = "off" /\ ~gaveUp => flight = <<>>
    /\ poll \in {"look", "read"} => pending = <<>>
    /\ pipe # "running" /\ ~lossy => poll \in {"idle", "check"} /\ pending = <<>>
    /\ pipe = "off" /\ ~lossy => bucket = <<>>
    /\ pipe = "off" /\ ~lossy /\ faults.crash = 0 => disk = Checkpoints(queue)

\* The lines of a reader's file it has not read: all of them when the file was
\* truncated since.
Fresh(r) ==
    LET lines == content[r.ino] IN
    {lines[k] : k \in {n \in DOMAIN lines : n > r.off \/ Len(lines) < r.off}}
Received(l) == taken[l] > 0 \/ l \in Range(pending)

\* What a reader has not read comes after all that was received, which is from
\* files that were met, none after the file of the first reader.
FreshIsLater ==
    again \/
    /\ \A l \in Range(bucket) : taken[l] > 0
    /\ \A l \in Range(pending) : taken[l] = 0
    /\ \A r \in Range(queue) :
          /\ r.ino \in met
          /\ \A l \in Fresh(r), m \in Lines : Received(m) => m < l
    /\ \A m \in Lines : Received(m) =>
          /\ m \in DOMAIN owner /\ owner[m] \in met
          /\ queue # <<>> => owner[m] <= Head(queue).ino

\* The memory of a pipeline is sound: its readers follow the files in order, a
\* flush is on the head of the buffer, and, until a file was read a second time
\* (`again`), the lines wait in order and none is taken twice (file-pipeline.ts,
\* file-tailer.ts, file-sls-sender.ts).
FileInv ==
    /\ FileTypeOK
    /\ FilesInOrder
    /\ ReadersInOrder
    /\ StoppedIsSettled
    /\ FreshIsLater
    /\ WaitingInOrder
    /\ TakenOnce

\* A reader of a file leaves the queue only when all lines of the file went
\* into the pipeline, unless the queue overflowed, it was idle for an hour, the
\* daemon stopped or died, or the reader had read the file that replaced its own
\* between a check and a read (`misread`).
RotatedIsRead ==
    [][ \A r \in Range(queue) :
            (/\ \A q \in Range(queue') : q.ino # r.ino
             /\ pipe # "off" /\ pipe' # "off" /\ ~lossy'
             /\ faults' = faults /\ faults.removal = 0 /\ r.ino \notin misread'
             /\ Len(queue') < MaxReaders)
            => Range(content[r.ino]) \subseteq Handled' ]_vars

\* A line in a file that a running pipeline follows ends up sent or in the
\* failure log, unless the pipeline stops or lines died, the line is truncated
\* away, its reader is dropped -- its file was removed or idle for an hour, or the
\* queue overflowed -- or has read another file instead (`misread`).
Followed(l) ==
    /\ pipe = "running" /\ l <= Len(owner)
    /\ \E r \in Range(queue) : r.ino = owner[l] /\ l \in Range(content[r.ino])
ExcusedOrSettled(l) ==
    \/ l \in settled
    \/ pipe # "running" \/ lossy \/ faults.truncation + faults.removal + faults.idle > 0
    \/ Cardinality(Inodes) > MaxReaders /\ Len(queue) = MaxReaders
    \/ l \in DOMAIN owner /\ owner[l] \in misread
EveryLineSettled == \A l \in Lines : Followed(l) ~> ExcusedOrSettled(l)

FairFileSpec ==
    /\ FileSpec
    /\ WF_vars(PollStarts)
    /\ WF_vars(ChecksRotation) /\ WF_vars(LooksForRotation)
    /\ WF_vars(ReadsLines) /\ WF_vars(ReadsAnother) /\ WF_vars(ReadsNothing)
    /\ WF_vars(DropsReader)
    /\ WF_vars(FlushStarts) /\ WF_vars(\E ok \in BOOLEAN : SliceDone(ok))
=============================================================================
