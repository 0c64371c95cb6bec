-------------------------- MODULE CodexTurnJournal --------------------------
(***************************************************************************)
(* The journal of Codex turns that wait for their trace export             *)
(* (src/flushers/codex-turn-journal.ts).  One file of JSON lines per turn, *)
(* one small file per acknowledged turn; operations on it are serialized   *)
(* by a promise queue.  What survives a crash is the files, and a crash    *)
(* may come between any two file operations.                               *)
(***************************************************************************)
EXTENDS Naturals, Sequences, SequencesExt

CONSTANTS
    Turns,     \* group keys
    Length,    \* records of a turn; the last one is its terminal event
    AckLimit,  \* acknowledgementLimit
    NoTurn     \* no acknowledgement under way

ASSUME JournalAssumption ==
    /\ Length \in Nat \ {0}
    /\ AckLimit \in Nat \ {0}
    /\ NoTurn \notin Turns

Records == 1 .. Length

VARIABLES
    lines,       \* complete lines of each pending file
    torn,        \* pending files that end in an incomplete line
    done,        \* acknowledgement files, oldest first
    initialized, \* turns whose file tail this process has repaired
    ack,         \* the turn acknowledge() works on
    ackStep      \* "none" | "unlink" | "trim" | "forget"

files == <<lines, torn, done>>
journal == <<files, initialized, ack, ackStep>>

Acknowledged(t) == t \in ToSet(done)

\* What loadBatches() yields: the complete lines of an unacknowledged turn.
Retained(t) == IF Acknowledged(t) THEN {} ELSE lines[t]

JournalInit ==
    /\ lines = [t \in Turns |-> {}]
    /\ torn = [t \in Turns |-> FALSE]
    /\ done = <<>>
    /\ initialized = {}
    /\ ack = NoTurn
    /\ ackStep = "none"

\* A process begins; what an acknowledge() left undone is taken up by the
\* first trimAcknowledgements().
JournalRestart ==
    /\ initialized' = {}
    /\ ack' = NoTurn
    /\ ackStep' = IF Len(done) > AckLimit THEN "trim" ELSE "none"
    /\ UNCHANGED files

-----------------------------------------------------------------------------
(* append(): a turn already acknowledged is skipped; the first append of a *)
(* process cuts off an incomplete last line; later ones trust their own.   *)

\* Mutant: the incomplete line of a crash is never cut off.
TailUnrepaired(t) == torn[t]

\* An incomplete last line is still there when the new lines are written.
TailJoined(t) == torn[t] /\ t \in initialized

AppendDone(t, records) ==
    /\ ackStep = "none"
    /\ \/ Acknowledged(t) /\ UNCHANGED <<lines, torn, initialized>>
       \/ /\ ~Acknowledged(t)
          /\ lines' = [lines EXCEPT ![t] = @ \cup
                (IF TailJoined(t) THEN {r \in records : \E q \in records : q < r}
                                  ELSE records)]
          /\ torn' = [torn EXCEPT ![t] = FALSE]
          /\ initialized' = initialized \cup {t}
    /\ UNCHANGED <<done, ack, ackStep>>

\* The write fails, or the process dies in it: some lines are complete, and
\* the next one may be there in part.
AppendFails(t, records) ==
    /\ ackStep = "none"
    /\ ~Acknowledged(t)
    /\ \E n \in 0 .. Length, part \in BOOLEAN :
          /\ \E r \in records : r > n
          /\ lines' = [lines EXCEPT ![t] = @ \cup
                (IF TailJoined(t) THEN {r \in records : r <= n /\ \E q \in records : q < r}
                                  ELSE {r \in records : r <= n})]
          /\ torn' = [torn EXCEPT ![t] = part]
    /\ initialized' = initialized \cup {t}
    /\ UNCHANGED <<done, ack, ackStep>>

-----------------------------------------------------------------------------
(* acknowledge(): one file operation a step.                               *)

\* The acknowledgement is renamed into place before anything is deleted.
AckWrites(t) ==
    /\ ackStep = "none"
    /\ done' = IF Acknowledged(t) THEN done ELSE Append(done, t)
    /\ ack' = t
    /\ ackStep' = "unlink"
    /\ UNCHANGED <<lines, torn, initialized>>

AckUnlinks ==
    /\ ackStep = "unlink"
    /\ lines' = [lines EXCEPT ![ack] = {}]
    /\ torn' = [torn EXCEPT ![ack] = FALSE]
    /\ initialized' = initialized \ {ack}
    /\ ack' = NoTurn
    /\ ackStep' = IF Len(done) > AckLimit THEN "trim" ELSE "none"
    /\ UNCHANGED done

\* Mutant: trimming forgets the acknowledgement and leaves the content.
TrimUnlinksNothing ==
    /\ ackStep = "trim"
    /\ ackStep' = "forget"
    /\ UNCHANGED <<lines, torn, done, initialized, ack>>

\* trimAcknowledgements(): the pending content of the oldest goes first ...
TrimUnlinks ==
    /\ ackStep = "trim"
    /\ lines' = [lines EXCEPT ![Head(done)] = {}]
    /\ torn' = [torn EXCEPT ![Head(done)] = FALSE]
    /\ initialized' = initialized \ {Head(done)}
    /\ ackStep' = "forget"
    /\ UNCHANGED <<done, ack>>

\* ... and then its acknowledgement.
TrimForgets ==
    /\ ackStep = "forget"
    /\ done' = Tail(done)
    /\ ackStep' = IF Len(done) - 1 > AckLimit THEN "trim" ELSE "none"
    /\ UNCHANGED <<lines, torn, initialized, ack>>

\* A file operation fails: the rest of the acknowledge() is not done.
AckFails ==
    /\ ackStep # "none"
    /\ ack' = NoTurn
    /\ ackStep' = "none"
    /\ UNCHANGED <<files, initialized>>

JournalTypeOK ==
    /\ lines \in [Turns -> SUBSET Records]
    /\ torn \in [Turns -> BOOLEAN]
    /\ done \in Seq(Turns) /\ IsInjective(done)
    /\ initialized \in SUBSET Turns
    /\ ack \in Turns \cup {NoTurn}
    /\ ackStep \in {"none", "unlink", "trim", "forget"}
=============================================================================
