------------------------- MODULE SingleInstanceLock -------------------------
(***************************************************************************)
(* The lock file of the daemons (src/utils/single-instance-lock.ts).       *)
(* Whoever publishes the file by a hard link holds the lock.  A file whose *)
(* process is gone is stale: it is read, judged, unlinked and the link is  *)
(* tried once more.  Every file system call is a step of its own, so the   *)
(* calls of several processes interleave, and a process dies between any   *)
(* two of them.  A process is one lifetime; its pid may have been another's *)
(* and may be given to another after it.                                   *)
(*                                                                         *)
(* Not modelled: the fallback for file systems without hard links, and a   *)
(* second acquisition inside the process that holds the lock, which is     *)
(* refused without a change.                                               *)
(***************************************************************************)
EXTENDS Naturals, FiniteSets

CONSTANTS
    Procs,  \* process lifetimes
    Pids,   \* process ids, reused
    NoFile  \* no lock file, or one that does not parse

ASSUME LockAssumption == NoFile \notin Procs

VARIABLES
    life,    \* lifetime -> "unborn" | "alive" | "dead"
    pid,     \* lifetime -> its process id
    pc,      \* lifetime -> where it is in acquire or release
    tries,   \* lifetime -> links tried in this acquisition
    seen,    \* lifetime -> the owner readLock() found
    lock,    \* the owner the file names, or NoFile
    token,   \* lifetime -> the file it wrote carries a processStartToken
    crossed  \* history: a stale file was judged and another one unlinked

vars == <<life, pid, pc, tries, seen, lock, token, crossed>>

Steps == {"idle", "link", "read", "inspect", "unlink", "holding", "release", "drop"}

Init ==
    /\ life = [p \in Procs |-> "unborn"]
    /\ pid \in [Procs -> Pids]
    /\ pc = [p \in Procs |-> "idle"]
    /\ tries = [p \in Procs |-> 0]
    /\ seen = [p \in Procs |-> NoFile]
    /\ lock = NoFile
    /\ token = [p \in Procs |-> FALSE]
    /\ crossed = FALSE

Alive(p) == life[p] = "alive"
At(p, step) == Alive(p) /\ pc[p] = step
Goto(p, step) == pc' = [pc EXCEPT ![p] = step]

\* isProcessAlive(): some process, not necessarily the one meant.
PidAlive(n) == \E q \in Procs : Alive(q) /\ pid[q] = n

-----------------------------------------------------------------------------
(* Processes come and go; a pid belongs to one living process at a time.   *)

Born(p) ==
    /\ life[p] = "unborn"
    /\ ~PidAlive(pid[p])
    /\ life' = [life EXCEPT ![p] = "alive"]
    /\ UNCHANGED <<pid, pc, tries, seen, lock, token, crossed>>

Die(p) ==
    /\ Alive(p)
    /\ life' = [life EXCEPT ![p] = "dead"]
    /\ Goto(p, "idle")
    /\ UNCHANGED <<pid, tries, seen, lock, token, crossed>>

-----------------------------------------------------------------------------
(* acquireSingleInstanceLock()                                             *)

Acquire(p) ==
    /\ At(p, "idle")
    /\ Goto(p, "link")
    /\ tries' = [tries EXCEPT ![p] = 1]
    /\ UNCHANGED <<life, pid, seen, lock, token, crossed>>

\* Mutant: the file is renamed into place, over any other.
LinkOver(p) ==
    /\ At(p, "link")
    /\ Goto(p, "holding")
    /\ lock' = p
    /\ \E readable \in BOOLEAN : token' = [token EXCEPT ![p] = readable]
    /\ UNCHANGED <<life, pid, tries, seen, crossed>>

\* The link publishes the whole file at once; EEXIST leads to its reading.
Link(p) ==
    /\ At(p, "link")
    /\ \/ /\ lock = NoFile
          /\ lock' = p
          /\ \E readable \in BOOLEAN : token' = [token EXCEPT ![p] = readable]
          /\ Goto(p, "holding")
       \/ /\ lock # NoFile
          /\ Goto(p, "read")
          /\ UNCHANGED <<lock, token>>
    /\ UNCHANGED <<life, pid, tries, seen, crossed>>

\* No file can be written: refused with the error.
LinkFails(p) ==
    /\ At(p, "link")
    /\ Goto(p, "idle")
    /\ UNCHANGED <<life, pid, tries, seen, lock, token, crossed>>

Read(p) ==
    /\ At(p, "read")
    /\ seen' = [seen EXCEPT ![p] = lock]
    /\ Goto(p, "inspect")
    /\ UNCHANGED <<life, pid, tries, lock, token, crossed>>

\* Mutant: a file without a token is taken for that of another process.
RecycledOrUnknown(o) == \E q \in Procs : Alive(q) /\ pid[q] = pid[o] /\ (q # o \/ ~token[o])

\* The pid of owner o runs again and both start tokens are readable.
ProvablyRecycled(o) == token[o] /\ \E q \in Procs \ {o} : Alive(q) /\ pid[q] = pid[o]

\* inspectLock().  The same pid as one's own is that of an older lifetime or of
\* an own file left behind; an unreadable start token of the live process
\* fails closed.
StaleFor(p, tokenReadable) ==
    LET o == seen[p]
    IN  \/ o = NoFile
        \/ o # NoFile /\ pid[o] = pid[p]
        \/ o # NoFile /\ ~PidAlive(pid[o])
        \/ o # NoFile /\ tokenReadable /\ ProvablyRecycled(o)

Inspect(p) ==
    /\ At(p, "inspect")
    /\ \E tokenReadable \in BOOLEAN :
          Goto(p, IF StaleFor(p, tokenReadable) THEN "unlink" ELSE "idle")
    /\ UNCHANGED <<life, pid, tries, seen, lock, token, crossed>>

\* Whatever file is there now is removed; one retry, then a refusal.
Unlink(p) ==
    /\ At(p, "unlink")
    /\ lock' = NoFile
    /\ crossed' = (crossed \/ lock \notin {seen[p], NoFile})
    /\ \/ /\ tries[p] = 1
          /\ Goto(p, "link")
          /\ tries' = [tries EXCEPT ![p] = 2]
       \/ tries[p] = 2 /\ Goto(p, "idle") /\ UNCHANGED tries
    /\ UNCHANGED <<life, pid, seen, token>>

\* An error other than ENOENT: refused.
UnlinkFails(p) ==
    /\ At(p, "unlink")
    /\ Goto(p, "idle")
    /\ UNCHANGED <<life, pid, tries, seen, lock, token, crossed>>

-----------------------------------------------------------------------------
(* release(): the file is read, and removed if it is one's own.            *)

Release(p) ==
    /\ At(p, "holding")
    /\ Goto(p, "release")
    /\ UNCHANGED <<life, pid, tries, seen, lock, token, crossed>>

CheckOwn(p) ==
    /\ At(p, "release")
    /\ Goto(p, IF lock = p THEN "drop" ELSE "idle")
    /\ UNCHANGED <<life, pid, tries, seen, lock, token, crossed>>

\* The unlink is best-effort.
Drop(p) ==
    /\ At(p, "drop")
    /\ lock' \in {NoFile, lock}
    /\ Goto(p, "idle")
    /\ UNCHANGED <<life, pid, tries, seen, token, crossed>>

-----------------------------------------------------------------------------
Next ==
    \E p \in Procs :
        \/ Born(p) \/ Die(p)
        \/ Acquire(p) \/ Link(p) \/ LinkFails(p) \/ Read(p) \/ Inspect(p)
        \/ Unlink(p) \/ UnlinkFails(p)
        \/ Release(p) \/ CheckOwn(p) \/ Drop(p)

Spec == Init /\ [][Next]_vars

-----------------------------------------------------------------------------
TypeOK ==
    /\ life \in [Procs -> {"unborn", "alive", "dead"}]
    /\ pid \in [Procs -> Pids]
    /\ pc \in [Procs -> Steps]
    /\ tries \in [Procs -> 0 .. 2]
    /\ seen \in [Procs -> Procs \cup {NoFile}]
    /\ lock \in Procs \cup {NoFile}
    /\ token \in [Procs -> BOOLEAN]
    /\ crossed \in BOOLEAN

\* acquire() decided that the file it read is stale: its owner is dead, or it is
\* its own file of an earlier acquisition, however pids were reused, whatever
\* start tokens could be read, and whoever was born since.
StaleMeansDead ==
    \A p \in Procs :
        At(p, "unlink") /\ seen[p] \notin {NoFile, p} => life[seen[p]] = "dead"

\* The process between acquire() and the end of release() holds the lock.
Holds(p) == Alive(p) /\ pc[p] \in {"holding", "release", "drop"}

\* As long as no take-over removed another file than the one it had judged, the
\* file names whoever holds the lock: there is one holder, and release() removes
\* no file but its own.
HolderIsNamed == ~crossed => \A p \in Procs : Holds(p) => lock = p

\* Living processes have pids of their own; a file names only processes that were
\* once alive.
PidsTellApart == \A p, q \in Procs : Alive(p) /\ Alive(q) /\ pid[p] = pid[q] => p = q

OnlyLivingAct == \A p \in Procs : ~Alive(p) => pc[p] = "idle"

OwnersWereBorn ==
    /\ lock \in Procs => life[lock] # "unborn"
    /\ \A p \in Procs : seen[p] \in Procs => life[seen[p]] # "unborn"

\* What every step of the lock preserves.
LockInv ==
    /\ TypeOK
    /\ PidsTellApart
    /\ OnlyLivingAct
    /\ OwnersWereBorn
    /\ StaleMeansDead
    /\ HolderIsNamed

\* The promise of the header: one instance at a time past the lock.
AtMostOneHolder == \A p, q \in Procs : Holds(p) /\ Holds(q) => p = q
=============================================================================
