---------------------------- MODULE AtLeastOnce -----------------------------
(***************************************************************************)
(* What the daemon promises for the records of an agent whose cursor is    *)
(* protected by output holds (docs/trace-output.md: "this is at least      *)
(* once"): a source grows, outputs take records in any order and any       *)
(* number of times, and the durable cursor, the only thing a restart       *)
(* remembers, moves forward over records that every output has taken.      *)
(***************************************************************************)
EXTENDS Naturals

CONSTANTS
    Sources,    \* inputs whose delivery is protected
    Outputs,    \* outputs that must take every record
    MaxRecords  \* bound: records of a source

VARIABLES
    produced,   \* records the agent has written
    taken,      \* records each output has taken
    cursor      \* durable cursor: records up to here are never read again

vars == <<produced, taken, cursor>>

Covered(s, n) == \A o \in Outputs : 1 .. n \subseteq taken[o][s]

Init ==
    /\ produced = [s \in Sources |-> 0]
    /\ taken = [o \in Outputs |-> [s \in Sources |-> {}]]
    /\ cursor = [s \in Sources |-> 0]

Produce(s) ==
    /\ produced[s] < MaxRecords
    /\ produced' = [produced EXCEPT ![s] = @ + 1]
    /\ UNCHANGED <<taken, cursor>>

Take(o, s) ==
    /\ \E records \in SUBSET (1 .. produced[s]) :
          taken' = [taken EXCEPT ![o][s] = @ \cup records]
    /\ UNCHANGED <<produced, cursor>>

\* One write of the checkpoint file may move several cursors.
Commit ==
    /\ cursor' \in [Sources -> 0 .. MaxRecords]
    /\ \A s \in Sources : cursor'[s] >= cursor[s] /\ Covered(s, cursor'[s])
    /\ UNCHANGED <<produced, taken>>

Next ==
    \/ \E s \in Sources : Produce(s)
    \/ \E o \in Outputs, s \in Sources : Take(o, s)
    \/ Commit

Spec == Init /\ [][Next]_vars
=============================================================================
