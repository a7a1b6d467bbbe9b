----------------------------- MODULE ProbeGroup -----------------------------
(***************************************************************************)
(* What collect() promises its caller, with no clock, no worker threads    *)
(* and no stages: every probe is settled exactly once, a snapshot is made  *)
(* only of answers, and only an optional probe may answer NotDetected.     *)
(***************************************************************************)
CONSTANTS
    Probe,      \* the probes one collect() runs
    Required    \* those whose result type leaves out NotDetected

VARIABLES
    task,       \* what became of each probe's asyncio task
    result,     \* the answer the task holds
    outcome     \* what collect() returned or raised

vars == <<task, result, outcome>>

Init ==
    /\ task = [p \in Probe |-> "running"]
    /\ result = [p \in Probe |-> "none"]
    /\ outcome = "pending"

\* A probe answers; NotDetected is an answer of the optional ones alone.
Answer(p, r) ==
    /\ task[p] = "running"
    /\ p \in Required => r = "value"
    /\ task' = [task EXCEPT ![p] = "done"]
    /\ result' = [result EXCEPT ![p] = r]
    /\ UNCHANGED outcome

\* A probe's task ends in an exception.
Fail(p) ==
    /\ task[p] = "running"
    /\ task' = [task EXCEPT ![p] = "failed"]
    /\ UNCHANGED <<result, outcome>>

\* After a failure the unfinished siblings are cancelled, all at once.
Abort ==
    /\ \E p \in Probe : task[p] = "failed"
    /\ task' = [p \in Probe |-> IF task[p] = "running" THEN "cancelled" ELSE task[p]]
    /\ UNCHANGED <<result, outcome>>

\* Nothing is decided while a task runs; one failure is enough to raise.
Decide ==
    /\ outcome = "pending"
    /\ \A p \in Probe : task[p] # "running"
    /\ outcome' = IF \A p \in Probe : task[p] = "done" THEN "snapshot" ELSE "error"
    /\ UNCHANGED <<task, result>>

Next ==
    \/ \E p \in Probe : Fail(p) \/ \E r \in {"value", "absent"} : Answer(p, r)
    \/ Abort
    \/ Decide

Spec == Init /\ [][Next]_vars
=============================================================================
