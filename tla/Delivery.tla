------------------------------- MODULE Delivery -------------------------------
(***************************************************************************)
(* What plan and generate promise the operator, with no commands, phases   *)
(* or process memory: a saved plan passes the rules, a delivery is of the  *)
(* plan on file and of one that passes, nothing else writes an artifact,   *)
(* and what counts as delivered is complete.  A refusal is no step at all. *)
(***************************************************************************)
CONSTANTS
    Name,       \* the artifacts
    Scripts,    \* those to be made executable
    Accepted    \* configurations with flags under which no rule stops them

VARIABLES
    plan,       \* the plan file
    art,        \* the output directory
    mode,       \* the executable artifacts
    saving,     \* the save under way, if any
    job,        \* the delivery under way, if any
    delivered   \* what a directory nobody has written to since was completed with

vars == <<plan, art, mode, saving, job, delivered>>
outDir == <<art, mode, delivered>>

Absent == [is |-> "absent"]
Torn == [is |-> "torn"]
Whole(x) == [is |-> "whole", of |-> x]

Init ==
    /\ plan = Absent
    /\ art = [n \in Name |-> Absent] /\ mode = {}
    /\ saving = {} /\ job = {} /\ delivered = {}

\* One command at a time is under way.
Idle == saving = {} /\ job = {}

------------------------------------------------------------------------------
(* The plan is replaced or edited, never while a delivery reads it. *)

BeginSave ==
    /\ Idle
    /\ \E x \in saving' : saving' = {x} /\ x \in Accepted
    /\ plan' = Torn
    /\ UNCHANGED <<outDir, job>>

EndSave ==
    /\ plan = Torn
    /\ \E x \in saving : plan' = Whole(x.config)
    /\ saving' = {}
    /\ UNCHANGED <<outDir, job>>

\* An editor may turn it into any other plan.
Edit ==
    /\ Idle /\ plan.is = "whole"
    /\ plan'.is = "whole"
    /\ UNCHANGED <<outDir, saving, job>>

------------------------------------------------------------------------------
(* A delivery *)

Begin ==
    /\ Idle
    /\ \E x \in job' : job' = {x} /\ x \in Accepted /\ plan = Whole(x.config)
    /\ UNCHANGED <<plan, outDir, saving>>

\* From the first artifact that is opened, what was delivered before is no more.
Open(n) ==
    /\ job # {}
    /\ art' = [art EXCEPT ![n] = Torn]
    /\ delivered' = {}
    /\ UNCHANGED <<plan, mode, saving, job>>

Close(n) ==
    /\ art[n] = Torn
    /\ \E x \in job : art' = [art EXCEPT ![n] = Whole(x)]
    /\ UNCHANGED <<plan, mode, saving, job, delivered>>

MakeExecutable(n) ==
    /\ n \in Scripts /\ \E x \in job : art[n] = Whole(x)
    /\ mode' = mode \union {n}
    /\ UNCHANGED <<plan, art, saving, job, delivered>>

Complete ==
    /\ \E x \in job : delivered' = {x} /\ \A n \in Name : art[n] = Whole(x)
    /\ mode' = Scripts
    /\ job' = {}
    /\ UNCHANGED <<plan, art, saving>>

------------------------------------------------------------------------------
\* What is cut short leaves what it has written.
GiveUp ==
    /\ ~Idle /\ saving' = {} /\ job' = {}
    /\ UNCHANGED <<plan, outDir>>

Next ==
    \/ BeginSave \/ EndSave \/ Edit
    \/ Begin \/ Complete \/ GiveUp
    \/ \E n \in Name : Open(n) \/ Close(n) \/ MakeExecutable(n)

Spec == Init /\ [][Next]_vars
===============================================================================
