------------------------------ MODULE Discovery ------------------------------
(***************************************************************************)
(* discovery/aggregator.py: collect() starts every probe in one TaskGroup, *)
(* each under wait_for(10 s), all of them under wait_for(30 s).  A probe   *)
(* is a sequence of stages.  A stage first hands its blocking calls to the *)
(* default executor (asyncio.to_thread, and the name lookup of an HTTP     *)
(* request), whose few workers nothing can interrupt; a stage with a       *)
(* timeout of its own gives up by then and leaves its busy call behind.    *)
(* One tick of the clock is a second.  asyncio.run returns to the command  *)
(* only when the executor's threads have ended.                            *)
(***************************************************************************)
EXTENDS Naturals, Sequences, FiniteSets

CONSTANTS
    Probe,            \* the probes of this collect()
    Required,         \* wrapped by _required; the others by _optional
    SelfAbsent,       \* optional probes that may answer NotDetected themselves
    Raising,          \* probes that may raise something other than a timeout
    Stages,           \* Stages[p]: the stages of probe p, see StageRecord
    FirstJobs,        \* the first stages' calls, in the order they are submitted
    Workers,          \* threads of the default executor
    PerProbeTimeout,  \* _PER_PROBE_TIMEOUT_S
    TotalBudget,      \* _TOTAL_BUDGET_S
    LongestJob        \* no blocking call holds a worker for longer

\* calls: how long each blocking call may hold a worker.  timeout: the stage's
\* own, 0 for none.  mayReturn: its answer may already be the probe's answer.
StageRecord == [calls : Seq(Nat), timeout : Nat, mayReturn : BOOLEAN]

JobsOf(p, s) == {<<p, s, k>> : k \in DOMAIN Stages[p][s].calls}
Job == UNION {UNION {JobsOf(p, s) : s \in DOMAIN Stages[p]} : p \in Probe}
Bound(j) == Stages[j[1]][j[2]].calls[j[3]]
First(p) == JobsOf(p, 1)

ASSUME ProbeAssumption ==
    /\ Required \subseteq Probe
    /\ SelfAbsent \subseteq Probe \ Required
    /\ Raising \subseteq Probe
ASSUME StagesAssumption ==
    /\ Stages \in [Probe -> Seq(StageRecord)]
    /\ \A p \in Probe : Stages[p] # <<>>
ASSUME JobsAssumption ==
    /\ FirstJobs \in Seq(Job)
    /\ \A j \in Job : (\E i \in DOMAIN FirstJobs : FirstJobs[i] = j) <=> j[2] = 1
ASSUME TimeAssumption ==
    /\ PerProbeTimeout \in Nat /\ TotalBudget \in Nat /\ LongestJob \in Nat
    /\ \A j \in Job : Bound(j) <= LongestJob
ASSUME WorkersAssumption == Workers \in Nat \ {0}

VARIABLES
    now,       \* seconds since collect() was entered
    task,      \* state of each probe's task in the group
    result,    \* answer of each finished task
    stage,     \* the stage each probe is in
    entered,   \* when it entered that stage
    job,       \* state of every blocking call
    begun,     \* when a worker took it
    queue,     \* the executor's work queue
    outcome,   \* what collect() gave its caller
    swept,     \* asyncio.run has cancelled the tasks still left
    exited     \* asyncio.run has returned

probeVars == <<task, result, stage, entered>>
poolVars == <<job, begun, queue>>
vars == <<now, task, result, stage, entered, job, begun, queue, outcome, swept, exited>>

TaskState == {"running", "done", "raised", "timed_out", "cancelled"}
JobState == {"idle", "queued", "busy", "done", "dropped"}

TypeOK ==
    /\ now \in Nat
    /\ task \in [Probe -> TaskState]
    /\ result \in [Probe -> {"none", "value", "absent"}]
    /\ stage \in [Probe -> Nat \ {0}]
    /\ \A p \in Probe : stage[p] \in DOMAIN Stages[p]
    /\ entered \in [Probe -> Nat]
    /\ job \in [Job -> JobState]
    /\ begun \in [Job -> Nat]
    /\ queue \in Seq(Job)
    /\ outcome \in {"pending", "snapshot", "error"}
    /\ swept \in BOOLEAN
    /\ exited \in BOOLEAN

Init ==
    /\ now = 0
    /\ task = [p \in Probe |-> "running"]
    /\ result = [p \in Probe |-> "none"]
    /\ stage = [p \in Probe |-> 1]
    /\ entered = [p \in Probe |-> 0]
    /\ job = [j \in Job |-> IF j[2] = 1 THEN "queued" ELSE "idle"]
    /\ begun = [j \in Job |-> 0]
    /\ queue = FirstJobs
    /\ outcome = "pending"
    /\ swept = FALSE
    /\ exited = FALSE

------------------------------------------------------------------------------
(* The executor *)

Busy == {j \in Job : job[j] = "busy"}
FreeWorker == Cardinality(Busy) < Workers
\* Cancelling a future takes its call back only if no worker has it yet.
Dropped(j, js) == j \in js /\ job[j] = "queued"

\* Mutant: the newest call is served first.
WorkerTakesNewest ==
    LET j == queue[Len(queue)] IN
    /\ FreeWorker /\ queue # <<>> /\ job[j] = "queued"
    /\ job' = [job EXCEPT ![j] = "busy"]
    /\ begun' = [begun EXCEPT ![j] = now]
    /\ queue' = SubSeq(queue, 1, Len(queue) - 1)
    /\ UNCHANGED <<now, probeVars, outcome, swept, exited>>

WorkerTakes ==
    /\ FreeWorker /\ queue # <<>> /\ job[Head(queue)] = "queued"
    /\ job' = [job EXCEPT ![Head(queue)] = "busy"]
    /\ begun' = [begun EXCEPT ![Head(queue)] = now]
    /\ queue' = Tail(queue)
    /\ UNCHANGED <<now, probeVars, outcome, swept, exited>>

WorkerSkips ==
    /\ FreeWorker /\ queue # <<>> /\ job[Head(queue)] # "queued"
    /\ queue' = Tail(queue)
    /\ UNCHANGED <<now, probeVars, job, begun, outcome, swept, exited>>

JobEnds(j) ==
    /\ job[j] = "busy"
    /\ job' = [job EXCEPT ![j] = "done"]
    /\ UNCHANGED <<now, probeVars, begun, queue, outcome, swept, exited>>

------------------------------------------------------------------------------
(* The probes *)

Current(p) == JobsOf(p, stage[p])
Own(p) == {j \in Job : j[1] = p}
OwnTimeout(p) == Stages[p][stage[p]].timeout
LastStage(p) == stage[p] = Len(Stages[p])
CallsDone(p) == \A j \in Current(p) : job[j] = "done"

NextStage(p) ==
    LET s == stage[p] + 1 IN
    /\ ~LastStage(p)
    /\ stage' = [stage EXCEPT ![p] = s]
    /\ entered' = [entered EXCEPT ![p] = now]
    /\ job' = [j \in Job |-> IF j \in JobsOf(p, s) THEN "queued"
                             ELSE IF Dropped(j, Current(p)) THEN "dropped" ELSE job[j]]
    /\ queue' = queue \o [k \in DOMAIN Stages[p][s].calls |-> <<p, s, k>>]
    /\ UNCHANGED <<task, result>>

Return(p) ==
    /\ task' = [task EXCEPT ![p] = "done"]
    /\ \E r \in {"value"} \union (IF p \in SelfAbsent THEN {"absent"} ELSE {}) :
          result' = [result EXCEPT ![p] = r]
    /\ job' = [j \in Job |-> IF Dropped(j, Current(p)) THEN "dropped" ELSE job[j]]
    /\ UNCHANGED <<stage, entered, queue>>

\* Mutant: a thread's answer counts although its task was given up.
StageAnswersLate(p) ==
    /\ task[p] \in {"running", "done"} /\ CallsDone(p)
    /\ \/ NextStage(p)
       \/ (LastStage(p) \/ Stages[p][stage[p]].mayReturn) /\ Return(p)
    /\ UNCHANGED <<now, begun, outcome, swept, exited>>

\* The stage's calls are back; the probe goes on or is done.
StageAnswers(p) ==
    /\ task[p] = "running" /\ CallsDone(p)
    /\ \/ NextStage(p)
       \/ (LastStage(p) \/ Stages[p][stage[p]].mayReturn) /\ Return(p)
    /\ UNCHANGED <<now, begun, outcome, swept, exited>>

\* The stage fails or its own timeout ends it: the next one is tried, and
\* after the last the probe answers with what it has.
StageGivesUp(p) ==
    /\ task[p] = "running" /\ OwnTimeout(p) > 0
    /\ \/ NextStage(p)
       \/ LastStage(p) /\ Return(p)
    /\ UNCHANGED <<now, begun, outcome, swept, exited>>

\* An exception the probe does not catch leaves its task.
Raise(p) ==
    /\ task[p] = "running" /\ p \in Raising
    /\ Current(p) = {} \/ \E j \in Current(p) : job[j] = "done"
    /\ task' = [task EXCEPT ![p] = "raised"]
    /\ UNCHANGED <<now, result, stage, entered, poolVars, outcome, swept, exited>>

------------------------------------------------------------------------------
(* _required, _optional and collect *)

\* Mutant: the budget is a second short.
TimedOutEarly(p) == task[p] = "running" /\ now + 1 >= PerProbeTimeout

TimedOut(p) == task[p] = "running" /\ now >= PerProbeTimeout
Cancel(ps) ==
    job' = [j \in Job |-> IF Dropped(j, UNION {Own(p) : p \in ps}) THEN "dropped" ELSE job[j]]

\* Mutant: a required probe is downgraded like an optional one.
RequiredDowngraded(p) ==
    /\ p \in Required /\ TimedOut(p)
    /\ task' = [task EXCEPT ![p] = "done"]
    /\ result' = [result EXCEPT ![p] = "absent"]
    /\ Cancel({p})
    /\ UNCHANGED <<now, stage, entered, begun, queue, outcome, swept, exited>>

RequiredTimesOut(p) ==
    /\ p \in Required /\ TimedOut(p)
    /\ task' = [task EXCEPT ![p] = "timed_out"]
    /\ Cancel({p})
    /\ UNCHANGED <<now, result, stage, entered, begun, queue, outcome, swept, exited>>

\* Mutant: the reason is returned instead of a NotDetected.
OptionalGivesReason(p) ==
    /\ p \notin Required /\ TimedOut(p)
    /\ task' = [task EXCEPT ![p] = "done"]
    /\ result' = [result EXCEPT ![p] = "reason"]
    /\ Cancel({p})
    /\ UNCHANGED <<now, stage, entered, begun, queue, outcome, swept, exited>>

\* Mutant: the TimeoutError of an optional probe is not caught.
OptionalNotCaught(p) ==
    /\ p \notin Required /\ TimedOut(p)
    /\ task' = [task EXCEPT ![p] = "timed_out"]
    /\ Cancel({p})
    /\ UNCHANGED <<now, result, stage, entered, begun, queue, outcome, swept, exited>>

OptionalTimesOut(p) ==
    /\ p \notin Required /\ TimedOut(p)
    /\ task' = [task EXCEPT ![p] = "done"]
    /\ result' = [result EXCEPT ![p] = "absent"]
    /\ Cancel({p})
    /\ UNCHANGED <<now, stage, entered, begun, queue, outcome, swept, exited>>

Running == {p \in Probe : task[p] = "running"}
Failed == {p \in Probe : task[p] \in {"raised", "timed_out"}}
CancelRunning ==
    /\ task' = [p \in Probe |-> IF p \in Running THEN "cancelled" ELSE task[p]]
    /\ Cancel(Running)

\* The group cancels the siblings of a failed task.
Abort ==
    /\ Failed # {} /\ Running # {}
    /\ CancelRunning
    /\ UNCHANGED <<now, result, stage, entered, begun, queue, outcome, swept, exited>>

\* Mutant: only exceptions other than a timeout fail the group.
JoinIgnoresTimeouts ==
    /\ outcome = "pending" /\ Running = {}
    /\ outcome' = IF \A p \in Probe : task[p] # "raised" THEN "snapshot" ELSE "error"
    /\ UNCHANGED <<now, probeVars, poolVars, swept, exited>>

\* The group is left when no task of it runs.  A probe that raised may still have
\* calls queued: gather() does not cancel the other calls it was given.
Join ==
    /\ outcome = "pending" /\ Running = {}
    /\ outcome' = IF \A p \in Probe : task[p] = "done" THEN "snapshot" ELSE "error"
    /\ UNCHANGED <<now, probeVars, poolVars, swept, exited>>

\* Mutant: calls nobody waits for any more stay in the queue.
CancelLeftKeepsCalls ==
    /\ outcome # "pending" /\ ~swept
    /\ swept' = TRUE
    /\ UNCHANGED <<now, probeVars, poolVars, outcome, exited>>

\* collect() is over; asyncio.run cancels the tasks still left, and with them the
\* calls that no worker has taken by now.
CancelLeft ==
    /\ outcome # "pending" /\ ~swept
    /\ swept' = TRUE
    /\ Cancel(Probe)
    /\ UNCHANGED <<now, probeVars, begun, queue, outcome, exited>>

\* Mutant: the total budget is a second short.
TotalTimesOutEarly ==
    /\ outcome = "pending" /\ Running # {} /\ now + 1 >= TotalBudget
    /\ CancelRunning
    /\ UNCHANGED <<now, result, stage, entered, begun, queue, outcome, swept, exited>>

TotalTimesOut ==
    /\ outcome = "pending" /\ Running # {} /\ now >= TotalBudget
    /\ CancelRunning
    /\ UNCHANGED <<now, result, stage, entered, begun, queue, outcome, swept, exited>>

\* Mutant: the command comes back after a snapshot only.
ExitOnSuccess ==
    /\ swept /\ ~exited /\ Busy = {}
    /\ exited' = (outcome = "snapshot")
    /\ UNCHANGED <<now, probeVars, poolVars, outcome, swept>>

\* The runner joins the executor's threads before asyncio.run returns.
Exit ==
    /\ swept /\ ~exited /\ Busy = {}
    /\ exited' = TRUE
    /\ UNCHANGED <<now, probeVars, poolVars, outcome, swept>>

------------------------------------------------------------------------------
(* Time passes only when nothing is due. *)

StageDue(p) ==
    IF OwnTimeout(p) = 0 THEN CallsDone(p) ELSE now >= entered[p] + OwnTimeout(p)

\* Mutant: the timeouts of blocking calls are the event loop's, gone when it is.
DueWithoutCallTimeouts ==
    \/ FreeWorker /\ queue # <<>>
    \/ outcome = "pending" /\ \E j \in Busy : now >= begun[j] + Bound(j)
    \/ \E p \in Running : StageDue(p) \/ now >= PerProbeTimeout
    \/ Failed # {} /\ Running # {}
    \/ outcome = "pending" /\ (Running = {} \/ now >= TotalBudget)
    \/ outcome # "pending" /\ (~swept \/ Busy = {})

\* Mutant: no wait_for around the probes nor around the group.
DueWithoutBudgets ==
    \/ FreeWorker /\ queue # <<>>
    \/ \E j \in Busy : now >= begun[j] + Bound(j)
    \/ \E p \in Running : StageDue(p)
    \/ Failed # {} /\ Running # {}
    \/ outcome = "pending" /\ Running = {}
    \/ outcome # "pending" /\ (~swept \/ Busy = {})

Due ==
    \/ FreeWorker /\ queue # <<>>
    \/ \E j \in Busy : now >= begun[j] + Bound(j)
    \/ \E p \in Running : StageDue(p) \/ now >= PerProbeTimeout
    \/ Failed # {} /\ Running # {}
    \/ outcome = "pending" /\ (Running = {} \/ now >= TotalBudget)
    \/ outcome # "pending" /\ (~swept \/ Busy = {})

Tick ==
    /\ ~exited /\ ~Due
    /\ now' = now + 1
    /\ UNCHANGED <<probeVars, poolVars, outcome, swept, exited>>

Terminated == exited /\ UNCHANGED vars

Next ==
    \/ WorkerTakes \/ WorkerSkips
    \/ \E j \in Job : JobEnds(j)
    \/ \E p \in Probe : StageAnswers(p) \/ StageGivesUp(p) \/ Raise(p)
                        \/ RequiredTimesOut(p) \/ OptionalTimesOut(p)
    \/ Abort \/ Join \/ TotalTimesOut \/ CancelLeft \/ Exit
    \/ Tick
    \/ Terminated

Spec == Init /\ [][Next]_vars
\* The event loop runs what is ready and every blocking call is bounded.
Fairness == WF_vars(Next)
FairSpec == Spec /\ Fairness

------------------------------------------------------------------------------
(* What collect() and asyncio.run guarantee. *)

\* A snapshot holds an answer of every probe, and NotDetected in no field whose
\* type leaves it out (collect returning EnvironmentSnapshot).
SnapshotComplete ==
    outcome = "snapshot" =>
        /\ \A p \in Probe : task[p] = "done" /\ result[p] # "none"
        /\ \A p \in Required : result[p] = "value"

\* collect() decides within the per-probe budget and never past the total one,
\* whatever the workers are still doing (wait_for abandons threads, it does not
\* wait for them).
DecidedInTime == outcome = "pending" => now <= PerProbeTimeout /\ now <= TotalBudget

\* The command itself is held up by the threads collect() left behind, but for
\* no longer than one blocking call (asyncio.run joins the executor).
ExitsInTime == ~exited => now <= PerProbeTimeout + LongestJob

\* collect() raises because a required probe was late, a probe raised, or the
\* total budget was spent: a late optional probe alone costs only its field
\* (_optional turns its TimeoutError into NotDetected).
ErrorHasCause ==
    outcome = "error" =>
        \/ \E p \in Required : task[p] = "timed_out"
        \/ \E p \in Raising : task[p] = "raised"
        \/ now >= TotalBudget

\* A field says NotDetected although its probe has no such answer only when that
\* probe really had the whole per-probe budget (_optional and firewall.probe).
AbsentOnlyWhenLate ==
    \A p \in Probe \ SelfAbsent : result[p] = "absent" => now >= PerProbeTimeout

\* A probe of one stage, whose calls are shorter than the budget.
Short(p) == Len(Stages[p]) = 1 /\ \A j \in First(p) : Bound(j) < PerProbeTimeout

\* Slow optional probes take workers away, yet a required probe that needs one
\* blocking call shorter than its budget is never late for lack of a worker
\* (the order in which collect() creates the tasks).
NoStarvation ==
    \A p \in Required : Short(p) => task[p] # "timed_out"

\* The calls of p are among the first that the executor is given, one for each
\* worker; or p gives up by itself before the budget ends.
ServedAtOnce(p) ==
    \/ \A j \in First(p) : \E i \in DOMAIN FirstJobs : i <= Workers /\ FirstJobs[i] = j
    \/ Stages[p][1].timeout > 0
\* Without this NoStarvation would not hold: the default executor has 5 workers or
\* more, and system and tls are among the first three to be served.
Punctual ==
    /\ PerProbeTimeout > 0
    /\ \A p \in Required : Short(p) => ServedAtOnce(p) /\ Stages[p][1].timeout < PerProbeTimeout

\* What a task ended with stands: an answer that a worker brings later, after a
\* timeout or a cancellation, replaces neither NotDetected nor the outcome.
VerdictsStand ==
    [][/\ \A p \in Probe \ Running : task'[p] = task[p] /\ result'[p] = result[p]
       /\ outcome # "pending" => outcome' = outcome]_vars

\* No blocking call (a subprocess, a socket) is started for a task that was
\* cancelled, was late or has answered.  One that raised may leave calls queued
\* which a worker still starts, even after collect() has decided, but none once
\* asyncio.run has cancelled what was left.
NothingStartsLate ==
    [][\A j \in Job : job[j] # "busy" /\ job'[j] = "busy" =>
          task[j[1]] = "running" \/ (task[j[1]] = "raised" /\ ~swept)]_vars

\* inspect always comes to an end, with a snapshot or an error.
Terminates == <>exited

\* The module's own claim, aggregator.py:6-9: required probes honour their
\* internal timeouts and do not breach the per-probe budget.
RequiredKeepTime == \A p \in Required : task[p] # "timed_out"

\* collect() keeps the promise of ProbeGroup: late and raising tasks are its
\* failures, and the total budget never decides.
GroupTask == [p \in Probe |-> IF p \in Failed THEN "failed" ELSE task[p]]
Group == INSTANCE ProbeGroup WITH task <- GroupTask
ImplementsProbeGroup == Group!Spec
==============================================================================
