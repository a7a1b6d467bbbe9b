--------------------------- MODULE DiscoveryProofs ---------------------------
(***************************************************************************)
(* What collect() guarantees for any set of probes, any stages and any     *)
(* number of workers.                                                      *)
(***************************************************************************)
EXTENDS Discovery, SequenceTheorems, FiniteSetTheorems, TLAPS

\* The calls of a probe's stage are jobs of that probe, held for a known time.
LEMMA JobFacts ==
    ASSUME NEW p \in Probe, NEW s \in DOMAIN Stages[p]
    PROVE  /\ Stages[p][s] \in StageRecord
           /\ JobsOf(p, s) \subseteq Job
           /\ \A j \in JobsOf(p, s) : j[1] = p
           /\ [k \in DOMAIN Stages[p][s].calls |-> <<p, s, k>>] \in Seq(Job)
<1>1. Stages[p] \in Seq(StageRecord)
  BY StagesAssumption
<1>2. Stages[p][s] \in StageRecord
  BY <1>1
<1>3. JobsOf(p, s) \subseteq Job
  BY DEF Job
<1>4. \A j \in JobsOf(p, s) : j[1] = p
  BY DEF JobsOf
<1>5. [k \in DOMAIN Stages[p][s].calls |-> <<p, s, k>>] \in Seq(Job)
  <2>1. \A k \in DOMAIN Stages[p][s].calls : <<p, s, k>> \in Job
    BY <1>3 DEF JobsOf
  <2>2. PICK n \in Nat : DOMAIN Stages[p][s].calls = 1..n
    BY <1>2 DEF StageRecord
  <2> QED BY <2>1, <2>2
<1> QED BY <1>2, <1>3, <1>4, <1>5

\* Stages are numbered from 1 and every probe has a first one.
LEMMA StageNumbers ==
    ASSUME NEW p \in Probe
    PROVE  /\ Len(Stages[p]) \in Nat \ {0}
           /\ DOMAIN Stages[p] = 1..Len(Stages[p])
<1>1. Stages[p] \in Seq(StageRecord) /\ Stages[p] # <<>>
  BY StagesAssumption
<1> QED BY <1>1, EmptySeq

\* Every job belongs to a stage of a probe and its bound is a number.
LEMMA JobShape ==
    ASSUME NEW j \in Job
    PROVE  /\ j[1] \in Probe
           /\ Bound(j) \in Nat
<1>1. PICK p \in Probe : \E s \in DOMAIN Stages[p] : j \in JobsOf(p, s)
  BY DEF Job
<1>5. PICK s \in DOMAIN Stages[p] : j \in JobsOf(p, s)
  BY <1>1
<1>2. PICK k \in DOMAIN Stages[p][s].calls : j = <<p, s, k>>
  BY <1>5 DEF JobsOf
<1>3. Stages[p][s] \in StageRecord
  BY JobFacts
<1>4. Bound(j) \in Nat
  BY <1>2, <1>3 DEF Bound, StageRecord
<1> QED BY <1>2, <1>4

\* Type correctness of the whole collect() state (aggregator.py and the
\* executor it uses).
THEOREM TypeCorrect == Spec => []TypeOK
<1>1. Init => TypeOK
  <2> SUFFICES ASSUME Init PROVE TypeOK
    OBVIOUS
  <2>1. \A p \in Probe : 1 \in DOMAIN Stages[p]
    BY StageNumbers
  <2>2. task \in [Probe -> TaskState] /\ job \in [Job -> JobState] /\ begun \in [Job -> Nat]
    BY DEF Init, TaskState, JobState
  <2>3. queue \in Seq(Job)
    BY JobsAssumption DEF Init
  <2>4. stage \in [Probe -> Nat \ {0}] /\ \A p \in Probe : stage[p] \in DOMAIN Stages[p]
    BY <2>1 DEF Init
  <2> QED BY <2>2, <2>3, <2>4 DEF Init, TypeOK
<1>2. TypeOK /\ [Next]_vars => TypeOK'
  <2> SUFFICES ASSUME TypeOK, [Next]_vars PROVE TypeOK'
    OBVIOUS
  <2> USE DEF TypeOK, TaskState, JobState
  <2>1. CASE WorkerTakes
    BY <2>1 DEF WorkerTakes, probeVars
  <2>2. CASE WorkerSkips
    BY <2>2 DEF WorkerSkips, probeVars
  <2>3. ASSUME NEW j \in Job, JobEnds(j) PROVE TypeOK'
    BY <2>3 DEF JobEnds, probeVars
  <2>4. ASSUME NEW p \in Probe, NextStage(p),
               UNCHANGED <<now, begun, outcome, swept, exited>>
        PROVE  TypeOK'
    <3>1. stage[p] + 1 \in DOMAIN Stages[p]
      BY <2>4, StageNumbers DEF NextStage, LastStage
    <3>2. queue' \in Seq(Job)
      <4>1. [k \in DOMAIN Stages[p][stage[p] + 1].calls |-> <<p, stage[p] + 1, k>>] \in Seq(Job)
        BY <3>1, JobFacts
      <4> QED BY <2>4, <4>1 DEF NextStage
    <3>3. job' \in [Job -> JobState]
      BY <2>4 DEF NextStage
    <3>4. stage' \in [Probe -> Nat \ {0}] /\ \A q \in Probe : stage'[q] \in DOMAIN Stages[q]
      BY <2>4, <3>1 DEF NextStage
    <3>5. entered' \in [Probe -> Nat]
      BY <2>4 DEF NextStage
    <3> QED BY <2>4, <3>2, <3>3, <3>4, <3>5 DEF NextStage
  <2>5. ASSUME NEW p \in Probe, Return(p),
               UNCHANGED <<now, begun, outcome, swept, exited>>
        PROVE  TypeOK'
    BY <2>5 DEF Return
  <2>6. ASSUME NEW p \in Probe, StageAnswers(p) PROVE TypeOK'
    BY <2>4, <2>5, <2>6 DEF StageAnswers
  <2>7. ASSUME NEW p \in Probe, StageGivesUp(p) PROVE TypeOK'
    BY <2>4, <2>5, <2>7 DEF StageGivesUp
  <2>8. ASSUME NEW p \in Probe, Raise(p) PROVE TypeOK'
    BY <2>8 DEF Raise, poolVars
  <2>9. ASSUME NEW p \in Probe, RequiredTimesOut(p) PROVE TypeOK'
    BY <2>9 DEF RequiredTimesOut, Cancel
  <2>10. ASSUME NEW p \in Probe, OptionalTimesOut(p) PROVE TypeOK'
    BY <2>10 DEF OptionalTimesOut, Cancel
  <2>11. CASE Abort
    BY <2>11 DEF Abort, CancelRunning, Cancel
  <2>12. CASE Join
    BY <2>12 DEF Join, probeVars, poolVars
  <2>13. CASE TotalTimesOut
    BY <2>13 DEF TotalTimesOut, CancelRunning, Cancel
  <2>14. CASE Exit
    BY <2>14 DEF Exit, probeVars, poolVars
  <2>15. CASE Tick
    BY <2>15 DEF Tick, probeVars, poolVars
  <2>16. CASE UNCHANGED vars
    BY <2>16 DEF vars
  <2>17. CASE CancelLeft
    BY <2>17 DEF CancelLeft, Cancel, probeVars
  <2> QED BY <2>1, <2>2, <2>3, <2>6, <2>7, <2>8, <2>9, <2>10, <2>11, <2>12,
             <2>13, <2>14, <2>15, <2>16, <2>17 DEF Next, Terminated
<1> QED BY <1>1, <1>2, PTL DEF Spec
------------------------------------------------------------------------------
(* Time *)

\* Once collect() has decided nothing runs, and once what was left is cancelled no
\* call waits for a worker; what a worker holds it took before the per-probe budget
\* was spent.
TimeInv ==
    /\ ~swept => now <= PerProbeTimeout /\ now <= TotalBudget
    /\ outcome = "pending" => ~swept
    /\ outcome # "pending" => Running = {}
    /\ swept => \A j \in Job : job[j] # "queued"
    /\ \A j \in Job : job[j] = "busy" => begun[j] <= PerProbeTimeout
    /\ \A j \in Job : job[j] = "busy" /\ ~exited => now <= begun[j] + Bound(j)
    /\ ~exited => now <= PerProbeTimeout + LongestJob

\* No action but Tick moves the clock, so the clauses that bound it need only
\* the calls that a worker newly takes.
LEMMA TimeStep == TypeOK /\ TimeInv /\ [Next]_vars => TimeInv'
<1> SUFFICES ASSUME TypeOK, TimeInv, [Next]_vars PROVE TimeInv'
  OBVIOUS
<1> USE DEF TypeOK, TimeInv, Running, TaskState, JobState
<1>1. CASE WorkerTakes
  <2>1. Head(queue) \in Job
    BY <1>1 DEF WorkerTakes
  <2>2. ~swept
    BY <1>1, <2>1 DEF WorkerTakes
  <2>3. Bound(Head(queue)) \in Nat
    BY <2>1, JobShape
  <2> QED BY <1>1, <2>1, <2>2, <2>3 DEF WorkerTakes, probeVars
<1>2. CASE WorkerSkips
  BY <1>2 DEF WorkerSkips, probeVars
<1>3. ASSUME NEW j \in Job, JobEnds(j) PROVE TimeInv'
  BY <1>3 DEF JobEnds, probeVars
<1>4. ASSUME NEW p \in Probe, task[p] = "running", NextStage(p) \/ Return(p),
             UNCHANGED <<now, begun, outcome, swept, exited>>
      PROVE  TimeInv'
  <2>1. outcome = "pending"
    BY <1>4
  <2>2. \A j \in Job : job'[j] = "busy" => job[j] = "busy"
    BY <1>4 DEF NextStage, Return
  <2> QED BY <1>4, <2>1, <2>2
<1>5. ASSUME NEW p \in Probe, StageAnswers(p) \/ StageGivesUp(p) PROVE TimeInv'
  BY <1>4, <1>5 DEF StageAnswers, StageGivesUp
<1>6. ASSUME NEW p \in Probe, Raise(p) PROVE TimeInv'
  BY <1>6 DEF Raise, poolVars
<1>7. ASSUME NEW p \in Probe, RequiredTimesOut(p) \/ OptionalTimesOut(p) PROVE TimeInv'
  <2>1. outcome = "pending" /\ UNCHANGED <<now, begun, outcome, swept, exited>>
    BY <1>7 DEF RequiredTimesOut, OptionalTimesOut, TimedOut
  <2>2. \A j \in Job : job'[j] = "busy" => job[j] = "busy"
    BY <1>7 DEF RequiredTimesOut, OptionalTimesOut, Cancel
  <2> QED BY <2>1, <2>2
<1>8. CASE Abort \/ TotalTimesOut
  <2>1. outcome = "pending" /\ UNCHANGED <<now, begun, outcome, swept, exited>>
    BY <1>8 DEF Abort, TotalTimesOut
  <2>2. \A j \in Job : job'[j] = "busy" => job[j] = "busy"
    BY <1>8 DEF Abort, TotalTimesOut, CancelRunning, Cancel
  <2> QED BY <2>1, <2>2
<1>9. CASE Join
  BY <1>9 DEF Join, probeVars, poolVars
<1>13. CASE CancelLeft
  <2>1. \A j \in Job : j \in UNION {Own(p) : p \in Probe}
    BY JobShape DEF Own
  <2>2. \A j \in Job : job'[j] # "queued" /\ (job'[j] = "busy" => job[j] = "busy")
    BY <1>13, <2>1 DEF CancelLeft, Cancel, Dropped
  <2> QED BY <1>13, <2>2 DEF CancelLeft, probeVars
<1>10. CASE Exit
  BY <1>10 DEF Exit, probeVars, poolVars
<1>11. CASE Tick
  <2> USE <1>11, TimeAssumption DEF Tick, probeVars, poolVars
  <2>1. \A j \in Job : job[j] = "busy" => now + 1 <= begun[j] + Bound(j)
    BY JobShape DEF Due, Busy
  <2>2. ~swept => now + 1 <= PerProbeTimeout /\ now + 1 <= TotalBudget
    BY DEF Due
  <2>3. now + 1 <= PerProbeTimeout + LongestJob
    <3>1. CASE ~swept
      BY <2>2, <3>1
    <3>2. CASE swept
      <4>1. PICK j \in Job : job[j] = "busy"
        BY <3>2 DEF Due, Busy
      <4>2. Bound(j) \in Nat /\ Bound(j) <= LongestJob
        BY JobShape
      <4> QED BY <2>1, <4>1, <4>2
    <3> QED BY <3>1, <3>2
  <2> QED BY <2>1, <2>2, <2>3
<1>12. CASE UNCHANGED vars
  BY <1>12 DEF vars
<1> QED BY <1>1, <1>2, <1>3, <1>5, <1>6, <1>7, <1>8, <1>9, <1>10, <1>11, <1>12, <1>13
        DEF Next, Terminated

\* The bounds on the clock hold at every moment of collect() and of asyncio.run.
LEMMA TimeInvariant == Spec => []TimeInv
<1>1. Init => TimeInv
  BY TimeAssumption DEF Init, TimeInv
<1> QED BY <1>1, TimeStep, TypeCorrect, PTL DEF Spec

\* collect() decides within the per-probe budget and the total one
\* (aggregator.py:49-59 and 88), whatever its probes and workers do.
THEOREM Deciding == Spec => []DecidedInTime
<1>1. TimeInv => DecidedInTime
  BY DEF TimeInv, DecidedInTime
<1> QED BY <1>1, TimeInvariant, PTL

\* The threads collect() leaves behind hold the command up for one blocking
\* call at most (asyncio.run in cli.py:47, which joins the executor).
THEOREM Exiting == Spec => []ExitsInTime
<1>1. TimeInv => ExitsInTime
  BY DEF TimeInv, ExitsInTime
<1> QED BY <1>1, TimeInvariant, PTL

------------------------------------------------------------------------------
(* Answers *)

\* An answered task holds an answer, a required task's is never NotDetected, and
\* collect() decides when no task runs.
AnswerInv ==
    /\ \A p \in Probe : task[p] = "done" => result[p] # "none"
    /\ \A p \in Required : result[p] # "absent"
    /\ outcome # "pending" => Running = {}
    /\ outcome = "snapshot" => \A p \in Probe : task[p] = "done"

\* An answer is written together with "done", and NotDetected only by _optional or
\* by an optional probe.
LEMMA AnswerStep == TypeOK /\ AnswerInv /\ [Next]_vars => AnswerInv'
<1> SUFFICES ASSUME TypeOK, AnswerInv, [Next]_vars PROVE AnswerInv'
  OBVIOUS
<1> USE ProbeAssumption DEF TypeOK, AnswerInv, Running, TaskState
<1>1. CASE UNCHANGED <<task, result, outcome>>
  BY <1>1
<1>2. ASSUME NEW p \in Probe, task[p] = "running", Return(p), outcome' = outcome
      PROVE  AnswerInv'
  BY <1>2 DEF Return
<1>3. ASSUME NEW p \in Probe, StageAnswers(p) \/ StageGivesUp(p) PROVE AnswerInv'
  BY <1>1, <1>2, <1>3 DEF StageAnswers, StageGivesUp, NextStage
<1>4. ASSUME NEW p \in Probe, Raise(p) \/ RequiredTimesOut(p) PROVE AnswerInv'
  BY <1>4 DEF Raise, RequiredTimesOut, TimedOut
<1>5. ASSUME NEW p \in Probe, OptionalTimesOut(p) PROVE AnswerInv'
  BY <1>5 DEF OptionalTimesOut, TimedOut
<1>6. CASE Abort \/ TotalTimesOut
  BY <1>6 DEF Abort, TotalTimesOut, CancelRunning
<1>7. CASE Join
  BY <1>7 DEF Join, probeVars
<1>8. CASE WorkerTakes \/ WorkerSkips \/ (\E j \in Job : JobEnds(j)) \/ CancelLeft \/ Exit \/ Tick
  BY <1>1, <1>8 DEF WorkerTakes, WorkerSkips, JobEnds, CancelLeft, Exit, Tick, probeVars
<1>9. CASE UNCHANGED vars
  BY <1>1, <1>9 DEF vars
<1> QED BY <1>3, <1>4, <1>5, <1>6, <1>7, <1>8, <1>9 DEF Next, Terminated

\* What the tasks hold fits what they ended with, at every moment.
LEMMA AnswerInvariant == Spec => []AnswerInv
<1>1. Init => AnswerInv
  BY ProbeAssumption DEF Init, AnswerInv
<1> QED BY <1>1, AnswerStep, TypeCorrect, PTL DEF Spec

\* A snapshot holds an answer of every probe and no NotDetected where the type
\* of the field has none (aggregator.py:75-86).
THEOREM Completeness == Spec => []SnapshotComplete
<1>1. TypeOK /\ AnswerInv => SnapshotComplete
  BY ProbeAssumption DEF TypeOK, AnswerInv, SnapshotComplete
<1> QED BY <1>1, AnswerInvariant, TypeCorrect, PTL
\* An answer that comes after the timeout, the cancellation or the decision
\* changes nothing (wait_for and TaskGroup, aggregator.py:49-74).
THEOREM Standing == Spec => VerdictsStand
<1> DEFINE Stand == /\ \A p \in Probe \ Running : task'[p] = task[p] /\ result'[p] = result[p]
                    /\ outcome # "pending" => outcome' = outcome
<1>1. TypeOK /\ [Next]_vars => [Stand]_vars
  <2> SUFFICES ASSUME TypeOK, Next PROVE Stand \/ UNCHANGED vars
    BY DEF vars
  <2> USE DEF TypeOK, Running
  <2>1. CASE UNCHANGED <<task, result>> /\ (outcome' = outcome \/ Join)
    BY <2>1 DEF Join
  <2>2. ASSUME NEW p \in Probe, StageAnswers(p) \/ StageGivesUp(p) PROVE Stand
    BY <2>2 DEF StageAnswers, StageGivesUp, NextStage, Return
  <2>3. ASSUME NEW p \in Probe, Raise(p) \/ RequiredTimesOut(p) \/ OptionalTimesOut(p)
        PROVE  Stand
    BY <2>3 DEF Raise, RequiredTimesOut, OptionalTimesOut, TimedOut
  <2>4. CASE Abort \/ TotalTimesOut
    BY <2>4 DEF Abort, TotalTimesOut, CancelRunning
  <2>5. CASE WorkerTakes \/ WorkerSkips \/ (\E j \in Job : JobEnds(j))
    BY <2>1, <2>5 DEF WorkerTakes, WorkerSkips, JobEnds, probeVars
  <2>6. CASE Join \/ CancelLeft \/ Exit \/ Tick
    BY <2>1, <2>6 DEF Join, CancelLeft, Exit, Tick, probeVars
  <2> QED BY <2>2, <2>3, <2>4, <2>5, <2>6 DEF Next, Terminated
<1> QED BY <1>1, TypeCorrect, PTL DEF Spec, VerdictsStand

------------------------------------------------------------------------------
(* Causes *)

\* A task is cancelled only for a failed sibling or for the total budget, a probe
\* that was late is a required one, and who may not raise does not.
CauseInv ==
    /\ \A p \in Probe : task[p] = "timed_out" => p \in Required
    /\ \A p \in Probe : task[p] = "raised" => p \in Raising
    /\ (\E p \in Probe : task[p] = "cancelled") => Failed # {} \/ now >= TotalBudget
    /\ outcome = "error" => \E p \in Probe : task[p] \notin {"running", "done"}
    /\ \A p \in Probe \ SelfAbsent : result[p] = "absent" => now >= PerProbeTimeout

\* Failed tasks stay failed and the clock runs forward, so that a cause once there
\* stays there.
LEMMA CauseStep == TypeOK /\ CauseInv /\ [Next]_vars => CauseInv'
<1> SUFFICES ASSUME TypeOK, CauseInv, [Next]_vars PROVE CauseInv'
  OBVIOUS
<1> USE TimeAssumption DEF TypeOK, CauseInv, Running, Failed, TaskState
<1>1. CASE UNCHANGED <<now, task, result, outcome>>
  BY <1>1
<1>2. ASSUME NEW p \in Probe, task[p] = "running", Return(p), UNCHANGED <<now, outcome>>
      PROVE  CauseInv'
  <2>1. PICK r \in {"value", "absent"} :
           result' = [result EXCEPT ![p] = r] /\ (r = "absent" => p \in SelfAbsent)
    BY <1>2 DEF Return
  <2>2. task' = [task EXCEPT ![p] = "done"]
    BY <1>2 DEF Return
  <2> QED BY <1>2, <2>1, <2>2
<1>3. ASSUME NEW p \in Probe, StageAnswers(p) \/ StageGivesUp(p) PROVE CauseInv'
  BY <1>1, <1>2, <1>3 DEF StageAnswers, StageGivesUp, NextStage
<1>4. ASSUME NEW p \in Probe, Raise(p) \/ RequiredTimesOut(p) PROVE CauseInv'
  BY <1>4 DEF Raise, RequiredTimesOut, TimedOut
<1>5. ASSUME NEW p \in Probe, OptionalTimesOut(p) PROVE CauseInv'
  BY <1>5 DEF OptionalTimesOut, TimedOut
<1>6. CASE Abort \/ TotalTimesOut
  <2>1. /\ task' = [p \in Probe |-> IF p \in Running THEN "cancelled" ELSE task[p]]
        /\ UNCHANGED <<now, result, outcome>>
        /\ Failed # {} \/ now >= TotalBudget
    BY <1>6 DEF Abort, TotalTimesOut, CancelRunning
  <2>2. Failed' = Failed
    BY <2>1
  <2> QED BY <2>1, <2>2
<1>7. CASE Join
  <2>1. /\ UNCHANGED <<now, task, result>>
        /\ outcome' = IF \A p \in Probe : task[p] = "done" THEN "snapshot" ELSE "error"
        /\ \A p \in Probe : task[p] # "running"
    BY <1>7 DEF Join, probeVars
  <2>2. outcome' = "error" => \E p \in Probe : task[p] \notin {"running", "done"}
    BY <2>1
  <2> QED BY <2>1, <2>2
<1>8. CASE Tick
  BY <1>8 DEF Tick, probeVars, poolVars
<1>9. CASE WorkerTakes \/ WorkerSkips \/ (\E j \in Job : JobEnds(j)) \/ CancelLeft \/ Exit
  BY <1>1, <1>9 DEF WorkerTakes, WorkerSkips, JobEnds, CancelLeft, Exit, probeVars
<1>10. CASE UNCHANGED vars
  BY <1>1, <1>10 DEF vars
<1> QED BY <1>3, <1>4, <1>5, <1>6, <1>7, <1>8, <1>9, <1>10 DEF Next, Terminated

\* Every failure has its cause, at every moment.
LEMMA CauseInvariant == Spec => []CauseInv
<1>1. Init => CauseInv
  BY DEF Init, CauseInv
<1> QED BY <1>1, CauseStep, TypeCorrect, PTL DEF Spec

\* collect() raises for a late required probe, a probe that raised or a spent
\* total budget, and for nothing else (aggregator.py:49-72, 88).
THEOREM HavingCause == Spec => []ErrorHasCause
<1>1. TypeOK /\ CauseInv => ErrorHasCause
  <2> SUFFICES ASSUME TypeOK, CauseInv, outcome = "error" PROVE
                  \/ \E p \in Required : task[p] = "timed_out"
                  \/ \E p \in Raising : task[p] = "raised"
                  \/ now >= TotalBudget
    BY DEF ErrorHasCause
  <2>1. PICK p \in Probe : task[p] \in {"raised", "timed_out", "cancelled"}
    BY DEF TypeOK, CauseInv, TaskState
  <2>2. Failed # {} \/ now >= TotalBudget
    BY <2>1 DEF CauseInv, Failed
  <2> QED BY <2>2 DEF CauseInv, Failed
<1> QED BY <1>1, CauseInvariant, TypeCorrect, PTL

\* An optional probe that has no such answer of its own is reported as NotDetected
\* only once it had its whole budget (aggregator.py:62-72).
THEOREM AbsentLate == Spec => []AbsentOnlyWhenLate
<1>1. CauseInv => AbsentOnlyWhenLate
  BY DEF CauseInv, AbsentOnlyWhenLate
<1> QED BY <1>1, CauseInvariant, PTL

------------------------------------------------------------------------------
(* Queued calls *)

\* A call that waits for a worker belongs to the stage its probe is in, and its
\* probe has no verdict but an exception of its own; none waits once what was left
\* is cancelled.
QueueInv ==
    /\ outcome # "pending" => Running = {}
    /\ outcome = "pending" => ~swept
    /\ swept => \A j \in Job : job[j] # "queued"
    /\ \A j \in Job :
          job[j] = "queued" => task[j[1]] \in {"running", "raised"} /\ j[2] = stage[j[1]]

\* The calls of a probe's stage are those jobs that name it.
LEMMA StageCalls ==
    ASSUME NEW j \in Job, NEW p \in Probe
    PROVE  /\ j \in JobsOf(p, j[2]) <=> j[1] = p
           /\ \A s : j \in JobsOf(p, s) => j[1] = p /\ j[2] = s
<1>1. PICK q \in Probe : \E s \in DOMAIN Stages[q] : j \in JobsOf(q, s)
  BY DEF Job
<1>2. PICK s \in DOMAIN Stages[q] : j \in JobsOf(q, s)
  BY <1>1
<1>3. PICK k \in DOMAIN Stages[q][s].calls : j = <<q, s, k>>
  BY <1>2 DEF JobsOf
<1> QED BY <1>3 DEF JobsOf

\* A stage that is left takes back its queued calls, a task that is given up all
\* of its probe's; both are the same calls.
LEMMA QueueStep == TypeOK /\ QueueInv /\ [Next]_vars => QueueInv'
<1> SUFFICES ASSUME TypeOK, QueueInv, [Next]_vars PROVE QueueInv'
  OBVIOUS
<1> USE DEF TypeOK, QueueInv, Running, TaskState, JobState
<1>1. ASSUME UNCHANGED <<task, stage, outcome, swept>>, \A j \in Job : job'[j] = "queued" => job[j] = "queued"
      PROVE  QueueInv'
  BY <1>1, JobShape
<1>2. ASSUME NEW p \in Probe, task[p] = "running", NextStage(p), UNCHANGED <<outcome, swept>>
      PROVE  QueueInv'
  <2>1. outcome' = "pending" /\ ~swept'
    BY <1>2
  <2>2. ASSUME NEW j \in Job, job'[j] = "queued"
        PROVE  task'[j[1]] \in {"running", "raised"} /\ j[2] = stage'[j[1]]
    <3>1. CASE j \in JobsOf(p, stage[p] + 1)
      <4>1. j[1] = p /\ j[2] = stage[p] + 1
        BY <3>1, StageCalls
      <4> QED BY <1>2, <4>1 DEF NextStage
    <3>2. CASE j \notin JobsOf(p, stage[p] + 1)
      <4>1. job[j] = "queued" /\ j \notin JobsOf(p, stage[p])
        BY <1>2, <2>2, <3>2 DEF NextStage, Dropped, Current
      <4>2. j[1] # p
        BY <4>1, StageCalls
      <4> QED BY <1>2, <4>1, <4>2, JobShape DEF NextStage
    <3> QED BY <3>1, <3>2
  <2> QED BY <2>1, <2>2
<1>3. ASSUME NEW p \in Probe, NEW r \in {"done", "timed_out"}, task[p] = "running",
             task' = [task EXCEPT ![p] = r], UNCHANGED <<stage, outcome, swept>>,
             \A j \in Job : job'[j] = "queued" => job[j] = "queued" /\ j[1] # p
      PROVE  QueueInv'
  BY <1>3, JobShape
<1>4. ASSUME NEW p \in Probe, task[p] = "running", Return(p), UNCHANGED <<outcome, swept>>
      PROVE  QueueInv'
  <2>1. \A j \in Job : job'[j] = "queued" => job[j] = "queued" /\ j \notin JobsOf(p, stage[p])
    BY <1>4 DEF Return, Dropped, Current
  <2>2. \A j \in Job : job'[j] = "queued" => job[j] = "queued" /\ j[1] # p
    BY <2>1, StageCalls
  <2> QED BY <1>3, <1>4, <2>2 DEF Return
<1>5. ASSUME NEW p \in Probe, StageAnswers(p) \/ StageGivesUp(p) PROVE QueueInv'
  BY <1>2, <1>4, <1>5 DEF StageAnswers, StageGivesUp
<1>6. ASSUME NEW p \in Probe, Raise(p) PROVE QueueInv'
  BY <1>6, JobShape DEF Raise, poolVars
<1>7. ASSUME NEW p \in Probe, RequiredTimesOut(p) \/ OptionalTimesOut(p) PROVE QueueInv'
  <2>1. task[p] = "running" /\ Cancel({p})
    BY <1>7 DEF RequiredTimesOut, OptionalTimesOut, TimedOut
  <2>2. \A j \in Job : job'[j] = "queued" => job[j] = "queued" /\ j[1] # p
    BY <2>1 DEF Cancel, Dropped, Own
  <2> QED BY <1>3, <1>7, <2>1, <2>2 DEF RequiredTimesOut, OptionalTimesOut
<1>8. CASE Abort \/ TotalTimesOut
  <2>1. /\ task' = [p \in Probe |-> IF p \in Running THEN "cancelled" ELSE task[p]]
        /\ Cancel(Running) /\ UNCHANGED <<stage, outcome, swept>>
    BY <1>8 DEF Abort, TotalTimesOut, CancelRunning
  <2>2. \A j \in Job : job'[j] = "queued" => job[j] = "queued" /\ j[1] \notin Running
    BY <2>1 DEF Cancel, Dropped, Own
  <2> QED BY <2>1, <2>2, JobShape
<1>9. CASE Join
  BY <1>9, JobShape DEF Join, probeVars, poolVars
<1>12. CASE CancelLeft
  <2>1. \A j \in Job : job'[j] # "queued"
    BY <1>12, JobShape DEF CancelLeft, Cancel, Dropped, Own
  <2> QED BY <1>12, <2>1 DEF CancelLeft, probeVars
<1>10. CASE WorkerTakes \/ WorkerSkips \/ (\E j \in Job : JobEnds(j)) \/ Exit \/ Tick
  BY <1>1, <1>10 DEF WorkerTakes, WorkerSkips, JobEnds, Exit, Tick, probeVars, poolVars
<1>11. CASE UNCHANGED vars
  BY <1>1, <1>11 DEF vars
<1> QED BY <1>5, <1>6, <1>7, <1>8, <1>9, <1>10, <1>11, <1>12 DEF Next, Terminated

\* What waits for a worker is wanted by a probe.
LEMMA QueueInvariant == Spec => []QueueInv
<1>1. Init => QueueInv
  BY JobShape DEF Init, QueueInv
<1> QED BY <1>1, QueueStep, TypeCorrect, PTL DEF Spec

\* No subprocess and no socket call is started for a probe that was cancelled, was
\* late or has answered, and none for one that raised once asyncio.run has cancelled
\* what was left (the executor's work queue behind asyncio.to_thread,
\* aggregator.py:49-88 and cli.py:52).
THEOREM NothingLate == Spec => NothingStartsLate
<1> DEFINE Wanted == \A j \in Job : job[j] # "busy" /\ job'[j] = "busy" =>
                        task[j[1]] = "running" \/ (task[j[1]] = "raised" /\ ~swept)
<1>1. TypeOK /\ QueueInv /\ [Next]_vars => [Wanted]_vars
  <2> SUFFICES ASSUME TypeOK, QueueInv, Next, NEW j \in Job, job[j] # "busy", job'[j] = "busy"
               PROVE  task[j[1]] = "running" \/ (task[j[1]] = "raised" /\ ~swept)
    OBVIOUS
  <2> USE DEF TypeOK
  <2>1. job[j] = "queued"
    <3>1. CASE WorkerTakes
      BY <3>1 DEF WorkerTakes
    <3>2. ASSUME NEW p \in Probe, StageAnswers(p) \/ StageGivesUp(p) PROVE job[j] = "queued"
      BY <3>2 DEF StageAnswers, StageGivesUp, NextStage, Return
    <3>3. ASSUME NEW p \in Probe, Raise(p) \/ RequiredTimesOut(p) \/ OptionalTimesOut(p)
          PROVE  job[j] = "queued"
      BY <3>3 DEF Raise, RequiredTimesOut, OptionalTimesOut, Cancel, poolVars
    <3>4. CASE Abort \/ TotalTimesOut \/ Join \/ CancelLeft
      BY <3>4 DEF Abort, TotalTimesOut, CancelRunning, Join, CancelLeft, Cancel, poolVars
    <3>5. CASE WorkerSkips \/ (\E i \in Job : JobEnds(i)) \/ Exit \/ Tick
      BY <3>5 DEF WorkerSkips, JobEnds, Exit, Tick, poolVars
    <3>6. CASE UNCHANGED vars
      BY <3>6 DEF vars
    <3> QED BY <3>1, <3>2, <3>3, <3>4, <3>5, <3>6 DEF Next, Terminated
  <2>2. ~swept
    BY <2>1 DEF QueueInv
  <2> QED BY <2>1, <2>2 DEF QueueInv
<1> QED BY <1>1, QueueInvariant, TypeCorrect, PTL DEF Spec, NothingStartsLate

------------------------------------------------------------------------------
(* Workers *)

\* Of the calls submitted first, the workers have taken those up to k, in their
\* order; before one of them is taken no later call is, and as long as workers
\* are left for them no time passes.
TakenUpTo(k) ==
    /\ Len(FirstJobs) - k <= Len(queue)
    /\ \A i \in 1..Len(FirstJobs) - k : queue[i] = FirstJobs[k + i]
    /\ k < Len(FirstJobs) => \A j \in Busy : \E i \in 1..k : FirstJobs[i] = j
    /\ \A i \in 1..k : job[FirstJobs[i]] # "queued"
    /\ k < Len(FirstJobs) /\ k < Workers => now = 0

StartInv == \E k \in 0..Len(FirstJobs) : TakenUpTo(k)

\* k calls keep no more than k workers busy.
LEMMA WorkerLeft ==
    ASSUME NEW k \in 0..Len(FirstJobs), k < Workers, TypeOK,
           \A j \in Busy : \E i \in 1..k : FirstJobs[i] = j
    PROVE  FreeWorker
<1> DEFINE T == {FirstJobs[i] : i \in 1..k}
           f == [i \in 1..k |-> FirstJobs[i]]
<1>1. Len(FirstJobs) \in Nat /\ k \in Nat /\ Workers \in Nat
  BY JobsAssumption, WorkersAssumption
<1>2. f \in Surjection(1..k, T)
  BY DEF Surjection
<1>3. IsFiniteSet(1..k) /\ Cardinality(1..k) = k
  BY <1>1, FS_Interval
<1>4. IsFiniteSet(T) /\ Cardinality(T) <= k
  BY <1>2, <1>3, FS_Surjection
<1>5. Busy \in SUBSET T
  OBVIOUS
<1>6. IsFiniteSet(Busy) /\ Cardinality(Busy) <= Cardinality(T)
  BY <1>4, <1>5, FS_Subset
<1>7. Cardinality(T) \in Nat /\ Cardinality(Busy) \in Nat
  BY <1>4, <1>6, FS_CardinalityType
<1> QED BY <1>1, <1>4, <1>6, <1>7 DEF FreeWorker

\* Where one of the first calls waits although there is a worker for it, no time
\* passes.
LEMMA FirstDue ==
    ASSUME TypeOK, NEW k \in 0..Len(FirstJobs), TakenUpTo(k), k < Len(FirstJobs), k < Workers
    PROVE  Due
<1>1. FreeWorker
  BY WorkerLeft DEF TakenUpTo
<1>2. Len(queue) > 0
  BY JobsAssumption DEF TypeOK, TakenUpTo
<1>3. queue # <<>>
  BY <1>2
<1> QED BY <1>1, <1>3 DEF Due

\* The next call leaves the queue: the one after the first k, if it is one of them.
LEMMA StartTakes ==
    ASSUME TypeOK, StartInv, WorkerTakes \/ WorkerSkips
    PROVE  StartInv'
<1>0. PICK k \in 0..Len(FirstJobs) : TakenUpTo(k)
  BY DEF StartInv
<1>1. /\ Len(FirstJobs) - k <= Len(queue)
      /\ \A i \in 1..Len(FirstJobs) - k : queue[i] = FirstJobs[k + i]
      /\ k < Len(FirstJobs) => \A j \in Busy : \E i \in 1..k : FirstJobs[i] = j
      /\ \A i \in 1..k : job[FirstJobs[i]] # "queued"
      /\ k < Len(FirstJobs) /\ k < Workers => now = 0
  BY <1>0 DEF TakenUpTo
<1>2. /\ queue # <<>> /\ queue' = Tail(queue) /\ now' = now
      /\ Head(queue) \in Job /\ job'[Head(queue)] # "queued"
      /\ \A j \in Job : j # Head(queue) => job'[j] = job[j]
      /\ Len(queue') = Len(queue) - 1
      /\ \A i \in 1..Len(queue) - 1 : queue'[i] = queue[i + 1]
      /\ Len(queue) \in Nat /\ Len(queue) > 0 /\ Head(queue) = queue[1]
  <2>1. queue \in Seq(Job) /\ queue # <<>> /\ queue' = Tail(queue) /\ now' = now
    BY DEF WorkerTakes, WorkerSkips, TypeOK
  <2>2. Head(queue) \in Job /\ Len(queue) \in Nat /\ Len(queue) > 0 /\ Head(queue) = queue[1]
    BY <2>1
  <2>3. /\ Len(queue') = Len(queue) - 1
        /\ \A i \in 1..Len(queue) - 1 : queue'[i] = queue[i + 1]
    BY <2>1, <2>2
  <2>4. job'[Head(queue)] # "queued" /\ \A j \in Job : j # Head(queue) => job'[j] = job[j]
    BY <2>2 DEF WorkerTakes, WorkerSkips, TypeOK
  <2> QED BY <2>1, <2>2, <2>3, <2>4
<1>3. Len(FirstJobs) \in Nat /\ k \in Nat /\ \A i \in 1..Len(FirstJobs) : FirstJobs[i] \in Job
  BY JobsAssumption
<1>4. CASE k = Len(FirstJobs)
  <2>1. \A i \in 1..k : job'[FirstJobs[i]] # "queued"
    BY <1>1, <1>2, <1>3
  <2>2. TakenUpTo(k)'
    BY <1>2, <1>3, <1>4, <2>1 DEF TakenUpTo
  <2> QED BY <2>2 DEF StartInv
<1>5. CASE k < Len(FirstJobs)
  <2>1. Head(queue) = FirstJobs[k + 1]
    <3>1. 1 \in 1..Len(FirstJobs) - k
      BY <1>3, <1>5
    <3>2. queue[1] = FirstJobs[k + 1]
      BY <1>1, <3>1
    <3> QED BY <1>2, <3>2
  <2>2. Len(FirstJobs) - (k + 1) <= Len(queue')
    BY <1>1, <1>2, <1>3
  <2>3. \A i \in 1..Len(FirstJobs) - (k + 1) : queue'[i] = FirstJobs[(k + 1) + i]
    <3>1. ASSUME NEW i \in 1..Len(FirstJobs) - (k + 1) PROVE queue'[i] = FirstJobs[(k + 1) + i]
      <4>0. Len(FirstJobs) - k <= Len(queue)
        BY <1>1
      <4>1. i + 1 \in 1..Len(FirstJobs) - k /\ i \in 1..Len(queue) - 1
        BY <1>2, <1>3, <4>0
      <4>2. queue[i + 1] = FirstJobs[k + (i + 1)]
        BY <1>1, <4>1
      <4>3. k + (i + 1) = (k + 1) + i
        BY <1>3
      <4> QED BY <1>2, <4>1, <4>2, <4>3
    <3> QED BY <3>1
  <2>4. \A j \in Busy' : \E i \in 1..k + 1 : FirstJobs[i] = j
    <3>1. ASSUME NEW j \in Busy' PROVE \E i \in 1..k + 1 : FirstJobs[i] = j
      <4>1. j \in Job
        BY DEF Busy
      <4>2. CASE j = Head(queue)
        BY <1>3, <2>1, <4>2
      <4>3. CASE j # Head(queue)
        <5>1. j \in Busy
          BY <1>2, <3>1, <4>1, <4>3 DEF Busy
        <5>2. \E i \in 1..k : FirstJobs[i] = j
          BY <1>1, <1>5, <5>1
        <5> QED BY <1>3, <5>2
      <4> QED BY <4>2, <4>3
    <3> QED BY <3>1
  <2>5. \A i \in 1..k + 1 : job'[FirstJobs[i]] # "queued"
    <3>1. ASSUME NEW i \in 1..k + 1 PROVE job'[FirstJobs[i]] # "queued"
      <4>1. FirstJobs[i] \in Job /\ (i \in 1..k \/ i = k + 1)
        BY <1>3, <1>5
      <4>2. CASE FirstJobs[i] = Head(queue)
        BY <1>2, <4>2
      <4>3. CASE FirstJobs[i] # Head(queue)
        BY <1>1, <1>2, <2>1, <4>1, <4>3
      <4> QED BY <4>2, <4>3
    <3> QED BY <3>1
  <2>6. k + 1 < Workers => now' = 0
    BY <1>1, <1>2, <1>3, <1>5, WorkersAssumption
  <2>7. TakenUpTo(k + 1)'
    BY <2>2, <2>3, <2>4, <2>5, <2>6 DEF TakenUpTo
  <2>8. k + 1 \in 0..Len(FirstJobs)
    BY <1>3, <1>5
  <2> QED BY <2>7, <2>8 DEF StartInv
<1> QED BY <1>3, <1>4, <1>5

\* What is submitted later comes after the first calls and is none of them.
LEMMA StartStep == TypeOK /\ StartInv /\ [Next]_vars => StartInv'
<1> SUFFICES ASSUME TypeOK, StartInv, [Next]_vars PROVE StartInv'
  OBVIOUS
<1>0. /\ Len(FirstJobs) \in Nat /\ Len(queue) \in Nat
      /\ \A i \in 1..Len(FirstJobs) : FirstJobs[i] \in Job /\ FirstJobs[i][2] = 1
  BY JobsAssumption DEF TypeOK
<1>1. ASSUME now' = now,
             Len(queue) <= Len(queue)', \A i \in 1..Len(queue) : queue'[i] = queue[i],
             \A j \in Job : /\ job'[j] = "busy" => job[j] = "busy"
                            /\ job'[j] = "queued" => job[j] = "queued" \/ j[2] # 1,
             Len(queue)' \in Nat
      PROVE  StartInv'
  <2>1. PICK k \in 0..Len(FirstJobs) : TakenUpTo(k)
    BY DEF StartInv
  <2>2. Busy' \subseteq Busy
    BY <1>1 DEF Busy
  <2>3. \A i \in 1..k : job'[FirstJobs[i]] # "queued"
    BY <1>0, <1>1, <2>1 DEF TakenUpTo
  <2>4. \A i \in 1..Len(FirstJobs) - k : queue'[i] = FirstJobs[k + i]
    BY <1>0, <1>1, <2>1 DEF TakenUpTo
  <2>5. Len(FirstJobs) - k <= Len(queue)'
    BY <1>0, <1>1, <2>1 DEF TakenUpTo
  <2>6. TakenUpTo(k)'
    BY <1>1, <2>1, <2>2, <2>3, <2>4, <2>5 DEF TakenUpTo
  <2> QED BY <2>6 DEF StartInv
<1>2. ASSUME now' = now, queue' = queue,
             \A j \in Job : /\ job'[j] = "busy" => job[j] = "busy"
                            /\ job'[j] = "queued" => job[j] = "queued"
      PROVE  StartInv'
  BY <1>0, <1>1, <1>2
<1>3. ASSUME NEW p \in Probe, NextStage(p), now' = now PROVE StartInv'
  <2> USE DEF TypeOK
  <2>1. stage[p] + 1 \in DOMAIN Stages[p] /\ stage[p] + 1 # 1
    BY <1>3, StageNumbers DEF NextStage, LastStage
  <2>2. [i \in DOMAIN Stages[p][stage[p] + 1].calls |-> <<p, stage[p] + 1, i>>] \in Seq(Job)
    BY <2>1, JobFacts
  <2>3. /\ Len(queue)' \in Nat /\ Len(queue) <= Len(queue)'
        /\ \A i \in 1..Len(queue) : queue'[i] = queue[i]
    BY <1>3, <2>2 DEF NextStage
  <2>4. \A j \in Job : j \in JobsOf(p, stage[p] + 1) => j[2] # 1
    BY <2>1, StageCalls
  <2> QED BY <1>1, <1>3, <2>3, <2>4 DEF NextStage
<1>4. ASSUME NEW p \in Probe, StageAnswers(p) \/ StageGivesUp(p) PROVE StartInv'
  <2>1. CASE NextStage(p)
    BY <1>3, <1>4, <2>1 DEF StageAnswers, StageGivesUp
  <2>2. CASE Return(p)
    BY <1>2, <1>4, <2>2 DEF StageAnswers, StageGivesUp, Return
  <2> QED BY <1>4, <2>1, <2>2 DEF StageAnswers, StageGivesUp
<1>5. CASE WorkerTakes \/ WorkerSkips
  BY <1>5, StartTakes
<1>6. CASE \E j \in Job : JobEnds(j)
  BY <1>2, <1>6 DEF JobEnds, TypeOK
<1>7. ASSUME NEW p \in Probe, Raise(p) \/ RequiredTimesOut(p) \/ OptionalTimesOut(p)
      PROVE  StartInv'
  BY <1>2, <1>7 DEF Raise, RequiredTimesOut, OptionalTimesOut, Cancel, poolVars
<1>8. CASE Abort \/ TotalTimesOut \/ Join \/ CancelLeft
  BY <1>2, <1>8 DEF Abort, TotalTimesOut, Join, CancelLeft, CancelRunning, Cancel, poolVars
<1>9. CASE Exit
  BY <1>2, <1>9 DEF Exit, poolVars
<1>10. CASE Tick
  <2>1. PICK k \in 0..Len(FirstJobs) : TakenUpTo(k)
    BY DEF StartInv
  <2>2. ~(k < Len(FirstJobs) /\ k < Workers)
    BY <1>10, <2>1, FirstDue DEF Tick
  <2>3. TakenUpTo(k)'
    BY <1>10, <2>1, <2>2 DEF Tick, TakenUpTo, poolVars, Busy
  <2> QED BY <2>3 DEF StartInv
<1>11. CASE UNCHANGED vars
  BY <1>2, <1>11 DEF vars
<1> QED BY <1>4, <1>5, <1>6, <1>7, <1>8, <1>9, <1>10, <1>11 DEF Next, Terminated

\* The first calls are taken in their order, and at once while workers are left.
LEMMA StartInvariant == Spec => []StartInv
<1>1. Init => StartInv
  <2> SUFFICES ASSUME Init PROVE TakenUpTo(0)
    BY JobsAssumption DEF StartInv
  <2>1. Len(FirstJobs) \in Nat /\ queue = FirstJobs /\ now = 0 /\ Busy = {}
    BY JobsAssumption DEF Init, Busy
  <2> QED BY <2>1 DEF TakenUpTo
<1> QED BY <1>1, StartStep, TypeCorrect, PTL DEF Spec

\* A call for which there is a worker is begun at once, a probe in its first stage
\* still has all its calls, and a punctual probe has an answer before it is late.
PunctualInv ==
    /\ \A i \in DOMAIN FirstJobs :
          i <= Workers /\ job[FirstJobs[i]] = "busy" => begun[FirstJobs[i]] = 0
    /\ \A p \in Probe : stage[p] = 1 /\ task[p] = "running" =>
          entered[p] = 0 /\ \A j \in First(p) : job[j] \in {"queued", "busy", "done"}
    /\ \A p \in Required :
          Short(p) => task[p] # "timed_out" /\ (task[p] = "running" => now < PerProbeTimeout)

\* One of the first calls waits for its worker at second 0 only.
LEMMA WaitsAtStart ==
    ASSUME TypeOK, StartInv, NEW i \in DOMAIN FirstJobs, i <= Workers,
           job[FirstJobs[i]] = "queued"
    PROVE  now = 0 /\ Due
<1>1. PICK k \in 0..Len(FirstJobs) : TakenUpTo(k)
  BY DEF StartInv
<1>2. i \in 1..Len(FirstJobs) /\ i \notin 1..k /\ Len(FirstJobs) \in Nat /\ Workers \in Nat
  BY <1>1, JobsAssumption, WorkersAssumption DEF TakenUpTo
<1>3. k < Len(FirstJobs) /\ k < Workers
  BY <1>2
<1> QED BY <1>1, <1>3, FirstDue DEF TakenUpTo

\* The first calls are begun at second 0: a worker takes them then or never.
LEMMA BegunStep ==
    ASSUME TypeOK, StartInv, PunctualInv, [Next]_vars,
           NEW i \in DOMAIN FirstJobs, i <= Workers, job'[FirstJobs[i]] = "busy"
    PROVE  begun'[FirstJobs[i]] = 0
<1> DEFINE j == FirstJobs[i]
<1> HIDE DEF j
<1>0. j \in Job /\ (job[j] = "busy" => begun[j] = 0) /\ job'[j] = "busy"
  BY JobsAssumption DEF PunctualInv, j
<1> SUFFICES begun'[j] = 0
  BY DEF j
<1>1. CASE job[j] = "busy" /\ begun' = begun
  BY <1>0, <1>1
<1>2. CASE WorkerTakes
  <2>1. CASE j = Head(queue)
    <3>1. job[j] = "queued"
      BY <1>2, <2>1 DEF WorkerTakes
    <3>2. now = 0
      BY <3>1, WaitsAtStart DEF j
    <3> QED BY <1>0, <1>2, <2>1, <3>2 DEF WorkerTakes, TypeOK
  <2>2. CASE j # Head(queue)
    BY <1>0, <1>2, <2>2 DEF WorkerTakes, TypeOK
  <2> QED BY <2>1, <2>2
<1> USE DEF TypeOK
<1>3. CASE WorkerSkips \/ (\E k \in Job : JobEnds(k)) \/ Exit \/ Tick
  BY <1>0, <1>1, <1>3 DEF WorkerSkips, JobEnds, Exit, Tick, poolVars
<1>4. ASSUME NEW p \in Probe, StageAnswers(p) \/ StageGivesUp(p) PROVE begun'[j] = 0
  BY <1>0, <1>1, <1>4 DEF StageAnswers, StageGivesUp, NextStage, Return
<1>5. ASSUME NEW p \in Probe, Raise(p) \/ RequiredTimesOut(p) \/ OptionalTimesOut(p)
      PROVE  begun'[j] = 0
  BY <1>0, <1>1, <1>5 DEF Raise, RequiredTimesOut, OptionalTimesOut, Cancel, poolVars
<1>6. CASE Abort \/ TotalTimesOut \/ Join \/ CancelLeft
  BY <1>0, <1>1, <1>6 DEF Abort, TotalTimesOut, Join, CancelLeft, CancelRunning, Cancel, poolVars
<1>7. CASE UNCHANGED vars
  BY <1>0, <1>1, <1>7 DEF vars
<1> QED BY <1>2, <1>3, <1>4, <1>5, <1>6, <1>7 DEF Next, Terminated

\* No running probe loses a call of its first stage.
LEMMA FirstCallsStep ==
    ASSUME TypeOK, AnswerInv, PunctualInv, [Next]_vars, NEW p \in Probe, stage'[p] = 1, task'[p] = "running"
    PROVE  /\ entered'[p] = 0 /\ \A j \in First(p) : job'[j] \in {"queued", "busy", "done"}
           /\ task[p] = "running"
<1> USE DEF TypeOK, TaskState, JobState
<1>0. \A j \in First(p) : j \in Job /\ j[1] = p
  <2>1. 1 \in DOMAIN Stages[p]
    BY StageNumbers
  <2> QED BY <2>1, JobFacts DEF First
<1>1. ASSUME task[p] = "running", stage[p] = 1, entered'[p] = entered[p],
             \A j \in First(p) : \/ job'[j] = job[j]
                                 \/ job'[j] \in {"queued", "busy", "done"}
      PROVE  /\ entered'[p] = 0 /\ \A j \in First(p) : job'[j] \in {"queued", "busy", "done"}
             /\ task[p] = "running"
  BY <1>1 DEF PunctualInv
<1>2. CASE WorkerTakes \/ WorkerSkips \/ (\E k \in Job : JobEnds(k)) \/ Exit \/ Tick
  <2>1. UNCHANGED <<task, stage, entered>>
    BY <1>2 DEF WorkerTakes, WorkerSkips, JobEnds, Exit, Tick, probeVars
  <2>2. \A j \in Job : job'[j] = job[j] \/ job'[j] \in {"queued", "busy", "done"}
    BY <1>2 DEF WorkerTakes, WorkerSkips, JobEnds, Exit, Tick, poolVars
  <2> QED BY <1>0, <1>1, <2>1, <2>2
<1>3. ASSUME NEW q \in Probe, NextStage(q) \/ Return(q), task[q] = "running", UNCHANGED begun
      PROVE  /\ task[p] = "running" /\ stage[p] = 1 /\ entered'[p] = entered[p]
             /\ \A j \in First(p) : job'[j] = job[j] \/ job'[j] \in {"queued", "busy", "done"}
  <2>1. q # p
    BY <1>3, StageNumbers DEF NextStage, Return
  <2>2. task[p] = "running" /\ stage[p] = 1 /\ entered'[p] = entered[p]
    BY <1>3, <2>1 DEF NextStage, Return
  <2>3. \A j \in First(p) : j \notin Current(q)
    <3>1. \A j \in First(p) : j \in Job /\ j[1] # q
      BY <1>0, <2>1
    <3>2. \A j \in Current(q) : j[1] = q
      BY DEF Current, JobsOf
    <3> QED BY <3>1, <3>2
  <2>4. \A j \in First(p) : job'[j] = job[j] \/ job'[j] = "queued"
    BY <1>0, <1>3, <2>3 DEF NextStage, Return, Dropped
  <2> QED BY <2>2, <2>4
<1>4. ASSUME NEW q \in Probe, StageAnswers(q) \/ StageGivesUp(q)
      PROVE  /\ task[p] = "running" /\ stage[p] = 1 /\ entered'[p] = entered[p]
             /\ \A j \in First(p) : job'[j] = job[j] \/ job'[j] \in {"queued", "busy", "done"}
  BY <1>3, <1>4 DEF StageAnswers, StageGivesUp
<1>5. ASSUME NEW q \in Probe, Raise(q) PROVE
             /\ task[p] = "running" /\ UNCHANGED <<stage, entered, job>>
  BY <1>5 DEF Raise, poolVars
<1>6. ASSUME NEW q \in Probe, RequiredTimesOut(q) \/ OptionalTimesOut(q)
      PROVE  /\ task[p] = "running" /\ UNCHANGED <<stage, entered>>
             /\ \A j \in First(p) : job'[j] = job[j]
  <2>1. task[p] = "running" /\ q # p /\ UNCHANGED <<stage, entered>> /\ Cancel({q})
    BY <1>6 DEF RequiredTimesOut, OptionalTimesOut
  <2> QED BY <1>0, <2>1 DEF Cancel, Dropped, Own
<1>7. CASE Abort \/ TotalTimesOut
  BY <1>7 DEF Abort, TotalTimesOut, CancelRunning, Running
<1>9. CASE Join
  BY <1>1, <1>9 DEF Join, probeVars, poolVars
<1>10. CASE CancelLeft
  BY <1>10 DEF CancelLeft, AnswerInv, Running, probeVars
<1>8. CASE UNCHANGED vars
  BY <1>1, <1>8 DEF vars
<1> QED BY <1>1, <1>2, <1>4, <1>5, <1>6, <1>7, <1>8, <1>9, <1>10 DEF Next, Terminated

\* Time passes only while a punctual probe still has time: one of its calls is at
\* work, begun at second 0, or its own timeout is yet to come.
LEMMA PunctualTick ==
    ASSUME Punctual, TypeOK, StartInv, PunctualInv, ~Due,
           NEW p \in Required, Short(p), task[p] = "running"
    PROVE  now + 1 < PerProbeTimeout
<1> DEFINE t == Stages[p][1].timeout
<1>1. p \in Probe /\ stage[p] = 1 /\ 1 \in DOMAIN Stages[p]
  BY ProbeAssumption, StageNumbers DEF TypeOK, Short
<1>2. t \in Nat /\ t < PerProbeTimeout /\ now \in Nat /\ PerProbeTimeout \in Nat
  BY <1>1, JobFacts, TimeAssumption DEF StageRecord, Punctual, TypeOK
<1>3. entered[p] = 0 /\ \A j \in First(p) : job[j] \in {"queued", "busy", "done"}
  BY <1>1 DEF PunctualInv
<1>4. ~StageDue(p) /\ p \in Running
  BY <1>1 DEF Due, Running
<1>5. CASE t > 0
  BY <1>1, <1>2, <1>3, <1>4, <1>5 DEF StageDue, OwnTimeout
<1>6. CASE ~(t > 0)
  <2>1. t = 0 /\ OwnTimeout(p) = 0
    BY <1>1, <1>2, <1>6 DEF OwnTimeout
  <2>2. PICK j \in First(p) : job[j] # "done"
    BY <1>1, <1>4, <2>1 DEF StageDue, CallsDone, Current, First
  <2>3. PICK i \in DOMAIN FirstJobs : i <= Workers /\ FirstJobs[i] = j
    BY <1>6, <2>2 DEF Punctual, ServedAtOnce
  <2>4. job[j] # "queued"
    BY <2>3, WaitsAtStart
  <2>5. job[j] = "busy" /\ begun[j] = 0 /\ j \in Job
    BY <1>1, <1>3, <2>2, <2>3, <2>4, JobFacts DEF PunctualInv, First
  <2>6. Bound(j) \in Nat /\ Bound(j) < PerProbeTimeout
    BY <2>2, <2>5, JobShape DEF Short
  <2>7. ~(now >= begun[j] + Bound(j))
    BY <2>5 DEF Due, Busy
  <2> QED BY <1>2, <2>5, <2>6, <2>7
<1> QED BY <1>5, <1>6

\* Nothing but the clock can make a punctual probe late.
LEMMA PunctualStep ==
    ASSUME Punctual, TypeOK, AnswerInv, StartInv, PunctualInv, [Next]_vars
    PROVE  PunctualInv'
<1>1. ASSUME NEW p \in Required, Short(p)
      PROVE  task'[p] # "timed_out" /\ (task'[p] = "running" => now' < PerProbeTimeout)
  <2> USE ProbeAssumption, TimeAssumption DEF TypeOK, TaskState
  <2>1. p \in Probe /\ task[p] # "timed_out" /\ (task[p] = "running" => now < PerProbeTimeout)
    BY <1>1 DEF PunctualInv
  <2>2. CASE task'[p] \in {task[p], "done", "raised", "cancelled"} /\ now' = now
    BY <2>1, <2>2
  <2>3. CASE Tick
    BY <1>1, <2>1, <2>3, PunctualTick DEF Tick, probeVars
  <2>4. ASSUME NEW q \in Probe, RequiredTimesOut(q)
        PROVE  task'[p] = task[p] /\ now' = now
    <3>1. q # p
      BY <2>1, <2>4 DEF RequiredTimesOut, TimedOut
    <3> QED BY <2>1, <2>4, <3>1 DEF RequiredTimesOut
  <2>5. ASSUME NEW q \in Probe, StageAnswers(q) \/ StageGivesUp(q) \/ Raise(q) \/ OptionalTimesOut(q)
        PROVE  task'[p] \in {task[p], "done", "raised"} /\ now' = now
    BY <2>1, <2>5 DEF StageAnswers, StageGivesUp, NextStage, Return, Raise, OptionalTimesOut
  <2>6. CASE Abort \/ TotalTimesOut \/ Join \/ CancelLeft
    BY <2>1, <2>2, <2>6 DEF Abort, TotalTimesOut, CancelRunning, Join, CancelLeft, probeVars
  <2>7. CASE WorkerTakes \/ WorkerSkips \/ (\E k \in Job : JobEnds(k)) \/ Exit \/ UNCHANGED vars
    BY <2>1, <2>2, <2>7 DEF WorkerTakes, WorkerSkips, JobEnds, Exit, probeVars, vars
  <2> QED BY <2>2, <2>3, <2>4, <2>5, <2>6, <2>7 DEF Next, Terminated
<1>2. \A p \in Probe : stage'[p] = 1 /\ task'[p] = "running" =>
          entered'[p] = 0 /\ \A j \in First(p) : job'[j] \in {"queued", "busy", "done"}
  BY FirstCallsStep
<1>3. \A i \in DOMAIN FirstJobs :
          i <= Workers /\ job'[FirstJobs[i]] = "busy" => begun'[FirstJobs[i]] = 0
  BY BegunStep
<1> QED BY <1>1, <1>2, <1>3 DEF PunctualInv

\* A required probe of one stage whose calls are short, and for which the executor
\* has a worker when collect() starts, is never late, whatever the other probes
\* and their threads do (the order in which collect() creates its tasks,
\* aggregator.py:75-86, and the default executor of asyncio.to_thread).
THEOREM NotStarved ==
    ASSUME Punctual
    PROVE  Spec => []NoStarvation
<1>1. Init => PunctualInv
  <2> SUFFICES ASSUME Init PROVE PunctualInv
    OBVIOUS
  <2>1. \A i \in DOMAIN FirstJobs : job[FirstJobs[i]] = "queued"
    BY JobsAssumption DEF Init
  <2>2. \A p \in Probe : \A j \in First(p) : job[j] = "queued"
    <3>1. \A p \in Probe : 1 \in DOMAIN Stages[p]
      BY StageNumbers
    <3>2. \A p \in Probe : \A j \in First(p) : j \in Job
      BY <3>1, JobFacts DEF First
    <3>3. \A p \in Probe : \A j \in First(p) : j[2] = 1
      BY DEF First, JobsOf
    <3> QED BY <3>2, <3>3 DEF Init
  <2>3. \A p \in Probe : task[p] = "running" /\ entered[p] = 0
    BY DEF Init
  <2> QED BY <2>1, <2>2, <2>3, ProbeAssumption DEF Init, PunctualInv, Punctual
<1>2. TypeOK /\ AnswerInv /\ StartInv /\ PunctualInv /\ [Next]_vars => PunctualInv'
  BY PunctualStep
<1>3. PunctualInv => NoStarvation
  BY DEF PunctualInv, NoStarvation
<1> QED BY <1>1, <1>2, <1>3, StartInvariant, AnswerInvariant, TypeCorrect, PTL DEF Spec

------------------------------------------------------------------------------
(* collect() implements ProbeGroup *)

\* Every action of Discovery is an action of ProbeGroup or leaves its three
\* variables alone; the total budget is never the one that decides.
LEMMA GroupStep ==
    ASSUME PerProbeTimeout < TotalBudget, TypeOK, TimeInv, [Next]_vars
    PROVE  [Group!Next]_Group!vars
<1> USE ProbeAssumption DEF TypeOK, TaskState, Running, Failed, GroupTask
<1>1. CASE UNCHANGED <<task, result, outcome>>
  BY <1>1 DEF Group!vars
<1>2. ASSUME NEW p \in Probe, task[p] = "running", Return(p), outcome' = outcome
      PROVE  Group!Next
  <2>1. PICK r \in {"value", "absent"} :
           /\ result' = [result EXCEPT ![p] = r]
           /\ p \in Required => r = "value"
    BY <1>2 DEF Return
  <2>2. GroupTask' = [GroupTask EXCEPT ![p] = "done"]
    BY <1>2 DEF Return
  <2> QED BY <1>2, <2>1, <2>2 DEF Group!Next, Group!Answer
<1>3. ASSUME NEW p \in Probe, StageAnswers(p) \/ StageGivesUp(p)
      PROVE  [Group!Next]_Group!vars
  BY <1>1, <1>2, <1>3 DEF StageAnswers, StageGivesUp, NextStage
<1>4. ASSUME NEW p \in Probe, Raise(p) \/ RequiredTimesOut(p) PROVE Group!Next
  <2>1. GroupTask' = [GroupTask EXCEPT ![p] = "failed"] /\ GroupTask[p] = "running"
    BY <1>4 DEF Raise, RequiredTimesOut, TimedOut
  <2> QED BY <1>4, <2>1 DEF Group!Next, Group!Fail, Raise, RequiredTimesOut
<1>5. ASSUME NEW p \in Probe, OptionalTimesOut(p) PROVE Group!Next
  <2>1. GroupTask' = [GroupTask EXCEPT ![p] = "done"] /\ GroupTask[p] = "running"
    BY <1>5 DEF OptionalTimesOut, TimedOut
  <2> QED BY <1>5, <2>1 DEF Group!Next, Group!Answer, OptionalTimesOut
<1>6. CASE Abort
  <2>1. \E p \in Probe : GroupTask[p] = "failed"
    BY <1>6 DEF Abort
  <2>2. GroupTask' = [p \in Probe |-> IF GroupTask[p] = "running" THEN "cancelled"
                                      ELSE GroupTask[p]]
    BY <1>6 DEF Abort, CancelRunning
  <2> QED BY <1>6, <2>1, <2>2 DEF Group!Next, Group!Abort, Abort
<1>7. CASE Join
  <2>1. \A p \in Probe : (GroupTask[p] = "done" <=> task[p] = "done") /\ GroupTask[p] # "running"
    BY <1>7 DEF Join
  <2>2. GroupTask' = GroupTask
    BY <1>7 DEF Join, probeVars
  <2> QED BY <1>7, <2>1, <2>2 DEF Group!Next, Group!Decide, Join, probeVars
<1>8. ~TotalTimesOut
  BY TimeAssumption DEF TotalTimesOut, TimeInv
<1>9. CASE WorkerTakes \/ WorkerSkips \/ (\E j \in Job : JobEnds(j)) \/ CancelLeft \/ Exit \/ Tick
  BY <1>1, <1>9 DEF WorkerTakes, WorkerSkips, JobEnds, CancelLeft, Exit, Tick, probeVars
<1>10. CASE UNCHANGED vars
  BY <1>1, <1>10 DEF vars
<1> QED BY <1>3, <1>4, <1>5, <1>6, <1>7, <1>8, <1>9, <1>10 DEF Next, Terminated

\* With the budgets as they are in aggregator.py:45-46 the total one never
\* decides: every behaviour of collect() is one of ProbeGroup.
THEOREM Refinement ==
    ASSUME PerProbeTimeout < TotalBudget
    PROVE  Spec => ImplementsProbeGroup
<1>1. Init => Group!Init
  BY DEF Init, Group!Init, GroupTask, Failed
<1>2. TypeOK /\ TimeInv /\ [Next]_vars => [Group!Next]_Group!vars
  BY GroupStep
<1> QED BY <1>1, <1>2, TypeCorrect, TimeInvariant, PTL DEF Spec, ImplementsProbeGroup, Group!Spec
==============================================================================
