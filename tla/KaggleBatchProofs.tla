------------------------- MODULE KaggleBatchProofs -------------------------
(***************************************************************************)
(* Proofs about executions on one shared kernel.  A step of an execution   *)
(* changes its own record, the lock and the kernel in a few ways only:     *)
(* StepShape says which, action by action, and the invariant's conjuncts   *)
(* follow from it.                                                         *)
(***************************************************************************)
EXTENDS KaggleBatch, TLAPS

AtWork == {"push", "poll", "pull", "check"}

\* What becomes of the lock when j's record becomes s.
LockShape(j, s) ==
    \/ job[j].pc = "idle" /\ s.pc = "push" /\ Acquire(j)
    \/ s.pc = "done" /\ Release(j)
    \/ job[j].pc \in AtWork /\ s.pc \in AtWork /\ lock' = lock

\* What becomes of the kernel and of the status shown.
KernelShape(j, s) ==
    \/ /\ kernel' = kernel /\ shown' = shown
       /\ s.pc \in AfterPush => job[j].pc \in AfterPush
    \/ /\ kernel' = [of |-> j, status |-> "queued"]
       /\ shown' = kernel' \/ (lag /\ shown' = shown)
       /\ job[j].pc = "push" /\ s.pc = "poll"

\* What is downloaded, and when.
PullShape(j, s) ==
    /\ s.pc = "pull" => job[j].pc = "poll" /\ shown.status = "complete"
    /\ s.pc = "check" =>
          /\ job[j].pc = "pull"
          /\ s.folder = IF output.left = "nothing" THEN job[j].folder ELSE output

\* Who gives up a push has ended.
StrayShape(j, s) ==
    \/ stray' = stray
    \/ stray' = stray \union {j} /\ s.pc = "done" /\ s.result = "timeout"

\* What a result says.
ResultShape(j, s) ==
    /\ s.pc # "done" => s.result = "none"
    /\ s.result = "kernel_failed" => job[j].pc = "poll"
    /\ s.result = "no_artifact" =>
          /\ job[j].pc = "check"
          /\ job[j].folder.of # j \/ job[j].folder.left = "nothing"

Shape(j, s) ==
    /\ job[j].pc # "done"
    /\ job' = [job EXCEPT ![j] = s]
    /\ s \in State /\ s.by = job[j].by
    /\ LockShape(j, s) /\ KernelShape(j, s) /\ PullShape(j, s)
    /\ StrayShape(j, s) /\ ResultShape(j, s)

\* Ending an execution is a step of that shape.
LEMMA EndShape ==
    ASSUME IInv, NEW j \in Job, NEW result \in Results, End(j, result),
           job[j].pc \in AtWork, UNCHANGED remote,
           result = "kernel_failed" => job[j].pc = "poll",
           result = "no_artifact" =>
              /\ job[j].pc = "check"
              /\ job[j].folder.of # j \/ job[j].folder.left = "nothing",
           \/ stray' = stray
           \/ stray' = stray \union {j} /\ result = "timeout"
    PROVE  \E s \in State : Shape(j, s)
<1> DEFINE s == Finished(j, result)
<1>1. job[j] \in State /\ 0 \in 0..MaxErrors /\ 0 \in 0..MaxPolls
  BY BoundAssumption DEF IInv, TypeOK
<1>2. s \in State
  BY <1>1 DEF State, Finished
<1>3. job' = [job EXCEPT ![j] = s]
  BY DEF End
<1>4. s.by = job[j].by /\ s.pc = "done" /\ s.result = result
  BY <1>1 DEF State, Finished
<1>5. Release(j)
  BY DEF End
<1> HIDE DEF s
<1>6. Shape(j, s)
  BY <1>2, <1>3, <1>4, <1>5
      DEF Shape, LockShape, KernelShape, PullShape, StrayShape, ResultShape,
          AtWork, AfterPush, remote
<1> QED
  BY <1>2, <1>6

\* Every step of an execution has that shape, and leaves the output alone.
LEMMA StepShape ==
    ASSUME IInv, NEW j \in Job, JobStep(j)
    PROVE  /\ \E s \in State : Shape(j, s)
           /\ output' = output /\ lag' = lag
<1>1. job[j] \in State /\ kernel \in Version /\ shown \in Version
      /\ output \in Output /\ job \in [Job -> State]
  BY DEF IInv, TypeOK
<1>2. job[j].pc # "done" => job[j].result = "none"
  BY DEF IInv, ResultInv
<1>3. /\ job[j].pc = "idle" /\ lock # j => Release(j) <=> lock' = lock
      /\ job[j].pc = "idle" => lock # j
  BY DEF Release, IInv, LockInv
<1>4. CASE Stage(j)
  <2> DEFINE s == [job[j] EXCEPT !.pc = "push"]
  <2>1. s \in State /\ s.by = job[j].by /\ s.pc = "push" /\ s.result = "none"
    BY <1>1, <1>2, <1>4 DEF State, Stage
  <2>2. job' = [job EXCEPT ![j] = s]
    BY <1>4 DEF Stage, Goto
  <2> HIDE DEF s
  <2> QED
    BY <1>1, <1>4, <2>1, <2>2
        DEF Stage, remote, Shape, LockShape, KernelShape, PullShape, StrayShape,
            ResultShape, AfterPush
<1>5. CASE StageFails(j)
  <2> DEFINE s == [job[j] EXCEPT !.pc = "done", !.result = "failed"]
  <2>3. s \in State
    BY <1>1 DEF State, Results
  <2>4. s.by = job[j].by /\ s.pc = "done" /\ s.result = "failed"
    BY <1>1, <2>3 DEF State
  <2>5. job' = [job EXCEPT ![j] = s]
    BY <1>1, <1>5 DEF StageFails, State
  <2>6. job[j].pc = "idle" /\ Release(j)
    BY <1>3, <1>5 DEF StageFails
  <2> HIDE DEF s
  <2> QED
    BY <1>1, <1>5, <2>3, <2>4, <2>5, <2>6
        DEF StageFails, remote, Shape, LockShape, KernelShape, PullShape, StrayShape,
            ResultShape, AfterPush
<1>6. CASE Push(j)
  <2> DEFINE s == [job[j] EXCEPT !.pc = "poll"]
  <2>1. s \in State /\ s.by = job[j].by /\ s.pc = "poll" /\ s.result = "none"
    BY <1>1, <1>2, <1>6 DEF State, Push
  <2>2. job' = [job EXCEPT ![j] = s] /\ lock' = lock
    BY <1>6 DEF Push, Goto
  <2>3. /\ kernel' = [of |-> j, status |-> "queued"]
        /\ shown' = kernel' \/ (lag /\ shown' = shown)
        /\ output' = output /\ stray' = stray /\ lag' = lag
    BY <1>6 DEF Push, Arrives
  <2> HIDE DEF s
  <2> QED
    BY <1>6, <2>1, <2>2, <2>3
        DEF Push, Shape, LockShape, KernelShape, PullShape, StrayShape,
            ResultShape, AfterPush, AtWork
<1>7. CASE PushRefused(j)
  BY <1>1, <1>7, EndShape DEF PushRefused, remote, AtWork, Results
<1>8. CASE PushTimesOut(j)
  BY <1>1, <1>8, EndShape DEF PushTimesOut, remote, AtWork, Results
<1>9. CASE Deadline(j)
  BY <1>1, <1>9, EndShape DEF Deadline, remote, AtWork, Results
<1>10. CASE PollHangs(j)
  BY <1>1, <1>10, EndShape DEF PollHangs, BeforeDeadline, remote, AtWork, Results
<1>11. ASSUME NEW errors \in 0..MaxErrors, PollAgain(j, errors),
              BeforeDeadline(j), UNCHANGED <<remote, lag, stray>>
       PROVE  \E s \in State : Shape(j, s)
  <2> DEFINE s == [job[j] EXCEPT !.polls = @ + 1, !.errors = errors]
  <2>1. job[j].polls \in 0..MaxPolls /\ job[j].polls < MaxPolls
        /\ job[j].pc = "poll"
    BY <1>1, <1>11 DEF State, BeforeDeadline
  <2>2. job[j].polls + 1 \in 0..MaxPolls
    BY <2>1, BoundAssumption
  <2>3. s \in State /\ s.by = job[j].by /\ s.pc = "poll" /\ s.result = "none"
    BY <1>1, <1>2, <2>1, <2>2 DEF State
  <2>4. job' = [job EXCEPT ![j] = s] /\ lock' = lock
    BY <1>1, <1>11 DEF PollAgain, State
  <2> HIDE DEF s
  <2> QED
    BY <1>11, <2>1, <2>3, <2>4
        DEF remote, Shape, LockShape, KernelShape, PullShape, StrayShape,
            ResultShape, AfterPush, AtWork
<1>12. CASE PollFails(j)
  <2>1. BeforeDeadline(j) /\ UNCHANGED <<remote, lag, stray>> /\ job[j].pc = "poll"
    BY <1>12 DEF PollFails, BeforeDeadline
  <2>2. CASE End(j, "failed")
    BY <1>1, <2>1, <2>2, EndShape DEF remote, AtWork, Results
  <2>3. CASE ~(job[j].errors + 1 >= MaxErrors) /\ PollAgain(j, job[j].errors + 1)
    <3>1. job[j].errors + 1 \in 0..MaxErrors
      BY <1>1, <2>3, BoundAssumption DEF State
    <3> QED
      BY <1>1, <1>11, <2>1, <2>3, <3>1 DEF remote
  <2> QED
    BY <1>12, <2>2, <2>3 DEF PollFails
<1>13. CASE PollAnswered(j)
  <2>1. BeforeDeadline(j) /\ UNCHANGED <<remote, lag, stray>> /\ job[j].pc = "poll"
    BY <1>13 DEF PollAnswered, BeforeDeadline
  <2>2. CASE PollAgain(j, 0)
    BY <1>1, <1>11, <2>1, <2>2, BoundAssumption DEF remote
  <2>3. CASE End(j, "kernel_failed")
    BY <1>1, <2>1, <2>3, EndShape DEF remote, AtWork, Results
  <2>4. CASE /\ shown.status = "complete"
             /\ job' = [job EXCEPT ![j].pc = "pull", ![j].errors = 0]
             /\ UNCHANGED lock
    <3> DEFINE s == [job[j] EXCEPT !.pc = "pull", !.errors = 0]
    <3>1. 0 \in 0..MaxErrors
      BY BoundAssumption
    <3>2. s \in State /\ s.by = job[j].by /\ s.pc = "pull" /\ s.result = "none"
      BY <1>1, <1>2, <2>1, <3>1 DEF State
    <3>3. job' = [job EXCEPT ![j] = s] /\ lock' = lock
      BY <1>1, <2>4 DEF State
    <3> HIDE DEF s
    <3> QED
      BY <1>1, <2>1, <2>4, <3>2, <3>3
          DEF remote, Shape, LockShape, KernelShape, PullShape, StrayShape,
            ResultShape, AfterPush, AtWork
  <2> QED
    BY <1>13, <2>2, <2>3, <2>4 DEF PollAnswered
<1>14. CASE Pull(j)
  <2> DEFINE s == [job[j] EXCEPT !.pc = "check",
                     !.folder = IF output.left = "nothing" THEN @ ELSE output]
  <2>1. /\ s \in State /\ s.by = job[j].by /\ s.pc = "check" /\ s.result = "none"
        /\ s.folder = IF output.left = "nothing" THEN job[j].folder ELSE output
    BY <1>1, <1>2, <1>14 DEF State, Pull
  <2>2. job' = [job EXCEPT ![j] = s]
    BY <1>1, <1>14 DEF Pull, State
  <2> HIDE DEF s
  <2> QED
    BY <1>1, <1>14, <2>1, <2>2
        DEF Pull, remote, Shape, LockShape, KernelShape, PullShape, StrayShape,
            ResultShape, AfterPush, AtWork
<1>15. CASE PullFails(j)
  <2>1. PICK result \in {"failed", "timeout"} : End(j, result)
    BY <1>15 DEF PullFails
  <2> QED
    BY <1>1, <1>15, <2>1, EndShape DEF PullFails, remote, AtWork, Results
<1>16. CASE BridgeChecks(j)
  <2>1. UNCHANGED <<remote, lag, stray>> /\ job[j].pc = "check"
    BY <1>16 DEF BridgeChecks
  <2>2. PICK result \in {"audio", "failed", "no_artifact"} :
           /\ End(j, result)
           /\ result = "no_artifact" =>
                 job[j].folder.of # j \/ job[j].folder.left = "nothing"
    BY <1>16 DEF BridgeChecks
  <2> QED
    BY <1>1, <2>1, <2>2, EndShape DEF remote, AtWork, Results
<1>17. CASE RunnerChecks(j)
  <2>1. PICK result \in {"status_only", "summary"} : End(j, result)
    BY <1>17 DEF RunnerChecks
  <2> QED
    BY <1>1, <1>17, <2>1, EndShape DEF RunnerChecks, remote, AtWork, Results
<1> QED
  BY <1>4, <1>5, <1>6, <1>7, <1>8, <1>9, <1>10, <1>12, <1>13, <1>14, <1>15,
     <1>16, <1>17 DEF JobStep

-----------------------------------------------------------------------------
\* Kaggle with its past, and executions that have not begun.
LEMMA InitIInv ==
    ASSUME Init
    PROVE  IInv
<1>1. PICK by \in [Job -> Program], used \in SUBSET Job :
         job = [j \in Job |->
                  [by |-> by[j], pc |-> "idle", errors |-> 0, polls |-> 0,
                   folder |-> [of |-> NoJob,
                               left |-> IF j \in used THEN "speech" ELSE "nothing"],
                   result |-> "none"]]
  BY DEF Init
<1>2. 0 \in 0..MaxErrors /\ 0 \in 0..MaxPolls
  BY BoundAssumption
<1>3. \A j \in Job : /\ job[j] \in State
                     /\ job[j].pc = "idle" /\ job[j].result = "none"
  BY <1>1, <1>2 DEF State, Output, Outcome, Results
<1>4. job \in [Job -> State]
  BY <1>1, <1>3
<1>5. /\ kernel \in Version /\ shown \in Version /\ output \in Output
      /\ lock = NoJob /\ lag \in BOOLEAN /\ stray = {}
  BY LagAssumption DEF Init, Version, Ended, Output, Outcome
<1>6. TypeOK
  BY <1>4, <1>5 DEF TypeOK
<1>7. LockInv /\ ResultInv /\ StrayInv /\ PulledInv
  BY <1>3, <1>5, JobAssumption DEF LockInv, ResultInv, StrayInv, PulledInv
<1>8. KernelInv
  BY <1>3 DEF KernelInv, Served, AfterPush
<1>9. OutputInv
  BY DEF Init, OutputInv
<1> QED
  BY <1>6, <1>7, <1>8, <1>9 DEF IInv

\* A step of an execution keeps the invariant.
LEMMA JobStepIInv ==
    ASSUME IInv, NEW j \in Job, JobStep(j)
    PROVE  IInv'
<1>1. PICK s \in State : Shape(j, s)
  BY StepShape
<1>2. output' = output /\ lag' = lag
  BY StepShape
<1>3. TypeOK
  BY DEF IInv
<1>4. /\ job \in [Job -> State] /\ job' \in [Job -> State]
      /\ job' = [job EXCEPT ![j] = s]
      /\ s.by = job[j].by
      /\ job'[j] = s /\ \A i \in Job : i # j => job'[i] = job[i]
      /\ \A i \in Job : job'[i].by = job[i].by
  BY <1>1, <1>3 DEF Shape, TypeOK
<1>5. Served' = Served
  BY <1>4 DEF Served
<1>6. job[j].pc # "done" /\ job[j].result = "none"
  BY <1>1 DEF Shape, IInv, ResultInv
<1>7. /\ LockShape(j, s) /\ KernelShape(j, s) /\ PullShape(j, s)
      /\ StrayShape(j, s) /\ ResultShape(j, s)
  BY <1>1 DEF Shape
<1>8. TypeOK'
  <2>1. lock' \in Job \union {NoJob}
    BY <1>3, <1>7 DEF LockShape, Acquire, Release, TypeOK
  <2>2. kernel' \in Version /\ shown' \in Version
    BY <1>3, <1>7 DEF KernelShape, TypeOK, Version
  <2>3. stray' \subseteq Job
    BY <1>3, <1>7 DEF StrayShape, TypeOK
  <2> QED
    BY <1>2, <1>3, <1>4, <2>1, <2>2, <2>3 DEF TypeOK
<1>9. LockInv'
  <2>1. LockInv
    BY DEF IInv
  <2> QED
    BY <1>4, <1>5, <1>7, <2>1, JobAssumption
        DEF LockInv, LockShape, Acquire, Release, AtWork
<1> DEFINE IntruderNext(k) ==
             k \in Job /\ (k \notin Served \/ job'[k].result = "timeout")
<1>10. \A k : Intruder(k) => IntruderNext(k)
  BY <1>4, <1>6 DEF Intruder
<1>11. KernelInv'
  <2> SUFFICES ASSUME NEW i \in Served, job'[i].pc \in AfterPush
               PROVE  kernel'.of = i \/ IntruderNext(kernel'.of)
    BY <1>5 DEF KernelInv, AfterPush, Intruder
  <2>1. i \in Job
    BY DEF Served
  <2>2. CASE kernel' = kernel /\ (s.pc \in AfterPush => job[j].pc \in AfterPush)
    <3>1. job[i].pc \in AfterPush
      BY <1>4, <2>1, <2>2
    <3> QED
      BY <1>10, <2>2, <3>1 DEF IInv, KernelInv
  <2>3. CASE kernel'.of = j /\ job[j].pc = "push" /\ i # j
    <3>1. job[i].pc \in AfterPush
      BY <1>4, <2>1, <2>3
    <3>2. lock = i
      BY <2>1, <3>1 DEF IInv, LockInv, AfterPush
    <3>3. j \notin Served
      BY <2>3, <3>2 DEF IInv, LockInv
    <3> QED
      BY <2>3, <3>3
  <2> QED
    BY <1>7, <2>2, <2>3 DEF KernelShape
<1>12. OutputInv'
  BY <1>2, <1>7 DEF KernelShape, IInv, OutputInv
<1>13. PulledInv'
  <2> SUFFICES ASSUME ~lag, NEW i \in Job, kernel'.of = i
               PROVE  /\ job'[i].pc = "pull" => kernel'.status = "complete"
                      /\ job'[i].pc = "check" => /\ job'[i].folder.of = i
                                                 /\ job'[i].folder.left # "nothing"
    BY <1>2 DEF PulledInv
  <2>1. PulledInv /\ OutputInv
    BY DEF IInv
  <2>2. CASE kernel' = kernel /\ i # j
    BY <1>4, <2>1, <2>2 DEF PulledInv
  <2>3. CASE kernel' = kernel /\ i = j
    <3>1. s.pc = "pull" => kernel.status = "complete"
      BY <1>7, <2>1 DEF PullShape, OutputInv
    <3>2. ASSUME s.pc = "check"
          PROVE  s.folder.of = i /\ s.folder.left # "nothing"
      <4>1. job[j].pc = "pull" /\ kernel.status = "complete"
        BY <1>7, <2>1, <2>3, <3>2 DEF PullShape, PulledInv
      <4>2. output.of = j /\ output.left # "nothing"
        BY <2>1, <2>3, <4>1 DEF OutputInv
      <4> QED
        BY <1>7, <2>3, <3>2, <4>2 DEF PullShape
    <3> QED
      BY <1>4, <2>3, <3>1, <3>2
  <2>4. CASE kernel'.of = j /\ s.pc = "poll"
    BY <1>4, <2>4
  <2> QED
    BY <1>7, <2>2, <2>3, <2>4 DEF KernelShape
<1>14. StrayInv'
  <2> SUFFICES ASSUME NEW i \in stray'
               PROVE  job'[i].pc = "done" /\ job'[i].result = "timeout"
    BY DEF StrayInv
  <2>1. i \in stray => i # j /\ i \in Job
                       /\ job[i].pc = "done" /\ job[i].result = "timeout"
    BY <1>3, <1>6 DEF IInv, StrayInv, TypeOK
  <2> QED
    BY <1>4, <1>7, <2>1 DEF StrayShape
<1>15. ResultInv'
  BY <1>4, <1>7 DEF ResultShape, IInv, ResultInv
<1> QED
  BY <1>8, <1>9, <1>11, <1>12, <1>13, <1>14, <1>15 DEF IInv

\* What Kaggle does keeps the invariant, a push that arrives after all included.
LEMMA KaggleIInv ==
    ASSUME IInv, \/ KernelStarts \/ KernelEnds \/ StatusCatchesUp
                 \/ \E j \in Job : StrayArrives(j)
    PROVE  IInv'
<1>1. /\ kernel \in Version /\ shown \in Version /\ output \in Output
      /\ stray \subseteq Job
  BY DEF IInv, TypeOK
<1>2. UNCHANGED <<lag, lock, job>> /\ Served' = Served
  BY DEF KernelStarts, KernelEnds, StatusCatchesUp, StrayArrives, Served
<1>3. \A k : Intruder(k)' <=> Intruder(k)
  BY <1>2 DEF Intruder
<1>4. LockInv' /\ ResultInv'
  BY <1>2 DEF IInv, LockInv, ResultInv
<1>5. ASSUME /\ kernel'.of = kernel.of /\ kernel' \in Version
             /\ shown' \in Version /\ output' \in Output /\ stray' = stray,
             OutputInv', kernel.status = "complete" => kernel' = kernel
      PROVE  IInv'
  <2>1. TypeOK'
    BY <1>2, <1>5 DEF IInv, TypeOK
  <2>2. KernelInv' /\ StrayInv' /\ PulledInv'
    BY <1>2, <1>3, <1>5 DEF IInv, KernelInv, StrayInv, PulledInv
  <2> QED
    BY <1>4, <1>5, <2>1, <2>2 DEF IInv
<1>6. CASE KernelStarts
  <2>1. /\ kernel'.of = kernel.of /\ kernel' \in Version
        /\ kernel'.status = "running" /\ kernel.status = "queued"
    BY <1>1, <1>6 DEF KernelStarts, Version
  <2>2. OutputInv'
    BY <1>6, <2>1 DEF KernelStarts, IInv, OutputInv
  <2> QED
    BY <1>1, <1>5, <1>6, <2>1, <2>2 DEF KernelStarts
<1>7. CASE KernelEnds
  <2>1. /\ kernel'.of = kernel.of /\ kernel' \in Version
        /\ kernel.status = "running" /\ shown' \in Version
    BY <1>1, <1>7 DEF KernelEnds, Version, Ended
  <2>2. output' \in Output
    BY <1>1, <1>7 DEF KernelEnds, Version, Output, Outcome
  <2>3. OutputInv'
    BY <1>1, <1>7 DEF KernelEnds, IInv, OutputInv, Version
  <2> QED
    BY <1>5, <1>7, <2>1, <2>2, <2>3 DEF KernelEnds
<1>8. CASE StatusCatchesUp
  BY <1>1, <1>2, <1>5, <1>8 DEF StatusCatchesUp, IInv, OutputInv
<1>9. ASSUME NEW j \in Job, StrayArrives(j)
      PROVE  IInv'
  <2>1. /\ kernel' = [of |-> j, status |-> "queued"]
        /\ shown' = kernel' \/ (lag /\ shown' = shown)
        /\ output' = output /\ j \in stray /\ stray' = stray \ {j}
    BY <1>9 DEF StrayArrives, Arrives
  <2>2. job[j].pc = "done" /\ Intruder(j)
    BY <2>1 DEF IInv, StrayInv, Intruder
  <2>3. TypeOK'
    BY <1>1, <1>2, <2>1 DEF IInv, TypeOK, Version
  <2>4. OutputInv'
    BY <1>2, <2>1 DEF OutputInv
  <2>5. KernelInv'
    BY <1>2, <1>3, <2>1, <2>2 DEF KernelInv
  <2>6. PulledInv' /\ StrayInv'
    BY <1>2, <2>1, <2>2 DEF PulledInv, StrayInv, IInv
  <2> QED
    BY <1>4, <2>3, <2>4, <2>5, <2>6 DEF IInv
<1> QED
  BY <1>6, <1>7, <1>8, <1>9

LEMMA NextIInv ==
    ASSUME IInv, [Next]_vars
    PROVE  IInv'
<1>1. CASE UNCHANGED vars
  BY <1>1 DEF vars, remote, IInv, TypeOK, LockInv, KernelInv, ResultInv,
              OutputInv, PulledInv, StrayInv, Served, Intruder
<1> QED
  BY <1>1, JobStepIInv, KaggleIInv DEF Next

-----------------------------------------------------------------------------
\* The inductive invariant holds for every number of executions, polls and
\* tolerated errors, whether or not the status lags and whenever a push that
\* was given up arrives.
THEOREM Inductive == Spec => []IInv
<1>1. Init => IInv
  BY InitIInv
<1>2. IInv /\ [Next]_vars => IInv'
  BY NextIInv
<1> QED
  BY <1>1, <1>2, PTL DEF Spec

\* A new result comes with a step of its own execution.
LEMMA NewResult ==
    ASSUME IInv, [Next]_vars, NEW j \in Job,
           job[j].result = "none", job'[j].result # "none"
    PROVE  ResultShape(j, job'[j])
<1>1. PICK i \in Job : JobStep(i)
  BY DEF Next, vars, KernelStarts, KernelEnds, StatusCatchesUp, StrayArrives
<1>2. PICK s \in State : Shape(i, s)
  BY <1>1, StepShape
<1>3. i = j /\ job'[j] = s
  BY <1>2 DEF Shape, IInv, TypeOK
<1> QED
  BY <1>2, <1>3 DEF Shape

\* The API's lock keeps its callers' failures apart.
THEOREM FailuresAreOwn == Spec => FailureIsOwn
<1>1. ASSUME IInv, [Next]_vars, NEW j \in Served,
             job[j].result = "none", job'[j].result = "kernel_failed"
      PROVE  kernel.of = j \/ Intruder(kernel.of)
  <2>1. job[j].pc = "poll"
    BY <1>1, NewResult DEF Served, ResultShape
  <2> QED
    BY <1>1, <2>1 DEF IInv, KernelInv, AfterPush
<1>2. IInv /\ [Next]_vars =>
        [\A j \in Served :
           /\ job[j].result = "none" /\ job'[j].result = "kernel_failed"
           /\ shown = kernel
           => kernel.of = j \/ Intruder(kernel.of)]_vars
  BY <1>1
<1> QED
  BY <1>2, Inductive, PTL DEF Spec, FailureIsOwn

\* What a caller's version made is found, if the status does not lag and no
\* intruder pushed over it.
THEOREM OutputsAreFound == Spec => NothingIsMissed
<1>1. ASSUME IInv, [Next]_vars, NEW j \in Served,
             job[j].result = "none", job'[j].result = "no_artifact", ~lag
      PROVE  Intruder(kernel.of)
  <2>1. /\ job[j].pc = "check"
        /\ job[j].folder.of # j \/ job[j].folder.left = "nothing"
    BY <1>1, NewResult DEF Served, ResultShape
  <2>2. kernel.of # j
    BY <1>1, <2>1 DEF IInv, PulledInv, Served
  <2> QED
    BY <1>1, <2>1, <2>2 DEF IInv, KernelInv, AfterPush
<1>2. IInv /\ [Next]_vars =>
        [\A j \in Served :
           /\ job[j].result = "none" /\ job'[j].result = "no_artifact"
           /\ ~lag
           => Intruder(kernel.of)]_vars
  BY <1>1
<1> QED
  BY <1>2, Inductive, PTL DEF Spec, NothingIsMissed
=============================================================================
