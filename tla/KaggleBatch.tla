---------------------------- MODULE KaggleBatch ----------------------------
(***************************************************************************)
(* Headless runs on Kaggle: each stages a notebook, pushes it as a new     *)
(* version of one kernel, polls the kernel's status, downloads its output  *)
(* and looks for what it asked for.  Two programs do this: the bridge of   *)
(* src/audiogen/engine.py (one task, wants its audio) and run_kaggle of    *)
(* batch/runner.py (a manifest, wants the summary).  They share the kernel *)
(* without knowing of each other; requests to the HTTP API of              *)
(* src/audiogen/main.py take turns under its inference lock.               *)
(*                                                                         *)
(* A step is one call of the kaggle command.  Kaggle is modelled from the  *)
(* answers the code is prepared for: the status shown may lag behind a     *)
(* push, a push that timed out may arrive at any time afterwards, and the  *)
(* output is that of the version that ended last.  Staging directories are *)
(* left out: a job reads back nothing from its own, and whether it is      *)
(* removed, left behind or its caller's changes nothing else.  What the    *)
(* notebook does with its tasks is in BatchNotebook; here a run leaves     *)
(* speech, a failure in its summary, or nothing.                           *)
(***************************************************************************)
EXTENDS Naturals, FiniteSets

CONSTANTS
    Job, NoJob,     \* executions; none
    MaxPolls,       \* polls before the deadline (timeout / poll_interval)
    MaxErrors,      \* max_consecutive_errors: 3 in the code
    Lags            \* does the status shown lag behind a push?

ASSUME JobAssumption == NoJob \notin Job
ASSUME BoundAssumption == MaxPolls \in Nat /\ MaxErrors \in Nat \ {0}
ASSUME LagAssumption == Lags \subseteq BOOLEAN

VARIABLES
    kernel,   \* the version pushed last, and its status
    shown,    \* what "kernels status" answers
    output,   \* what "kernels output" downloads
    lag,      \* may "shown" lag behind in this behaviour?
    stray,    \* the jobs that gave up a push which may still arrive
    lock,     \* the job that holds the API's inference lock
    job       \* the executions

remote == <<kernel, shown, output>>
vars == <<remote, lag, stray, lock, job>>

\* "error" stands for every status of a failed or cancelled kernel.
Ended == {"complete", "error"}
Version == [of : Job \union {NoJob}, status : {"queued", "running"} \union Ended]
Outcome == {"speech", "failed", "nothing"}
Output == [of : Job \union {NoJob}, left : Outcome]

Results == {"none", "audio", "summary", "status_only",
            "failed", "no_artifact", "kernel_failed", "timeout"}
\* An execution is a request to the API, which holds its inference lock, a
\* command-line call of the bridge, or run_kaggle.
Program == {"api", "bridge", "runner"}

State == [by : Program,
          pc : {"idle", "push", "poll", "pull", "check", "done"},
          errors : 0..MaxErrors,       \* consecutive failed status calls
          polls : 0..MaxPolls,
          folder : Output,             \* what its output directory holds
          result : Results]

\* Every variable has its type.
TypeOK ==
    /\ kernel \in Version /\ shown \in Version
    /\ output \in Output
    /\ lag \in BOOLEAN /\ stray \subseteq Job
    /\ lock \in Job \union {NoJob}
    /\ job \in [Job -> State]

\* The kernel has some past.  The bridge downloads into a new directory,
\* run_kaggle into one that may hold the summary of an earlier run.
Init ==
    /\ kernel \in [of : {NoJob}, status : Ended]
    /\ shown = kernel
    /\ output = [of |-> NoJob,
                 left |-> IF kernel.status = "complete" THEN "speech" ELSE "nothing"]
    /\ lag \in Lags /\ stray = {}
    /\ lock = NoJob
    /\ \E by \in [Job -> Program], used \in SUBSET Job :
          /\ \A j \in used : by[j] = "runner"
          /\ job = [j \in Job |->
                     [by |-> by[j], pc |-> "idle", errors |-> 0, polls |-> 0,
                      folder |-> [of |-> NoJob,
                                  left |-> IF j \in used THEN "speech" ELSE "nothing"],
                      result |-> "none"]]

Bridge == {j \in Job : job[j].by # "runner"}
Served == {j \in Job : job[j].by = "api"}

-----------------------------------------------------------------------------
\* Mutant of Acquire: the lock is not waited for.
AcquireAtOnce(j) == lock' = IF j \in Served THEN j ELSE lock

\* async with inference_lock: around the whole execution
Acquire(j) ==
    IF j \in Served THEN lock = NoJob /\ lock' = j ELSE UNCHANGED lock

Release(j) == lock' = IF lock = j THEN NoJob ELSE lock

Goto(j, pc) == job' = [job EXCEPT ![j].pc = pc]

\* The last step of an execution; the loop's counters are gone.
Finished(j, result) ==
    [job[j] EXCEPT !.pc = "done", !.result = result, !.errors = 0, !.polls = 0]

\* Mutant of End: the lock is kept.
EndHolding(j, result) ==
    /\ job' = [job EXCEPT ![j] = Finished(j, result)]
    /\ UNCHANGED lock

End(j, result) ==
    /\ job' = [job EXCEPT ![j] = Finished(j, result)]
    /\ Release(j)

-----------------------------------------------------------------------------
Stage(j) ==
    /\ job[j].pc = "idle"
    /\ Acquire(j)
    /\ Goto(j, "push")
    /\ UNCHANGED <<remote, lag, stray>>

\* Staging raises: the language or a template.
StageFails(j) ==
    /\ job[j].pc = "idle"
    /\ j \in Served => lock = NoJob
    /\ job' = [job EXCEPT ![j].pc = "done", ![j].result = "failed"]
    /\ UNCHANGED <<remote, lag, stray, lock>>

\* The new version is queued; what is shown follows at once or later.
Arrives(j) ==
    /\ kernel' = [of |-> j, status |-> "queued"]
    /\ shown' = kernel' \/ (lag /\ UNCHANGED shown)
    /\ UNCHANGED output

\* Mutant of Push: the lock is given back once the version is pushed.
PushReleasing(j) ==
    /\ job[j].pc = "push"
    /\ Arrives(j)
    /\ Goto(j, "poll")
    /\ Release(j)
    /\ UNCHANGED <<lag, stray>>

Push(j) ==
    /\ job[j].pc = "push"
    /\ Arrives(j)
    /\ Goto(j, "poll")
    /\ UNCHANGED <<lag, stray, lock>>

PushRefused(j) ==
    /\ job[j].pc = "push"
    /\ End(j, "failed")
    /\ UNCHANGED <<remote, lag, stray>>

\* The call was given up after 60 s; the push may yet arrive.
PushTimesOut(j) ==
    /\ job[j].pc = "push"
    /\ End(j, "timeout")
    /\ stray' = stray \union {j}
    /\ UNCHANGED <<remote, lag>>

-----------------------------------------------------------------------------
\* The loop: the deadline is looked at first, then the status is asked for.
BeforeDeadline(j) == job[j].pc = "poll" /\ job[j].polls < MaxPolls

\* Mutant of PollAgain: the time that has passed is not counted.
PollAgainForever(j, errors) ==
    /\ job' = [job EXCEPT ![j].errors = errors]
    /\ UNCHANGED lock

PollAgain(j, errors) ==
    /\ job' = [job EXCEPT ![j].polls = @ + 1, ![j].errors = errors]
    /\ UNCHANGED lock

Deadline(j) ==
    /\ job[j].pc = "poll" /\ job[j].polls = MaxPolls
    /\ End(j, "timeout")
    /\ UNCHANGED <<remote, lag, stray>>

\* The command hangs until its own deadline.
PollHangs(j) ==
    /\ BeforeDeadline(j)
    /\ End(j, "timeout")
    /\ UNCHANGED <<remote, lag, stray>>

\* The command fails: the third failure in a row ends the execution.
PollFails(j) ==
    /\ BeforeDeadline(j)
    /\ IF job[j].errors + 1 >= MaxErrors
         THEN End(j, "failed")
         ELSE PollAgain(j, job[j].errors + 1)
    /\ UNCHANGED <<remote, lag, stray>>

PollAnswered(j) ==
    /\ BeforeDeadline(j)
    /\ \/ /\ shown.status \in {"queued", "running"}
          /\ PollAgain(j, 0)
       \/ /\ shown.status = "complete"
          /\ job' = [job EXCEPT ![j].pc = "pull", ![j].errors = 0]
          /\ UNCHANGED lock
       \/ /\ shown.status = "error"
          /\ End(j, "kernel_failed")
    /\ UNCHANGED <<remote, lag, stray>>

-----------------------------------------------------------------------------
\* The download overwrites what it brings and keeps what was there.
Pull(j) ==
    /\ job[j].pc = "pull"
    /\ job' = [job EXCEPT ![j].pc = "check",
                          ![j].folder = IF output.left = "nothing" THEN @ ELSE output]
    /\ UNCHANGED <<remote, lag, stray, lock>>

PullFails(j) ==
    /\ job[j].pc = "pull"
    /\ \E result \in {"failed", "timeout"} : End(j, result)
    /\ UNCHANGED <<remote, lag, stray>>

\* The bridge looks for its own task in the summary and for a recording with
\* the name of its task.
BridgeChecks(j) ==
    /\ j \in Bridge /\ job[j].pc = "check"
    /\ \/ job[j].folder = [of |-> j, left |-> "speech"] /\ End(j, "audio")
       \/ job[j].folder = [of |-> j, left |-> "failed"] /\ End(j, "failed")
       \/ /\ job[j].folder.of # j \/ job[j].folder.left = "nothing"
          /\ End(j, "no_artifact")
    /\ UNCHANGED <<remote, lag, stray>>

\* run_kaggle returns the summary it finds, or that the kernel is complete.
RunnerChecks(j) ==
    /\ j \notin Bridge /\ job[j].pc = "check"
    /\ End(j, IF job[j].folder.left = "nothing" THEN "status_only" ELSE "summary")
    /\ UNCHANGED <<remote, lag, stray>>

-----------------------------------------------------------------------------
\* Kaggle

KernelStarts ==
    /\ kernel.status = "queued"
    /\ kernel' = [kernel EXCEPT !.status = "running"]
    /\ UNCHANGED <<shown, output, lag, stray, lock, job>>

KernelEnds ==
    /\ kernel.status = "running"
    /\ \/ /\ kernel' = [kernel EXCEPT !.status = "complete"]
          /\ \E left \in {"speech", "failed"} :
                output' = [of |-> kernel.of, left |-> left]
       \/ /\ kernel' = [kernel EXCEPT !.status = "error"]
          /\ output' = [of |-> kernel.of, left |-> "nothing"]
    /\ shown' = IF lag THEN shown ELSE kernel'
    /\ UNCHANGED <<lag, stray, lock, job>>

\* A push that was given up arrives after all, or never.
StrayArrives(j) ==
    /\ j \in stray
    /\ Arrives(j)
    /\ stray' = stray \ {j}
    /\ UNCHANGED <<lag, lock, job>>

StatusCatchesUp ==
    /\ shown # kernel
    /\ shown' = kernel
    /\ UNCHANGED <<kernel, output, lag, stray, lock, job>>

-----------------------------------------------------------------------------
JobStep(j) ==
    \/ Stage(j) \/ StageFails(j) \/ Push(j) \/ PushRefused(j) \/ PushTimesOut(j)
    \/ Deadline(j) \/ PollHangs(j) \/ PollFails(j) \/ PollAnswered(j)
    \/ Pull(j) \/ PullFails(j) \/ BridgeChecks(j) \/ RunnerChecks(j)

Next ==
    \/ \E j \in Job : JobStep(j) \/ StrayArrives(j)
    \/ KernelStarts \/ KernelEnds \/ StatusCatchesUp

\* The program goes on after each call, and every call has a deadline.  The
\* lock is given back once by each execution, so no stronger fairness is needed
\* to get it.
Fairness == \A j \in Job : WF_vars(JobStep(j))

Spec == Init /\ [][Next]_vars /\ Fairness

-----------------------------------------------------------------------------
\* The kernel is at a version that no lock keeps away: of a command-line run, or
\* of an execution whose push was given up.
Intruder(k) == k \in Job /\ (k \notin Served \/ job[k].result = "timeout")

\* A caller of the API that is told "the kernel failed" is told of its own
\* version, if the status shown is up to date and no intruder has pushed over
\* it: the lock keeps callers apart.
FailureIsOwn ==
    [][\A j \in Served :
         /\ job[j].result = "none" /\ job'[j].result = "kernel_failed"
         /\ shown = kernel
         => kernel.of = j \/ Intruder(kernel.of)]_vars

\* What a caller's version made is not missed: the bridge, which takes nothing
\* but its own task's files, finds its recording or its failure in the output,
\* unless the status lags or an intruder pushed between its push and its
\* download.
NothingIsMissed ==
    [][\A j \in Served :
         /\ job[j].result = "none" /\ job'[j].result = "no_artifact"
         /\ ~lag
         => Intruder(kernel.of)]_vars

\* The lock is held by an execution of the API at work, and by no other: nobody
\* waits for one that has ended, and no two run together.
LockInv ==
    \A j \in Job : j \in Served /\ job[j].pc \notin {"idle", "done"} <=> lock = j

\* From its push to its answer, an execution under the lock has the kernel at
\* its own version or at an intruder's.
AfterPush == {"poll", "pull", "check"}
KernelInv ==
    \A j \in Served : job[j].pc \in AfterPush =>
       kernel.of = j \/ Intruder(kernel.of)

\* The output is that of the version that is complete, and a status that does
\* not lag tells when that is.
OutputInv ==
    /\ kernel.status = "complete" =>
          output.of = kernel.of /\ output.left # "nothing"
    /\ ~lag => shown = kernel \/ shown.status = "queued"

\* So an execution whose version nobody pushed over downloads what it made.
PulledInv ==
    ~lag => \A j \in Job : kernel.of = j =>
       /\ job[j].pc = "pull" => kernel.status = "complete"
       /\ job[j].pc = "check" => /\ job[j].folder.of = j
                                 /\ job[j].folder.left # "nothing"

\* Who gave up a push has ended.
StrayInv == \A j \in stray : job[j].pc = "done" /\ job[j].result = "timeout"

\* The result comes with the end.
ResultInv == \A j \in Job : job[j].pc # "done" => job[j].result = "none"

\* The inductive invariant
IInv == /\ TypeOK /\ LockInv /\ KernelInv /\ OutputInv /\ PulledInv
        /\ StrayInv /\ ResultInv

\* Every execution ends, also when Kaggle never finishes.
JobsEnd == \A j \in Job : <>(job[j].pc = "done")
=============================================================================
