--------------------------- MODULE SessionGateway ---------------------------
(***************************************************************************)
(* The session gateway: one asyncio event loop that runs the handlers of   *)
(* concurrent HTTP requests and one background polling task.  A step of    *)
(* this module is what a coroutine does between two awaits.  `lock' is the *)
(* gateway's asyncio.Lock; a handler that awaits while it holds the lock   *)
(* (start, reconcile) keeps it from one step to the next, everything else  *)
(* takes and releases it within one step.                                  *)
(*                                                                         *)
(* Left out: texts, timestamps, operation and attempt numbers, the desired *)
(* state and the observed state (all of them reported, none of them        *)
(* tested), and the lease watchdog, whose loop only sleeps.                *)
(***************************************************************************)
EXTENDS RemoteWorld, Naturals

CONSTANTS
    Request, NoRequest,   \* handlers that can be in flight at once
    PollTask, NoTask,     \* background tasks that can be alive at once
    NoFile,               \* there is no session file on disk
    MaxPolls,             \* bound: polls within startup_timeout_seconds
    MaxSessions,          \* bound: session identifiers ever generated
    MaxRestarts,          \* bound: crashes and restarts of the gateway
    DiskMayFail           \* may a write of the session file fail?

ASSUME BoundsAssumption ==
    /\ MaxPolls \in Nat
    /\ MaxSessions \in Nat \ {0}
    /\ MaxRestarts \in Nat
    /\ DiskMayFail \in BOOLEAN
ASSUME NullsAssumption ==
    /\ NoRequest \notin Request
    /\ NoTask \notin PollTask

VARIABLES
    state,      \* _state
    failure,    \* _failure_stage
    tunnel,     \* _tunnel_url
    session,    \* _session_id
    minted,     \* number of session identifiers generated so far
    lock,       \* the request that holds _lock across an await
    req,        \* the handlers in flight
    polling,    \* _polling_task
    poll,       \* the background tasks
    file,       \* scratch/session.json
    restarts    \* restarts so far

memory == <<state, failure, tunnel, session>>
vars == <<remoteVars, memory, minted, lock, req, polling, poll, file, restarts>>

-----------------------------------------------------------------------------
GatewayState == {"IDLE", "STARTING", "RUNNING", "RECOVERING", "READY",
                 "ERROR", "TERMINATING", "SHUTDOWN"}
FailureStage == {"none", "local_configuration", "kaggle_push", "kaggle_status",
                 "kaggle_kernel", "registry_communication", "timeout"}
SessionId == 1 .. MaxSessions

\* What a handler awaits.  The first three are awaited with the lock held.
HoldingPc == {"start_probe", "rec_probe", "rec_status"}
RequestPc == HoldingPc \union {"idle", "term_post", "term_delete", "term_final"}
Handler == [pc : RequestPc, url : UrlOrNone]
IdleHandler == [pc |-> "idle", url |-> NoUrl]

\* What a background task awaits: a thread (push, status, discover, final), the
\* lock with a decision already taken (conflict, ready, fail), or the clock.
PollPc == {"done", "push", "conflict", "status", "discover", "sleep", "final",
           "ready", "fail"}
Poller == [pc : PollPc, cancelled : BOOLEAN, polls : 0 .. MaxPolls,
           url : UrlOrNone, stage : FailureStage]
DonePoller == [pc |-> "done", cancelled |-> FALSE, polls |-> 0,
               url |-> NoUrl, stage |-> "none"]

SavedSession == [state : GatewayState, failure : FailureStage,
                 tunnel : UrlOrNone, session : SessionId]
ASSUME NoFileAssumption == NoFile \notin SavedSession

\* Every variable has its type; the session in use has been generated.
TypeOK ==
    /\ RemoteTypeOK
    /\ state \in GatewayState
    /\ failure \in FailureStage
    /\ tunnel \in UrlOrNone
    /\ minted \in SessionId
    /\ session \in SessionId
    /\ lock \in Request \union {NoRequest}
    /\ req \in [Request -> Handler]
    /\ polling \in PollTask \union {NoTask}
    /\ poll \in [PollTask -> Poller]
    /\ file \in SavedSession \union {NoFile}
    /\ restarts \in 0 .. MaxRestarts

-----------------------------------------------------------------------------
\* Helpers
Image == [state |-> state, failure |-> failure,
          tunnel |-> tunnel, session |-> session]

\* Mutant of Persist: start_session leaves the write to its background task.
PersistUnlessStarting ==
    IF state' = "STARTING" THEN file' = file ELSE file' = Image'

\* _write_session_state: the new memory goes to disk, in one rename.  A failed
\* write is logged and ignored, so the file then keeps its older contents.
Persist == file' = Image' \/ (DiskMayFail /\ file' = file)

Alive(p) == poll[p].pc # "done"
PollingDone == \A p \in PollTask : p = polling => ~Alive(p)

\* Mutant of PollAfterCancel: terminate forgets the background task.
PollNotCancelled == poll

\* Task.cancel on _polling_task, if it is still running
PollAfterCancel == [p \in PollTask |-> IF p = polling /\ Alive(p)
                                       THEN [poll[p] EXCEPT !.cancelled = TRUE]
                                       ELSE poll[p]]

\* A cancelled task ends in the event-loop iteration after the cancellation;
\* a thread that was started later can only report after that.
CancellationsDelivered == \A p \in PollTask : Alive(p) => ~poll[p].cancelled

\* The pc of a task at the top of its loop, after n polls
LoopTop(n) == IF n < MaxPolls THEN "status" ELSE "final"

\* create_task: the gateway's polling task is now p, which starts at pc
Spawn(p, pc, others) ==
    /\ ~Alive(p)
    /\ polling' = p
    /\ poll' = [others EXCEPT ![p] = [DonePoller EXCEPT !.pc = pc]]

BecomeReady(u) ==
    /\ tunnel' = u
    /\ state' = "READY"
    /\ failure' = "none"
    /\ UNCHANGED session
    /\ Persist

Acquire(r, pc) ==
    /\ lock = NoRequest
    /\ req[r].pc = "idle"
    /\ lock' = r
    /\ req' = [req EXCEPT ![r] = [IdleHandler EXCEPT !.pc = pc]]

Release(r) ==
    /\ lock' = NoRequest
    /\ req' = [req EXCEPT ![r] = IdleHandler]

-----------------------------------------------------------------------------
\* A process starts: __init__, then load_persisted_state over it, then the
\* reconciliation task of the lifespan, which takes the lock at once.
\* (LoadedWithoutTunnel, a mutant of Loaded, forgets the tunnel of the file.)
LoadedWithoutTunnel(f) ==
    IF f = NoFile
    THEN [state |-> "IDLE", failure |-> "none", tunnel |-> NoUrl,
          session |-> minted']
    ELSE [f EXCEPT !.tunnel = NoUrl]


Loaded(f) ==
    IF f = NoFile
    THEN [state |-> "IDLE", failure |-> "none", tunnel |-> NoUrl,
          session |-> minted']
    ELSE f

Boot(r) ==
    /\ minted' = IF file = NoFile THEN minted + 1 ELSE minted
    /\ state' = Loaded(file).state
    /\ failure' = Loaded(file).failure
    /\ tunnel' = Loaded(file).tunnel
    /\ session' = Loaded(file).session
    /\ lock' = r
    /\ req' = [q \in Request |-> IF q = r
                                 THEN [IdleHandler EXCEPT !.pc = "rec_probe"]
                                 ELSE IdleHandler]
    /\ polling' = NoTask
    /\ poll' = [p \in PollTask |-> DonePoller]

Init ==
    /\ RemoteInit
    /\ state = "IDLE"
    /\ failure = "none"
    /\ tunnel = NoUrl
    /\ session = 1
    /\ minted = 1
    /\ \E r \in Request :
          /\ lock = r
          /\ req = [q \in Request |-> IF q = r
                                      THEN [IdleHandler EXCEPT !.pc = "rec_probe"]
                                      ELSE IdleHandler]
    /\ polling = NoTask
    /\ poll = [p \in PollTask |-> DonePoller]
    /\ file = NoFile
    /\ restarts = 0

\* The process dies (a crash, a kill, the exit a terminate schedules) and is
\* started again: every task is gone, only the file is left.
Restart(r) ==
    /\ restarts < MaxRestarts
    /\ file = NoFile => minted < MaxSessions
    /\ restarts' = restarts + 1
    /\ Boot(r)
    /\ UNCHANGED <<remoteVars, file>>

-----------------------------------------------------------------------------
\* Mutants of StartAdmits: it looks at the state alone; it takes no notice of READY.
StartAdmitsByState ==
    state \notin {"STARTING", "RECOVERING"} /\ ~(state = "READY" /\ tunnel # NoUrl)
StartAdmitsReady == state \notin {"STARTING", "RECOVERING"} /\ PollingDone

\* POST /session/start.  The no-op answers (an operation in progress, READY
\* with a tunnel) change nothing and are no step.
StartAdmits ==
    /\ state \notin {"STARTING", "RECOVERING"}
    /\ PollingDone
    /\ ~(state = "READY" /\ tunnel # NoUrl)

\* validate_session_configuration says no.  The one change of state that is
\* not written to the session file.
StartMisconfigured ==
    /\ lock = NoRequest
    /\ StartAdmits
    /\ state' = "ERROR"
    /\ failure' = "local_configuration"
    /\ UNCHANGED <<remoteVars, tunnel, session, minted, lock, req, polling,
                   poll, file, restarts>>

\* The configuration is fine: probe for a tunnel, holding the lock.
StartBegin(r) ==
    /\ StartAdmits
    /\ minted < MaxSessions
    /\ Acquire(r, "start_probe")
    /\ UNCHANGED <<remoteVars, memory, minted, polling, poll, file, restarts>>

\* A worker is already up: reuse it.
StartReuse(r, u) ==
    /\ req[r].pc = "start_probe"
    /\ CancellationsDelivered
    /\ Discovered(u)
    /\ BecomeReady(u)
    /\ Release(r)
    /\ UNCHANGED <<remoteVars, minted, polling, poll, restarts>>

\* No usable tunnel: a new session, and a task p to push and poll.
StartFresh(r, p) ==
    /\ req[r].pc = "start_probe"
    /\ CancellationsDelivered
    /\ minted' = minted + 1
    /\ session' = minted'
    /\ state' = "STARTING"
    /\ failure' = "none"
    /\ tunnel' = NoUrl
    /\ Persist
    /\ Spawn(p, "push", PollAfterCancel)
    /\ Release(r)
    /\ UNCHANGED <<remoteVars, restarts>>

-----------------------------------------------------------------------------
\* POST /session/reconcile, and the task every process starts with.
ReconcileBegin(r) ==
    /\ Acquire(r, "rec_probe")
    /\ UNCHANGED <<remoteVars, memory, minted, polling, poll, file, restarts>>

ReconcileReady(r, u) ==
    /\ req[r].pc = "rec_probe"
    /\ CancellationsDelivered
    /\ Discovered(u)
    /\ BecomeReady(u)
    /\ Release(r)
    /\ UNCHANGED <<remoteVars, minted, polling, poll, restarts>>

ReconcileNotReady(r) ==
    /\ req[r].pc = "rec_probe"
    /\ req' = [req EXCEPT ![r].pc = "rec_status"]
    /\ UNCHANGED <<remoteVars, memory, minted, lock, polling, poll, file, restarts>>

\* The kernel is queued or running: wait for its tunnel, with a polling task
\* unless one is at work.
ReconcileActive(r) ==
    /\ req[r].pc = "rec_status"
    /\ CancellationsDelivered
    /\ kernel \in ActiveStatus
    /\ state' = IF state \in {"STARTING", "READY"} THEN state ELSE "RECOVERING"
    /\ UNCHANGED <<failure, tunnel, session>>
    /\ Persist
    /\ \/ /\ PollingDone
          /\ \E p \in PollTask : Spawn(p, LoopTop(0), poll)
       \/ /\ ~PollingDone
          /\ UNCHANGED <<polling, poll>>
    /\ Release(r)
    /\ UNCHANGED <<remoteVars, minted, restarts>>

\* The kernel has ended.
ReconcileEnded(r) ==
    /\ req[r].pc = "rec_status"
    /\ CancellationsDelivered
    /\ kernel \in TerminalStatus
    /\ \/ /\ state \in {"READY", "STARTING", "RECOVERING"}
          /\ state' = IF kernel = "COMPLETE" THEN "IDLE" ELSE "ERROR"
          /\ failure' = "kaggle_kernel"
          /\ tunnel' = NoUrl
          /\ UNCHANGED session
          /\ Persist
       \/ /\ state \notin {"READY", "STARTING", "RECOVERING"}
          /\ UNCHANGED <<memory, file>>
    /\ Release(r)
    /\ UNCHANGED <<remoteVars, minted, polling, poll, restarts>>

\* The status is unknown: the command failed, or printed nothing known.
ReconcileUnknown(r) ==
    /\ req[r].pc = "rec_status"
    /\ CancellationsDelivered
    /\ \/ /\ state = "READY"
          /\ state' = "IDLE"
          /\ failure' = "none"
          /\ tunnel' = NoUrl
          /\ UNCHANGED session
          /\ Persist
       \/ /\ state # "READY"
          /\ UNCHANGED <<memory, file>>
    /\ Release(r)
    /\ UNCHANGED <<remoteVars, minted, polling, poll, restarts>>

-----------------------------------------------------------------------------
\* POST /session/terminate.  The answers that do nothing are no step: already
\* terminating or shut down, another session's identifier, no identifier while
\* STARTING or READY.  With the session's own identifier every other state is
\* admitted.  The teardown of an idle gateway is the final section alone.
TerminateBegin(r) ==
    /\ lock = NoRequest
    /\ req[r].pc = "idle"
    /\ state \notin {"TERMINATING", "SHUTDOWN"}
    /\ req' = [req EXCEPT ![r] =
                  [pc |-> IF state = "IDLE" THEN "term_final" ELSE "term_post",
                   url |-> tunnel]]
    /\ state' = "TERMINATING"
    /\ UNCHANGED <<failure, tunnel, session>>
    /\ Persist
    /\ poll' = PollAfterCancel
    /\ UNCHANGED <<remoteVars, minted, lock, polling, restarts>>

\* POST <tunnel>/shutdown, without the lock: it reaches the worker or does not.
\* The cancellation of the kernel that follows is always skipped, for want of
\* a kernel session identifier.
TerminatePost(r) ==
    /\ req[r].pc = "term_post"
    /\ req' = [req EXCEPT ![r].pc = "term_delete"]
    /\ \/ /\ req[r].url # NoUrl
          /\ live = req[r].url
          /\ WorkerExits
       \/ UNCHANGED remoteVars
    /\ UNCHANGED <<memory, minted, lock, polling, poll, file, restarts>>

\* Mutant of TerminateDelete: an error of the registry escapes from the handler.
TerminateDeleteRaising(r) ==
    /\ req[r].pc = "term_delete"
    /\ \/ req' = [req EXCEPT ![r].pc = "term_final"] /\ registered' = NoUrl
       \/ req' = [req EXCEPT ![r] = IdleHandler] /\ UNCHANGED registered
    /\ UNCHANGED <<kernel, live, memory, minted, lock, polling, poll, file, restarts>>

\* delete_tunnel_url, without the lock: deletes whatever the key holds, or fails.
TerminateDelete(r) ==
    /\ req[r].pc = "term_delete"
    /\ req' = [req EXCEPT ![r].pc = "term_final"]
    /\ registered' \in {registered, NoUrl}
    /\ UNCHANGED <<kernel, live, memory, minted, lock, polling, poll, file, restarts>>

\* The finally block, with the lock again.
TerminateFinal(r) ==
    /\ lock = NoRequest
    /\ req[r].pc = "term_final"
    /\ file' = NoFile \/ (DiskMayFail /\ file' = file)
    /\ state' = "SHUTDOWN"
    /\ tunnel' = NoUrl
    /\ req' = [req EXCEPT ![r] = IdleHandler]
    /\ UNCHANGED <<remoteVars, failure, session, minted, lock, polling, poll, restarts>>

\* record_heartbeat, from POST /session/heartbeat and GET /session/status: no
\* lock and no test of the state.
Heartbeat ==
    /\ UNCHANGED memory
    /\ Persist
    /\ UNCHANGED <<remoteVars, minted, lock, req, polling, poll, restarts>>

-----------------------------------------------------------------------------
\* The background task.  A thread reads the outside world in one step; the
\* task acts on the answer in a later one, when it has the lock.
Running(p, pc) ==
    /\ poll[p].pc = pc
    /\ ~poll[p].cancelled

Goto(p, pc) == poll' = [poll EXCEPT ![p].pc = pc]
GotoReady(p, u) == poll' = [poll EXCEPT ![p].pc = "ready", ![p].url = u]
\* (GotoFailSilently, a mutant of GotoFail, returns without saying why.)
GotoFailSilently(p, stage) == poll' = [poll EXCEPT ![p] = DonePoller]
GotoFail(p, stage) == poll' = [poll EXCEPT ![p].pc = "fail", ![p].stage = stage]
PollOnly == UNCHANGED <<memory, minted, lock, req, polling, file, restarts>>

\* CancelledError at whatever the task awaits.  A thread it awaited runs on:
\* a push may still be accepted (see RemoteWorld!Launch).
PollCancelled(p) ==
    /\ Alive(p)
    /\ poll[p].cancelled
    /\ poll' = [poll EXCEPT ![p] = DonePoller]
    /\ UNCHANGED remoteVars
    /\ PollOnly

PollPush(p) ==
    /\ Running(p, "push")
    /\ \/ Launch /\ Goto(p, LoopTop(0))
       \/ UNCHANGED remoteVars /\ Goto(p, "conflict")
       \/ UNCHANGED remoteVars /\ GotoFail(p, "kaggle_push")
    /\ PollOnly

\* HTTP 409 from Kaggle: the kernel is taken to be active already.
PollConflict(p) ==
    /\ lock = NoRequest
    /\ Running(p, "conflict")
    /\ state' = "RUNNING"
    /\ failure' = "none"
    /\ UNCHANGED <<tunnel, session>>
    /\ Persist
    /\ Goto(p, LoopTop(0))
    /\ UNCHANGED <<remoteVars, minted, lock, req, polling, restarts>>

PollStatus(p) ==
    /\ Running(p, "status")
    /\ \/ Goto(p, "discover")
       \/ kernel \in TerminalStatus /\ GotoFail(p, "kaggle_kernel")
       \/ GotoFail(p, "kaggle_status")
    /\ UNCHANGED remoteVars
    /\ PollOnly

PollDiscover(p) ==
    /\ Running(p, "discover")
    /\ \/ \E u \in Url : Discovered(u) /\ GotoReady(p, u)
       \/ \E stage \in {"registry_communication", "local_configuration"} :
             GotoFail(p, stage)
       \/ Goto(p, "sleep")
    /\ UNCHANGED remoteVars
    /\ PollOnly

\* The timeout is measured in time: slow probes may exhaust it at any poll.
PollSleep(p) ==
    /\ Running(p, "sleep")
    /\ LET n == poll[p].polls + 1
       IN  \E pc \in {LoopTop(n), "final"} :
              poll' = [poll EXCEPT ![p].pc = pc, ![p].polls = n]
    /\ UNCHANGED remoteVars
    /\ PollOnly

\* The timeout has passed: one last probe.
PollFinal(p) ==
    /\ Running(p, "final")
    /\ \/ \E u \in Url : Discovered(u) /\ GotoReady(p, u)
       \/ GotoFail(p, "timeout")
    /\ UNCHANGED remoteVars
    /\ PollOnly

PollReady(p) ==
    /\ lock = NoRequest
    /\ Running(p, "ready")
    /\ BecomeReady(poll[p].url)
    /\ poll' = [poll EXCEPT ![p] = DonePoller]
    /\ UNCHANGED <<remoteVars, minted, lock, req, polling, restarts>>

PollFail(p) ==
    /\ lock = NoRequest
    /\ Running(p, "fail")
    /\ state' = "ERROR"
    /\ failure' = poll[p].stage
    /\ UNCHANGED <<tunnel, session>>
    /\ Persist
    /\ poll' = [poll EXCEPT ![p] = DonePoller]
    /\ UNCHANGED <<remoteVars, minted, lock, req, polling, restarts>>

-----------------------------------------------------------------------------
RequestStep(r) ==
    \/ \E u \in Url : StartReuse(r, u)
    \/ \E p \in PollTask : StartFresh(r, p)
    \/ \E u \in Url : ReconcileReady(r, u)
    \/ ReconcileNotReady(r)
    \/ ReconcileActive(r)
    \/ ReconcileEnded(r)
    \/ ReconcileUnknown(r)
    \/ TerminatePost(r)
    \/ TerminateDelete(r)

ThreadStep(p) ==
    PollPush(p) \/ PollStatus(p) \/ PollDiscover(p) \/ PollSleep(p) \/ PollFinal(p)

LockStep(p) == PollConflict(p) \/ PollReady(p) \/ PollFail(p)

Environment == RemoteNext /\ UNCHANGED <<memory, minted, lock, req, polling,
                                         poll, file, restarts>>

Next ==
    \/ StartMisconfigured
    \/ Heartbeat
    \/ Environment
    \/ \E r \in Request :
          \/ StartBegin(r) \/ ReconcileBegin(r) \/ TerminateBegin(r)
          \/ RequestStep(r)
          \/ TerminateFinal(r)
          \/ Restart(r)
    \/ \E p \in PollTask : PollCancelled(p) \/ ThreadStep(p) \/ LockStep(p)

Spec == Init /\ [][Next]_vars

\* Every thread ends (the CLI calls and the HTTP requests have timeouts) and
\* the event loop runs what is ready: weak fairness.  asyncio.Lock wakes its
\* waiters in order of arrival, so nobody who waits for it is passed over for
\* ever: strong fairness.  Nobody has to send a request, and the kernel has to
\* do nothing.
Fairness ==
    /\ \A r \in Request : WF_vars(RequestStep(r)) /\ SF_vars(TerminateFinal(r))
    /\ \A p \in PollTask : /\ WF_vars(PollCancelled(p))
                           /\ WF_vars(ThreadStep(p))
                           /\ SF_vars(LockStep(p))

FairSpec == Spec /\ Fairness

-----------------------------------------------------------------------------
\* Properties

Busy == {"STARTING", "RUNNING", "RECOVERING"}

\* However start, reconcile and terminate interleave, two background tasks are
\* never alive together: a double click pushes the kernel once, and no task
\* overwrites the verdict of another.
AtMostOnePoller == \A p, q \in PollTask : Alive(p) /\ Alive(q) => p = q

\* A gateway that says READY has a URL to proxy to and reports no failure, also
\* when it got its state from the file of a process that died.
ReadyServable == state = "READY" => tunnel # NoUrl /\ failure = "none"

\* Until the first restart, a gateway that says it is starting, waiting or
\* recovering has a task at work that will say how it ends.
BusyHasDriver ==
    restarts = 0 /\ state \in Busy =>
        \E p \in PollTask : Alive(p) /\ ~poll[p].cancelled

\* A process that dies in the middle of a session comes back to the very state
\* its clients saw: same session, same tunnel, same verdict.
RestartKeepsSession ==
    [][restarts' # restarts /\ state \in Busy \union {"READY"}
          => UNCHANGED memory]_vars

\* No interleaving lets a start push a new kernel under a READY session.
StartKeepsReady ==
    [][state = "READY" /\ restarts' = restarts => state' # "STARTING"]_vars

\* While a gateway says TERMINATING nothing polls, so nothing revives the
\* session and the shutdown that ends an undisturbed teardown is quiet.  (A start
\* or a reconcile that overtakes the teardown changes the state before its task
\* runs; the final section then reports SHUTDOWN over that task.)
TeardownIsQuiet ==
    state = "TERMINATING" => \A p \in PollTask : Alive(p) => poll[p].cancelled

\* A startup or recovery comes to an end, whatever Kaggle, the registry and the
\* worker do.  False of a process that was started again in the middle of it.
BusySettles == state \in Busy ~> state \notin Busy

\* A teardown completes, whether or not the worker and the registry answer, and
\* though other handlers keep taking the lock.
TeardownCompletes == state = "TERMINATING" ~> state = "SHUTDOWN"

-----------------------------------------------------------------------------
\* The inductive invariant behind the safety properties

\* The lock is held by the handler that awaits with it.
LockInv == \A r \in Request : req[r].pc \in HoldingPc <=> lock = r

\* The only task alive is the gateway's polling task; its counter is within the
\* timeout while it polls, and a verdict of READY has a URL.
PollInv ==
    \A p \in PollTask :
        /\ Alive(p) => p = polling
        /\ poll[p].pc \in {"push", "conflict"} => poll[p].polls = 0
        /\ poll[p].pc \in {"status", "discover", "sleep"} => poll[p].polls < MaxPolls
        /\ poll[p].pc = "ready" => poll[p].url # NoUrl

\* What a start found when it took the lock still holds after its probe: no
\* task came to life and the session did not become READY.
ProbeInv ==
    \A r \in Request : req[r].pc = "start_probe" =>
        PollingDone /\ state # "READY" /\ minted < MaxSessions

\* READY is sound in memory and on disk.
ReadyInv ==
    /\ ReadyServable
    /\ file # NoFile /\ file.state = "READY" =>
           file.tunnel # NoUrl /\ file.failure = "none"

\* What is on disk is what is in memory, except that a configuration error is
\* not written and that nothing is written before the first session.
FileInv ==
    ~DiskMayFail =>
        \/ file = Image
        \/ file = NoFile /\ state \notin Busy \union {"READY"}
        \/ state = "ERROR" /\ failure = "local_configuration"

\* TypeOK and the safety invariants above, made inductive.
IInv ==
    /\ TypeOK
    /\ LockInv
    /\ PollInv
    /\ ProbeInv
    /\ ReadyInv
    /\ FileInv
    /\ BusyHasDriver
    /\ TeardownIsQuiet
=============================================================================
