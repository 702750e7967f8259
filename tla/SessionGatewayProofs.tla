------------------------ MODULE SessionGatewayProofs ------------------------
(***************************************************************************)
(* Proofs about the session gateway, for every number of requests, tasks,  *)
(* URLs, polls, sessions and restarts.  IInv is inductive: one lemma per   *)
(* conjunct shows that every step keeps it, one step of the proof per      *)
(* action.  The safety properties follow, and that the gateway implements  *)
(* the session lifecycle.                                                  *)
(***************************************************************************)
EXTENDS SessionGatewayRefinement, TLAPS

USE NoUrlAssumption, BoundsAssumption, NullsAssumption, NoFileAssumption

-----------------------------------------------------------------------------
\* Task.cancel changes no type.
LEMMA CancelType == TypeOK => PollAfterCancel \in [PollTask -> Poller]
  BY DEF TypeOK, PollAfterCancel, Poller

\* create_task yields a well-typed table of tasks.
LEMMA SpawnType ==
    ASSUME NEW p \in PollTask, NEW pc \in PollPc,
           NEW others \in [PollTask -> Poller], Spawn(p, pc, others)
    PROVE  poll' \in [PollTask -> Poller] /\ polling' \in PollTask
<1>1. DonePoller \in Poller
  BY DEF DonePoller, Poller, PollPc, UrlOrNone, FailureStage
<1>2. [DonePoller EXCEPT !.pc = pc] \in Poller
  BY <1>1 DEF Poller
<1> QED
  BY <1>2 DEF Spawn

-----------------------------------------------------------------------------
\* A fresh process without a session file satisfies the invariant.
LEMMA InitIInv == Init => IInv
<1> SUFFICES ASSUME Init PROVE IInv OBVIOUS
<1> USE DEF Init, RemoteInit
<1>1. TypeOK
  BY DEF TypeOK, RemoteTypeOK, KernelStatus, TerminalStatus, ActiveStatus,
         UrlOrNone, GatewayState, FailureStage, SessionId, Handler, IdleHandler,
         RequestPc, HoldingPc, Poller, PollPc, DonePoller
<1>2. LockInv
  BY DEF LockInv, IdleHandler, HoldingPc
<1>3. PollInv
  BY DEF PollInv, Alive, DonePoller
<1>4. ProbeInv
  BY DEF ProbeInv, IdleHandler
<1>5. ReadyInv /\ FileInv /\ BusyHasDriver /\ TeardownIsQuiet
  BY DEF ReadyInv, ReadyServable, FileInv, BusyHasDriver, Busy, TeardownIsQuiet
<1> QED
  BY <1>1, <1>2, <1>3, <1>4, <1>5 DEF IInv

\* Every step keeps the types.  The bound on the poll counter and the bound on
\* the generated identifiers come from PollInv and ProbeInv.
LEMMA TypeOKStep == IInv /\ [Next]_vars => TypeOK'
<1> SUFFICES ASSUME IInv, [Next]_vars PROVE TypeOK' OBVIOUS
<1> USE DEF IInv, remoteVars, memory, TypeOK, RemoteTypeOK, KernelStatus,
        TerminalStatus, ActiveStatus, UrlOrNone, GatewayState, FailureStage,
        SessionId, Handler, IdleHandler, RequestPc, HoldingPc, Poller, PollPc,
        DonePoller, SavedSession, Image, Alive, PollInv, ProbeInv
<1>1. CASE StartMisconfigured
  BY <1>1 DEF StartMisconfigured, StartAdmits
<1>2. CASE Heartbeat
  BY <1>2 DEF Heartbeat, Persist
<1>3. CASE Environment
  BY <1>3 DEF Environment, RemoteNext, Launch, Allocate, WorkerPublishes,
         WorkerExits
<1>4. ASSUME NEW r \in Request, StartBegin(r) PROVE TypeOK'
  BY <1>4 DEF StartBegin, Acquire, StartAdmits
<1>5. ASSUME NEW r \in Request, NEW u \in Url, StartReuse(r, u) PROVE TypeOK'
  BY <1>5 DEF StartReuse, BecomeReady, Persist, Release, Discovered
<1>6. ASSUME NEW r \in Request, NEW p \in PollTask, StartFresh(r, p) PROVE TypeOK'
  <2>1. poll' \in [PollTask -> Poller]
    BY <1>6, CancelType, SpawnType DEF StartFresh, PollPc
  <2>2. minted' \in SessionId /\ session' \in SessionId
    BY <1>6 DEF StartFresh, TypeOK, SessionId, ProbeInv
  <2>3. state' \in GatewayState /\ failure' \in FailureStage /\ tunnel' \in
        UrlOrNone
    BY <1>6 DEF StartFresh, GatewayState, FailureStage, UrlOrNone
  <2>4. file' \in SavedSession \union {NoFile}
    BY <1>6, <2>2, <2>3 DEF StartFresh, Persist, Image, SavedSession, TypeOK
  <2>5. req' \in [Request -> Handler] /\ lock' \in Request \union {NoRequest}
    BY <1>6 DEF StartFresh, Release, TypeOK, Handler, IdleHandler, RequestPc,
        UrlOrNone
  <2> QED
    BY <1>6, <2>1, <2>2, <2>3, <2>4, <2>5 DEF StartFresh, Spawn, TypeOK,
        RemoteTypeOK
<1>7. ASSUME NEW r \in Request, ReconcileBegin(r) PROVE TypeOK'
  BY <1>7 DEF ReconcileBegin, Acquire
<1>8. ASSUME NEW r \in Request, NEW u \in Url, ReconcileReady(r, u) PROVE TypeOK'
  BY <1>8 DEF ReconcileReady, BecomeReady, Persist, Release, Discovered
<1>9. ASSUME NEW r \in Request, ReconcileNotReady(r) PROVE TypeOK'
  BY <1>9 DEF ReconcileNotReady
<1>10. ASSUME NEW r \in Request, ReconcileActive(r) PROVE TypeOK'
  <2>1. poll' \in [PollTask -> Poller] /\ polling' \in PollTask \union
        {NoTask}
    BY <1>10, SpawnType DEF ReconcileActive, TypeOK, PollPc, LoopTop
  <2>2. file' \in SavedSession \union {NoFile}
    BY <1>10 DEF ReconcileActive, Persist, Image, SavedSession, TypeOK,
        GatewayState
  <2>3. req' \in [Request -> Handler] /\ lock' \in Request \union {NoRequest}
    BY <1>10 DEF ReconcileActive, Release, TypeOK, Handler, IdleHandler,
        RequestPc, UrlOrNone
  <2> QED
    BY <1>10, <2>1, <2>2, <2>3 DEF ReconcileActive, TypeOK, RemoteTypeOK,
        GatewayState
<1>11. ASSUME NEW r \in Request, ReconcileEnded(r) PROVE TypeOK'
  BY <1>11 DEF ReconcileEnded, Persist, Release
<1>12. ASSUME NEW r \in Request, ReconcileUnknown(r) PROVE TypeOK'
  BY <1>12 DEF ReconcileUnknown, Persist, Release
<1>13. ASSUME NEW r \in Request, TerminateBegin(r) PROVE TypeOK'
  <2>1. poll' \in [PollTask -> Poller]
    BY <1>13, CancelType DEF TerminateBegin
  <2>2. file' \in SavedSession \union {NoFile}
    BY <1>13 DEF TerminateBegin, Persist, Image, SavedSession, TypeOK,
        GatewayState
  <2>3. req' \in [Request -> Handler]
    BY <1>13 DEF TerminateBegin, TypeOK, Handler, RequestPc
  <2> QED
    BY <1>13, <2>1, <2>2, <2>3 DEF TerminateBegin, TypeOK, RemoteTypeOK,
        GatewayState
<1>14. ASSUME NEW r \in Request, TerminatePost(r) PROVE TypeOK'
  BY <1>14 DEF TerminatePost, WorkerExits
<1>15. ASSUME NEW r \in Request, TerminateDelete(r) PROVE TypeOK'
  BY <1>15 DEF TerminateDelete
<1>16. ASSUME NEW r \in Request, TerminateFinal(r) PROVE TypeOK'
  BY <1>16 DEF TerminateFinal
<1>17. ASSUME NEW r \in Request, Restart(r) PROVE TypeOK'
  BY <1>17 DEF Restart, Boot, Loaded
<1>18. ASSUME NEW p \in PollTask, PollCancelled(p) PROVE TypeOK'
  BY <1>18 DEF PollCancelled, PollOnly
<1>19. ASSUME NEW p \in PollTask, PollPush(p) PROVE TypeOK'
  BY <1>19 DEF PollPush, PollOnly, Running, Goto, GotoFail, Launch, LoopTop
<1>20. ASSUME NEW p \in PollTask, PollConflict(p) PROVE TypeOK'
  BY <1>20 DEF PollConflict, Persist, Running, Goto, LoopTop
<1>21. ASSUME NEW p \in PollTask, PollStatus(p) PROVE TypeOK'
  BY <1>21 DEF PollStatus, PollOnly, Running, Goto, GotoFail
<1>22. ASSUME NEW p \in PollTask, PollDiscover(p) PROVE TypeOK'
  BY <1>22 DEF PollDiscover, PollOnly, Running, Goto, GotoReady, GotoFail,
         Discovered
<1>23. ASSUME NEW p \in PollTask, PollSleep(p) PROVE TypeOK'
  BY <1>23 DEF PollSleep, PollOnly, Running, LoopTop
<1>24. ASSUME NEW p \in PollTask, PollFinal(p) PROVE TypeOK'
  BY <1>24 DEF PollFinal, PollOnly, Running, GotoReady, GotoFail, Discovered
<1>25. ASSUME NEW p \in PollTask, PollReady(p) PROVE TypeOK'
  BY <1>25 DEF PollReady, Persist, BecomeReady, Running
<1>26. ASSUME NEW p \in PollTask, PollFail(p) PROVE TypeOK'
  BY <1>26 DEF PollFail, Persist, Running
<1>27. CASE UNCHANGED vars
  BY <1>27 DEF vars
<1> QED BY <1>1, <1>2, <1>3, <1>4, <1>5, <1>6, <1>7, <1>8, <1>9, <1>10, <1>11,
         <1>12, <1>13, <1>14, <1>15, <1>16, <1>17, <1>18, <1>19, <1>20, <1>21,
         <1>22, <1>23, <1>24, <1>25, <1>26, <1>27 DEF Next, RequestStep,
         ThreadStep, LockStep

\* Every step keeps the lock with the handler that awaits under it.
LEMMA LockInvStep == IInv /\ [Next]_vars => LockInv'
<1> SUFFICES ASSUME IInv, [Next]_vars PROVE LockInv' OBVIOUS
<1> USE DEF IInv, remoteVars, memory, TypeOK, LockInv, IdleHandler, HoldingPc
<1>1. ASSUME NEW r \in Request, StartBegin(r) PROVE LockInv'
  BY <1>1 DEF StartBegin, Acquire, StartAdmits
<1>2. ASSUME NEW r \in Request, NEW u \in Url, StartReuse(r, u) PROVE LockInv'
  BY <1>2 DEF StartReuse, BecomeReady, Persist, Release, Discovered
<1>3. ASSUME NEW r \in Request, NEW p \in PollTask, StartFresh(r, p) PROVE LockInv'
  BY <1>3 DEF StartFresh, Persist, Release, Spawn, PollAfterCancel
<1>4. ASSUME NEW r \in Request, ReconcileBegin(r) PROVE LockInv'
  BY <1>4 DEF ReconcileBegin, Acquire
<1>5. ASSUME NEW r \in Request, NEW u \in Url, ReconcileReady(r, u) PROVE LockInv'
  BY <1>5 DEF ReconcileReady, BecomeReady, Persist, Release, Discovered
<1>6. ASSUME NEW r \in Request, ReconcileNotReady(r) PROVE LockInv'
  BY <1>6 DEF ReconcileNotReady
<1>7. ASSUME NEW r \in Request, ReconcileActive(r) PROVE LockInv'
  BY <1>7 DEF ReconcileActive, Persist, Release, Spawn, CancellationsDelivered
<1>8. ASSUME NEW r \in Request, ReconcileEnded(r) PROVE LockInv'
  BY <1>8 DEF ReconcileEnded, Persist, Release
<1>9. ASSUME NEW r \in Request, ReconcileUnknown(r) PROVE LockInv'
  BY <1>9 DEF ReconcileUnknown, Persist, Release
<1>10. ASSUME NEW r \in Request, TerminateBegin(r) PROVE LockInv'
  BY <1>10 DEF TerminateBegin, Persist, PollAfterCancel
<1>11. ASSUME NEW r \in Request, TerminatePost(r) PROVE LockInv'
  BY <1>11 DEF TerminatePost, WorkerExits
<1>12. ASSUME NEW r \in Request, TerminateDelete(r) PROVE LockInv'
  BY <1>12 DEF TerminateDelete
<1>13. ASSUME NEW r \in Request, TerminateFinal(r) PROVE LockInv'
  BY <1>13 DEF TerminateFinal
<1>14. ASSUME NEW r \in Request, Restart(r) PROVE LockInv'
  BY <1>14 DEF Restart, Boot, Loaded
<1>15. CASE UNCHANGED <<lock, req>>
  BY <1>15
<1> QED BY <1>1, <1>2, <1>3, <1>4, <1>5, <1>6, <1>7, <1>8, <1>9, <1>10, <1>11,
         <1>12, <1>13, <1>14, <1>15 DEF Next, RequestStep, ThreadStep,
         LockStep, vars, StartMisconfigured, Heartbeat, Environment,
         PollCancelled, PollPush, PollStatus, PollDiscover, PollSleep,
         PollFinal, PollConflict, PollReady, PollFail, PollOnly

\* Every step leaves at most the gateway's own polling task alive: start and
\* reconcile, the only creators, both find the previous one done.
LEMMA PollInvStep == IInv /\ [Next]_vars => PollInv'
<1> SUFFICES ASSUME IInv, [Next]_vars PROVE PollInv' OBVIOUS
<1> USE DEF IInv, remoteVars, memory, TypeOK, Poller, PollInv, ProbeInv,
        PollingDone, Alive, DonePoller
<1>1. ASSUME NEW r \in Request, NEW p \in PollTask, StartFresh(r, p) PROVE PollInv'
  BY <1>1 DEF StartFresh, Persist, Release, Spawn, PollAfterCancel
<1>2. ASSUME NEW r \in Request, ReconcileActive(r) PROVE PollInv'
  <2>1. CASE UNCHANGED <<polling, poll>>
    BY <2>1 DEF PollInv, Alive
  <2>2. ASSUME PollingDone, NEW p \in PollTask, Spawn(p, LoopTop(0), poll)
        PROVE PollInv'
    BY <2>2 DEF Spawn, LoopTop, PollInv, Alive, PollingDone, DonePoller,
        TypeOK, Poller
  <2> QED
    BY <1>2, <2>1, <2>2 DEF ReconcileActive
<1>3. ASSUME NEW r \in Request, TerminateBegin(r) PROVE PollInv'
  BY <1>3 DEF TerminateBegin, Persist, PollAfterCancel
<1>4. ASSUME NEW r \in Request, Restart(r) PROVE PollInv'
  BY <1>4 DEF Restart, Boot, Loaded
<1>5. ASSUME NEW p \in PollTask, PollCancelled(p) PROVE PollInv'
  BY <1>5 DEF PollCancelled, PollOnly
<1>6. ASSUME NEW p \in PollTask, PollPush(p) PROVE PollInv'
  BY <1>6 DEF PollPush, PollOnly, Running, Goto, GotoFail, Launch, LoopTop
<1>7. ASSUME NEW p \in PollTask, PollConflict(p) PROVE PollInv'
  BY <1>7 DEF PollConflict, Persist, Running, Goto, LoopTop
<1>8. ASSUME NEW p \in PollTask, PollStatus(p) PROVE PollInv'
  BY <1>8 DEF PollStatus, PollOnly, Running, Goto, GotoFail
<1>9. ASSUME NEW p \in PollTask, PollDiscover(p) PROVE PollInv'
  BY <1>9 DEF PollDiscover, PollOnly, Running, Goto, GotoReady, GotoFail,
         Discovered
<1>10. ASSUME NEW p \in PollTask, PollSleep(p) PROVE PollInv'
  BY <1>10 DEF PollSleep, PollOnly, Running, LoopTop
<1>11. ASSUME NEW p \in PollTask, PollFinal(p) PROVE PollInv'
  BY <1>11 DEF PollFinal, PollOnly, Running, GotoReady, GotoFail, Discovered
<1>12. ASSUME NEW p \in PollTask, PollReady(p) PROVE PollInv'
  BY <1>12 DEF PollReady, Persist, BecomeReady, Running
<1>13. ASSUME NEW p \in PollTask, PollFail(p) PROVE PollInv'
  BY <1>13 DEF PollFail, Persist, Running
<1>14. CASE UNCHANGED <<polling, poll>>
  BY <1>14
<1> QED BY <1>1, <1>2, <1>3, <1>4, <1>5, <1>6, <1>7, <1>8, <1>9, <1>10, <1>11,
         <1>12, <1>13, <1>14 DEF Next, RequestStep, ThreadStep, LockStep,
         vars, StartMisconfigured, Heartbeat, StartReuse, ReconcileReady,
         ReconcileEnded, ReconcileUnknown, TerminateFinal, Environment,
         StartBegin, ReconcileBegin, ReconcileNotReady, TerminatePost,
         TerminateDelete, Acquire

\* Nothing another handler or task does while a start probes invalidates what
\* the start found when it took the lock.
LEMMA ProbeInvStep == IInv /\ [Next]_vars => ProbeInv'
<1> SUFFICES ASSUME IInv, [Next]_vars PROVE ProbeInv' OBVIOUS
<1> USE DEF IInv, remoteVars, memory, TypeOK, ProbeInv, LockInv, IdleHandler,
        HoldingPc, PollingDone, Alive, DonePoller
<1>1. CASE StartMisconfigured
  BY <1>1 DEF StartMisconfigured, StartAdmits
<1>2. CASE Heartbeat
  BY <1>2 DEF Heartbeat, Persist
<1>3. CASE Environment
  BY <1>3 DEF Environment, RemoteNext, Launch, Allocate, WorkerPublishes,
         WorkerExits
<1>4. ASSUME NEW r \in Request, StartBegin(r) PROVE ProbeInv'
  BY <1>4 DEF StartBegin, Acquire, StartAdmits, TypeOK, ProbeInv, LockInv,
        IdleHandler, HoldingPc, PollingDone, Alive, ReadyInv, ReadyServable
<1>5. ASSUME NEW r \in Request, NEW u \in Url, StartReuse(r, u) PROVE ProbeInv'
  BY <1>5 DEF StartReuse, BecomeReady, Persist, Release, Discovered
<1>6. ASSUME NEW r \in Request, NEW p \in PollTask, StartFresh(r, p) PROVE ProbeInv'
  BY <1>6 DEF StartFresh, Persist, Release, Spawn, PollAfterCancel
<1>7. ASSUME NEW r \in Request, ReconcileBegin(r) PROVE ProbeInv'
  BY <1>7 DEF ReconcileBegin, Acquire
<1>8. ASSUME NEW r \in Request, NEW u \in Url, ReconcileReady(r, u) PROVE ProbeInv'
  BY <1>8 DEF ReconcileReady, BecomeReady, Persist, Release, Discovered
<1>9. ASSUME NEW r \in Request, ReconcileNotReady(r) PROVE ProbeInv'
  BY <1>9 DEF ReconcileNotReady
<1>10. ASSUME NEW r \in Request, ReconcileActive(r) PROVE ProbeInv'
  BY <1>10 DEF ReconcileActive, Persist, Release, Spawn,
         CancellationsDelivered
<1>11. ASSUME NEW r \in Request, ReconcileEnded(r) PROVE ProbeInv'
  BY <1>11 DEF ReconcileEnded, Persist, Release
<1>12. ASSUME NEW r \in Request, ReconcileUnknown(r) PROVE ProbeInv'
  BY <1>12 DEF ReconcileUnknown, Persist, Release
<1>13. ASSUME NEW r \in Request, TerminateBegin(r) PROVE ProbeInv'
  BY <1>13 DEF TerminateBegin, Persist, PollAfterCancel
<1>14. ASSUME NEW r \in Request, TerminatePost(r) PROVE ProbeInv'
  BY <1>14 DEF TerminatePost, WorkerExits
<1>15. ASSUME NEW r \in Request, TerminateDelete(r) PROVE ProbeInv'
  BY <1>15 DEF TerminateDelete
<1>16. ASSUME NEW r \in Request, TerminateFinal(r) PROVE ProbeInv'
  BY <1>16 DEF TerminateFinal
<1>17. ASSUME NEW r \in Request, Restart(r) PROVE ProbeInv'
  BY <1>17 DEF Restart, Boot, Loaded
<1>18. ASSUME NEW p \in PollTask, PollCancelled(p) PROVE ProbeInv'
  BY <1>18 DEF PollCancelled, PollOnly
<1>19. ASSUME NEW p \in PollTask, PollPush(p) PROVE ProbeInv'
  BY <1>19 DEF PollPush, PollOnly, Running, Goto, GotoFail, Launch, LoopTop
<1>20. ASSUME NEW p \in PollTask, PollConflict(p) PROVE ProbeInv'
  BY <1>20 DEF PollConflict, Persist, Running, Goto, LoopTop
<1>21. ASSUME NEW p \in PollTask, PollStatus(p) PROVE ProbeInv'
  BY <1>21 DEF PollStatus, PollOnly, Running, Goto, GotoFail
<1>22. ASSUME NEW p \in PollTask, PollDiscover(p) PROVE ProbeInv'
  BY <1>22 DEF PollDiscover, PollOnly, Running, Goto, GotoReady, GotoFail,
         Discovered
<1>23. ASSUME NEW p \in PollTask, PollSleep(p) PROVE ProbeInv'
  BY <1>23 DEF PollSleep, PollOnly, Running, LoopTop
<1>24. ASSUME NEW p \in PollTask, PollFinal(p) PROVE ProbeInv'
  BY <1>24 DEF PollFinal, PollOnly, Running, GotoReady, GotoFail, Discovered
<1>25. ASSUME NEW p \in PollTask, PollReady(p) PROVE ProbeInv'
  BY <1>25 DEF PollReady, Persist, BecomeReady, Running
<1>26. ASSUME NEW p \in PollTask, PollFail(p) PROVE ProbeInv'
  BY <1>26 DEF PollFail, Persist, Running
<1>27. CASE UNCHANGED vars
  BY <1>27 DEF vars
<1> QED BY <1>1, <1>2, <1>3, <1>4, <1>5, <1>6, <1>7, <1>8, <1>9, <1>10, <1>11,
         <1>12, <1>13, <1>14, <1>15, <1>16, <1>17, <1>18, <1>19, <1>20, <1>21,
         <1>22, <1>23, <1>24, <1>25, <1>26, <1>27 DEF Next, RequestStep,
         ThreadStep, LockStep

\* READY is only entered with a URL and without a failure stage, in memory
\* and on disk.
LEMMA ReadyInvStep == IInv /\ [Next]_vars => ReadyInv'
<1> SUFFICES ASSUME IInv, [Next]_vars PROVE ReadyInv' OBVIOUS
<1> USE DEF IInv, remoteVars, memory, TypeOK, ReadyInv, ReadyServable, Image,
        PollInv
<1>1. CASE StartMisconfigured
  BY <1>1 DEF StartMisconfigured, StartAdmits
<1>2. CASE Heartbeat
  BY <1>2 DEF Heartbeat, Persist
<1>3. ASSUME NEW r \in Request, NEW u \in Url, StartReuse(r, u) PROVE ReadyInv'
  BY <1>3 DEF StartReuse, BecomeReady, Persist, Release, Discovered
<1>4. ASSUME NEW r \in Request, NEW p \in PollTask, StartFresh(r, p) PROVE ReadyInv'
  BY <1>4 DEF StartFresh, Persist, Release, Spawn, PollAfterCancel
<1>5. ASSUME NEW r \in Request, NEW u \in Url, ReconcileReady(r, u) PROVE ReadyInv'
  BY <1>5 DEF ReconcileReady, BecomeReady, Persist, Release, Discovered
<1>6. ASSUME NEW r \in Request, ReconcileActive(r) PROVE ReadyInv'
  BY <1>6 DEF ReconcileActive, Persist, Release, Spawn, CancellationsDelivered
<1>7. ASSUME NEW r \in Request, ReconcileEnded(r) PROVE ReadyInv'
  BY <1>7 DEF ReconcileEnded, Persist, Release
<1>8. ASSUME NEW r \in Request, ReconcileUnknown(r) PROVE ReadyInv'
  BY <1>8 DEF ReconcileUnknown, Persist, Release
<1>9. ASSUME NEW r \in Request, TerminateBegin(r) PROVE ReadyInv'
  BY <1>9 DEF TerminateBegin, Persist, PollAfterCancel
<1>10. ASSUME NEW r \in Request, TerminateFinal(r) PROVE ReadyInv'
  BY <1>10 DEF TerminateFinal
<1>11. ASSUME NEW r \in Request, Restart(r) PROVE ReadyInv'
  BY <1>11 DEF Restart, Boot, Loaded
<1>12. ASSUME NEW p \in PollTask, PollCancelled(p) PROVE ReadyInv'
  BY <1>12 DEF PollCancelled, PollOnly
<1>13. ASSUME NEW p \in PollTask, PollPush(p) PROVE ReadyInv'
  BY <1>13 DEF PollPush, PollOnly, Running, Goto, GotoFail, Launch, LoopTop
<1>14. ASSUME NEW p \in PollTask, PollConflict(p) PROVE ReadyInv'
  BY <1>14 DEF PollConflict, Persist, Running, Goto, LoopTop
<1>15. ASSUME NEW p \in PollTask, PollStatus(p) PROVE ReadyInv'
  BY <1>15 DEF PollStatus, PollOnly, Running, Goto, GotoFail
<1>16. ASSUME NEW p \in PollTask, PollDiscover(p) PROVE ReadyInv'
  BY <1>16 DEF PollDiscover, PollOnly, Running, Goto, GotoReady, GotoFail,
         Discovered
<1>17. ASSUME NEW p \in PollTask, PollSleep(p) PROVE ReadyInv'
  BY <1>17 DEF PollSleep, PollOnly, Running, LoopTop
<1>18. ASSUME NEW p \in PollTask, PollFinal(p) PROVE ReadyInv'
  BY <1>18 DEF PollFinal, PollOnly, Running, GotoReady, GotoFail, Discovered
<1>19. ASSUME NEW p \in PollTask, PollReady(p) PROVE ReadyInv'
  BY <1>19 DEF PollReady, Persist, BecomeReady, Running
<1>20. ASSUME NEW p \in PollTask, PollFail(p) PROVE ReadyInv'
  BY <1>20 DEF PollFail, Persist, Running
<1>21. CASE UNCHANGED <<memory, file, poll>>
  BY <1>21
<1> QED BY <1>1, <1>2, <1>3, <1>4, <1>5, <1>6, <1>7, <1>8, <1>9, <1>10, <1>11,
         <1>12, <1>13, <1>14, <1>15, <1>16, <1>17, <1>18, <1>19, <1>20, <1>21
         DEF Next, RequestStep, ThreadStep, LockStep, vars, Environment,
         StartBegin, ReconcileBegin, ReconcileNotReady, TerminatePost,
         TerminateDelete, Acquire

\* Memory never moves ahead of the disk, but for a configuration error.
LEMMA FileInvStep == IInv /\ [Next]_vars => FileInv'
<1> SUFFICES ASSUME IInv, [Next]_vars PROVE FileInv' OBVIOUS
<1> USE DEF IInv, remoteVars, memory, TypeOK, FileInv, Image, Busy, memory
<1>1. CASE StartMisconfigured
  BY <1>1 DEF StartMisconfigured, StartAdmits
<1>2. CASE Heartbeat
  BY <1>2 DEF Heartbeat, Persist
<1>3. ASSUME NEW r \in Request, NEW u \in Url, StartReuse(r, u) PROVE FileInv'
  BY <1>3 DEF StartReuse, BecomeReady, Persist, Release, Discovered
<1>4. ASSUME NEW r \in Request, NEW p \in PollTask, StartFresh(r, p) PROVE FileInv'
  BY <1>4 DEF StartFresh, Persist, Release, Spawn, PollAfterCancel
<1>5. ASSUME NEW r \in Request, NEW u \in Url, ReconcileReady(r, u) PROVE FileInv'
  BY <1>5 DEF ReconcileReady, BecomeReady, Persist, Release, Discovered
<1>6. ASSUME NEW r \in Request, ReconcileActive(r) PROVE FileInv'
  BY <1>6 DEF ReconcileActive, Persist, Release, Spawn, CancellationsDelivered
<1>7. ASSUME NEW r \in Request, ReconcileEnded(r) PROVE FileInv'
  BY <1>7 DEF ReconcileEnded, Persist, Release
<1>8. ASSUME NEW r \in Request, ReconcileUnknown(r) PROVE FileInv'
  BY <1>8 DEF ReconcileUnknown, Persist, Release
<1>9. ASSUME NEW r \in Request, TerminateBegin(r) PROVE FileInv'
  BY <1>9 DEF TerminateBegin, Persist, PollAfterCancel
<1>10. ASSUME NEW r \in Request, TerminateFinal(r) PROVE FileInv'
  BY <1>10 DEF TerminateFinal
<1>11. ASSUME NEW r \in Request, Restart(r) PROVE FileInv'
  <2>1. CASE file = NoFile
    BY <1>11, <2>1 DEF Restart, Boot, Loaded, FileInv, Busy
  <2>2. CASE file \in SavedSession
    BY <1>11, <2>2 DEF Restart, Boot, Loaded, FileInv, Image, SavedSession
  <2> QED
    BY <2>1, <2>2 DEF TypeOK
<1>12. ASSUME NEW p \in PollTask, PollConflict(p) PROVE FileInv'
  BY <1>12 DEF PollConflict, Persist, Running, Goto, LoopTop
<1>13. ASSUME NEW p \in PollTask, PollReady(p) PROVE FileInv'
  BY <1>13 DEF PollReady, Persist, BecomeReady, Running
<1>14. ASSUME NEW p \in PollTask, PollFail(p) PROVE FileInv'
  BY <1>14 DEF PollFail, Persist, Running
<1>15. CASE UNCHANGED <<memory, file>>
  BY <1>15
<1> QED BY <1>1, <1>2, <1>3, <1>4, <1>5, <1>6, <1>7, <1>8, <1>9, <1>10, <1>11,
         <1>12, <1>13, <1>14, <1>15 DEF Next, RequestStep, ThreadStep,
         LockStep, vars, Environment, StartBegin, ReconcileBegin,
         ReconcileNotReady, TerminatePost, TerminateDelete, PollCancelled,
         PollPush, PollStatus, PollDiscover, PollSleep, PollFinal, Acquire,
         PollOnly

\* A cancelled task is never the one a busy gateway waits for.
LEMMA BusyHasDriverStep == IInv /\ [Next]_vars => BusyHasDriver'
<1> SUFFICES ASSUME IInv, [Next]_vars PROVE BusyHasDriver' OBVIOUS
<1> USE DEF IInv, remoteVars, memory, TypeOK, Poller, BusyHasDriver, Busy,
        Alive, DonePoller, PollingDone
<1>1. CASE StartMisconfigured
  BY <1>1 DEF StartMisconfigured, StartAdmits
<1>2. ASSUME NEW r \in Request, NEW u \in Url, StartReuse(r, u) PROVE BusyHasDriver'
  BY <1>2 DEF StartReuse, BecomeReady, Persist, Release, Discovered
<1>3. ASSUME NEW r \in Request, NEW p \in PollTask, StartFresh(r, p) PROVE BusyHasDriver'
  BY <1>3 DEF StartFresh, Persist, Release, Spawn, PollAfterCancel
<1>4. ASSUME NEW r \in Request, NEW u \in Url, ReconcileReady(r, u) PROVE BusyHasDriver'
  BY <1>4 DEF ReconcileReady, BecomeReady, Persist, Release, Discovered
<1>5. ASSUME NEW r \in Request, ReconcileActive(r) PROVE BusyHasDriver'
  <2>1. CASE UNCHANGED <<polling, poll>> /\ ~PollingDone
    BY <1>5, <2>1 DEF ReconcileActive, PollingDone, CancellationsDelivered,
        BusyHasDriver, Alive
  <2>2. ASSUME NEW p \in PollTask, Spawn(p, LoopTop(0), poll) PROVE
        BusyHasDriver'
    BY <2>2 DEF Spawn, LoopTop, BusyHasDriver, Alive, DonePoller, TypeOK,
        Poller
  <2> QED
    BY <1>5, <2>1, <2>2 DEF ReconcileActive
<1>6. ASSUME NEW r \in Request, ReconcileEnded(r) PROVE BusyHasDriver'
  BY <1>6 DEF ReconcileEnded, Persist, Release
<1>7. ASSUME NEW r \in Request, ReconcileUnknown(r) PROVE BusyHasDriver'
  BY <1>7 DEF ReconcileUnknown, Persist, Release
<1>8. ASSUME NEW r \in Request, TerminateBegin(r) PROVE BusyHasDriver'
  BY <1>8 DEF TerminateBegin, Persist, PollAfterCancel
<1>9. ASSUME NEW r \in Request, TerminateFinal(r) PROVE BusyHasDriver'
  BY <1>9 DEF TerminateFinal
<1>10. ASSUME NEW r \in Request, Restart(r) PROVE BusyHasDriver'
  BY <1>10 DEF Restart, Boot, Loaded
<1>11. ASSUME NEW p \in PollTask, PollCancelled(p) PROVE BusyHasDriver'
  BY <1>11 DEF PollCancelled, PollOnly
<1>12. ASSUME NEW p \in PollTask, PollPush(p) PROVE BusyHasDriver'
  BY <1>12 DEF PollPush, PollOnly, Running, Goto, GotoFail, Launch, LoopTop
<1>13. ASSUME NEW p \in PollTask, PollConflict(p) PROVE BusyHasDriver'
  BY <1>13 DEF PollConflict, Persist, Running, Goto, LoopTop
<1>14. ASSUME NEW p \in PollTask, PollStatus(p) PROVE BusyHasDriver'
  BY <1>14 DEF PollStatus, PollOnly, Running, Goto, GotoFail
<1>15. ASSUME NEW p \in PollTask, PollDiscover(p) PROVE BusyHasDriver'
  BY <1>15 DEF PollDiscover, PollOnly, Running, Goto, GotoReady, GotoFail,
         Discovered
<1>16. ASSUME NEW p \in PollTask, PollSleep(p) PROVE BusyHasDriver'
  BY <1>16 DEF PollSleep, PollOnly, Running, LoopTop
<1>17. ASSUME NEW p \in PollTask, PollFinal(p) PROVE BusyHasDriver'
  BY <1>17 DEF PollFinal, PollOnly, Running, GotoReady, GotoFail, Discovered
<1>18. ASSUME NEW p \in PollTask, PollReady(p) PROVE BusyHasDriver'
  BY <1>18 DEF PollReady, Persist, BecomeReady, Running
<1>19. ASSUME NEW p \in PollTask, PollFail(p) PROVE BusyHasDriver'
  BY <1>19 DEF PollFail, Persist, Running
<1>20. CASE UNCHANGED <<state, poll, restarts>>
  BY <1>20
<1> QED BY <1>1, <1>2, <1>3, <1>4, <1>5, <1>6, <1>7, <1>8, <1>9, <1>10, <1>11,
         <1>12, <1>13, <1>14, <1>15, <1>16, <1>17, <1>18, <1>19, <1>20 DEF
         Next, RequestStep, ThreadStep, LockStep, vars, Heartbeat,
         Environment, StartBegin, ReconcileBegin, ReconcileNotReady,
         TerminatePost, TerminateDelete, Acquire

\* Terminate cancels the one task alive, and no task is created without the
\* state being changed.
LEMMA TeardownIsQuietStep == IInv /\ [Next]_vars => TeardownIsQuiet'
<1> SUFFICES ASSUME IInv, [Next]_vars PROVE TeardownIsQuiet' OBVIOUS
<1> USE DEF IInv, remoteVars, memory, TypeOK, Poller, TeardownIsQuiet, Alive,
        DonePoller
<1>1. CASE StartMisconfigured
  BY <1>1 DEF StartMisconfigured, StartAdmits
<1>2. ASSUME NEW r \in Request, NEW u \in Url, StartReuse(r, u) PROVE TeardownIsQuiet'
  BY <1>2 DEF StartReuse, BecomeReady, Persist, Release, Discovered
<1>3. ASSUME NEW r \in Request, NEW p \in PollTask, StartFresh(r, p) PROVE TeardownIsQuiet'
  BY <1>3 DEF StartFresh, Persist, Release
<1>4. ASSUME NEW r \in Request, NEW u \in Url, ReconcileReady(r, u) PROVE TeardownIsQuiet'
  BY <1>4 DEF ReconcileReady, BecomeReady, Persist, Release, Discovered
<1>5. ASSUME NEW r \in Request, ReconcileActive(r) PROVE TeardownIsQuiet'
  BY <1>5 DEF ReconcileActive, Persist, Release
<1>6. ASSUME NEW r \in Request, ReconcileEnded(r) PROVE TeardownIsQuiet'
  BY <1>6 DEF ReconcileEnded, Persist, Release
<1>7. ASSUME NEW r \in Request, ReconcileUnknown(r) PROVE TeardownIsQuiet'
  BY <1>7 DEF ReconcileUnknown, Persist, Release
<1>8. ASSUME NEW r \in Request, TerminateBegin(r) PROVE TeardownIsQuiet'
  BY <1>8 DEF TerminateBegin, PollAfterCancel, PollInv
<1>9. ASSUME NEW r \in Request, TerminateFinal(r) PROVE TeardownIsQuiet'
  BY <1>9 DEF TerminateFinal
<1>10. ASSUME NEW r \in Request, Restart(r) PROVE TeardownIsQuiet'
  BY <1>10 DEF Restart, Boot, Loaded
<1>11. ASSUME NEW p \in PollTask, PollCancelled(p) PROVE TeardownIsQuiet'
  BY <1>11 DEF PollCancelled, PollOnly
<1>12. ASSUME NEW p \in PollTask, ThreadStep(p) PROVE TeardownIsQuiet'
  BY <1>12 DEF ThreadStep, PollPush, PollStatus, PollDiscover, PollSleep,
         PollFinal, PollOnly, Running
<1>13. ASSUME NEW p \in PollTask, LockStep(p) PROVE TeardownIsQuiet'
  BY <1>13 DEF LockStep, PollConflict, PollReady, PollFail, BecomeReady, Running
<1>14. CASE UNCHANGED <<state, poll>>
  BY <1>14
<1> QED BY <1>1, <1>2, <1>3, <1>4, <1>5, <1>6, <1>7, <1>8, <1>9, <1>10, <1>11,
         <1>12, <1>13, <1>14 DEF Next, RequestStep, vars, Heartbeat,
         Environment, StartBegin, ReconcileBegin, ReconcileNotReady,
         TerminatePost, TerminateDelete, Acquire
-----------------------------------------------------------------------------
\* The inductive invariant holds in every reachable state.
THEOREM Inductive == Spec => []IInv
<1>1. IInv /\ [Next]_vars => IInv'
  BY TypeOKStep, LockInvStep, PollInvStep, ProbeInvStep, ReadyInvStep,
     FileInvStep, BusyHasDriverStep, TeardownIsQuietStep DEF IInv
<1> QED
  BY InitIInv, <1>1, PTL DEF Spec

\* Every variable of the gateway keeps its type.
THEOREM TypeCorrect == Spec => []TypeOK
<1>1. IInv => TypeOK
  BY DEF IInv
<1> QED
  BY Inductive, <1>1, PTL

\* Two background tasks are never alive together (start_session and
\* reconcile_with_external_state create a task only when the last is done).
THEOREM SinglePoller == Spec => []AtMostOnePoller
<1>1. IInv => AtMostOnePoller
  BY DEF IInv, PollInv, AtMostOnePoller
<1> QED
  BY Inductive, <1>1, PTL

\* A gateway that says READY can be proxied to, after a restart as well.
THEOREM ReadyIsServable == Spec => []ReadyServable
<1>1. IInv => ReadyServable
  BY DEF IInv, ReadyInv
<1> QED
  BY Inductive, <1>1, PTL

\* Before any restart a busy gateway has a task at work.
THEOREM BusyIsDriven == Spec => []BusyHasDriver
<1>1. IInv => BusyHasDriver
  BY DEF IInv
<1> QED
  BY Inductive, <1>1, PTL

\* While a gateway says TERMINATING, every task alive has been cancelled.
THEOREM TeardownsAreQuiet == Spec => []TeardownIsQuiet
<1>1. IInv => TeardownIsQuiet
  BY DEF IInv
<1> QED
  BY Inductive, <1>1, PTL

-----------------------------------------------------------------------------
\* Within one process only the last section of start_session enters STARTING.
LEMMA OnlyFresh ==
    ASSUME TypeOK, [Next]_vars, state # "STARTING", state' = "STARTING",
           restarts' = restarts
    PROVE  \E r \in Request, p \in PollTask : StartFresh(r, p)
<1>1. ~ \E r \in Request : Restart(r)
  BY DEF Restart, TypeOK
<1>2. ~ (StartMisconfigured \/ Heartbeat \/ Environment \/ UNCHANGED vars)
  BY DEF StartMisconfigured, Heartbeat, Environment, vars, memory
<1>3. ASSUME NEW r \in Request PROVE ~ (StartBegin(r) \/ ReconcileBegin(r) \/ TerminateBegin(r) \/ TerminateFinal(r))
  BY DEF StartBegin, ReconcileBegin, TerminateBegin, TerminateFinal, memory
<1>4. ASSUME NEW r \in Request, RequestStep(r)
      PROVE  \E p \in PollTask : StartFresh(r, p)
  BY <1>4 DEF RequestStep, StartReuse, ReconcileReady, BecomeReady,
         ReconcileNotReady, ReconcileActive, ReconcileEnded, ReconcileUnknown,
         TerminatePost, TerminateDelete, memory
<1>5. ASSUME NEW p \in PollTask
      PROVE  ~ (PollCancelled(p) \/ ThreadStep(p) \/ LockStep(p))
  BY DEF PollCancelled, ThreadStep, PollPush, PollStatus, PollDiscover,
         PollSleep, PollFinal, LockStep, PollConflict, PollReady, PollFail,
         BecomeReady, PollOnly, memory
<1> QED
  BY <1>1, <1>2, <1>3, <1>4, <1>5 DEF Next

\* No start pushes a new kernel under a READY session.
THEOREM ReadyIsKept == Spec => StartKeepsReady
<1>1. IInv /\ [Next]_vars =>
          [state = "READY" /\ restarts' = restarts => state' # "STARTING"]_vars
  <2> SUFFICES ASSUME IInv, [Next]_vars, state = "READY", restarts' = restarts,
                      state' = "STARTING"
               PROVE  FALSE
    OBVIOUS
  <2>1. PICK r \in Request, p \in PollTask : StartFresh(r, p)
    BY OnlyFresh DEF IInv
  <2>2. state # "READY"
    BY <2>1 DEF StartFresh, IInv, ProbeInv
  <2> QED
    BY <2>2
<1> QED
  BY Inductive, <1>1, PTL DEF Spec, StartKeepsReady

\* Only Restart counts restarts.
LEMMA OnlyRestart ==
    ASSUME [Next]_vars, restarts' # restarts
    PROVE  \E r \in Request : Restart(r)
  BY DEF Next, vars, StartMisconfigured, Heartbeat, Environment, RequestStep,
         ThreadStep, LockStep, StartBegin, StartReuse, StartFresh, ReconcileBegin,
         ReconcileReady, ReconcileNotReady, ReconcileActive, ReconcileEnded,
         ReconcileUnknown, TerminateBegin, TerminatePost, TerminateDelete,
         TerminateFinal, PollCancelled, PollPush, PollConflict, PollStatus,
         PollDiscover, PollSleep, PollFinal, PollReady, PollFail, PollOnly

\* If no write of the session file fails, a process that dies in the middle of
\* a session comes back to the state its clients saw.
THEOREM SessionSurvivesRestart ==
    ASSUME ~DiskMayFail PROVE Spec => RestartKeepsSession
<1>1. IInv /\ [Next]_vars =>
          [restarts' # restarts /\ state \in Busy \union {"READY"}
              => UNCHANGED memory]_vars
  <2> SUFFICES ASSUME IInv, [Next]_vars, restarts' # restarts,
                      state \in Busy \union {"READY"}
               PROVE  UNCHANGED memory
    OBVIOUS
  <2>1. PICK r \in Request : Restart(r)
    BY OnlyRestart
  <2>2. file = Image
    BY DEF IInv, FileInv, Busy
  <2>3. file \in SavedSession
    BY <2>2 DEF Image, SavedSession, IInv, TypeOK
  <2> QED
    BY <2>1, <2>2, <2>3 DEF Restart, Boot, Loaded, Image, memory
<1> QED
  BY Inductive, <1>1, PTL DEF Spec, RestartKeepsSession

-----------------------------------------------------------------------------
(***************************************************************************)
(* The gateway implements the session lifecycle.  The invariant IInv       *)
(* supplies what the mapping needs: only the gateway's polling task is     *)
(* alive, a start still finds it ended after its probe, and a verdict of   *)
(* READY carries a URL.                                                    *)
(***************************************************************************)

\* A new gateway shows a fresh session, with nobody at work.
LEMMA InitRefines == Init => Lifecycle!Init
  BY DEF Init, Lifecycle!Init, Lifecycle!Fresh, Shown, Image, AtWork, Alive,
         DonePoller, InTeardown, TermPc, IdleHandler

\* Whatever is written is what is shown, or nothing is written.
LEMMA PersistSaves ==
    ASSUME TypeOK, Persist, TypeOK'
    PROVE  Lifecycle!Save
<1>1. Image' # NoFile
  BY NoFileAssumption DEF TypeOK, Image, SavedSession
<1>2. CASE file' = Image'
  BY <1>1, <1>2 DEF Lifecycle!Save, Shown, Image
<1>3. CASE file' = file
  BY <1>3 DEF Lifecycle!Save, Shown
<1> QED
  BY <1>2, <1>3 DEF Persist

\* A task that runs is at work; moved to another await, it still is.
LEMMA RunningIsAtWork ==
    ASSUME NEW p \in PollTask, NEW pc \in PollPc \ {"done"}, Running(p, pc)
    PROVE  AtWork
  BY DEF Running, AtWork, Alive

LEMMA MovedIsAtWork ==
    ASSUME TypeOK, NEW p \in PollTask, poll'[p].pc # "done", ~poll'[p].cancelled
    PROVE  AtWork'
  BY DEF AtWork, Alive

\* Nobody is at work once the polling task has been told to stop or has ended.
LEMMA CancelledRests ==
    ASSUME TypeOK, PollInv, poll' = PollAfterCancel
    PROVE  ~AtWork'
  BY DEF TypeOK, Poller, PollInv, AtWork, Alive, PollAfterCancel

LEMMA EndedRests ==
    ASSUME TypeOK, PollInv, NEW p \in PollTask, Alive(p),
           poll' = [poll EXCEPT ![p] = DonePoller]
    PROVE  ~AtWork'
  BY DEF TypeOK, PollInv, AtWork, Alive, DonePoller

LEMMA PollingDoneRests == ASSUME PollInv, PollingDone PROVE ~AtWork
  BY DEF PollInv, PollingDone, AtWork, Alive

\* Steps between awaits that a client cannot see.
LEMMA HiddenSteps ==
    ASSUME TypeOK, UNCHANGED <<memory, file, minted>>, InTeardown' = InTeardown,
           AtWork' = AtWork
    PROVE  UNCHANGED Lifecycle!lifecycleVars
  BY DEF Lifecycle!lifecycleVars, memory, Image, Shown

\* A handler that is not in a teardown, before and after its step.
LEMMA OutsideTeardown ==
    ASSUME TypeOK, NEW r \in Request, NEW h,
           req[r].pc \notin TermPc, h.pc \notin TermPc,
           req' = [req EXCEPT ![r] = h]
    PROVE  InTeardown' = InTeardown
  BY DEF TypeOK, InTeardown

-----------------------------------------------------------------------------
\* start_session
LEMMA StartRefines ==
    ASSUME IInv, TypeOK', NEW r \in Request, NEW p \in PollTask, StartFresh(r, p)
    PROVE  Lifecycle!Begin
<1> USE DEF IInv
<1>1. ~AtWork
  BY PollingDoneRests DEF StartFresh, ProbeInv
<1>2. AtWork'
  BY DEF StartFresh, Spawn, AtWork, Alive, DonePoller, PollAfterCancel, TypeOK, Poller
<1>3. InTeardown' = InTeardown
  BY OutsideTeardown DEF StartFresh, Release, IdleHandler, TermPc
<1>4. Lifecycle!Save
  BY PersistSaves DEF StartFresh
<1>5. minted' = minted + 1 /\ minted \in Nat
  BY BoundsAssumption DEF StartFresh, TypeOK, SessionId
<1>6. minted' \in (1 .. minted') \ (1 .. minted) /\ 1 .. minted' = (1 .. minted) \union {minted'}
  BY <1>5
<1>7. Shown(Image)' = [state |-> "STARTING", tunnel |-> NoUrl, session |-> minted']
  BY DEF StartFresh, Shown, Image
<1>8. Shown(Image).state # "READY"
  BY DEF StartFresh, ProbeInv, Shown, Image
<1> QED
  BY <1>1, <1>2, <1>3, <1>4, <1>6, <1>7, <1>8 DEF Lifecycle!Begin

\* A worker is found by a handler: by start_session or by reconciliation.
LEMMA FoundRefines ==
    ASSUME IInv, TypeOK', NEW r \in Request, NEW u \in Url,
           StartReuse(r, u) \/ ReconcileReady(r, u)
    PROVE  Lifecycle!Connect
<1> USE DEF IInv
<1>1. InTeardown' = InTeardown
  BY OutsideTeardown DEF StartReuse, ReconcileReady, Release, IdleHandler, TermPc
<1>2. AtWork' = AtWork
  BY DEF StartReuse, ReconcileReady, AtWork, Alive
<1>3. Lifecycle!Save
  BY PersistSaves DEF StartReuse, ReconcileReady, BecomeReady
<1>4. Shown(Image)' = [state |-> "READY", tunnel |-> u,
                      session |-> Shown(Image).session]
  BY DEF StartReuse, ReconcileReady, BecomeReady, Shown, Image
<1>5. minted' = minted
  BY DEF StartReuse, ReconcileReady
<1> QED
  BY <1>1, <1>2, <1>3, <1>4, <1>5 DEF Lifecycle!Connect, Lifecycle!Become

\* The polling task reports the worker it has found.
LEMMA PollReadyRefines ==
    ASSUME IInv, TypeOK', NEW p \in PollTask, PollReady(p)
    PROVE  Lifecycle!Connect
<1> USE DEF IInv
<1>1. ~AtWork'
  BY EndedRests DEF PollReady, Running, Alive
<1>2. Lifecycle!Save
  BY PersistSaves DEF PollReady, BecomeReady
<1>3. poll[p].url \in Url
  BY DEF PollReady, Running, PollInv, TypeOK, Poller, UrlOrNone
<1>4. Shown(Image)' = [state |-> "READY", tunnel |-> poll[p].url,
                      session |-> Shown(Image).session]
  BY DEF PollReady, BecomeReady, Shown, Image
<1>5. minted' = minted /\ InTeardown' = InTeardown
  BY DEF PollReady, InTeardown
<1> QED
  BY <1>1, <1>2, <1>3, <1>4, <1>5 DEF Lifecycle!Connect, Lifecycle!Become

\* The polling task reports that it gives up.
LEMMA PollFailRefines ==
    ASSUME IInv, TypeOK', NEW p \in PollTask, PollFail(p)
    PROVE  Lifecycle!GiveUp
<1> USE DEF IInv
<1>1. ~AtWork'
  BY EndedRests DEF PollFail, Running, Alive
<1>2. AtWork
  BY RunningIsAtWork DEF PollFail, PollPc
<1>3. Lifecycle!Save
  BY PersistSaves DEF PollFail
<1>4. Shown(Image)' = [state |-> "ERROR", tunnel |-> Shown(Image).tunnel,
                      session |-> Shown(Image).session]
  BY DEF PollFail, Shown, Image
<1>5. minted' = minted /\ InTeardown' = InTeardown
  BY DEF PollFail, InTeardown
<1> QED
  BY <1>1, <1>2, <1>3, <1>4, <1>5 DEF Lifecycle!GiveUp, Lifecycle!Become

\* A push that finds the kernel taken waits for that kernel.
LEMMA ConflictRefines ==
    ASSUME IInv, TypeOK', NEW p \in PollTask, PollConflict(p)
    PROVE  Lifecycle!Expect
<1> USE DEF IInv
<1>1. AtWork'
  BY MovedIsAtWork DEF PollConflict, Goto, Running, LoopTop, TypeOK, Poller
<1>2. Lifecycle!Save
  BY PersistSaves DEF PollConflict
<1>3. Shown(Image)' = [state |-> "RUNNING", tunnel |-> Shown(Image).tunnel,
                      session |-> Shown(Image).session]
  BY DEF PollConflict, Shown, Image
<1>4. minted' = minted /\ InTeardown' = InTeardown
  BY DEF PollConflict, InTeardown
<1> QED
  BY <1>1, <1>2, <1>3, <1>4 DEF Lifecycle!Expect, Lifecycle!Become

\* A reconciliation that finds the kernel active leaves somebody at work.
LEMMA ActiveRefines ==
    ASSUME IInv, TypeOK', NEW r \in Request, ReconcileActive(r)
    PROVE  Lifecycle!Expect
<1> USE DEF IInv
<1>1. AtWork'
  <2>1. CASE PollingDone /\ \E p \in PollTask : Spawn(p, LoopTop(0), poll)
    BY <2>1 DEF Spawn, AtWork, Alive, DonePoller, TypeOK, LoopTop
  <2>2. CASE ~PollingDone /\ UNCHANGED <<polling, poll>>
    BY <2>2 DEF ReconcileActive, CancellationsDelivered, PollingDone, AtWork, Alive
  <2> QED
    BY <2>1, <2>2 DEF ReconcileActive
<1>2. InTeardown' = InTeardown
  BY OutsideTeardown DEF ReconcileActive, Release, IdleHandler, TermPc
<1>3. Lifecycle!Save
  BY PersistSaves DEF ReconcileActive
<1>4. \/ state \in {"STARTING", "READY"} /\ Shown(Image)' = Shown(Image)
      \/ /\ state \notin {"STARTING", "READY"}
         /\ Shown(Image)' = [state |-> "RECOVERING", tunnel |-> Shown(Image).tunnel,
                      session |-> Shown(Image).session]
  BY DEF ReconcileActive, Shown, Image
<1>5. minted' = minted /\ Shown(Image).state = state
  BY DEF ReconcileActive, Shown, Image
<1> QED
  BY <1>1, <1>2, <1>3, <1>4, <1>5 DEF Lifecycle!Expect, Lifecycle!Become

\* A reconciliation that finds the kernel ended, or sees nothing: it resets the
\* session, or leaves everything as it is.
LEMMA LostRefines ==
    ASSUME IInv, TypeOK', NEW r \in Request, ReconcileEnded(r) \/ ReconcileUnknown(r)
    PROVE  Lifecycle!Lose \/ UNCHANGED Lifecycle!lifecycleVars
<1> USE DEF IInv
<1>1. InTeardown' = InTeardown
  BY OutsideTeardown DEF ReconcileEnded, ReconcileUnknown, Release, IdleHandler, TermPc
<1>2. AtWork' = AtWork /\ minted' = minted
  BY DEF ReconcileEnded, ReconcileUnknown, AtWork, Alive
<1>3. CASE UNCHANGED <<memory, file>>
  BY <1>1, <1>2, <1>3, HiddenSteps
<1>4. CASE /\ Persist
           /\ state \in {"READY", "STARTING", "RECOVERING"}
           /\ state' \in {"IDLE", "ERROR"}
           /\ tunnel' = NoUrl
           /\ UNCHANGED session
  <2>1. Lifecycle!Save
    BY <1>4, PersistSaves
  <2>2. Shown(Image)' = [state |-> state', tunnel |-> NoUrl,
                      session |-> Shown(Image).session]
    BY <1>4 DEF Shown, Image
  <2>3. Shown(Image).state = state
    BY DEF Shown, Image
  <2> QED
    BY <1>1, <1>2, <1>4, <2>1, <2>2, <2>3 DEF Lifecycle!Lose, Lifecycle!Become
<1> QED
  BY <1>3, <1>4 DEF ReconcileEnded, ReconcileUnknown

-----------------------------------------------------------------------------
\* A start that is refused for its configuration.
LEMMA MisconfiguredRefines ==
    ASSUME IInv, StartMisconfigured
    PROVE  Lifecycle!Refuse \/ UNCHANGED Lifecycle!lifecycleVars
<1> USE DEF IInv
<1>1. ~AtWork
  BY PollingDoneRests DEF StartMisconfigured, StartAdmits
<1>2. AtWork' = AtWork /\ InTeardown' = InTeardown /\ UNCHANGED <<minted, file>>
  BY DEF StartMisconfigured, AtWork, Alive, InTeardown
<1>3. Shown(Image)' = [state |-> "ERROR", tunnel |-> Shown(Image).tunnel,
                      session |-> Shown(Image).session]
  BY DEF StartMisconfigured, Shown, Image
<1>4. CASE state # "READY"
  <2>1. Shown(Image).state # "READY"
    BY <1>4 DEF Shown, Image
  <2> QED
    BY <1>1, <1>2, <1>3, <2>1 DEF Lifecycle!Refuse, Lifecycle!Become
<1>5. CASE state = "READY"
  BY <1>5 DEF StartMisconfigured, StartAdmits, ReadyInv, ReadyServable
<1> QED
  BY <1>4, <1>5

\* terminate_session, its first critical section.
LEMMA TerminateRefines ==
    ASSUME IInv, TypeOK', NEW r \in Request, TerminateBegin(r)
    PROVE  Lifecycle!Terminate(r)
<1> USE DEF IInv
<1>1. ~AtWork'
  BY CancelledRests DEF TerminateBegin
<1>2. r \notin InTeardown /\ InTeardown' = InTeardown \union {r}
  BY DEF TerminateBegin, InTeardown, TermPc, TypeOK
<1>3. Lifecycle!Save
  BY PersistSaves DEF TerminateBegin
<1>4. /\ Shown(Image)' = [state |-> "TERMINATING", tunnel |-> Shown(Image).tunnel,
                         session |-> Shown(Image).session]
      /\ Shown(Image).state \notin {"TERMINATING", "SHUTDOWN"}
  BY DEF TerminateBegin, Shown, Image
<1>5. minted' = minted
  BY DEF TerminateBegin
<1> QED
  BY <1>1, <1>2, <1>3, <1>4, <1>5 DEF Lifecycle!Terminate, Lifecycle!Become

\* terminate_session, its finally block.
LEMMA FinalRefines ==
    ASSUME IInv, NEW r \in Request, TerminateFinal(r)
    PROVE  Lifecycle!Finish(r)
<1> USE DEF IInv
<1>1. r \in InTeardown /\ InTeardown' = InTeardown \ {r}
  BY DEF TerminateFinal, InTeardown, TermPc, TypeOK, IdleHandler
<1>2. AtWork' = AtWork /\ minted' = minted
  BY DEF TerminateFinal, AtWork, Alive
<1>3. Shown(Image)' = [state |-> "SHUTDOWN", tunnel |-> NoUrl,
                      session |-> Shown(Image).session]
  BY DEF TerminateFinal, Shown, Image
<1>4. CASE file' = NoFile
  BY <1>1, <1>2, <1>3, <1>4 DEF Lifecycle!Finish, Lifecycle!Become
<1>5. CASE file' = file
  BY <1>1, <1>2, <1>3, <1>5 DEF Lifecycle!Finish, Lifecycle!Become
<1> QED
  BY <1>4, <1>5 DEF TerminateFinal

\* record_heartbeat.
LEMMA HeartbeatRefines ==
    ASSUME IInv, TypeOK', Heartbeat
    PROVE  Lifecycle!Renew
<1> USE DEF IInv
<1>1. Lifecycle!Save
  BY PersistSaves DEF Heartbeat
<1>2. AtWork' = AtWork /\ InTeardown' = InTeardown /\ minted' = minted
  BY DEF Heartbeat, AtWork, Alive, InTeardown
<1>3. Shown(Image)' = Shown(Image)
  BY DEF Heartbeat, memory, Shown, Image
<1> QED
  BY <1>1, <1>2, <1>3 DEF Lifecycle!Renew

\* A new process.
LEMMA RestartRefines ==
    ASSUME IInv, NEW r \in Request, Restart(r)
    PROVE  Lifecycle!Restart
<1> USE DEF IInv
<1>1. ~AtWork'
  BY DEF Restart, Boot, AtWork, Alive, DonePoller
<1>2. InTeardown' = {}
  BY DEF Restart, Boot, InTeardown, TermPc, IdleHandler
<1>3. file' = file
  BY DEF Restart
<1>4. CASE file = NoFile
  <2>1. minted' = minted + 1 /\ minted \in Nat
    BY <1>4, BoundsAssumption DEF Restart, Boot, TypeOK, SessionId
  <2>2. minted' \in (1 .. minted') \ (1 .. minted)
        /\ 1 .. minted' = (1 .. minted) \union {minted'}
    BY <2>1
  <2>3. Shown(Image)' = Lifecycle!Fresh(minted')
    BY <1>4 DEF Restart, Boot, Loaded, Shown, Image, Lifecycle!Fresh
  <2> QED
    BY <1>1, <1>2, <1>3, <1>4, <2>2, <2>3 DEF Lifecycle!Restart
<1>5. CASE file # NoFile
  <2>1. minted' = minted
    BY <1>5 DEF Restart, Boot
  <2>2. Shown(Image)' = Shown(file)
    BY <1>5 DEF Restart, Boot, Loaded, Shown, Image
  <2> QED
    BY <1>1, <1>2, <1>3, <1>5, <2>1, <2>2 DEF Lifecycle!Restart
<1> QED
  BY <1>4, <1>5

-----------------------------------------------------------------------------
\* The steps of a handler that a client cannot see.
LEMMA HiddenHandlerSteps ==
    ASSUME IInv, NEW r \in Request,
           \/ StartBegin(r) \/ ReconcileBegin(r) \/ ReconcileNotReady(r)
           \/ TerminatePost(r) \/ TerminateDelete(r)
    PROVE  UNCHANGED Lifecycle!lifecycleVars
<1> USE DEF IInv
<1>1. AtWork' = AtWork /\ UNCHANGED <<memory, file, minted>>
  BY DEF StartBegin, ReconcileBegin, ReconcileNotReady, TerminatePost,
         TerminateDelete, AtWork, Alive
<1>2. InTeardown' = InTeardown
  BY DEF StartBegin, ReconcileBegin, ReconcileNotReady, TerminatePost,
         TerminateDelete, Acquire, IdleHandler, InTeardown, TermPc, TypeOK,
         Handler
<1> QED
  BY <1>1, <1>2, HiddenSteps

\* The steps of a background task that a client cannot see: it stays at work,
\* or it ends after it has been told to stop.
LEMMA HiddenTaskSteps ==
    ASSUME IInv, TypeOK', NEW p \in PollTask, PollCancelled(p) \/ ThreadStep(p)
    PROVE  UNCHANGED Lifecycle!lifecycleVars
<1> USE DEF IInv
<1>1. InTeardown' = InTeardown /\ UNCHANGED <<memory, file, minted>>
  BY DEF PollCancelled, ThreadStep, PollPush, PollStatus, PollDiscover, PollSleep,
         PollFinal, PollOnly, InTeardown
<1>2. CASE PollCancelled(p)
  <2>1. ~AtWork
    BY <1>2 DEF PollCancelled, PollInv, AtWork
  <2>2. ~AtWork'
    BY <1>2, EndedRests DEF PollCancelled
  <2>3. AtWork' = AtWork
    BY <2>1, <2>2 DEF AtWork
  <2> QED
    BY <1>1, <2>3, HiddenSteps
<1>3. CASE ThreadStep(p)
  <2>1. AtWork
    BY <1>3, RunningIsAtWork DEF ThreadStep, PollPush, PollStatus, PollDiscover,
       PollSleep, PollFinal, PollPc
  <2>2. poll'[p].pc # "done" /\ ~poll'[p].cancelled
    BY <1>3 DEF ThreadStep, PollPush, PollStatus, PollDiscover, PollSleep,
       PollFinal, Goto, GotoReady, GotoFail, LoopTop, Running, TypeOK, Poller
  <2>3. AtWork'
    BY <2>2, MovedIsAtWork
  <2> QED
    BY <1>1, <2>1, <2>3, HiddenSteps
<1> QED
  BY <1>2, <1>3

\* Every step of the gateway is a step of the lifecycle, or hidden in it.
LEMMA StepRefines ==
    IInv /\ TypeOK' /\ [Next]_vars => [Lifecycle!Next]_(Lifecycle!lifecycleVars)
<1> SUFFICES ASSUME IInv, TypeOK', [Next]_vars
             PROVE  Lifecycle!Next \/ UNCHANGED Lifecycle!lifecycleVars
  OBVIOUS
<1> USE DEF Lifecycle!Next
<1>1. CASE StartMisconfigured
  BY <1>1, MisconfiguredRefines
<1>2. CASE Heartbeat
  BY <1>2, HeartbeatRefines
<1>3. CASE Environment
  BY <1>3, HiddenSteps DEF Environment, IInv, InTeardown, AtWork, Alive
<1>4. ASSUME NEW r \in Request,
             StartBegin(r) \/ ReconcileBegin(r) \/ TerminateBegin(r)
      PROVE  Lifecycle!Next \/ UNCHANGED Lifecycle!lifecycleVars
  BY <1>4, HiddenHandlerSteps, TerminateRefines
<1>5. ASSUME NEW r \in Request, RequestStep(r)
      PROVE  Lifecycle!Next \/ UNCHANGED Lifecycle!lifecycleVars
  BY <1>5, FoundRefines, StartRefines, ActiveRefines, LostRefines,
     HiddenHandlerSteps DEF RequestStep
<1>6. ASSUME NEW r \in Request, TerminateFinal(r) \/ Restart(r)
      PROVE  Lifecycle!Next \/ UNCHANGED Lifecycle!lifecycleVars
  BY <1>6, FinalRefines, RestartRefines
<1>7. ASSUME NEW p \in PollTask, PollCancelled(p) \/ ThreadStep(p) \/ LockStep(p)
      PROVE  Lifecycle!Next \/ UNCHANGED Lifecycle!lifecycleVars
  BY <1>7, HiddenTaskSteps, ConflictRefines, PollReadyRefines, PollFailRefines
     DEF LockStep
<1>8. CASE UNCHANGED vars
  BY <1>8, HiddenSteps DEF vars, IInv, InTeardown, AtWork, Alive
<1> QED
  BY <1>1, <1>2, <1>3, <1>4, <1>5, <1>6, <1>7, <1>8 DEF Next

\* The session gateway implements the session lifecycle.
THEOREM Refinement == Spec => ImplementsLifecycle
<1>1. IInv => TypeOK
  BY DEF IInv
<1> QED
  BY InitRefines, StepRefines, Inductive, <1>1, PTL
     DEF Spec, ImplementsLifecycle, Lifecycle!Spec
=============================================================================
