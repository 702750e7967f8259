---------------------------- MODULE WorkerUpkeep ----------------------------
(***************************************************************************)
(* The worker between its requests: the watchdog and the recordings kept   *)
(* for clients, under one clock.  They meet in /generate, whose success    *)
(* touches the watchdog, and then writes a file if the client asked for an *)
(* address.  Both are lost with the machine.                               *)
(***************************************************************************)
EXTENDS IdleWatchdog, GeneratedFiles

vars == <<watchVars, fileVars>>

\* Every variable has its type.
TypeOK == WatchTypeOK /\ FilesTypeOK

Init == WatchInit /\ FilesInit

\* The answer to a generate is an address.
AnswerWithFile(r) == Answer(r) /\ Write

Unseen(step) == step /\ UNCHANGED fileVars

RequestStep(r) ==
    \/ Unseen(Arrive(r)) \/ Unseen(Answer(r)) \/ Unseen(AnswerOnly(r))
    \/ AnswerWithFile(r)

ThreadWorks == Unseen(ThreadStep)
TimePasses == Tick /\ FilesAge

Next ==
    \/ Unseen(Start) \/ Unseen(Stop) \/ ThreadWorks
    \/ \E r \in Request : RequestStep(r)
    \/ Unseen(Health) \/ Unseen(Shutdown) \/ Unseen(Close)
    \/ TimePasses

\* The operating system runs the thread, and time goes on.
Spec == Init /\ [][Next]_vars /\ WF_vars(ThreadWorks) /\ WF_vars(TimePasses)
             /\ WF_vars(Unseen(Close))
=============================================================================
