-------------------------- MODULE SessionLifecycle --------------------------
(***************************************************************************)
(* What the session gateway promises whoever uses it, without a lock, a    *)
(* handler, a task, a kernel or a registry: what a client sees of the      *)
(* session, whether somebody is working on a verdict about it, which       *)
(* teardowns have begun, and what a new process would find.                *)
(***************************************************************************)
CONSTANTS
    Url, NoUrl,   \* where a session is served
    Teardown      \* requests to terminate

VARIABLES
    status,    \* what GET /session/status shows: state, tunnel, session
    saved,     \* what a new process will find: one status, or none
    issued,    \* the session identifiers that were ever given
    working,   \* is somebody at work who will give a verdict?
    ending     \* the teardowns that have begun

lifecycleVars == <<status, saved, issued, working, ending>>

Fresh(n) == [state |-> "IDLE", tunnel |-> NoUrl, session |-> n]
Save == saved' \in {saved, {status'}}
Become(s, u) == status' = [state |-> s, tunnel |-> u, session |-> status.session]

Init ==
    /\ \E n \in issued : status = Fresh(n) /\ issued = {n}
    /\ saved = {}
    /\ ~working
    /\ ending = {}

\* A new session gets an identifier of its own.  It is begun under nobody's
\* work, and never in place of a session that is READY.
Begin ==
    /\ ~working
    /\ status.state # "READY"
    /\ \E n \in issued' \ issued :
          /\ status' = [state |-> "STARTING", tunnel |-> NoUrl, session |-> n]
          /\ issued' = issued \union {n}
    /\ working'
    /\ Save
    /\ UNCHANGED ending

\* A worker has been found: the same session, served at u.
Connect ==
    /\ \E u \in Url : Become("READY", u)
    /\ working' => working
    /\ Save
    /\ UNCHANGED <<issued, ending>>

\* The kernel is known to be up, its worker not yet: somebody is at work.
Expect ==
    /\ \/ status.state \in {"STARTING", "READY"} /\ UNCHANGED status
       \/ Become("RUNNING", status.tunnel)
       \/ status.state \notin {"STARTING", "READY"} /\ Become("RECOVERING", status.tunnel)
    /\ working'
    /\ Save
    /\ UNCHANGED <<issued, ending>>

\* Whoever was at work gives up, and says so.
GiveUp ==
    /\ working
    /\ ~working'
    /\ Become("ERROR", status.tunnel)
    /\ Save
    /\ UNCHANGED <<issued, ending>>

\* A start is refused before anything is at work.
Refuse ==
    /\ ~working
    /\ status.state # "READY"
    /\ Become("ERROR", status.tunnel)
    /\ UNCHANGED <<saved, issued, working, ending>>

\* The session is found to have ended, or cannot be seen any more.
Lose ==
    /\ status.state \in {"READY", "STARTING", "RECOVERING"}
    /\ \E s \in {"IDLE", "ERROR"} : Become(s, NoUrl)
    /\ Save
    /\ UNCHANGED <<issued, working, ending>>

\* A teardown begins: nobody is at work on the session any more.
Terminate(t) ==
    /\ t \notin ending
    /\ status.state \notin {"TERMINATING", "SHUTDOWN"}
    /\ Become("TERMINATING", status.tunnel)
    /\ ending' = ending \union {t}
    /\ ~working'
    /\ Save
    /\ UNCHANGED issued

\* A teardown that has begun, and no other step, leads to SHUTDOWN.
Finish(t) ==
    /\ t \in ending
    /\ Become("SHUTDOWN", NoUrl)
    /\ ending' = ending \ {t}
    /\ saved' \in {saved, {}}
    /\ UNCHANGED <<issued, working>>

\* A sign of life from the client.
Renew ==
    /\ Save
    /\ UNCHANGED <<status, issued, working, ending>>

\* The process dies: what was saved is what there is, or a fresh start.
Restart ==
    /\ \/ status' \in saved /\ UNCHANGED issued
       \/ /\ saved = {}
          /\ \E n \in issued' \ issued :
                status' = Fresh(n) /\ issued' = issued \union {n}
    /\ ~working'
    /\ ending' = {}
    /\ UNCHANGED saved

Next ==
    \/ Begin \/ Connect \/ Expect \/ GiveUp \/ Refuse \/ Lose \/ Renew \/ Restart
    \/ \E t \in Teardown : Terminate(t) \/ Finish(t)

Spec == Init /\ [][Next]_lifecycleVars
=============================================================================
