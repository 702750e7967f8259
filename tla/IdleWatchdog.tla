---------------------------- MODULE IdleWatchdog ----------------------------
(***************************************************************************)
(* server/watchdog.py, and what the handlers of server/app.py tell it: a   *)
(* daemon thread looks every CheckInterval how long ago the last touch was *)
(* and ends the machine when it was IdleTimeout or more, so that an idle   *)
(* GPU is given back.                                                      *)
(*                                                                         *)
(* Time is counted in half seconds, because /health rounds to seconds.     *)
(* The machine is faster than the clock: what is due happens before time   *)
(* goes on (the guard of Tick).  Requests, the clock and the thread        *)
(* interleave freely otherwise.                                            *)
(***************************************************************************)
EXTENDS Integers

CONSTANTS
    IdleTimeout,     \* idle_timeout_seconds, in half seconds
    CheckInterval,   \* check_interval_seconds, in half seconds
    Request          \* handlers that can be in flight at once

\* __init__ refuses anything else
ASSUME PeriodAssumption == IdleTimeout \in Nat \ {0} /\ CheckInterval \in Nat \ {0}

\* Ages are not counted further, where nothing is told apart any more.
Longest == IdleTimeout + CheckInterval
Longer(t) == IF t < Longest THEN t + 1 ELSE t

VARIABLES
    idle,      \* time since the last touch
    since,     \* time since the thread began to wait
    thread,    \* where the watchdog thread is
    stop,      \* _stop_event
    closing,   \* time left until a requested shutdown ends the machine
    alive,     \* does the machine run?
    request,   \* the handlers in flight
    told       \* what /health told of the time left, less what has passed

watchdog == <<since, thread, stop>>
watchVars == <<idle, watchdog, closing, alive, request, told>>

NotClosing == -1
NotTold == Longest + 1
Handler == [at : {"none", "work"},
            age : 0..Longest,      \* time since it came in
            late : BOOLEAN]        \* did it come after the thread had decided?

WatchTypeOK ==
    /\ idle \in 0..Longest
    /\ since \in 0..CheckInterval
    /\ thread \in {"none", "wait", "look", "act", "ended"}
    /\ stop \in BOOLEAN
    /\ closing \in {NotClosing, 0, 1}
    /\ alive \in BOOLEAN
    /\ request \in [Request -> Handler]
    /\ told \in (-Longest)..NotTold

WatchInit ==
    /\ idle = 0 /\ since = 0
    /\ thread = "none"
    /\ stop = FALSE
    /\ closing = NotClosing
    /\ alive = TRUE
    /\ request = [r \in Request |-> [at |-> "none", age |-> 0, late |-> FALSE]]
    /\ told = NotTold

-----------------------------------------------------------------------------
\* The thread

\* start(): nothing while a thread is alive.  Its callers start the watchdog
\* when they have made it, not when its time is already up.
Start ==
    /\ alive
    /\ idle < IdleTimeout
    /\ thread \in {"none", "ended"}
    /\ thread' = "wait"
    /\ since' = 0
    /\ stop' = FALSE
    /\ UNCHANGED <<idle, closing, alive, request, told>>

\* stop() sets the event; the thread sees it in its own time.
Stop ==
    /\ alive
    /\ stop' = TRUE
    /\ UNCHANGED <<idle, since, thread, closing, alive, request, told>>

StopSeen ==
    /\ alive
    /\ thread = "wait" /\ stop
    /\ thread' = "ended"
    /\ UNCHANGED <<idle, since, stop, closing, alive, request, told>>

\* The wait for the event has timed out.
Wake ==
    /\ alive
    /\ thread = "wait" /\ ~stop /\ since = CheckInterval
    /\ thread' = "look"
    /\ UNCHANGED <<idle, since, stop, closing, alive, request, told>>

\* Mutant of TimedOut: the boundary belongs to the other side.
TimedOutLate(t) == t > IdleTimeout

TimedOut(t) == t >= IdleTimeout

\* Under the lock; a stop that came since is noticed at the top of the loop.
Look ==
    /\ alive
    /\ thread = "look"
    /\ thread' = IF TimedOut(idle) THEN "act" ELSE "wait"
    /\ since' = 0
    /\ UNCHANGED <<idle, stop, closing, alive, request, told>>

\* Mutant of Act: an action that failed is not the end of the machine.
ActFailing ==
    /\ alive
    /\ thread = "act"
    /\ thread' = "ended"
    /\ UNCHANGED <<idle, since, stop, closing, alive, request, told>>

\* _default_shutdown_action, without the lock: whatever fails on the way is
\* caught, os._exit comes last.
Act ==
    /\ alive
    /\ thread = "act"
    /\ alive' = FALSE
    /\ thread' = "ended"
    /\ UNCHANGED <<idle, since, stop, closing, request, told>>

-----------------------------------------------------------------------------
\* The handlers

\* touch(): also what /health told is out of date.
Touch == idle' = 0 /\ told' = NotTold

\* Mutant of Arrive: only an answer counts as activity.
ArriveQuietly(r) ==
    /\ alive
    /\ request[r].at = "none"
    /\ request' = [request EXCEPT
          ![r] = [at |-> "work", age |-> 0, late |-> thread = "act"]]
    /\ UNCHANGED <<idle, watchdog, closing, alive, told>>

\* An authorised generate, clone, delete or synchronisation comes in.
Arrive(r) ==
    /\ alive
    /\ request[r].at = "none"
    /\ Touch
    /\ request' = [request EXCEPT
          ![r] = [at |-> "work", age |-> 0, late |-> thread = "act"]]
    /\ UNCHANGED <<watchdog, closing, alive>>

Leave(r) ==
    /\ alive
    /\ request[r].at = "work"
    /\ request' = [request EXCEPT
          ![r] = [at |-> "none", age |-> 0, late |-> FALSE]]
    /\ UNCHANGED <<watchdog, closing, alive>>

\* A generate or a clone that succeeded touches a second time.
Answer(r) == Leave(r) /\ Touch

\* A refusal, a failure, a delete, a synchronisation.
AnswerOnly(r) == Leave(r) /\ UNCHANGED <<idle, told>>

\* Mutant of Remaining: counted to the next look at the clock.
RemainingLate == IdleTimeout + CheckInterval - idle

Remaining == IF idle < IdleTimeout THEN IdleTimeout - idle ELSE 0

\* round(): to the nearest whole second, from the middle to the even one.
Rounded(half) ==
    IF half % 2 = 0 \/ (half \div 2) % 2 = 0 THEN half \div 2 ELSE half \div 2 + 1

\* GET /health tells the seconds remaining and touches nothing.
Health ==
    /\ alive
    /\ told' = 2 * Rounded(Remaining)
    /\ UNCHANGED <<idle, watchdog, closing, alive, request>>

\* POST /shutdown answers, and ends the machine half a second later.
Shutdown ==
    /\ alive
    /\ closing = NotClosing
    /\ closing' = 1
    /\ UNCHANGED <<idle, watchdog, alive, request, told>>

Close ==
    /\ alive
    /\ closing = 0
    /\ alive' = FALSE
    /\ thread' = "ended"
    /\ UNCHANGED <<idle, since, stop, closing, request, told>>

-----------------------------------------------------------------------------
\* Nothing that is due waits for the clock.
Due ==
    \/ thread = "wait" /\ (stop \/ since = CheckInterval)
    \/ thread \in {"look", "act"}
    \/ closing = 0

Tick ==
    /\ alive
    /\ ~Due
    /\ idle' = Longer(idle)
    /\ since' = IF thread = "wait" THEN since + 1 ELSE since
    /\ closing' = IF closing = NotClosing THEN NotClosing ELSE closing - 1
    /\ request' = [r \in Request |->
                     IF request[r].at = "work"
                       THEN [request[r] EXCEPT !.age = Longer(@)] ELSE request[r]]
    /\ told' = IF told = NotTold THEN NotTold
               ELSE IF told > -Longest THEN told - 1 ELSE told
    /\ UNCHANGED <<thread, stop, alive>>

ThreadStep == StopSeen \/ Wake \/ Look \/ Act

-----------------------------------------------------------------------------
Armed == alive /\ thread \in {"wait", "look", "act"} /\ ~stop

\* A machine nobody uses is not kept: with the thread at work, the time since
\* the last touch stays below the timeout and one interval.
QuotaProtected == Armed => idle < IdleTimeout + CheckInterval

\* The watchdog ends no request that has been at work for less than the
\* timeout, but for those that come in after it has decided.
RequestsNotCut ==
    thread = "act" =>
       \A r \in Request : request[r].at = "work" =>
          request[r].late \/ request[r].age >= IdleTimeout

\* What /health told holds: unless a request resets the clock, the watchdog
\* does not decide earlier than half a second before that time, and is not
\* still waiting more than one interval after it.
HealthIsHonest ==
    [][told # NotTold =>
         /\ thread = "look" /\ thread' = "act" => told <= 1
         /\ Armed => told >= -CheckInterval]_watchVars

\* With the thread at work, a machine whose time is up is ended, used or
\* handed over to a stop; it does not linger.
IdleWorkerExits ==
    (Armed /\ idle >= IdleTimeout) ~> (~alive \/ idle < IdleTimeout \/ stop)
=============================================================================
