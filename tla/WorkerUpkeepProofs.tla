------------------------- MODULE WorkerUpkeepProofs -------------------------
(***************************************************************************)
(* Proofs about the idle watchdog, for every timeout, interval and number  *)
(* of requests.  Three relations between its clocks carry them: the time   *)
(* since the last touch is at most the timeout and the present wait, no    *)
(* request at work is younger than that time, and what /health told, less  *)
(* what has passed, adds up with it to the timeout, half a second either   *)
(* way.                                                                    *)
(*                                                                         *)
(* And about the recordings, for every limit: what is on disk is the end   *)
(* of what was handed out last, and the rest of that is too old.           *)
(***************************************************************************)
EXTENDS WorkerUpkeep, WellFoundedInduction, TLAPS

\* The steps of the watchdog and of its handlers, without the files.
HandlerStep(r) == Arrive(r) \/ Answer(r) \/ AnswerOnly(r)
WatchStep ==
    \/ Start \/ Stop \/ StopSeen \/ Wake \/ Look \/ Act
    \/ \E r \in Request : HandlerStep(r)
    \/ Health \/ Shutdown \/ Close
    \/ Tick

\* The time since the last touch was below the timeout when the wait began.
QuotaInv ==
    /\ thread = "wait" => idle < IdleTimeout + since
    /\ thread \in {"look", "act"} => idle < IdleTimeout + CheckInterval

\* A request at work has touched the watchdog when it came in, or later.
AgeInv == \A r \in Request : request[r].at = "work" => request[r].age >= idle

\* What was told, less what has passed since, and the time since the last
\* touch make up the timeout.
ToldInv ==
    told # NotTold =>
      /\ idle < Longest => told + idle >= IdleTimeout - 1
      /\ told <= 0 \/ told + idle <= IdleTimeout + 1

WatchInv == WatchTypeOK /\ QuotaInv /\ AgeInv /\ ToldInv /\ RequestsNotCut

-----------------------------------------------------------------------------
LEMMA WatchSteps == [Next]_vars => [WatchStep]_watchVars
BY DEF Next, vars, Unseen, ThreadWorks, ThreadStep, TimePasses, RequestStep,
       AnswerWithFile, WatchStep, HandlerStep

\* Rounding to seconds costs half a second at most.
LEMMA RoundedIsNear ==
    ASSUME NEW half \in Nat
    PROVE  /\ Rounded(half) \in Nat
           /\ half - 1 <= 2 * Rounded(half) /\ 2 * Rounded(half) <= half + 1
<1>1. half \div 2 \in Nat
  BY SMT
<1>2. 2 * (half \div 2) <= half /\ half <= 2 * (half \div 2) + 1
  BY SMT
<1>3. half % 2 = 0 => half = 2 * (half \div 2)
  BY SMT
<1>4. CASE Rounded(half) = half \div 2
  BY <1>1, <1>2, <1>4
<1>5. CASE Rounded(half) = half \div 2 + 1 /\ half % 2 # 0
  BY <1>1, <1>2, <1>5
<1> QED
  BY <1>4, <1>5 DEF Rounded

LEMMA InitWatchInv ==
    ASSUME Init
    PROVE  WatchInv
<1> USE PeriodAssumption DEF Init, WatchInit
<1>1. WatchTypeOK
  <2>1. idle \in 0..Longest /\ since \in 0..CheckInterval
        /\ told \in (-Longest)..NotTold
    BY DEF Longest, NotTold
  <2>2. [at |-> "none", age |-> 0, late |-> FALSE] \in Handler
    BY DEF Handler, Longest
  <2>3. request \in [Request -> Handler]
    BY <2>2
  <2> QED
    BY <2>1, <2>3 DEF WatchTypeOK, NotClosing
<1>2. QuotaInv /\ AgeInv /\ ToldInv /\ RequestsNotCut
  BY DEF QuotaInv, AgeInv, ToldInv, RequestsNotCut
<1> QED
  BY <1>1, <1>2 DEF WatchInv

\* Every step keeps the types.
LEMMA TypeStep ==
    ASSUME WatchTypeOK, [WatchStep]_watchVars
    PROVE  WatchTypeOK'
<1> USE PeriodAssumption DEF WatchTypeOK, watchdog
<1>1. CASE Start \/ Stop \/ StopSeen \/ Wake \/ Look \/ Act
  <2>1. CASE Start
    <3>1. since' \in 0..CheckInterval
      BY <2>1 DEF Start
    <3>2. thread' = "wait" /\ stop' = FALSE
          /\ UNCHANGED <<idle, closing, alive, request, told>>
      BY <2>1 DEF Start
    <3> QED
      BY <3>1, <3>2
  <2>2. CASE Stop \/ StopSeen \/ Wake
    BY <2>2 DEF Stop, StopSeen, Wake
  <2>3. CASE Look
    BY <2>3 DEF Look
  <2>4. CASE Act
    BY <2>4 DEF Act
  <2> QED
    BY <1>1, <2>1, <2>2, <2>3, <2>4
<1>2. ASSUME NEW r \in Request, HandlerStep(r)
      PROVE  WatchTypeOK'
  <2>1. idle' \in 0..Longest /\ told' \in (-Longest)..NotTold
    BY <1>2 DEF HandlerStep, Arrive, Answer, AnswerOnly, Leave, Touch, Longest,
                NotTold
  <2>2. request' \in [Request -> Handler]
    <3>1. ASSUME NEW late \in BOOLEAN, NEW at \in {"none", "work"}
          PROVE  [at |-> at, age |-> 0, late |-> late] \in Handler
      BY DEF Handler, Longest
    <3>2. (thread = "act") \in BOOLEAN
      OBVIOUS
    <3>3. PICK h \in Handler : request' = [request EXCEPT ![r] = h]
      BY <1>2, <3>1, <3>2 DEF HandlerStep, Arrive, Answer, AnswerOnly, Leave
    <3> QED
      BY <3>3
  <2> QED
    BY <1>2, <2>1, <2>2 DEF HandlerStep, Arrive, Answer, AnswerOnly, Leave
<1>3. CASE Health
  <2>1. Remaining \in Nat /\ Remaining <= IdleTimeout
    BY DEF Remaining, Longest
  <2>2. told' \in (-Longest)..NotTold
    BY <1>3, <2>1, RoundedIsNear DEF Health, Longest, NotTold
  <2> QED
    BY <1>3, <2>2 DEF Health
<1>4. CASE Shutdown \/ Close
  BY <1>4 DEF Shutdown, Close, NotClosing
<1>5. CASE Tick
  <2>1. idle' \in 0..Longest /\ told' \in (-Longest)..NotTold
    BY <1>5 DEF Tick, Longer, Longest, NotTold
  <2>2. since' \in 0..CheckInterval /\ closing' \in {NotClosing, 0, 1}
    BY <1>5 DEF Tick, Due, NotClosing
  <2>3. request' \in [Request -> Handler]
    <3>1. ASSUME NEW r \in Request
          PROVE  [request[r] EXCEPT !.age = Longer(@)] \in Handler
      BY DEF Handler, Longer, Longest
    <3> QED
      BY <1>5, <3>1 DEF Tick
  <2> QED
    BY <1>5, <2>1, <2>2, <2>3 DEF Tick
<1>6. CASE UNCHANGED watchVars
  BY <1>6 DEF watchVars
<1> QED
  BY <1>1, <1>2, <1>3, <1>4, <1>5, <1>6 DEF WatchStep

\* Every step keeps the relation of the last touch to the present wait.
LEMMA QuotaStep ==
    ASSUME WatchTypeOK, QuotaInv, [WatchStep]_watchVars
    PROVE  QuotaInv'
<1> USE PeriodAssumption DEF WatchTypeOK, watchdog, QuotaInv
<1>1. CASE Start
  BY <1>1 DEF Start
<1>2. CASE Stop \/ StopSeen \/ Act \/ Shutdown \/ Close \/ Health
  BY <1>2 DEF Stop, StopSeen, Act, Shutdown, Close, Health
<1>3. CASE Wake
  BY <1>3 DEF Wake
<1>4. CASE Look
  BY <1>4 DEF Look, TimedOut
<1>5. ASSUME NEW r \in Request, HandlerStep(r)
      PROVE  QuotaInv'
  <2>1. idle' \in {0, idle} /\ UNCHANGED <<thread, since>>
    BY <1>5 DEF HandlerStep, Arrive, Answer, AnswerOnly, Leave, Touch
  <2> QED
    BY <2>1
<1>6. CASE Tick
  BY <1>6 DEF Tick, Due, Longer, Longest
<1>7. CASE UNCHANGED watchVars
  BY <1>7 DEF watchVars
<1> QED
  BY <1>1, <1>2, <1>3, <1>4, <1>5, <1>6, <1>7 DEF WatchStep

\* Every step keeps requests at work as old as the last touch at least.
LEMMA AgeStep ==
    ASSUME WatchTypeOK, AgeInv, [WatchStep]_watchVars
    PROVE  AgeInv'
<1> USE PeriodAssumption DEF AgeInv
<1>1. CASE \/ Start \/ Stop \/ StopSeen \/ Wake \/ Look \/ Act \/ Shutdown
           \/ Close \/ Health \/ UNCHANGED watchVars
  BY <1>1 DEF Start, Stop, StopSeen, Wake, Look, Act, Shutdown, Close, Health,
              watchVars
<1>2. ASSUME NEW r \in Request, HandlerStep(r)
      PROVE  AgeInv'
  <2>1. idle' = idle \/ idle' = 0
    BY <1>2 DEF HandlerStep, Arrive, Answer, AnswerOnly, Leave, Touch
  <2>2. ASSUME NEW q \in Request, q # r
        PROVE  request'[q] = request[q]
    BY <1>2, <2>2
        DEF HandlerStep, Arrive, Answer, AnswerOnly, Leave, WatchTypeOK
  <2>3. request'[r].at = "work" => request'[r].age = 0 /\ idle' = 0
    BY <1>2 DEF HandlerStep, Arrive, Answer, AnswerOnly, Leave, Touch, WatchTypeOK
  <2>4. \A q \in Request : request[q].age \in 0..Longest
    BY DEF WatchTypeOK, Handler
  <2> QED
    BY <2>1, <2>2, <2>3, <2>4 DEF WatchTypeOK, Longest
<1>3. CASE Tick
  <2>1. ASSUME NEW q \in Request, request'[q].at = "work"
        PROVE  request[q].at = "work" /\ request'[q].age = Longer(request[q].age)
    BY <1>3, <2>1 DEF Tick, WatchTypeOK, Handler
  <2>2. idle' = Longer(idle) /\ idle \in 0..Longest
        /\ \A q \in Request : request[q].age \in 0..Longest
    BY <1>3 DEF Tick, WatchTypeOK, Handler
  <2> QED
    BY <2>1, <2>2 DEF Longer, Longest
<1> QED
  BY <1>1, <1>2, <1>3 DEF WatchStep

\* Every step keeps what was told.
LEMMA ToldStep ==
    ASSUME WatchTypeOK, ToldInv, [WatchStep]_watchVars
    PROVE  ToldInv'
<1> USE PeriodAssumption DEF WatchTypeOK, ToldInv
<1>1. CASE \/ Start \/ Stop \/ StopSeen \/ Wake \/ Look \/ Act \/ Shutdown
           \/ Close \/ UNCHANGED watchVars
  BY <1>1 DEF Start, Stop, StopSeen, Wake, Look, Act, Shutdown, Close, watchVars
<1>2. ASSUME NEW r \in Request, HandlerStep(r)
      PROVE  ToldInv'
  BY <1>2 DEF HandlerStep, Arrive, Answer, AnswerOnly, Leave, Touch
<1>3. CASE Health
  <2>1. Remaining \in Nat /\ (idle < IdleTimeout => Remaining = IdleTimeout - idle)
        /\ (idle >= IdleTimeout => Remaining = 0)
    BY DEF Remaining, Longest
  <2>2. told' = 2 * Rounded(Remaining) /\ idle' = idle
    BY <1>3 DEF Health
  <2>3. told' \in Int /\ Remaining - 1 <= told' /\ told' <= Remaining + 1
    BY <2>1, <2>2, RoundedIsNear
  <2>4. CASE idle < IdleTimeout
    BY <2>1, <2>2, <2>3, <2>4
  <2>5. CASE idle >= IdleTimeout
    <3>1. told' = 0
      BY <2>1, <2>2, <2>5 DEF Rounded
    <3> QED
      BY <2>2, <2>5, <3>1
  <2> QED
    BY <2>4, <2>5 DEF Longest
<1>4. CASE Tick
  BY <1>4 DEF Tick, Longer, Longest, NotTold
<1> QED
  BY <1>1, <1>2, <1>3, <1>4 DEF WatchStep

\* Every step keeps the requests whole: the watchdog decides when the last
\* touch is a timeout ago, and no request at work is younger.
LEMMA CutStep ==
    ASSUME WatchTypeOK, AgeInv, RequestsNotCut, [WatchStep]_watchVars
    PROVE  RequestsNotCut'
<1> USE PeriodAssumption DEF RequestsNotCut
<1>1. CASE \/ Start \/ StopSeen \/ Wake \/ Act \/ Close
  BY <1>1 DEF Start, StopSeen, Wake, Act, Close
<1>2. CASE Stop \/ Shutdown \/ Health \/ UNCHANGED watchVars
  BY <1>2 DEF Stop, Shutdown, Health, watchVars, watchdog
<1>3. CASE Look
  BY <1>3 DEF Look, TimedOut, AgeInv, WatchTypeOK, Handler, Longest
<1>4. ASSUME NEW r \in Request, HandlerStep(r)
      PROVE  RequestsNotCut'
  <2>1. thread' = thread
    BY <1>4 DEF HandlerStep, Arrive, Answer, AnswerOnly, Leave, watchdog
  <2>2. ASSUME NEW q \in Request, q # r
        PROVE  request'[q] = request[q]
    BY <1>4, <2>2
        DEF HandlerStep, Arrive, Answer, AnswerOnly, Leave, WatchTypeOK
  <2>3. request'[r].at = "work" /\ thread = "act" => request'[r].late
    BY <1>4 DEF HandlerStep, Arrive, Answer, AnswerOnly, Leave, WatchTypeOK
  <2> QED
    BY <2>1, <2>2, <2>3
<1>5. CASE Tick
  BY <1>5 DEF Tick, Due
<1> QED
  BY <1>1, <1>2, <1>3, <1>4, <1>5 DEF WatchStep

-----------------------------------------------------------------------------
\* The watchdog's invariant holds for every timeout, interval and number of
\* requests.
THEOREM Inductive == Spec => []WatchInv
<1>1. Init => WatchInv
  BY InitWatchInv
<1>2. WatchInv /\ [Next]_vars => WatchInv'
  BY WatchSteps, TypeStep, QuotaStep, AgeStep, ToldStep, CutStep DEF WatchInv
<1> QED
  BY <1>1, <1>2, PTL DEF Spec

\* With the thread at work, the time since the last touch stays below the
\* timeout and one interval (watchdog.py, _run_loop): the GPU is given back.
THEOREM QuotaIsProtected == Spec => []QuotaProtected
<1>1. WatchInv => QuotaProtected
  <2> SUFFICES ASSUME WatchInv, Armed
               PROVE  idle < IdleTimeout + CheckInterval
    BY DEF QuotaProtected
  <2>1. idle \in 0..Longest /\ since \in 0..CheckInterval
    BY DEF WatchInv, WatchTypeOK
  <2>2. QuotaInv /\ thread \in {"wait", "look", "act"}
    BY DEF WatchInv, Armed
  <2> QED
    BY <2>1, <2>2, PeriodAssumption DEF QuotaInv, Longest
<1> QED
  BY <1>1, Inductive, PTL

\* The watchdog ends no request younger than the timeout, but for those that
\* come in after it has decided.
THEOREM NoRequestIsCut == Spec => []RequestsNotCut
<1>1. WatchInv => RequestsNotCut
  BY DEF WatchInv
<1> QED
  BY <1>1, Inductive, PTL

\* What /health told holds to half a second before, and one interval after.
THEOREM HealthHolds == Spec => HealthIsHonest
<1>1. ASSUME WatchInv, [Next]_vars, told # NotTold,
             thread = "look", thread' = "act"
      PROVE  told <= 1
  <2>1. Look
    BY <1>1, WatchSteps
        DEF WatchStep, watchVars, watchdog, Start, Stop, StopSeen, Wake, Act,
            HandlerStep, Arrive, Answer, AnswerOnly, Leave, Health, Shutdown,
            Close, Tick
  <2>2. idle >= IdleTimeout
    BY <1>1, <2>1 DEF Look, TimedOut
  <2>3. told <= 0 \/ told + idle <= IdleTimeout + 1
    BY <1>1 DEF WatchInv, ToldInv
  <2>4. idle \in Int /\ told \in Int
    BY <1>1, PeriodAssumption DEF WatchInv, WatchTypeOK, Longest, NotTold
  <2> QED
    BY <2>2, <2>3, <2>4, PeriodAssumption
<1>2. ASSUME WatchInv, told # NotTold, Armed
      PROVE  told >= -CheckInterval
  <2>1. idle < IdleTimeout + CheckInterval
    <3>1. idle \in 0..Longest /\ since \in 0..CheckInterval
      BY <1>2 DEF WatchInv, WatchTypeOK
    <3>2. QuotaInv /\ thread \in {"wait", "look", "act"}
      BY <1>2 DEF WatchInv, Armed
    <3> QED
      BY <3>1, <3>2, PeriodAssumption DEF QuotaInv, Longest
  <2>2. told + idle >= IdleTimeout - 1
    BY <1>2, <2>1 DEF WatchInv, ToldInv, Longest
  <2>3. idle \in Int /\ told \in Int
    BY <1>2, PeriodAssumption DEF WatchInv, WatchTypeOK, Longest, NotTold
  <2> QED
    BY <2>1, <2>2, <2>3, PeriodAssumption
<1>3. WatchInv /\ [Next]_vars =>
        [told # NotTold =>
           /\ thread = "look" /\ thread' = "act" => told <= 1
           /\ Armed => told >= -CheckInterval]_watchVars
  BY <1>1, <1>2
<1> QED
  BY <1>3, Inductive, PTL DEF Spec, HealthIsHonest
-----------------------------------------------------------------------------
(***************************************************************************)
(* The recordings.                                                         *)
(***************************************************************************)

\* How many of the files handed out last are no longer on disk.
Missing == Len(handed) - Len(files)

\* The files on disk are the last that were handed out.
OnDiskInv == /\ Len(files) <= Len(handed)
             /\ \A n \in 1..Len(files) : files[n] = handed[Missing + n]

\* Those no longer on disk are too old.
GoneInv == \A n \in 1..Missing : handed[n] > MaxAge

\* The order that Young relies on.
OldestFirst == \A m, n \in 1..Len(handed) : m <= n => handed[m] >= handed[n]

FilesInv == FilesTypeOK /\ OnDiskInv /\ GoneInv /\ OldestFirst

\* A set of numbers that is not empty has a least one.
LEMMA LeastNumber ==
    ASSUME NEW T \in SUBSET Nat, T # {}
    PROVE  Min(T) \in T /\ \A m \in T : Min(T) <= m
<1> DEFINE R == OpToRel(<, Nat)
<1>1. IsWellFoundedOn(R, Nat)
  BY NatLessThanWellFounded
<1>2. \A m, n \in Nat : m < n => <<m, n>> \in R
  BY DEF OpToRel
<1> HIDE DEF R
<1>3. PICK n \in T : \A m \in T : ~(<<m, n>> \in R)
  BY <1>1, WFMin
<1>4. ASSUME NEW m \in T
      PROVE  n <= m
  <2>1. m \in Nat /\ n \in Nat
    OBVIOUS
  <2>2. ~(m < n)
    BY <1>2, <1>3, <2>1
  <2> QED
    BY <2>1, <2>2
<1> QED
  BY <1>4 DEF Min

\* What is young begins with the first that is.
LEMMA YoungBegins ==
    ASSUME NEW ages \in Seq(FileAge)
    PROVE  \E first \in 1..Len(ages) + 1 :
              /\ Young(ages) = SubSeq(ages, first, Len(ages))
              /\ \A n \in 1..first - 1 : ages[n] > MaxAge
              /\ first <= Len(ages) => ages[first] <= MaxAge
<1> DEFINE T == {n \in 1..Len(ages) + 1 : n > Len(ages) \/ ages[n] <= MaxAge}
           first == Min(T)
<1>1. Len(ages) \in Nat /\ \A n \in 1..Len(ages) : ages[n] \in Int
  BY RetentionAssumption DEF FileAge
<1>2. T \in SUBSET Nat /\ Len(ages) + 1 \in T
  BY <1>1
<1>3. Young(ages) = SubSeq(ages, first, Len(ages))
  BY DEF Young
<1>4. first \in T /\ \A n \in T : first <= n
  <2> HIDE DEF T
  <2> QED
    BY <1>2, LeastNumber
<1> HIDE DEF first
<1>5. ASSUME NEW n \in 1..first - 1
      PROVE  ages[n] > MaxAge
  <2>1. n \in 1..Len(ages) /\ n \notin T
    BY <1>1, <1>4
  <2> QED
    BY <1>1, <2>1, RetentionAssumption
<1> QED
  BY <1>1, <1>3, <1>4, <1>5

\* The clean-up takes the first files: those too old, or one more when all are
\* young and the limit is reached.
LEMMA CleanedFiles ==
    ASSUME FilesTypeOK
    PROVE  \E gone \in 0..Len(files) :
              /\ Cleaned(files) \in Seq(FileAge)
              /\ Len(Cleaned(files)) = Len(files) - gone
              /\ \A n \in 1..Len(files) - gone : Cleaned(files)[n] = files[gone + n]
              /\ Len(files) - gone < MaxFiles
              /\ \/ \A n \in 1..gone : files[n] > MaxAge
                 \/ gone = 1 /\ Len(files) = MaxFiles
<1> DEFINE f == Len(files)
<1>1. files \in Seq(FileAge) /\ f \in Nat /\ f <= MaxFiles /\ MaxFiles \in Nat \ {0}
  BY RetentionAssumption DEF FilesTypeOK, BoundedSeq, SeqOf
<1>2. PICK a \in 1..f + 1 : /\ Young(files) = SubSeq(files, a, f)
                            /\ \A n \in 1..a - 1 : files[n] > MaxAge
  BY <1>1, YoungBegins
<1> DEFINE young == SubSeq(files, a, f)
           y == Len(young)
<1>3. /\ young \in Seq(FileAge) /\ y = f - a + 1
      /\ \A n \in 1..y : young[n] = files[a - 1 + n]
  BY <1>1
<1> DEFINE e == Excess(y)
           c == SubSeq(young, e + 1, y)
<1>4. Cleaned(files) = c
  BY <1>2 DEF Cleaned
<1> HIDE DEF young
<1>5. e \in 0..y /\ y - e < MaxFiles /\ (e > 0 => y = MaxFiles /\ e = 1)
  <2>1. y \in Nat /\ y <= MaxFiles
    BY <1>1, <1>3
  <2> HIDE DEF y
  <2> QED
    BY <1>1, <2>1 DEF Excess
<1> HIDE DEF e
<1>6. /\ c \in Seq(FileAge) /\ Len(c) = y - e
      /\ \A n \in 1..y - e : c[n] = young[e + n]
  BY <1>3, <1>5
<1> HIDE DEF c
<1> DEFINE gone == (a - 1) + e
<1>7. gone \in 0..f /\ f - gone = y - e
  BY <1>1, <1>3, <1>5
<1>8. ASSUME NEW n \in 1..f - gone
      PROVE  c[n] = files[gone + n]
  <2>1. c[n] = young[e + n]
    BY <1>6, <1>7
  <2>2. e + n \in 1..y
    BY <1>3, <1>5, <1>7
  <2>3. young[e + n] = files[(a - 1) + (e + n)]
    BY <1>3, <2>2
  <2>4. (a - 1) + (e + n) = gone + n
    BY <1>3, <1>5
  <2> QED
    BY <2>1, <2>3, <2>4
<1>9. \/ \A n \in 1..gone : files[n] > MaxAge
      \/ gone = 1 /\ f = MaxFiles
  <2>1. CASE e = 0
    BY <1>2, <2>1
  <2>2. CASE e # 0
    BY <1>1, <1>3, <1>5, <2>2
  <2> QED
    BY <2>1, <2>2
<1> HIDE DEF gone
<1> QED
  BY <1>4, <1>5, <1>6, <1>7, <1>8, <1>9

\* A recording of more than the limit before does not count as handed out.
LEMMA WriteStep ==
    ASSUME FilesInv, Write
    PROVE  FilesInv'
<1> DEFINE f == Len(files)
           h == Len(handed)
           d == h - f
<1>1. /\ files \in Seq(FileAge) /\ f \in Nat /\ f <= MaxFiles
      /\ handed \in Seq(FileAge) /\ h \in Nat /\ h <= MaxFiles
      /\ MaxFiles \in Nat \ {0} /\ MaxAge \in Nat /\ 0 \in FileAge
      /\ f <= h
      /\ \A n \in 1..f : files[n] = handed[d + n]
      /\ \A n \in 1..d : handed[n] > MaxAge
      /\ \A m, n \in 1..h : m <= n => handed[m] >= handed[n]
      /\ \A n \in 1..h : handed[n] \in Nat
  <2>1. /\ files \in Seq(FileAge) /\ f \in Nat /\ f <= MaxFiles
        /\ handed \in Seq(FileAge) /\ h \in Nat /\ h <= MaxFiles
    BY RetentionAssumption DEF FilesInv, FilesTypeOK, BoundedSeq, SeqOf
  <2>2. FileAge \subseteq Nat /\ 0 \in FileAge /\ MaxFiles \in Nat \ {0} /\ MaxAge \in Nat
    BY RetentionAssumption DEF FileAge
  <2>3. \A n \in 1..h : handed[n] \in Nat
    <3>1. \A n \in 1..h : handed[n] \in FileAge
      BY <2>1
    <3> QED
      BY <2>2, <3>1
  <2>4. /\ f <= h
        /\ \A n \in 1..f : files[n] = handed[d + n]
        /\ \A n \in 1..d : handed[n] > MaxAge
        /\ \A m, n \in 1..h : m <= n => handed[m] >= handed[n]
    BY DEF FilesInv, OnDiskInv, GoneInv, OldestFirst, Missing
  <2> QED
    BY <2>1, <2>2, <2>3, <2>4
<1> DEFINE kept == Cleaned(files)
           last == IF h = MaxFiles THEN Tail(handed) ELSE handed
           lost == IF h = MaxFiles THEN 1 ELSE 0
<1>2. PICK gone \in 0..f :
              /\ kept \in Seq(FileAge)
              /\ Len(kept) = f - gone
              /\ \A n \in 1..f - gone : kept[n] = files[gone + n]
              /\ f - gone < MaxFiles
              /\ \/ \A n \in 1..gone : files[n] > MaxAge
                 \/ gone = 1 /\ f = MaxFiles
  BY CleanedFiles DEF FilesInv
<1>3. /\ last \in Seq(FileAge) /\ Len(last) = h - lost
      /\ \A n \in 1..h - lost : last[n] = handed[lost + n]
  BY <1>1
<1>4. lost \in 0..1 /\ h - lost < MaxFiles /\ lost <= h /\ (lost = 1 => h = MaxFiles)
  BY <1>1
<1>5. files' = Append(kept, 0) /\ handed' = Append(last, 0)
  BY DEF Write
<1> HIDE DEF kept, last, lost
<1>6. /\ files' \in Seq(FileAge) /\ Len(files') = f - gone + 1
      /\ \A n \in 1..f - gone : files'[n] = files[gone + n]
      /\ files'[f - gone + 1] = 0
  BY <1>1, <1>2, <1>5
<1>7. /\ handed' \in Seq(FileAge) /\ Len(handed') = h - lost + 1
      /\ \A n \in 1..h - lost : handed'[n] = handed[lost + n]
      /\ handed'[h - lost + 1] = 0
  BY <1>1, <1>3, <1>4, <1>5
<1>8. Missing' = (h - lost) - (f - gone) /\ f - gone <= h - lost
  BY <1>1, <1>2, <1>4, <1>6, <1>7 DEF Missing
<1>9. FilesTypeOK'
  <2>1. /\ Len(files') \in 0..MaxFiles /\ files' \in [1..Len(files') -> FileAge]
        /\ Len(handed') \in 0..MaxFiles /\ handed' \in [1..Len(handed') -> FileAge]
    <3>1. Len(files') \in 0..MaxFiles /\ Len(handed') \in 0..MaxFiles
      BY <1>1, <1>2, <1>4, <1>6, <1>7
    <3> QED
      BY <1>6, <1>7, <3>1
  <2> QED
    BY <2>1 DEF FilesTypeOK, BoundedSeq, SeqOf
<1>10. OnDiskInv'
  <2>1. ASSUME NEW n \in 1..f - gone + 1
        PROVE  files'[n] = handed'[Missing' + n]
    <3>1. CASE n = f - gone + 1
      <4>1. Missing' + n = h - lost + 1
        BY <1>1, <1>4, <1>8, <3>1
      <4> QED
        BY <1>6, <1>7, <3>1, <4>1
    <3>2. CASE n # f - gone + 1
      <4>1. /\ n \in 1..f - gone /\ gone + n \in 1..f
            /\ Missing' + n \in 1..h - lost
            /\ lost + (Missing' + n) = d + (gone + n)
        <5>1. f \in Nat /\ h \in Nat /\ lost \in Int /\ gone \in 0..f
          BY <1>1, <1>4
        <5> HIDE DEF f, h
        <5> QED
          BY <1>8, <3>2, <5>1
      <4>2. files'[n] = files[gone + n] /\ files[gone + n] = handed[d + (gone + n)]
        BY <1>1, <1>6, <4>1
      <4>3. handed'[Missing' + n] = handed[lost + (Missing' + n)]
        BY <1>7, <4>1
      <4> QED
        BY <4>1, <4>2, <4>3
    <3> QED
      BY <3>1, <3>2
  <2> QED
    BY <1>6, <1>7, <1>8, <1>1, <1>4, <2>1 DEF OnDiskInv
<1>11. GoneInv'
  <2>1. ASSUME NEW n \in 1..Missing'
        PROVE  handed'[n] > MaxAge
    <3>1. n \in 1..h - lost /\ lost + n \in 1..d + gone
      BY <1>1, <1>4, <1>8
    <3>2. handed'[n] = handed[lost + n]
      BY <1>7, <3>1
    <3>3. CASE lost + n <= d
      BY <1>1, <1>4, <3>2, <3>3
    <3>4. CASE ~(lost + n <= d)
      <4>1. (lost + n) - d \in 1..gone /\ (lost + n) - d \in 1..f
            /\ d + ((lost + n) - d) = lost + n
        BY <1>1, <1>4, <3>1, <3>4
      <4>2. files[(lost + n) - d] = handed[lost + n]
        BY <1>1, <4>1
      <4>3. ~(gone = 1 /\ f = MaxFiles)
        BY <1>1, <1>4, <1>8, <3>1 DEF lost
      <4> QED
        BY <1>2, <3>2, <4>1, <4>2, <4>3
    <3> QED
      BY <3>3, <3>4
  <2> QED
    BY <2>1 DEF GoneInv
<1>12. OldestFirst'
  <2>1. ASSUME NEW m \in 1..h - lost + 1, NEW n \in 1..h - lost + 1, m <= n
        PROVE  handed'[m] >= handed'[n]
    <3>1. CASE n = h - lost + 1 /\ m = n
      BY <1>7, <3>1
    <3>2. CASE n = h - lost + 1 /\ m # n
      <4>1. m \in 1..h - lost /\ lost + m \in 1..h
        BY <1>1, <1>4, <2>1, <3>2
      <4> QED
        BY <1>1, <1>7, <3>2, <4>1
    <3>3. CASE n # h - lost + 1
      <4>1. /\ m \in 1..h - lost /\ n \in 1..h - lost
            /\ lost + m \in 1..h /\ lost + n \in 1..h /\ lost + m <= lost + n
        <5>1. h \in Nat /\ lost \in 0..1 /\ lost <= h
          BY <1>1, <1>4
        <5> HIDE DEF h
        <5> QED
          BY <2>1, <3>3, <5>1
      <4> QED
        BY <1>1, <1>7, <4>1
    <3> QED
      BY <3>1, <3>2, <3>3
  <2> QED
    BY <1>7, <2>1 DEF OldestFirst
<1> QED
  BY <1>9, <1>10, <1>11, <1>12 DEF FilesInv

\* Time keeps the order, and what is too old stays so.
LEMMA AgingStep ==
    ASSUME FilesInv, FilesAge
    PROVE  FilesInv'
<1>1. /\ files \in Seq(FileAge) /\ handed \in Seq(FileAge)
      /\ Len(files) \in 0..MaxFiles /\ Len(handed) \in 0..MaxFiles
      /\ \A n \in 1..Len(files) : files[n] \in FileAge
      /\ \A n \in 1..Len(handed) : handed[n] \in FileAge
  BY RetentionAssumption DEF FilesInv, FilesTypeOK, BoundedSeq, SeqOf
<1>2. ASSUME NEW age \in FileAge
      PROVE  Older(age) \in FileAge /\ (age > MaxAge => Older(age) = age)
  BY RetentionAssumption DEF Older, FileAge
<1>3. ASSUME NEW a \in FileAge, NEW b \in FileAge, a >= b
      PROVE  Older(a) >= Older(b)
  BY <1>3, RetentionAssumption DEF Older, FileAge
<1>4. /\ files' \in Seq(FileAge) /\ Len(files') = Len(files)
      /\ \A n \in 1..Len(files) : files'[n] = Older(files[n])
  BY <1>1, <1>2 DEF FilesAge
<1>5. /\ handed' \in Seq(FileAge) /\ Len(handed') = Len(handed)
      /\ \A n \in 1..Len(handed) : handed'[n] = Older(handed[n])
  BY <1>1, <1>2 DEF FilesAge
<1>6. FilesTypeOK'
  <2>1. /\ Len(files') \in 0..MaxFiles /\ files' \in [1..Len(files') -> FileAge]
        /\ Len(handed') \in 0..MaxFiles /\ handed' \in [1..Len(handed') -> FileAge]
    BY <1>1, <1>4, <1>5
  <2> QED
    BY <2>1 DEF FilesTypeOK, BoundedSeq, SeqOf
<1>7. Missing' = Missing
  BY <1>4, <1>5 DEF Missing
<1>8. OnDiskInv'
  <2>1. ASSUME NEW n \in 1..Len(files)
        PROVE  files'[n] = handed'[Missing + n]
    <3>1. files[n] = handed[Missing + n]
      BY DEF FilesInv, OnDiskInv
    <3>2. Missing + n \in 1..Len(handed)
      BY <1>1 DEF FilesInv, OnDiskInv, Missing
    <3> QED
      BY <1>4, <1>5, <3>1, <3>2
  <2>2. Len(files) <= Len(handed)
    BY DEF FilesInv, OnDiskInv
  <2> QED
    BY <1>4, <1>5, <1>7, <2>1, <2>2 DEF OnDiskInv
<1>9. GoneInv'
  <2>1. ASSUME NEW n \in 1..Missing
        PROVE  handed'[n] > MaxAge
    <3>1. n \in 1..Len(handed)
      BY <1>1 DEF Missing
    <3>2. handed[n] > MaxAge
      BY DEF FilesInv, GoneInv
    <3> QED
      BY <1>1, <1>2, <1>5, <3>1, <3>2
  <2> QED
    BY <1>7, <2>1 DEF GoneInv
<1>10. OldestFirst'
  BY <1>1, <1>3, <1>5 DEF FilesInv, OldestFirst
<1> QED
  BY <1>6, <1>8, <1>9, <1>10 DEF FilesInv

LEMMA FilesStay == Spec => []FilesInv
<1>1. Init => FilesInv
  <2>1. <<>> \in [1..0 -> FileAge] /\ 0 \in 0..MaxFiles
    BY RetentionAssumption
  <2>2. FilesInit => FilesTypeOK
    BY <2>1 DEF FilesInit, FilesTypeOK, BoundedSeq, SeqOf
  <2>3. FilesInit => OnDiskInv /\ GoneInv /\ OldestFirst
    BY DEF FilesInit, OnDiskInv, GoneInv, OldestFirst, Missing
  <2> QED
    BY <2>2, <2>3 DEF Init, FilesInv
<1>2. FilesInv /\ [Next]_vars => FilesInv'
  <2>1. [Next]_vars => Write \/ FilesAge \/ UNCHANGED fileVars
    BY DEF Next, vars, Unseen, ThreadWorks, TimePasses, RequestStep, AnswerWithFile
  <2>2. FilesInv /\ UNCHANGED fileVars => FilesInv'
    BY DEF fileVars, FilesInv, FilesTypeOK, OnDiskInv, GoneInv, OldestFirst, Missing
  <2> QED
    BY <2>1, <2>2, WriteStep, AgingStep
<1> QED
  BY <1>1, <1>2, PTL DEF Spec

\* The order of the files on disk.
FilesInOrder == \A m, n \in 1..Len(files) : m <= n => files[m] >= files[n]

\* The files on disk are in the order of their ages, so that Young, which takes
\* those from the first young one on, takes what the loop of cleanup_generated_files
\* keeps: each file that is not too old.
THEOREM OldestComeFirst == Spec => []FilesInOrder
<1>1. ASSUME FilesInv, NEW m \in 1..Len(files), NEW n \in 1..Len(files), m <= n
      PROVE  files[m] >= files[n]
  <2>1. Len(files) \in Nat /\ Len(handed) \in Nat /\ Len(files) <= Len(handed)
    BY <1>1 DEF FilesInv, FilesTypeOK, BoundedSeq, SeqOf, OnDiskInv
  <2>2. /\ Missing + m \in 1..Len(handed) /\ Missing + n \in 1..Len(handed)
        /\ Missing + m <= Missing + n
    BY <1>1, <2>1 DEF Missing
  <2>3. files[m] = handed[Missing + m] /\ files[n] = handed[Missing + n]
    BY <1>1 DEF FilesInv, OnDiskInv
  <2> QED
    BY <1>1, <2>2, <2>3 DEF FilesInv, OldestFirst
<1>2. FilesInv => FilesInOrder
  BY <1>1 DEF FilesInOrder
<1> QED
  BY <1>2, FilesStay, PTL

\* The directory stays within its limit, and what was handed out stays on disk
\* until enough newer recordings were, or its time is over (app.py,
\* cleanup_generated_files), whatever the limit and the time.
THEOREM HandedFilesAreKept == Spec => []RecordingsKept
<1>1. ASSUME FilesInv
      PROVE  RecordingsKept
  <2> DEFINE f == Len(files)
             h == Len(handed)
             d == h - f
  <2>1. /\ files \in Seq(FileAge) /\ f \in Nat /\ f <= MaxFiles
        /\ handed \in Seq(FileAge) /\ h \in Nat /\ f <= h
        /\ \A n \in 1..f : files[n] = handed[d + n]
        /\ \A n \in 1..d : handed[n] > MaxAge
        /\ \A n \in 1..h : handed[n] \in Int
    BY <1>1, RetentionAssumption
       DEF FilesInv, FilesTypeOK, BoundedSeq, SeqOf, OnDiskInv, GoneInv, Missing, FileAge
  <2>2. PICK a \in 1..h + 1 : /\ Young(handed) = SubSeq(handed, a, h)
                              /\ a <= h => handed[a] <= MaxAge
    BY <2>1, YoungBegins
  <2> DEFINE young == SubSeq(handed, a, h)
             y == Len(young)
  <2>3. young \in Seq(FileAge) /\ y = h - a + 1 /\ \A n \in 1..y : young[n] = handed[a - 1 + n]
    BY <2>1
  <2> HIDE DEF young
  <2>4. y <= f /\ y \in Nat
    <3>1. a > d
      BY <2>1, <2>2, RetentionAssumption
    <3> QED
      BY <2>1, <2>3, <3>1
  <2>5. ASSUME NEW n \in 1..y
        PROVE  young[(y - n) + 1] = files[(f - n) + 1]
    <3>1. (y - n) + 1 \in 1..y /\ (f - n) + 1 \in 1..f
          /\ (a - 1) + ((y - n) + 1) = d + ((f - n) + 1)
      BY <2>1, <2>3, <2>4
    <3>2. young[(y - n) + 1] = handed[(a - 1) + ((y - n) + 1)]
      BY <2>3, <3>1
    <3>3. files[(f - n) + 1] = handed[d + ((f - n) + 1)]
      BY <2>1, <3>1
    <3> QED
      BY <3>1, <3>2, <3>3
  <2>6. /\ Reverse(young) \in Seq(FileAge) /\ Len(Reverse(young)) = y
        /\ \A n \in 1..y : Reverse(young)[n] = young[(y - n) + 1]
    BY <2>3, <2>4 DEF Reverse
  <2>7. /\ Reverse(files) \in Seq(FileAge) /\ Len(Reverse(files)) = f
        /\ \A n \in 1..f : Reverse(files)[n] = files[(f - n) + 1]
    BY <2>1 DEF Reverse
  <2>8. SubSeq(Reverse(young), 1, y) = SubSeq(Reverse(files), 1, y)
    <3> DEFINE p == Reverse(young)
               q == Reverse(files)
    <3>1. ASSUME NEW n \in 1..y
          PROVE  p[n] = q[n]
      <4>1. n \in 1..f
        BY <2>1, <2>4
      <4>2. p[n] = young[(y - n) + 1] /\ q[n] = files[(f - n) + 1]
        BY <2>6, <2>7, <4>1
      <4> QED
        BY <2>5, <4>2
    <3> HIDE DEF p, q
    <3> QED
      BY <2>4, <2>6, <2>7, <3>1 DEF p, q
  <2>9. IsSuffix(young, files)
    BY <2>4, <2>6, <2>7, <2>8 DEF IsSuffix, IsPrefix
  <2> QED
    BY <2>1, <2>2, <2>9 DEF RecordingsKept, young
<1> QED
  BY <1>1, FilesStay, PTL
=============================================================================
