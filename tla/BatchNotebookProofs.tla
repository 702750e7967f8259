-------------------------- MODULE BatchNotebookProofs --------------------------
(***************************************************************************)
(* Proofs about the batch notebook, for manifests of any length, any       *)
(* voices and any identifiers.  They rest on two facts: results are        *)
(* appended one by one in the order of the tasks, and a recording gets its *)
(* file under the identifier of the task at work.                          *)
(***************************************************************************)
EXTENDS BatchNotebook, SequenceTheorems, TLAPS

\* Bounded sequences are sequences.
LEMMA Sequences ==
    ASSUME TypeOK
    PROVE  /\ tasks \in Seq(Task) /\ Len(tasks) \in 1..MaxTasks
           /\ results \in Seq(Result) /\ Len(results) \in 0..MaxTasks
           /\ DOMAIN tasks = 1..Len(tasks) /\ DOMAIN results = 1..Len(results)
<1>1. PICK m \in Positions : tasks \in [1..m -> Task]
  BY DEF TypeOK
<1>2. PICK n \in 0..MaxTasks : results \in [1..n -> Result]
  BY DEF TypeOK
<1>3. m \in Nat /\ n \in Nat /\ m \in 1..MaxTasks
  BY <1>1, BoundAssumption DEF Positions
<1>4. tasks \in Seq(Task) /\ Len(tasks) = m
  BY <1>1, <1>3
<1>5. results \in Seq(Result) /\ Len(results) = n
  <2>1. results \in Seq(Result)
    BY <1>2, <1>3
  <2>2. DOMAIN results = 1..n /\ DOMAIN results = 1..Len(results)
        /\ Len(results) \in Nat
    BY <1>2, <2>1, LenProperties
  <2> QED
    BY <1>3, <2>1, <2>2
<1> QED
  BY <1>3, <1>4, <1>5, LenProperties

LEMMA InitIInv ==
    ASSUME Init
    PROVE  IInv
<1> USE BoundAssumption DEF Init
<1>1. 0 \in 0..MaxTasks /\ results \in [1..0 -> Result]
  OBVIOUS
<1>2. TypeOK
  BY <1>1 DEF TypeOK, Positions
<1>3. Len(results) = 0 /\ Len(tasks) \in Nat /\ DOMAIN results = {}
  BY <1>2, Sequences
<1>4. DistinctIds(tasks)
  BY DEF Sent
<1> QED
  BY <1>2, <1>3, <1>4
      DEF IInv, Progress, ResultsInOrder, MadeInTurn, ValidOwnRecording,
          OwnRecording

\* The task at work and what becomes of the results when it is reported.
LEMMA Appended ==
    ASSUME TypeOK, More, NEW res \in Result,
           results' = Append(results, res), UNCHANGED tasks
    PROVE  /\ Len(results) + 1 \in DOMAIN tasks
           /\ Current \in Task /\ TaskId(Current) \in Id
           /\ results' \in UNION {[1..n -> Result] : n \in 0..MaxTasks}
           /\ Len(results') = Len(results) + 1
           /\ DOMAIN results' = DOMAIN results \union {Len(results) + 1}
           /\ \A n \in DOMAIN results : results'[n] = results[n]
           /\ results'[Len(results) + 1] = res
<1>1. /\ tasks \in Seq(Task) /\ Len(tasks) \in 1..MaxTasks
      /\ results \in Seq(Result) /\ Len(results) \in 0..MaxTasks
      /\ DOMAIN tasks = 1..Len(tasks) /\ DOMAIN results = 1..Len(results)
  BY Sequences
<1>2. Len(results) + 1 \in 1..Len(tasks) /\ Len(results) + 1 \in 0..MaxTasks
  BY <1>1, BoundAssumption DEF More
<1>3. Current \in Task
  BY <1>1, <1>2, ElementOfSeq DEF Current
<1>4. TaskId(Current) \in Id
  BY <1>3 DEF TaskId, Task, Id
<1>5. /\ results' \in Seq(Result) /\ Len(results') = Len(results) + 1
      /\ \A n \in 1..Len(results) : results'[n] = results[n]
      /\ results'[Len(results) + 1] = res
  BY <1>1, AppendProperties
<1>6. DOMAIN results' = 1..Len(results') /\ results' \in [1..Len(results') -> Result]
  BY <1>5, LenProperties
<1> QED
  BY <1>1, <1>2, <1>3, <1>4, <1>5, <1>6

\* The steps that report a task, in one form: it is refused, or what is written
\* is the file of its own identifier.
LEMMA TaskStep ==
    ASSUME TypeOK, Refuse \/ Speak \/ SpeakFails
    PROVE  /\ More /\ UNCHANGED <<tasks, registry, raw, summary, pc>>
           /\ \E res \in Result :
                 /\ results' = Append(results, res) /\ res.id = TaskId(Current)
                 /\ \/ wav' = wav /\ res.status = "failed"
                    \/ /\ Refusal(Current) = "none"
                       /\ wav' = [wav EXCEPT ![TaskId(Current)] = Len(results) + 1]
<1>1. More /\ UNCHANGED <<tasks, registry, raw, summary, pc>>
  BY DEF Refuse, Speak, SpeakFails, Report, input
<1>2. TaskId(Current) \in Id
  <2>1. /\ tasks \in Seq(Task) /\ Len(tasks) \in 1..MaxTasks
        /\ Len(results) \in 0..MaxTasks
    BY Sequences
  <2>2. Len(results) + 1 \in 1..Len(tasks)
    BY <1>1, <2>1, BoundAssumption DEF More
  <2>3. Current \in Task
    BY <2>1, <2>2, ElementOfSeq DEF Current
  <2> QED
    BY <2>3 DEF TaskId, Task, Id
<1> DEFINE res(st, re) == [id |-> TaskId(Current), status |-> st, reason |-> re]
<1>3. CASE Refuse
  <2>1. Refusal(Current) \in Reasons
    BY DEF Refusal, Reasons
  <2>2. res("failed", Refusal(Current)) \in Result
    BY <1>2, <2>1 DEF Result
  <2> QED
    BY <1>1, <1>3, <2>2 DEF Refuse, Report
<1>4. CASE Speak
  <2>1. res("success", "none") \in Result
    BY <1>2 DEF Result, Reasons
  <2> QED
    BY <1>1, <1>4, <2>1 DEF Speak, Report
<1>5. CASE SpeakFails
  <2>1. res("failed", "inference") \in Result
    BY <1>2 DEF Result, Reasons
  <2> QED
    BY <1>1, <1>5, <2>1 DEF SpeakFails, Report
<1> QED
  BY <1>3, <1>4, <1>5

\* A reported task leaves the invariant: its own file is the only one that
\* changes, and no earlier task of a valid manifest has its identifier.
LEMMA TaskIInv ==
    ASSUME IInv, Refuse \/ Speak \/ SpeakFails
    PROVE  IInv'
<1> DEFINE last == Len(results) + 1
<1>1. TypeOK /\ Progress /\ ResultsInOrder /\ MadeInTurn /\ ValidOwnRecording
  BY DEF IInv
<1>2. More /\ UNCHANGED <<tasks, registry, raw, summary, pc>>
  BY <1>1, TaskStep
<1>3. PICK res \in Result :
         /\ results' = Append(results, res) /\ res.id = TaskId(Current)
         /\ \/ wav' = wav /\ res.status = "failed"
            \/ /\ Refusal(Current) = "none"
               /\ wav' = [wav EXCEPT ![TaskId(Current)] = last]
  BY <1>1, TaskStep
<1>4. /\ last \in DOMAIN tasks
      /\ TaskId(Current) \in Id
      /\ results' \in UNION {[1..n -> Result] : n \in 0..MaxTasks}
      /\ Len(results') = last
      /\ DOMAIN results' = DOMAIN results \union {last}
      /\ \A n \in DOMAIN results : results'[n] = results[n]
      /\ results'[last] = res
  BY <1>1, <1>2, <1>3, Appended
<1>5. /\ DOMAIN tasks = 1..Len(tasks) /\ DOMAIN results = 1..Len(results)
      /\ Len(tasks) \in 1..MaxTasks /\ Len(results) \in 0..MaxTasks
  BY <1>1, Sequences
<1>6. last \in Positions /\ last \notin DOMAIN results
      /\ last <= Len(tasks) /\ Current = tasks[last] /\ last # 0
  BY <1>4, <1>5, BoundAssumption DEF Positions, Current
<1> HIDE DEF last
<1>7. TypeOK'
  BY <1>1, <1>2, <1>3, <1>4, <1>6 DEF TypeOK
<1>8. Progress'
  BY <1>1, <1>2, <1>4, <1>6 DEF Progress, More, DistinctIds, last
<1>9. ResultsInOrder'
  BY <1>1, <1>2, <1>3, <1>4, <1>6 DEF ResultsInOrder, TaskId
<1>10. \A t : Refusal(t)' = Refusal(t)
  BY <1>2 DEF Refusal, Resolvable
<1>11. MadeInTurn'
  BY <1>1, <1>2, <1>3, <1>4, <1>6, <1>10 DEF MadeInTurn, TypeOK
<1>12. ASSUME ~raw, NEW n \in DOMAIN results', results'[n].status = "success"
       PROVE  wav'[results'[n].id] = n
  <2>1. CASE n = last
    BY <1>3, <1>4, <1>12, <2>1 DEF TypeOK, IInv
  <2>2. CASE n \in DOMAIN results
    <3>1. wav[results[n].id] = n
      BY <1>1, <1>4, <1>12, <2>2
          DEF ValidOwnRecording, OwnRecording, Succeeded
    <3>2. n \in DOMAIN tasks /\ n # last
      <4>1. Len(results) <= Len(tasks)
        BY <1>1 DEF Progress
      <4>2. n \in 1..Len(results) /\ Len(results) \in Nat /\ Len(tasks) \in Nat
        BY <1>5, <2>2, BoundAssumption
      <4>3. n \in 1..Len(tasks)
        BY <4>1, <4>2
      <4> QED
        BY <1>5, <1>6, <2>2, <4>3
    <3>3. results[n].id = tasks[n].id /\ TaskId(Current) = tasks[last].id
      BY <1>1, <1>6, <1>12, <2>2 DEF ResultsInOrder, TaskId
    <3>4. results[n].id # TaskId(Current)
      BY <1>1, <1>2, <1>4, <1>12, <3>2, <3>3
          DEF Progress, DistinctIds
    <3>5. results[n].id \in Id
      BY <1>1, <2>2 DEF TypeOK, Result
    <3> QED
      BY <1>1, <1>3, <1>4, <2>2, <3>1, <3>4, <3>5 DEF TypeOK
  <2> QED
    BY <1>4, <1>12, <2>1, <2>2
<1>13. ValidOwnRecording'
  BY <1>2, <1>12 DEF ValidOwnRecording, OwnRecording, Succeeded
<1> QED
  BY <1>7, <1>8, <1>9, <1>11, <1>13 DEF IInv

LEMMA NextIInv ==
    ASSUME IInv, [Next]_vars
    PROVE  IInv'
<1>1. CASE Refuse \/ Speak \/ SpeakFails
  BY <1>1, TaskIInv
<1>2. CASE Load
  <2>1. UNCHANGED <<tasks, registry, results, wav, summary>>
        /\ raw' = ~Valid(tasks) /\ pc' = "loop" /\ pc = "load"
    BY <1>2 DEF Load, input
  <2>2. results = <<>> /\ DOMAIN results = {}
    BY <2>1, Sequences DEF IInv, Progress
  <2>3. TypeOK'
    BY <2>1 DEF IInv, TypeOK
  <2>4. Progress'
    BY <2>1, <2>2 DEF IInv, Progress, DistinctIds
  <2>5. ResultsInOrder' /\ ValidOwnRecording'
    BY <2>1, <2>2
        DEF IInv, ResultsInOrder, ValidOwnRecording, OwnRecording
  <2>6. MadeInTurn'
    BY <2>1, <2>2 DEF IInv, MadeInTurn
  <2> QED
    BY <2>3, <2>4, <2>5, <2>6 DEF IInv
<1>3. CASE Summarise \/ Crash \/ UNCHANGED vars
  <2>1. UNCHANGED <<tasks, registry, raw, results, wav>>
    BY <1>3 DEF Summarise, Crash, vars, input
  <2>2. /\ pc' \in {"load", "loop", "done", "crashed"} /\ summary' \in BOOLEAN
        /\ pc' = "load" => pc = "load"
        /\ summary' => summary \/ Len(results) = Len(tasks)
    <3>1. CASE Summarise
      BY <3>1 DEF Summarise
    <3>2. CASE Crash
      BY <3>2 DEF Crash, IInv, TypeOK
    <3>3. CASE UNCHANGED vars
      BY <3>3 DEF vars, IInv, TypeOK
    <3> QED
      BY <1>3, <3>1, <3>2, <3>3
  <2>3. TypeOK'
    BY <2>1, <2>2 DEF IInv, TypeOK
  <2>4. ResultsInOrder' /\ ValidOwnRecording'
    BY <2>1
        DEF IInv, ResultsInOrder, ValidOwnRecording, OwnRecording, Succeeded, TaskId
  <2>5. MadeInTurn'
    BY <2>1 DEF IInv, MadeInTurn, Refusal, Resolvable
  <2>6. Progress'
    BY <2>1, <2>2 DEF IInv, Progress, DistinctIds
  <2> QED
    BY <2>3, <2>4, <2>5, <2>6 DEF IInv
<1> QED
  BY <1>1, <1>2, <1>3 DEF Next

-----------------------------------------------------------------------------
\* The invariant that the rest follows from: results in the order of the tasks,
\* recordings under their own identifiers (notebook_template.ipynb, the loop).
THEOREM Inductive == Spec => []IInv
<1>1. Init => IInv
  BY InitIInv
<1>2. IInv /\ [Next]_vars => IInv'
  BY NextIInv
<1> QED
  BY <1>1, <1>2, PTL DEF Spec

\* The summary reports every task, in the order of the manifest.
THEOREM TasksAreReported == Spec => []EveryTaskReported
<1>1. IInv => EveryTaskReported
  BY DEF IInv, Progress, ResultsInOrder, EveryTaskReported
<1> QED
  BY <1>1, Inductive, PTL

\* In a manifest that validates, a success has the recording made from it.
THEOREM RecordingsAreOwn == Spec => []ValidOwnRecording
<1>1. IInv => ValidOwnRecording
  BY DEF IInv
<1> QED
  BY <1>1, Inductive, PTL

\* No recording is made of a task this machine may not speak.
THEOREM RecordingsAreAllowed == Spec => []RecordingsAllowed
<1>1. ASSUME IInv
      PROVE  RecordingsAllowed
  <2>1. SUFFICES ASSUME NEW i \in Id, wav[i] # 0
                 PROVE  /\ Resolvable(tasks[wav[i]].voice)
                        /\ tasks[wav[i]].lang \in registry[tasks[wav[i]].voice].langs
    BY DEF RecordingsAllowed
  <2>2. Refusal(tasks[wav[i]]) = "none"
    BY <1>1, <2>1 DEF IInv, MadeInTurn
  <2> QED
    BY <2>2 DEF Refusal, Resolvable
<1> QED
  BY <1>1, Inductive, PTL
=============================================================================
