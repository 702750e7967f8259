--------------------------- MODULE BatchNotebook ---------------------------
(***************************************************************************)
(* batch/notebook_template.ipynb, run on a manifest of tasks: it validates *)
(* the manifest once more, against the voices of the machine it runs on,   *)
(* then works through the tasks, one recording and one result each, and    *)
(* writes the summary at the very end.  A manifest that does not validate  *)
(* here is not refused: its tasks are taken as they are, under cleaned     *)
(* identifiers.                                                            *)
(*                                                                         *)
(* An identifier is a name with or without an underscore around it, both   *)
(* are legal (TASK_ID_REGEX); cleaning strips the underscore.  Left out:   *)
(* other characters, which no validated manifest holds, and an identifier  *)
(* of underscores alone; the texts; what the recordings sound like.        *)
(***************************************************************************)
EXTENDS Naturals, Sequences, FiniteSets

CONSTANTS
    Name,          \* identifiers but for the underscore
    Voice,         \* voices a task may name
    MaxTasks       \* tasks in a manifest

ASSUME BoundAssumption == MaxTasks \in Nat \ {0}

Language == {"en", "hi", "pa"}
BatchLanguages == {"hi", "pa"}
Id == [name : Name, bare : BOOLEAN]
Task == [id : Id, lang : Language, voice : Voice]

\* A voice of this machine: known to its registry, its recording present, those
\* of its languages that the notebook asks for.
VoiceEntry == [known : BOOLEAN, audio : BOOLEAN, langs : SUBSET BatchLanguages]

VARIABLES
    tasks,     \* the manifest
    registry,  \* the voices of this machine
    raw,       \* were the tasks taken without validation?
    results,   \* one record for each task so far
    wav,       \* outputs/<id>.wav: the task (by position) it was made from
    summary,   \* was manifest_output.json written?
    pc

input == <<tasks, registry>>
vars == <<input, raw, results, wav, summary, pc>>

Reasons == {"none", "language", "unknown_voice", "no_audio",
            "voice_language", "inference"}
Result == [id : Id, status : {"success", "failed"}, reason : Reasons]
Positions == 1..MaxTasks

\* Every variable has its type.
TypeOK ==
    /\ tasks \in UNION {[1..n -> Task] : n \in Positions}
    /\ registry \in [Voice -> VoiceEntry]
    /\ raw \in BOOLEAN
    /\ results \in UNION {[1..n -> Result] : n \in 0..MaxTasks}
    /\ wav \in [Id -> Positions \union {0}]
    /\ summary \in BOOLEAN
    /\ pc \in {"load", "loop", "done", "crashed"}

DistinctIds(ts) == \A m, n \in DOMAIN ts : ts[m].id = ts[n].id => m = n

\* The sender has validated the manifest (BatchJob), or made it of one task in
\* any language (the bridge).
Sent(ts) ==
    /\ DistinctIds(ts)
    /\ Len(ts) > 1 => \A n \in DOMAIN ts : ts[n].lang \in BatchLanguages

Init ==
    /\ tasks \in {ts \in UNION {[1..n -> Task] : n \in Positions} : Sent(ts)}
    /\ registry \in [Voice -> VoiceEntry]
    /\ raw = FALSE
    /\ results = <<>>
    /\ wav = [i \in Id |-> 0]
    /\ summary = FALSE
    /\ pc = "load"

-----------------------------------------------------------------------------
\* ReelAudioTask and BatchJob, on this machine
Resolvable(v) == registry[v].known /\ registry[v].audio
Valid(ts) ==
    /\ DistinctIds(ts)
    /\ \A n \in DOMAIN ts : ts[n].lang \in BatchLanguages /\ Resolvable(ts[n].voice)

Load ==
    /\ pc = "load"
    /\ raw' = ~Valid(tasks)
    /\ pc' = "loop"
    /\ UNCHANGED <<input, results, wav, summary>>

\* Mutant of TaskId: every identifier is cleaned.
TaskIdCleaned(t) == [t.id EXCEPT !.bare = TRUE]

\* The identifier a task is worked on under.
TaskId(t) == IF raw THEN [t.id EXCEPT !.bare = TRUE] ELSE t.id

Current == tasks[Len(results) + 1]
More == pc = "loop" /\ Len(results) < Len(tasks)

Report(status, reason) ==
    /\ results' = Append(results, [id |-> TaskId(Current), status |-> status,
                                   reason |-> reason])
    /\ UNCHANGED <<input, raw, summary, pc>>

\* Mutant of Refusal: any registered voice will do for any language.
RefusalLax(t) ==
    CASE t.lang \notin BatchLanguages -> "language"
      [] t.lang \in BatchLanguages /\ ~registry[t.voice].known -> "unknown_voice"
      [] t.lang \in BatchLanguages /\ registry[t.voice].known
           /\ ~registry[t.voice].audio -> "no_audio"
      [] OTHER -> "none"

\* Why a task is refused before the synthesizer is asked, in the order of the
\* checks; "none" when it is not.
Refusal(t) ==
    CASE t.lang \notin BatchLanguages -> "language"
      [] t.lang \in BatchLanguages /\ ~registry[t.voice].known -> "unknown_voice"
      [] t.lang \in BatchLanguages /\ registry[t.voice].known
           /\ ~registry[t.voice].audio -> "no_audio"
      [] t.lang \in BatchLanguages /\ Resolvable(t.voice)
           /\ t.lang \notin registry[t.voice].langs -> "voice_language"
      [] OTHER -> "none"

\* Mutant of Refuse: the exception ends the notebook.
RefuseAborting ==
    /\ More
    /\ Refusal(Current) # "none"
    /\ pc' = "done" /\ summary' = TRUE
    /\ results' = Append(results, [id |-> TaskId(Current), status |-> "failed",
                                   reason |-> Refusal(Current)])
    /\ UNCHANGED <<input, raw, wav>>

Refuse ==
    /\ More
    /\ Refusal(Current) # "none"
    /\ Report("failed", Refusal(Current))
    /\ UNCHANGED wav

Speak ==
    /\ More
    /\ Refusal(Current) = "none"
    /\ wav' = [wav EXCEPT ![TaskId(Current)] = Len(results) + 1]
    /\ Report("success", "none")

\* The synthesizer raises, or the export does, which may leave a broken file.
SpeakFails ==
    /\ More
    /\ Refusal(Current) = "none"
    /\ wav' \in {wav, [wav EXCEPT ![TaskId(Current)] = Len(results) + 1]}
    /\ Report("failed", "inference")

Summarise ==
    /\ pc = "loop" /\ Len(results) = Len(tasks)
    /\ summary' = TRUE
    /\ pc' = "done"
    /\ UNCHANGED <<input, raw, results, wav>>

\* The synthesizer cannot be created, or the machine is taken away: no summary.
Crash ==
    /\ pc \in {"load", "loop"}
    /\ pc' = "crashed"
    /\ UNCHANGED <<input, raw, results, wav, summary>>

Next == Load \/ Refuse \/ Speak \/ SpeakFails \/ Summarise \/ Crash

Spec == Init /\ [][Next]_vars

-----------------------------------------------------------------------------
Succeeded(n) == results[n].status = "success"

\* The summary lists every task of the manifest, in its order: one failure
\* does not take the rest of the batch with it.
EveryTaskReported ==
    summary => /\ Len(results) = Len(tasks)
               /\ \A n \in DOMAIN results : results[n].id = TaskId(tasks[n])

\* A task that was reported a success has its recording, and the recording was
\* made from this task.
OwnRecording ==
    \A n \in DOMAIN results : Succeeded(n) => wav[results[n].id] = n

\* The same, for a manifest that validates where it runs.
ValidOwnRecording == ~raw => OwnRecording

\* Whatever the manifest holds, an output file comes from a task this machine
\* may speak: its voice has a recording here and is registered for its language.
RecordingsAllowed ==
    \A i \in Id : wav[i] # 0 =>
       LET t == tasks[wav[i]]
       IN  Resolvable(t.voice) /\ t.lang \in registry[t.voice].langs
-----------------------------------------------------------------------------
\* The inductive invariant.  A result is that of the task at its position, and a
\* recording is made from a task that has its result and was not refused.
Progress ==
    /\ Len(results) <= Len(tasks)
    /\ pc = "load" => results = <<>>
    /\ DistinctIds(tasks)
    /\ summary => Len(results) = Len(tasks)

ResultsInOrder == \A n \in DOMAIN results : results[n].id = TaskId(tasks[n])

MadeInTurn ==
    \A i \in Id : wav[i] # 0 => /\ wav[i] \in DOMAIN results
                                /\ Refusal(tasks[wav[i]]) = "none"

IInv ==
    /\ TypeOK /\ Progress /\ ResultsInOrder /\ MadeInTurn
    /\ ValidOwnRecording
=============================================================================
