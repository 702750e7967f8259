--------------------------- MODULE GeneratedFiles ---------------------------
(***************************************************************************)
(* The recordings that /generate leaves on disk when it answers with an    *)
(* address (server/app.py): before each new one the old ones are deleted,  *)
(* those older than MaxAge, then the oldest until MaxFiles - 1 are left.   *)
(* Cleaning up and writing are one step of the event loop.  The directory  *)
(* is the worker's own: an unlink that fails is not modelled.              *)
(***************************************************************************)
EXTENDS Integers, Sequences, SequencesExt

CONSTANTS
    MaxFiles,    \* MAX_RETAINED_GENERATED_FILES
    MaxAge       \* MAX_GENERATED_FILE_AGE_SECONDS, in ticks of the clock

ASSUME RetentionAssumption == MaxFiles \in Nat \ {0} /\ MaxAge \in Nat

VARIABLES
    files,     \* the ages of the files on disk, oldest first
    handed     \* the ages of the last MaxFiles files handed out, oldest first

fileVars == <<files, handed>>

\* Ages are not counted beyond the first that is too old.
FileAge == 0..MaxAge + 1
Older(age) == IF age <= MaxAge THEN age + 1 ELSE age

FilesTypeOK ==
    /\ files \in BoundedSeq(FileAge, MaxFiles)
    /\ handed \in BoundedSeq(FileAge, MaxFiles)

FilesInit == files = <<>> /\ handed = <<>>

\* The files that are not too old: the oldest come first, so they are all from
\* the first of them on.
Young(ages) ==
    LET first == Min({n \in 1..Len(ages) + 1 : n > Len(ages) \/ ages[n] <= MaxAge})
    IN  SubSeq(ages, first, Len(ages))

\* Mutant of Excess: room for two.
ExcessEager(n) == IF n >= MaxFiles THEN n - MaxFiles + 2 ELSE 0

\* How many of n files have to go so that one more is within the limit.
Excess(n) == IF n >= MaxFiles THEN n - MaxFiles + 1 ELSE 0

\* cleanup_generated_files
Cleaned(ages) ==
    SubSeq(Young(ages), Excess(Len(Young(ages))) + 1, Len(Young(ages)))

\* The new file comes after the clean-up.
Write ==
    /\ files' = Append(Cleaned(files), 0)
    /\ handed' = Append(IF Len(handed) = MaxFiles THEN Tail(handed) ELSE handed, 0)

FilesAge ==
    /\ files' = [n \in DOMAIN files |-> Older(files[n])]
    /\ handed' = [n \in DOMAIN handed |-> Older(handed[n])]

-----------------------------------------------------------------------------
\* The directory stays within its limit, and yet an address that was handed out
\* leads to its recording until MaxFiles newer ones were handed out or its time
\* is over, whichever comes first: no clean-up takes a file too early, and no
\* file is taken in place of an older one.
RecordingsKept == Len(files) <= MaxFiles /\ IsSuffix(Young(handed), files)
=============================================================================
