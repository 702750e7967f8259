---------------------------- MODULE SecretsSync ----------------------------
(***************************************************************************)
(* The private dataset a worker is born from: scripts/                     *)
(* sync_secrets_dataset.py uploads the secrets of .env with an archive of  *)
(* the code, and remembers a hash of the upload in a file, so that the     *)
(* next run can skip it.  The gateway runs it before each push of the      *)
(* kernel (session_manager._kaggle_push); it can be run by hand as well.   *)
(*                                                                         *)
(* A step is one call of the kaggle command.  The hash covers the secrets  *)
(* and the times of three files of the code, not the account, not the      *)
(* other files, not whether the archive was built.  A listing of the       *)
(* dataset's files is left out: it sets a flag that nothing reads.         *)
(***************************************************************************)
EXTENDS Integers

CONSTANTS
    Account,    \* KAGGLE_USERNAME: each has a dataset of its own
    Secret,     \* values of the secrets
    Runner,     \* runs that can be under way at once
    MaxEdits,   \* bound: changes of the code
    MaxPolls,   \* polls for the new dataset to become ready: 15 in the code
    Troubles,   \* what may go wrong together in one behaviour
    None        \* no hash, no dataset, nothing staged

\* The archive is not built; an upload is given up but arrives; an error comes
\* with exit code 0, where nothing but the code is looked at; an upload takes
\* Kaggle longer than it is waited for; a poll hangs; the hash is not written; a
\* listing misses the dataset, or has one with a longer name; another account
\* is used; files are changed that the hash does not cover; something is
\* changed while a run is under way; two runs overlap.
Trouble == {"bundle", "timeout", "unheard", "slow", "hang", "cache", "list",
            "account", "silent", "midway", "overlap"}

ASSUME BoundAssumption == MaxEdits \in Nat /\ MaxPolls \in Nat \ {0}
ASSUME TroubleAssumption == Troubles \subseteq SUBSET Trouble

VARIABLES
    env,      \* .env: the account and the secrets
    code,     \* the version of the code, and of the three files
    cache,    \* .secrets_dataset_hash
    store,    \* Kaggle: the last version of each account's dataset
    ready,    \* Kaggle: the accounts whose last version can be used
    run,      \* the runs
    may       \* what may go wrong in this behaviour

local == <<env, code>>
kaggle == <<store, ready>>
vars == <<local, cache, kaggle, run, may>>

NoCode == -1
Version == 0..MaxEdits
Env == [account : Account, secrets : Secret]
Hash == [secrets : Secret, marker : Version]
Content == [secrets : Secret, tree : Version \union {NoCode}]
ASSUME NoneAssumption == None \notin Hash \union Content \union Account

Run == [pc : {"idle", "status", "list", "stage", "upload", "ready", "record", "push"},
        account : Account \union {None},   \* read at the start, like
        hash : Hash \union {None},         \* the secrets and the marker,
        cached : Hash \union {None},       \* the hash of the last upload,
        tree : Version,                     \* and the code of that moment
        exists : BOOLEAN,                   \* is there a dataset, as far as it knows?
        staged : Content \union {None},
        polls : 0..MaxPolls]

AtRest == [pc |-> "idle", account |-> None, hash |-> None, cached |-> None,
           tree |-> 0, exists |-> FALSE, staged |-> None, polls |-> 0]

\* Every variable has its type.
TypeOK ==
    /\ env \in Env
    /\ code \in [tree : Version, marker : Version]
    /\ cache \in Hash \union {None}
    /\ store \in [Account -> Content \union {None}] /\ ready \subseteq Account
    /\ run \in [Runner -> Run]
    /\ may \in Troubles

Init ==
    /\ env \in Env
    /\ code = [tree |-> 0, marker |-> 0]
    /\ cache = None
    /\ store \in [Account -> [secrets : Secret, tree : {0, NoCode}] \union {None}]
    /\ ready = {a \in Account : store[a] # None}
    /\ run = [r \in Runner |-> AtRest]
    /\ may \in Troubles

Exists(a) == store[a] # None
Idle(r) == run[r].pc = "idle"

-----------------------------------------------------------------------------
\* What the user changes between the runs
MayEdit == "midway" \in may \/ \A r \in Runner : Idle(r)

EditSecrets ==
    /\ MayEdit
    /\ \E s \in Secret : env' = [env EXCEPT !.secrets = s]
    /\ UNCHANGED <<code, cache, kaggle, run, may>>

SwitchAccount ==
    /\ MayEdit
    /\ "account" \in may
    /\ \E a \in Account : env' = [env EXCEPT !.account = a]
    /\ UNCHANGED <<code, cache, kaggle, run, may>>

EditCode ==
    /\ MayEdit
    /\ code.tree < MaxEdits
    /\ \/ code' = [tree |-> code.tree + 1, marker |-> code.tree + 1]
       \/ "silent" \in may /\ code' = [code EXCEPT !.tree = @ + 1]
    /\ UNCHANGED <<env, cache, kaggle, run, may>>

-----------------------------------------------------------------------------
Goto(r, pc) == run' = [run EXCEPT ![r].pc = pc]

\* SecretSyncError, or an exception that _kaggle_push turns into a failed push.
Fail(r) == run' = [run EXCEPT ![r] = AtRest]

\* Mutant of HashNow: the hash covers the secrets alone.
HashOfSecrets == [secrets |-> env.secrets, marker |-> 0]

HashNow == [secrets |-> env.secrets, marker |-> code.marker]

\* The configuration is loaded, the hash computed, the hash file read.
Begin(r) ==
    /\ Idle(r)
    /\ "overlap" \in may \/ \A q \in Runner : Idle(q)
    /\ run' = [run EXCEPT
          ![r] = [AtRest EXCEPT !.pc = "status", !.account = env.account,
                                !.hash = HashNow, !.cached = cache,
                                !.tree = code.tree]]
    /\ UNCHANGED <<local, cache, kaggle, may>>

\* An upload that the hash says was made already is skipped.
UpToDate(r, exists) == exists /\ run[r].cached = run[r].hash

Known(r, exists) ==
    run' = [run EXCEPT ![r].exists = exists,
                       ![r].pc = IF UpToDate(r, exists) THEN "push" ELSE "stage"]

\* "datasets status": there; not found; or 403, which may mean either.  Any
\* answer with exit code 0 is taken for "there".
StatusAnswered(r) ==
    /\ run[r].pc = "status"
    /\ \/ Exists(run[r].account) /\ Known(r, TRUE)
       \/ ~Exists(run[r].account) /\ Known(r, FALSE)
       \/ "unheard" \in may /\ Known(r, TRUE)
       \/ Goto(r, "list")
    /\ UNCHANGED <<local, cache, kaggle, may>>

\* Mutant of ListAnswered: a listing without the dataset is asked about again.
ListAnsweredAgain(r) ==
    /\ run[r].pc = "list"
    /\ IF Exists(run[r].account) THEN Known(r, TRUE) ELSE Goto(r, "status")
    /\ UNCHANGED <<local, cache, kaggle, may>>

\* "datasets list --mine": the first page of it, searched for the name.
ListAnswered(r) ==
    /\ run[r].pc = "list"
    /\ \/ Exists(run[r].account) /\ Known(r, TRUE)
       \/ ~Exists(run[r].account) /\ Known(r, FALSE)
       \/ "list" \in may /\ \E exists \in BOOLEAN : Known(r, exists)
    /\ UNCHANGED <<local, cache, kaggle, may>>

\* Unauthorised, refused, an unexpected answer, or no answer in time.
CallFails(r) ==
    /\ run[r].pc \in {"status", "list", "upload", "push"}
    /\ Fail(r)
    /\ UNCHANGED <<local, cache, kaggle, may>>

\* Mutant of Stage: the hash is recorded as soon as the files are written.
StageRecording(r) ==
    /\ run[r].pc = "stage"
    /\ run' = [run EXCEPT ![r].pc = "upload",
               ![r].staged = [secrets |-> run[r].hash.secrets, tree |-> code.tree]]
    /\ cache' = run[r].hash
    /\ UNCHANGED <<local, kaggle, may>>

\* The secrets read at the start, the code as it is now.  An archive that
\* cannot be built is only warned about.
Stage(r) ==
    /\ run[r].pc = "stage"
    /\ \E tree \in {code.tree, NoCode} :
          /\ tree = NoCode => "bundle" \in may
          /\ run' = [run EXCEPT ![r].pc = "upload",
                     ![r].staged = [secrets |-> run[r].hash.secrets, tree |-> tree]]
    /\ UNCHANGED <<local, cache, kaggle, may>>

\* What an upload leaves at Kaggle.  A dataset that is new is not ready; a new
\* version of one that is ready is taken to be so when the command returns,
\* unless Kaggle is slow.
Upload(r) ==
    /\ store' = [store EXCEPT ![run[r].account] = run[r].staged]
    /\ \/ ready' = ready
       \/ "slow" \in may /\ ready' = ready \ {run[r].account}

\* Kaggle refuses to create what is there, and a version of what is not
\* (CallFails).
Accepted(r) == run[r].exists <=> Exists(run[r].account)

\* After "datasets create" the program waits, after "datasets version" not.
Uploaded(r) == Goto(r, IF run[r].exists THEN "record" ELSE "ready")

\* "datasets create"
Create(r) ==
    /\ run[r].pc = "upload" /\ ~run[r].exists /\ Accepted(r)
    /\ Upload(r)
    /\ Uploaded(r)
    /\ UNCHANGED <<local, cache, may>>

\* "datasets version"
NewVersion(r) ==
    /\ run[r].pc = "upload" /\ run[r].exists /\ Accepted(r)
    /\ Upload(r)
    /\ Uploaded(r)
    /\ UNCHANGED <<local, cache, may>>

\* The upload failed with exit code 0, and the program goes on.  (After a
\* creation it looks for one text in the answer; another passes unheard.)
FailsUnheard(r) ==
    /\ "unheard" \in may
    /\ run[r].pc = "upload"
    /\ Uploaded(r)
    /\ UNCHANGED <<local, cache, kaggle, may>>

\* The upload was given up after 300 s, and arrived.
UploadTimesOut(r) ==
    /\ "timeout" \in may
    /\ run[r].pc = "upload" /\ Accepted(r)
    /\ Upload(r)
    /\ Fail(r)
    /\ UNCHANGED <<local, cache, may>>

\* Mutant of PollReady: the new dataset is not waited for.
PollNothing(r) ==
    /\ run[r].pc = "ready"
    /\ Goto(r, "record")
    /\ UNCHANGED <<local, cache, kaggle, may>>

\* The polls are used up, and nothing more than a warning comes of it: Kaggle
\* is slow, or there is no dataset.
LastPoll(r) ==
    /\ run[r].polls + 1 = MaxPolls
    /\ "slow" \in may \/ ~Exists(run[r].account)

\* A new dataset is asked for until it is ready.  A poll that hangs is an
\* exception nobody catches here.
PollReady(r) ==
    /\ run[r].pc = "ready"
    /\ \/ (run[r].account \in ready \/ LastPoll(r)) /\ Goto(r, "record")
       \/ run[r].polls + 1 < MaxPolls /\ run' = [run EXCEPT ![r].polls = @ + 1]
       \/ "hang" \in may /\ Fail(r)
    /\ UNCHANGED <<local, cache, kaggle, may>>

\* The hash of the start is written last; a write that fails is warned about.
Record(r) ==
    /\ run[r].pc = "record"
    /\ \/ cache' = run[r].hash
       \/ "cache" \in may /\ UNCHANGED cache
    /\ Goto(r, "push")
    /\ UNCHANGED <<local, kaggle, may>>

\* The dataset is attached to the kernel, and the kernel pushed.  (Run by hand,
\* the program ends instead: CallFails.)
Push(r) ==
    /\ run[r].pc = "push"
    /\ run' = [run EXCEPT ![r] = AtRest]
    /\ UNCHANGED <<local, cache, kaggle, may>>

\* Kaggle has worked through the last version.
DatasetReady(a) ==
    /\ Exists(a) /\ a \notin ready
    /\ ready' = ready \union {a}
    /\ UNCHANGED <<local, cache, store, run, may>>

-----------------------------------------------------------------------------
RunStep(r) ==
    \/ StatusAnswered(r) \/ ListAnswered(r) \/ CallFails(r) \/ Stage(r)
    \/ Create(r) \/ NewVersion(r) \/ FailsUnheard(r) \/ UploadTimesOut(r)
    \/ PollReady(r) \/ Record(r) \/ Push(r)

Next ==
    \/ EditSecrets \/ SwitchAccount \/ EditCode
    \/ \E r \in Runner : Begin(r) \/ RunStep(r)
    \/ \E a \in Account : DatasetReady(a)

\* Every call has a deadline, and the program goes on after each.  Where Kaggle
\* is not slow, a new dataset is ready before the polls are used up.
Fairness == /\ \A r \in Runner : WF_vars(RunStep(r))
            /\ \A a \in Account : WF_vars(DatasetReady(a))

Spec == Init /\ [][Next]_vars /\ Fairness

-----------------------------------------------------------------------------
\* The troubles under which the hash file still tells what Kaggle holds.  A
\* listing that is wrong costs a failed upload; a poll that hangs leaves a
\* dataset that no hash is about; runs that overlap are harmless as long as
\* nothing changes meanwhile.  Not so an upload that was made and not recorded:
\* when the secrets are turned back to those of the hash, the next run skips the
\* upload they need.  And a hash that is recorded although the upload failed
\* with exit code 0 speaks of secrets Kaggle never had.
Harmless == {"bundle", "silent", "list", "slow", "hang"}
Trusted == may \subseteq Harmless \union {"overlap"}
           \/ may \subseteq Harmless \union {"midway"}

\* When a kernel is pushed, the last version of its dataset has the secrets .env
\* had when the run began, whether they were uploaded now or the upload was
\* skipped, and whichever calls failed before, if failures are heard and what
\* is done is recorded (sync_secrets_dataset.py, "hash matches").
SecretsDelivered ==
    \A r \in Runner : run[r].pc = "push" /\ Trusted =>
       /\ Exists(run[r].account)
       /\ store[run[r].account].secrets = run[r].hash.secrets

\* The same for the code: it is as new as it was when the run began, unless
\* its archive could not be built or a file changed that the hash leaves out.
CodeDelivered ==
    \A r \in Runner :
       run[r].pc = "push" /\ Trusted /\ may \intersect {"bundle", "silent"} = {} =>
          store[run[r].account].tree >= run[r].tree

\* A kernel is not pushed before that version can be used: the run that creates
\* a dataset waits for it, and one that was broken off leaves none that the
\* next would take for ready; unless Kaggle is slow, a poll hangs, the creation
\* was given up, or another run goes on with the dataset meanwhile.
Prompt == may \intersect {"slow", "hang", "timeout", "overlap"} = {}
ReadyWhenPushed ==
    \A r \in Runner :
       run[r].pc = "push" /\ Exists(run[r].account) /\ Prompt =>
          run[r].account \in ready

\* Every run ends, whatever Kaggle does.
RunsEnd == \A r \in Runner : ~Idle(r) ~> Idle(r)

-----------------------------------------------------------------------------
\* The inductive invariant.  Mine is the dataset of the account in .env; where
\* the account does not change, every run is about it.
Mine == store[env.account]
Active(r) == ~Idle(r)

\* A run has its account and its hash as long as it is at work.
HashTaken ==
    \A r \in Runner : Active(r) => run[r].account # None /\ run[r].hash # None

\* Runs that overlap began from the same secrets and the same code.
Alike ==
    /\ \A r \in Runner : Active(r) => run[r].account = env.account
    /\ "midway" \in may => \A r, q \in Runner : Active(r) /\ Active(q) => r = q
    /\ "midway" \notin may =>
          \A r \in Runner : Active(r) => /\ run[r].hash = HashNow
                                         /\ run[r].tree = code.tree

\* The hash file tells of the dataset's secrets, but while a run that has
\* uploaded others is about to write it.
CacheHonest ==
    cache # None =>
       /\ Mine # None
       /\ \/ Mine.secrets = cache.secrets
          \/ \E r \in Runner : /\ run[r].pc = "record"
                               /\ Mine.secrets = run[r].hash.secrets

\* A run whose hash is that of the file, or that has uploaded, finds its
\* secrets in the dataset.
Found(r) == Mine # None /\ Mine.secrets = run[r].hash.secrets
SecretsKept ==
    \A r \in Runner :
       /\ Active(r) /\ run[r].cached = run[r].hash => Found(r)
       /\ run[r].pc \in {"ready", "record", "push"} => Found(r)
       /\ run[r].pc = "upload" => /\ run[r].staged # None
                                  /\ run[r].staged.secrets = run[r].hash.secrets

\* The same for the code: the marker in the hash is the version of the code,
\* and what is uploaded is never older than the run.
CodeKept ==
    /\ code.marker = code.tree
    /\ cache # None => Mine.tree >= cache.marker /\ cache.marker <= code.tree
    /\ \A r \in Runner : Active(r) =>
          /\ run[r].hash.marker = run[r].tree
          /\ run[r].tree <= code.tree
          /\ cache # None => cache.marker <= run[r].tree
          /\ run[r].cached = run[r].hash => Mine.tree >= run[r].tree
          /\ run[r].pc \in {"ready", "record", "push"} => Mine.tree >= run[r].tree
          /\ run[r].pc = "upload" => run[r].staged.tree >= run[r].tree

\* A dataset that is not ready is one that a run waits for; no other run is at
\* work then.
Waited ==
    /\ "overlap" \notin may =>
          \A r, q \in Runner : Active(r) /\ Active(q) => r = q
    /\ Prompt =>
          \A a \in Account : Exists(a) /\ a \notin ready =>
             \E r \in Runner : run[r].pc = "ready" /\ run[r].account = a

IInv ==
    /\ TypeOK /\ HashTaken /\ Waited
    /\ Trusted =>
         /\ Alike /\ CacheHonest /\ SecretsKept
         /\ may \intersect {"bundle", "silent"} = {} => CodeKept
=============================================================================
