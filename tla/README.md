# AudioGen in TLA+

AudioGen is a text-to-speech service whose GPU half lives on a Kaggle kernel.
A **gateway** on the user's machine starts that kernel, finds the worker's
tunnel through a key-value registry, proxies requests to it and takes it down
again. The **worker** on the kernel keeps a registry of cloned voices, runs the
synthesizer and ends its machine when nobody uses it. Beside that interactive
pair, **batch runs** push a notebook with a list of tasks to Kaggle and download
what it leaves. This directory holds TLA+ models of the parts of that system
where order, interleaving and failure matter, the TLC instances that check
them, and proofs of their invariants.

Paths are those of the repository (`orchestrator/gateway.py`, not the file's
position in a checkout).

## 1. Inventory

| Part | State it keeps | Operations | Talks to | Hard behaviour | What makes it correct | Here |
|---|---|---|---|---|---|---|
| Session gateway (`orchestrator/gateway.py`, `SessionGateway`) | `_state`, `_failure_stage`, `_tunnel_url`, `_session_id`, `_lock`, `_polling_task`, `scratch/session.json` | start, reconcile, terminate, heartbeat, background push-and-poll task, load at boot | session manager in threads; worker over HTTP | coroutines interleave at every `await`, lock held or released across them; cancellation; crash and restart from a file | one background task; READY is usable; a busy gateway is driven; a crash loses nothing; a teardown polls nothing; startup and teardown end | `SessionGateway`, `SessionLifecycle` |
| Voice proxy and voice sync (same file) | none of its own; local voice registry | `/generate` with one on-demand clone and retry, `/voices/clone`, background sync | worker, voice registry | remote success with local failure; two syncs at once; sync skipped on some ways to READY | a local voice is eventually usable remotely; a 201 means that both disks have what was sent | `VoiceSync` |
| Session manager (`orchestrator/session_manager.py`) | none | push, kernel status, tunnel discovery, delete key, cancel kernel | Kaggle CLI, registry, worker `/health` | timeouts, classification of failures | outcome matches the world | outcomes, in `RemoteWorld`; its dataset step in `SecretsSync` |
| Kaggle kernel, registry, tunnel (`server/registry.py`, `server/tunnel.py`, the interactive notebook) | kernel status, `tunnel_url` key, a live URL | publish URL, exit | gateway | stale key after a worker died | – (environment) | `RemoteWorld` |
| Worker service (`server/app.py`) | inference lock, voices | generate, clone, delete, list, sync, shutdown | voice registry, synthesizer thread, watchdog | waits for the inference lock between reading and using a voice; verification that fails half-way | one inference at a time; registered voices have their audio; failed verifications leave nothing | `RemoteWorker`, `WorkerUpkeep` |
| Voice registry (`voices/registry.py`) | manifest on disk, per-process cache, lock, audio files | load, get, list, register, delete | worker, gateway, batch | cache against disk | cache is fresh | as its process uses it, in `RemoteWorker` and `VoiceSync` |
| Idle watchdog (`server/watchdog.py`) | `_last_touch`, stop event, thread | touch, start, stop, check loop | worker | touch between decision and exit; start/stop races | exits after, and only after, the idle time | `IdleWatchdog` |
| Retention of generated files (`server/app.py`) | directory | prune, write | `/generate` | boundaries by age and by count | bound holds, addresses last | `GeneratedFiles` |
| Batch runner (`batch/runner.py`) and execution bridge (`src/audiogen/engine.py`) | loop counters, the API's inference lock | stage, push, poll, download | Kaggle CLI | two programs, one kernel; stale status and stale output; four ways out of one loop | a caller of the API gets its own result or failure; the lock is given back; runs end | `KaggleBatch` |
| Batch notebook (`batch/notebook_template.ipynb`) and manifest schema (`batch/manifest_schema.py`) | result list | validate, render one item after another, summarise | synthesizer, voice registry | failure of one item; a manifest that does not validate where it runs | other items rendered, all reported, each with its own recording | `BatchNotebook` |
| Secrets sync (`scripts/sync_secrets_dataset.py`) | hash file | hash, inspect, upload, wait, record | Kaggle CLI | the hash is compared, minutes later written; edits and other runs in between; failures told in words only; a dataset that is not ready yet | what is pushed finds its secrets and its code, ready to use | `SecretsSync` |
| Normalizer (`src/audiogen/normalizer.py`) | none | numbers to words, text clean-up | engine, callers | Indian grouping, zero, boundaries; steps that depend on each other's order; two passes | every number is heard as written; what is cleaned stays clean | `NumberToWords`, `TextNormalizer` |
| Audio processor, configuration, credential checks, launch scripts, browser UIs | none that outlives a request | – | – | signal processing, start-up reading, presentation | – | not modelled, see section 6 |

## 2. Modules

| Module | What it is |
|---|---|
| `RemoteWorld` | kernel, registry key and tunnel, as the gateway's environment |
| `SessionGateway` | the gateway over that world; properties; inductive invariant |
| `SessionLifecycle` | the abstract session that the gateway promises its clients |
| `SessionGatewayRefinement` | the mapping from the one to the other |
| `RemoteWorker` | the worker's voices; properties; inductive invariant |
| `VoiceSync` | the gateway's disk of voices against the worker's; properties; inductive invariant |
| `KaggleBatch` | executions that share one kernel |
| `BatchNotebook` | what a notebook does with its tasks |
| `IdleWatchdog`, `GeneratedFiles`, composed by `WorkerUpkeep` | the worker between its requests, under one clock |
| `SecretsSync` | the dataset of secrets and code |
| `NumberToWords`, extended by `TextNormalizer` | the text pipeline as functions, and its use |
| `MC...` | symmetry and the texts for TLC |
| `...Proofs` | theorems |

Definitions whose comment says *mutant of* are not part of the models: each is
a plausible mistake in the definition that follows it, kept to show that the
properties notice it.

### `SessionGateway` and the code

A step is what a coroutine does between two awaits. A handler in `req` has a
`pc` naming what it awaits:

| `pc` | Code |
|---|---|
| `start_probe` | `start_session`, discovery thread, lock held |
| `rec_probe`, `rec_status` | `reconcile_with_external_state`, its two threads, lock held |
| `term_post`, `term_delete` | `terminate_session` after the first critical section, **lock released** |
| `term_final` | waiting for the lock in its `finally` |

A background task in `poll` is `_run_startup_and_polling_loop` or
`_run_polling_loop`: `push`, `status`, `discover`, `final` await a thread,
`conflict`, `ready`, `fail` await the lock with the verdict already taken,
`sleep` the clock. The thread reads the world in one step and the task acts on
the answer in another, so the answer can be stale by then. `cancelled` is a
requested cancellation: a task ends in the event-loop iteration after the
request, while a thread's answer takes at least one more, hence
`CancellationsDelivered` in the guards of steps that use an answer.

`file` is the session file; `Persist` writes all of the memory to it in one
rename (`write_session_runtime_file`), or, with `DiskMayFail`, leaves the old
contents and goes on, as the code does. `Restart` is a crash, a kill or the
exit that a teardown schedules, followed by `load_persisted_state` and the
reconciliation that every process starts with.

Abstractions: texts, timestamps, operation and attempt numbers, `desired_state`
and the observed state are reported and never tested, so they are left out. A
discovery (registry read, then `/health`) is one read of the world. COMPLETE
and ERROR stand for all terminal kernel statuses. The cancellation of the
kernel in a teardown is always skipped by the code (`cancel_kaggle_kernel` gets
no kernel session identifier), so it is no step. The lease watchdog only
sleeps. The `unexpected` failure stage has no way to be reached inside the
loop's own try blocks and is left out. A push whose task was cancelled goes on
in its thread: `RemoteWorld!Launch` may happen at any time for that reason.
The teardown of an idle gateway re-takes the lock at once; only a handler that
was already waiting can come between, which the model does not distinguish from
one that has just arrived.

`SessionLifecycle` has no lock, no handler and no task. It says what a client
may see: a session begins under nobody's work and never in place of a READY
one, work ends in a verdict, a SHUTDOWN follows a teardown that has begun, a
new process finds what was saved. `SessionGatewayRefinement` maps the gateway
to it; *working* is a task that is alive and not told to stop.

### `RemoteWorker` and the code

`manifest` is `registry_schema.json`, `wav` the files `voices/refs/<id>.wav`,
`cache` the process-wide `_REGISTRY_CACHE`, `inference` the inference lock. An
upload stands for a recording together with its transcript: the manifest says
whose transcript a voice has, the file whose recording. A clone writes the file
(`CloneBegin`), waits for the lock (`CloneRun`), verifies in a thread
(`CloneThread`), and registers (`CloneRegister`) or removes the file
(`CloneReject`). A generate takes the transcript (`GenerateBegin`), waits for
the lock, and reads the recording in its thread (`GenerateThread`). A delete is
one step of the event loop. `engine` is false when the synthesizer could not be
created: clones are then registered unverified and generates refused.
`Reclone` is the set of identifiers that clients may clone while they are
registered or being cloned; the code accepts it, the UI and the gateway's sync
normally do not ask for it. `refuses` is a disk that may refuse any write or
removal of a file: `register_voice` raises then, after the recording has been
written, and nobody catches it (`server/app.py:467`). Field, token and audio validation reject before any
change and are left out, as are languages and the self-provisioned
`setup_test_voice`.

### `VoiceSync` and the code

`local` and `remote` are the two disks; `bundle` the archive a new worker
unpacks. An `actor` is a client's request or a synchronisation task; its `pc`
says which call it waits for, and the three `..._run` values that the worker is
at work on its clone. The session is reduced to `ready` and `up`, with the four
ways the code has of becoming READY as a constant: two of them start a
synchronisation. A deadline that passes at the gateway leaves the clone at work
in the worker (`orphan`); the trouble `timeout` is that of the gateway's own
calls, `late` that of a client's clone (`Deadline`). The faults are named in `Trouble`; a run says which
of them may come together, and a property names those it does not survive.
Verification, inference lock and cache of the worker are `RemoteWorker`'s.

### `KaggleBatch`, `BatchNotebook` and the code

A step of `KaggleBatch` is one `kaggle` command of a job: `Stage`, then `Push`
(or `PushRefused`, `PushTimesOut`), then `PollAnswered` (or `PollFails`,
`PollHangs`, `Deadline`), then `Pull` (or `PullFails`), then `BridgeChecks` or
`RunnerChecks`, which differ as `engine.py` and `run_kaggle` do. `kernel` is the
version pushed last, `shown` what the status command answers (with `lag`, it may
be that of an earlier version), `output` what the download brings. A push that
was given up stays in `stray` and may arrive at any time after (`StrayArrives`),
long after its lock has gone to another. Staging directories are left out: a job
reads back nothing from its own, and whether it is removed, left behind when
staging raises, or kept because a caller supplied it, changes nothing else. A job's `by` is the program that runs it:
a request of the API, which holds the inference lock of `src/audiogen/main.py`
meanwhile, the bridge from a command line, or the runner; the last two hold no
lock. `BatchNotebook` is the
notebook: `Load` validates once more and falls back to the raw tasks, then one
of `Refuse`, `Speak`, `SpeakFails` for each task, `Summarise` at the end.

### `WorkerUpkeep` and the code

`IdleWatchdog` counts in half seconds, because `/health` rounds. `thread` is
where the daemon thread is: it waits, looks at the clock, acts. `idle` is the
time since `_last_touch`. An authorised generate, clone, delete or sync touches
when it comes in (`Arrive`); a generate or a clone that succeeds touches again
(`Answer`). `GeneratedFiles` keeps ages, oldest first;
`handed` records which addresses clients hold.

### `SecretsSync` and the code

`run[r]` is an execution of `sync_secrets_dataset`, from the gateway or by
hand; `pc` is the command it makes next. `hash` is computed at the start,
`staged` is what is packed later, `cache` the hash file written last. `env` and
`code` change under the user's hands; `marker` is the part of the code that the
hash sees (the times of three files). `store` is each account's last version,
`ready` says which of them can be used: a dataset that is new becomes ready some
time after its creation (`DatasetReady`), which is what `PollReady` waits for; a
new version of one that is ready counts as ready, unless Kaggle is slow.
`FailsUnheard` is a failure that Kaggle's command tells in words, with exit code
0, where the program looks at the code alone.

### `TextNormalizer` and the code

A character has a kind, as the regular expressions tell them apart, and digits
and number words have their number. A danda is a kind of its own: the pattern of
tags takes it for a part of the tag, the other steps for punctuation. `NormalizeText` is the five steps of
`normalize_text` in their order. `Words` is `number_to_words`; a word is the
number it stands for, since the tables give every number one of its own. A step
that cuts is written by the positions it keeps (`Keep`), `expand_digits` by what
takes the place of each character.

## 3. Properties and runs

| Run | Question | Bounds | Result |
|---|---|---|---|
| `gateway_safety` | single background task (`AtMostOnePoller`), READY usable (`ReadyServable`), busy gateway driven (`BusyHasDriver`), nothing polls during a teardown (`TeardownIsQuiet`), crash keeps the session (`RestartKeepsSession`), start never demotes READY (`StartKeepsReady`), all of it inductively (`IInv`); implements `SessionLifecycle` (`ImplementsLifecycle`) | 2 handlers, 2 tasks, 1 URL, 1 poll, 3 sessions, 1 restart | holds, 0.81 M states |
| `gateway_live` | every startup and teardown ends (`BusySettles`, `TeardownCompletes`) | 2 handlers, 1 task, 1 poll, 2 sessions, no restart | holds, 0.48 M states |
| `gateway_stuck` | `BusySettles` across a restart | 1 restart | **violated** |
| `worker_voices` | one inference at a time (`AtMostOneInference`), fresh cache (`CacheFresh`), no orphaned audio while files can be written (`NoOrphanAudio`), a voice not cloned again has its own recording (`VoicesInOrder`), every request answered (`RequestsAnswered`), `IInv` | 2 voices, one of them cloned again at will, 2 uploads, 2 requests, with and without a disk that refuses | holds, 45 k states |
| `sync_safety` | a 201 means that both disks have what was sent (`CreatedIsServed`), the on-demand clone repairs (`KnownIsHealed`), no voice only on the worker (`WorkerVoicesAreStored`), speech from the stored recording (`SpeaksStoredVoice`) | 1 voice, 2 uploads, 2 clients, 2 tasks; three sets of troubles | holds, 3.0 M states |
| `sync_live` | stored voices reach the worker (`VoicesReachWorker`) where READY starts a synchronisation | 2 voices, 2 uploads, 1 client, 1 task | holds, 0.73 M states |
| `sync_silent_ready` | the same for all ways to READY | 1 voice | **violated** |
| `kaggle_jobs` | a caller hears of its own failure (`FailureIsOwn`), and does not miss its own output (`NothingIsMissed`), end (`JobsEnd`), `IInv` | 2 jobs of any program, 3 polls, 3 errors, with and without lag | holds, 0.86 M states |
| `notebook_any` | `EveryTaskReported`, `ValidOwnRecording`, `RecordingsAllowed` | every manifest of up to 2 tasks, every registry of 2 voices | holds, 153 k states |
| `upkeep` | idle machine goes (`QuotaProtected`, `IdleWorkerExits`), used one stays (`RequestsNotCut`), `/health` is honest (`HealthIsHonest`), addresses last (`RecordingsKept`) | timeout 5, interval 2, 2 requests, 2 files, age 3 | holds, 260 k states |
| `secrets` | a pushed kernel finds its secrets and its code (`SecretsDelivered`, `CodeDelivered`) in a dataset that is ready (`ReadyWhenPushed`), every run ends (`RunsEnd`) | 2 accounts, 2 secrets, 2 runs, 2 edits, 2 polls; seven sets of troubles | holds, 294 k states |
| `numbers` | `PassIsClean`, `SecondPassChangesNothing`, `NumbersAreHeard` | all texts of up to 4 characters of an alphabet of 13; 1..130 and the numbers around every power of ten up to 2147483647 | holds, 106 k states |

Why the bounds are enough. *Gateway*: two handlers suffice for every pairwise
race, a third would wait for the same lock; two tasks are what the single-task
property needs to be violable; a URL is carried, never compared (stale registry
keys arise with one URL, when its worker has died); one poll reaches the
timeout's boundary; three session identifiers give a start, a restart without a
file and another start. *Worker*: two requests give a clone of a voice against
a delete, a generate or another clone; the second voice shows that what happens
to the first does not disturb it. *Voices*: one voice meets itself in every way
(clone, repair, synchronisation, death of the worker, old archive); two matter
for liveness alone, where a task works through a list. *Kaggle*: two jobs of
any two programs; three errors is the code's limit, three polls let a status
lag, recover and end. *Upkeep*: the timeout is no multiple of the interval, so
that the thread looks before, at and after it. *Secrets*: two edits let a
secret change and change back. *Numbers*: every boundary of the numbering from
both sides, up to the largest number TLC can count. All counters are capped in
guards (`MaxSessions`, `MaxRestarts`, `MaxEdits`, `MaxPasses`), in the loop
itself (`MaxPolls`, `MaxErrors`) or where ages are no longer told apart. The
proofs of section 4 have none of these bounds.

Faults that a property does not survive are excluded by name in the property
(`may \subseteq ...`), never by the model: the runs go through the other
behaviours too.

Fairness. Every thread ends, because each CLI call and HTTP request has a
timeout, and the event loop runs what is ready: weak fairness for the steps of
handlers, tasks, jobs and runs. `asyncio.Lock` wakes waiters in order of
arrival, so nobody who waits is passed over for ever: strong fairness for the
steps that take the lock. In `WorkerUpkeep`, the operating system runs the
thread and time goes on. Nobody has to send a request, and nothing is assumed
of the kernel, the registry or the worker's life.

What the two violated runs show (details in `PROJECT.json`):

- *STARTING for ever* (`gateway_stuck`). After a restart in STARTING without
  a readable kernel status there is no task, and start refuses.
- *READY without the voices* (`sync_silent_ready`). A gateway that becomes
  READY in a reconciliation, or in its last probe after the deadline, starts no
  synchronisation. `/generate` still repairs one voice at a time.

What else the models show about the code, stated where the properties exclude
it:

- A start or a reconciliation can overtake a teardown between its two critical
  sections; the final section then reports SHUTDOWN over a task at work.
- On the worker, a failed clone of a registered voice removes that voice's
  recording; a second clone in flight leaves a new recording with an old
  transcript until it is registered (`VoicesInOrder` leaves such voices out).
- When the worker's `register_voice` raises, because the manifest cannot be
  written, the recording stays without an entry (`NoOrphanAudio` is about disks
  that take what is written).
- When the registration at the gateway raises after the worker's 201, the
  recording is already replaced and the transcript is the old one.
- A clone that was given up by the gateway is carried out later by the worker;
  if it was a client's, the voice is then on the worker alone.
- A voice that is already on the worker may be cloned there once more, by a
  synchronisation that asked for the names before or by a clone carried out
  late. If that one's verification fails, the worker removes the good recording
  of the same voice.
- An on-demand clone and a synchronisation register a voice in one language,
  the request's or the first of its list.
- A Kaggle status or summary may be that of an earlier version, of another
  program's run, or of a push that was given up and arrived later. A caller of
  the API is then told of a failure that is not its own, or that there is no
  artifact although its run made one; it gets no other recording, because the
  file is looked up by a name of its own. `run_kaggle` may bring home another
  run's summary.
- Cleaned identifiers of a manifest that does not validate may meet in one
  output file; English is refused by the notebook though the bridge sends it.
- The hash of the secrets is kept per checkout, not per account, and an upload
  that was made but not recorded is not undone by turning the secrets back.
- A new version of the secrets dataset that fails with exit code 0 is recorded
  as made, and later runs skip the upload; a dataset that takes longer than the
  polls is only warned about, and a new version is not waited for at all.
- A run that goes on with a dataset another run has just created does not wait
  for it.
- "12.50", "7%7" and numbers with a no-break space between them become words run
  together, as does a number with its unit written to it; "1,000" becomes the
  words of one and zero. `NumbersAreHeard` has the right words in the right order
  for all of them, and words that stay apart for numbers that are set apart by
  white space or punctuation that is kept (`SetApart`).
- Where cleaning leaves nothing, the engine speaks the raw text.

## 4. Proofs

Proved with TLAPS for every value of the constants, from the constants'
assumptions only (nulls are not members of the sets they extend; bounds are
naturals; switches are Booleans).

| Module | Theorems about runs' properties | Rests on |
|---|---|---|
| `SessionGatewayProofs` | `SinglePoller`, `ReadyIsServable`, `BusyIsDriven`, `TeardownsAreQuiet`, `ReadyIsKept`, `SessionSurvivesRestart` (without disk failures), `Inductive`; `Refinement`: initial states to initial states, each action to an action or a stutter, also when the disk fails | `IInv` |
| `RemoteWorkerProofs` | `InferenceIsSerial`, `CacheIsFresh`, `NoAudioIsOrphaned`, `FreshVoicesAreInOrder`, `Inductive` | `IInv` |
| `VoiceSyncProofs` | `CreatedVoicesAreServed`, `KnownVoicesAreHealed`, `VoicesAreStored`, `SpeechIsStored`, `Inductive` | `IInv`, `SpeechInv` |
| `KaggleBatchProofs` | `FailuresAreOwn`, `OutputsAreFound`, `Inductive` | `IInv` |
| `BatchNotebookProofs` | `TasksAreReported`, `RecordingsAreOwn`, `RecordingsAreAllowed` | `IInv` |
| `WorkerUpkeepProofs` | `QuotaIsProtected`, `NoRequestIsCut`, `HealthHolds`, `HandedFilesAreKept` | `WatchInv`, `FilesInv` |
| `SecretsSyncProofs` | `SecretsAreDelivered`, `CodeIsDelivered`, `DatasetsAreReady` | `IInv` |
| `TextNormalizerProofs` | `EveryPassIsClean`, `SecondPassIsIdle`, `EveryNumberIsHeard`; and of the functions themselves `NumbersHeard`, `Idempotent` | `IInv` |

What the inductive invariants add to the properties:

**Gateway.** `LockInv`: the lock belongs to the handler that awaits with it;
without it a second start could be between test and spawn. `PollInv`: a task
that is alive is *the* polling task, so `PollingDone` means that none is alive;
a verdict of READY carries a URL; the counter is below the timeout while
polling. `ProbeInv`: what a start tested when it took the lock still holds
after its probe; it needs `LockInv` (nobody else spawns) and `PollInv` (no task
is alive to set READY). `ReadyInv`: READY is sound on disk as well, or a
restart would break it. `FileInv`: the file is the memory, except for a
configuration error, which the code does not write, and before the first write.

**Refinement.** Each action of the gateway is mapped to one of the lifecycle by
what it does to the image, the file and the set of tasks at work. The only
facts taken from the invariant are that two tasks are never alive together and
that a new session's identifier is new. `DiskMayFail` is checked by no run (it
multiplies the states) and covered by this proof alone.

**Worker.** `LockInv` (the lock is held from the thread's start to the answer)
and `FreshInv` (a clone in flight is the only one of its voice, starts from
nothing and owns the file).

**Voices.** `Fit` says what an actor carries at each step: a clone carries a
whole voice, a repair and a synchronisation carry voices of the gateway's disk,
a live actor's worker is up. `DiskWhole`: the gateway's disk never loses a
voice or a recording, so what was true of it when an actor looked stays true.
`RetryFinds`: a request sent a second time finds its voice. `Allowed` says once
what a step may do to all of that; every action is then shown to be allowed.
`SpeechInv`, for `SpeaksStoredVoice` and `CreatedIsServed`, holds while the
troubles are those that the former survives (`Calm`): a voice that is stored
here is not in any client's clone any more, whatever else carries it carries it
as it is stored, also what the worker carries out late, and so do the archive
and the worker, up to a recording that is missing there; a client that has its
201 finds its own recording on the worker that gave it.
`Effect` plays the part of `Allowed` for it.

**Kaggle.** `LockInv`: no two executions of the API run together. `KernelInv`:
from its push to its answer, such an execution has the kernel at its own version
or at one that no lock keeps away (`Intruder`: pushed from a command line, or
given up and arrived late). `OutputInv`: the output is that of the version that
is complete, and a status that does not lag tells when. `PulledInv` puts them
together: an execution whose version nobody pushed over downloads what it made.

**Notebook.** Results are in the order of the tasks, and a file is written
under the identifier of the task at work, which differs from all earlier ones.

**Watchdog.** `WatchInv` (in the proofs module: the types, `QuotaInv`,
`AgeInv`, `ToldInv` and `RequestsNotCut`). The thread's waiting time and the
time since the last touch move together; what `/health` told moves against
them.

**Recordings.** `FilesInv`: the files on disk are the last ones handed out
(`OnDiskInv`), those missing before them are too old (`GoneInv`), and all are
in the order of their ages (`OldestFirst`). The limit takes a file only when
all that were handed out are still there and young, and that is when the oldest
of them stops to count; `CleanedFiles` has these two cases. `OldestComeFirst`
is what allows `Young` to be the end of a sequence, where the code tests each
file.

**Secrets.** `Alike`: runs that overlap began from the same secrets, or there
is one run only. `CacheHonest`: the hash file tells of the dataset, but while a
run that has uploaded is about to write it. `SecretsKept` and `CodeKept` carry
that through a run: one whose hash is that of the file, or that has uploaded,
finds its secrets. These parts hold under `Trusted`. `Waited`, for
`ReadyWhenPushed`: a dataset that is not ready is one that a run is waiting for.
It and the types hold always.

**Texts.** `IInv` says that the text is the caller's, or the *one* pass over
it; it is inductive because a pass leaves the result of a pass alone
(`Idempotent`), which needs two facts about the five steps: what comes out is
clean (`NormalizedIsClean`), and none of the steps changes a clean text
(`CleanIsLeftAlone`). `EveryNumberIsHeard` follows the number words through the
steps: cutting and cleaning keep the words (`KeepWords`), each run of digits is
replaced by the words of its value (`WordsOfExpanded`), and a listener who hears
the words of a number hears the number (`NumbersHeard`, by the number of its
crores; below a crore `AfterBelowCrore` goes group by group).

These are inductions over data, though the induction theorems of the library
cannot be used (they take an operator for a parameter). Two lemmas replace
them. `LeastNumber`: if a claim fails for some number, it fails for a least one;
it comes from the library's theorem on well-founded relations, which speaks of
sets. `Recursion`: a recursive function has a solution, so what `CHOOSE` gives
satisfies its equation. From these, `FlattenSteps` says that a concatenation of
a sequence of sequences is built from the left, and everything about texts is
shown of its prefixes. The module `TextNormalizer` is written with
concatenations in place of the library's filters for this reason.

Each `Inductive` puts the lemmas about actions together and the theorems follow
from it. Lemmas describe the record an action writes before anything is derived
from it.

Every invariant and every action property that a run checks has a theorem.
Only model-checked is liveness (`BusySettles`, `TeardownCompletes`,
`RequestsAnswered`, `VoicesReachWorker`, `JobsEnd`, `IdleWorkerExits`,
`RunsEnd`), since fairness is out of the prover's reach.

## 5. What the modules leave to each other

`VoiceSync` takes the session as two switches, `SessionGateway` has all of it;
`VoiceSync` takes a clone on the worker as a write and a registration,
`RemoteWorker` has the lock, the verification and the cache. `SecretsSync` ends
with the push whose outcome `SessionGateway` awaits in `push`. `KaggleBatch`
takes what a notebook leaves as one of three outcomes, `BatchNotebook` produces
them. `TextNormalizer` is called before each synthesis and shares no state with
anything.

## 6. Not modelled

- *Audio processor* (`src/audiogen/processor.py`) and model inference: signal
  processing on samples, no protocol state.
- *Configuration*, *environment and credential verification*
  (`scripts/verify_env_and_auth.py`), *launch scripts*: sequences of
  independent reads at start-up.
- *Browser user interfaces*: clients; their requests are the handlers of
  `SessionGateway` and `VoiceSync`, in any order and number.
- *Session manager*, *tunnel*: how the CLI's texts are classified and how
  cloudflared's output is read; the outcomes are in `RemoteWorld`.
- *audiogen HTTP API*: its catalogue and the custom voices it keeps in memory;
  its inference lock is in `KaggleBatch`.
- *Synthesizer*: the resolution of its arguments and the choice of backend.
- Validation of requests, tokens and settings everywhere: it rejects before
  any state changes.
- Two processes with one voice registry on one disk: nothing in the repository
  runs them.
