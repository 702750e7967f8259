---------------------------- MODULE RemoteWorker ----------------------------
(***************************************************************************)
(* The worker's voices: the handlers of server/app.py that clone, delete   *)
(* and speak with a voice, over the registry of voices/registry.py (the    *)
(* manifest on disk, its cache in the process, the audio files).  One      *)
(* asyncio event loop runs the handlers; a step is what one does between   *)
(* two awaits.  The synthesizer runs in a thread, under the inference lock.*)
(*                                                                         *)
(* An upload is a recording together with its transcript, so a voice is in *)
(* order when its audio file and its manifest entry come from one upload.  *)
(* Left out: authentication and the validation of fields and audio, which  *)
(* reject before anything is changed; languages; the watchdog's touches;   *)
(* what is done with the speech; the self-provisioned setup_test_voice.    *)
(* A disk that is full or read-only may refuse a write or a removal at any *)
(* point of a handler; nobody catches that.  The machine dies with the     *)
(* worker: the next one starts at Init.                                    *)
(***************************************************************************)
CONSTANTS
    Voice,                \* voice identifiers
    Upload, Absent,       \* recordings with their transcripts; none
    Request, NoRequest,   \* handlers that can be in flight at once
    NoCache,              \* the manifest has not been read
    Reclone               \* voices that clients clone again while they are in use

ASSUME AbsentAssumption == Absent \notin Upload
ASSUME NoRequestAssumption == NoRequest \notin Request
ASSUME NoCacheAssumption == NoCache \notin [Voice -> Upload \union {Absent}]
ASSUME RecloneAssumption == Reclone \subseteq Voice

VARIABLES
    manifest,   \* registry_schema.json: whose transcript each voice has
    wav,        \* voices/refs/<id>.wav: whose recording each voice has
    cache,      \* _REGISTRY_CACHE
    engine,     \* could the synthesizer be created?
    refuses,    \* may the disk refuse a write or a removal?
    inference,  \* the request that holds inference_lock
    req         \* the handlers in flight

disk == <<manifest, wav>>
machine == <<engine, refuses>>
vars == <<disk, cache, machine, inference, req>>

UploadOrAbsent == Upload \union {Absent}
Manifest == [Voice -> UploadOrAbsent]

\* What a handler awaits: the lock, the thread, or the loop after the thread
\* has ended.
ClonePc == {"clone_wait", "clone_run", "clone_ok", "clone_failed"}
GeneratePc == {"generate_wait", "generate_run", "generate_end"}
HoldingPc == {"clone_run", "clone_ok", "clone_failed", "generate_run", "generate_end"}
Handler == [pc : {"idle"} \union ClonePc \union GeneratePc,
            voice : Voice, upload : Upload]

Idle(r) == req[r].pc = "idle"
Cloning(v) == \E r \in Request : req[r].pc \in ClonePc /\ req[r].voice = v

\* Every variable has its type.
TypeOK ==
    /\ manifest \in Manifest
    /\ wav \in Manifest
    /\ cache \in Manifest \union {NoCache}
    /\ engine \in BOOLEAN /\ refuses \in BOOLEAN
    /\ inference \in Request \union {NoRequest}
    /\ req \in [Request -> Handler]

\* The assets of the repository: any set of voices, all in order.
Init ==
    /\ manifest \in Manifest
    /\ wav = manifest
    /\ cache = NoCache
    /\ engine \in BOOLEAN /\ refuses \in BOOLEAN
    /\ inference = NoRequest
    /\ req \in [Request -> [pc : {"idle"}, voice : Voice, upload : Upload]]

-----------------------------------------------------------------------------
\* The registry

\* load_manifest: the cache, filled from disk when it is empty
Loaded == IF cache = NoCache THEN manifest ELSE cache

\* register_voice: on top of what the disk holds, then the cache is loaded
\* anew.  It raises when the manifest cannot be written.
Register(v, u) ==
    \/ /\ manifest' = [manifest EXCEPT ![v] = u]
       /\ cache' = manifest'
    \/ refuses /\ UNCHANGED <<manifest, cache>>

RemoveAudio(v) ==
    wav' = [wav EXCEPT ![v] = Absent] \/ (refuses /\ UNCHANGED wav)

Await(r, pc) == req' = [req EXCEPT ![r].pc = pc]
Acquire(r) == inference = NoRequest /\ inference' = r
Release(r) == inference' = NoRequest /\ Await(r, "idle")

-----------------------------------------------------------------------------
\* GET /voices, POST /voices/sync, and a generate that is answered at once: an
\* unknown voice, a voice without audio, no synthesizer.
ReadManifest ==
    /\ cache' = Loaded
    /\ UNCHANGED <<disk, machine, inference, req>>

\* Mutant of DeleteVoice: the cache is not cleared.
DeleteVoiceCached(v) ==
    /\ manifest[v] # Absent
    /\ manifest' = [manifest EXCEPT ![v] = Absent]
    /\ RemoveAudio(v)
    /\ UNCHANGED <<cache, machine, inference, req>>

\* DELETE /voices/<id>: the manifest first, then the audio, in one step of the
\* loop.  An unknown voice is a 404; a manifest that cannot be written leaves
\* everything as it is.
DeleteVoice(v) ==
    /\ manifest[v] # Absent
    /\ manifest' = [manifest EXCEPT ![v] = Absent]
    /\ RemoveAudio(v)
    /\ cache' = NoCache
    /\ UNCHANGED <<machine, inference, req>>

-----------------------------------------------------------------------------
\* POST /voices/clone
MayClone(v) == v \in Reclone \/ (manifest[v] = Absent /\ ~Cloning(v))

\* Mutant of CloneBegin: the voice is registered before it is verified.
CloneBeginRegistering(r, v, u) ==
    /\ Idle(r)
    /\ MayClone(v)
    /\ wav' = [wav EXCEPT ![v] = u]
    /\ Register(v, u)
    /\ req' = [req EXCEPT ![r] = [pc |-> IF engine THEN "clone_wait" ELSE "idle",
                                  voice |-> v, upload |-> u]]
    /\ UNCHANGED <<machine, inference>>

\* The audio is written at once, over whatever the voice had.  Without a
\* synthesizer there is no verification, and the voice is registered.  A
\* recording whose writing broke off stays.
CloneBegin(r, v, u) ==
    /\ Idle(r)
    /\ MayClone(v)
    /\ wav' = [wav EXCEPT ![v] = u]
    /\ \/ /\ engine
          /\ req' = [req EXCEPT ![r] = [pc |-> "clone_wait", voice |-> v, upload |-> u]]
          /\ UNCHANGED <<manifest, cache>>
       \/ /\ ~engine
          /\ Register(v, u)
          /\ UNCHANGED req
       \/ refuses /\ UNCHANGED <<manifest, cache, req>>
    /\ UNCHANGED <<machine, inference>>

\* Mutant of CloneRun: the verification does not wait for the lock.
CloneRunUnlocked(r) ==
    /\ req[r].pc = "clone_wait"
    /\ inference' = r
    /\ Await(r, "clone_run")
    /\ UNCHANGED <<disk, cache, machine>>

CloneRun(r) ==
    /\ req[r].pc = "clone_wait"
    /\ Acquire(r)
    /\ Await(r, "clone_run")
    /\ UNCHANGED <<disk, cache, machine>>

\* The thread: the file may be gone, and anything may fail on the GPU.
\* (A missing file is first looked up as a voice name, which loads the cache.)
CloneThread(r) ==
    /\ req[r].pc = "clone_run"
    /\ \/ wav[req[r].voice] # Absent /\ Await(r, "clone_ok") /\ UNCHANGED cache
       \/ wav[req[r].voice] # Absent /\ Await(r, "clone_failed") /\ UNCHANGED cache
       \/ wav[req[r].voice] = Absent /\ Await(r, "clone_failed") /\ cache' = Loaded
    /\ UNCHANGED <<disk, machine, inference>>

\* Mutants of CloneReject: the audio stays; the lock stays.
CloneRejectKeeping(r) ==
    /\ req[r].pc = "clone_failed"
    /\ Release(r)
    /\ UNCHANGED <<disk, cache, machine>>
CloneRejectHolding(r) ==
    /\ req[r].pc = "clone_failed"
    /\ RemoveAudio(req[r].voice)
    /\ Await(r, "idle")
    /\ UNCHANGED <<manifest, cache, machine, inference>>

\* The verification has failed: the audio file is removed.
CloneReject(r) ==
    /\ req[r].pc = "clone_failed"
    /\ RemoveAudio(req[r].voice)
    /\ Release(r)
    /\ UNCHANGED <<manifest, cache, machine>>

\* The verification has passed: the voice is registered, if its audio is
\* still there.
CloneRegister(r) ==
    /\ req[r].pc = "clone_ok"
    /\ \/ wav[req[r].voice] # Absent /\ Register(req[r].voice, req[r].upload)
       \/ wav[req[r].voice] = Absent /\ UNCHANGED <<manifest, cache>>
    /\ Release(r)
    /\ UNCHANGED <<wav, machine>>

-----------------------------------------------------------------------------
\* POST /generate: the transcript is taken now, the recording is read later.
GenerateBegin(r, v) ==
    /\ Idle(r)
    /\ engine
    /\ Loaded[v] # Absent
    /\ wav[v] # Absent
    /\ cache' = Loaded
    /\ req' = [req EXCEPT ![r] = [pc |-> "generate_wait", voice |-> v,
                                  upload |-> Loaded[v]]]
    /\ UNCHANGED <<disk, machine, inference>>

GenerateRun(r) ==
    /\ req[r].pc = "generate_wait"
    /\ Acquire(r)
    /\ Await(r, "generate_run")
    /\ UNCHANGED <<disk, cache, machine>>

\* The thread reads the recording, and speaks or fails.
GenerateThread(r) ==
    /\ req[r].pc = "generate_run"
    /\ Await(r, "generate_end")
    /\ \/ wav[req[r].voice] # Absent /\ UNCHANGED cache
       \/ wav[req[r].voice] = Absent /\ cache' = Loaded
    /\ UNCHANGED <<disk, machine, inference>>

GenerateEnd(r) ==
    /\ req[r].pc = "generate_end"
    /\ Release(r)
    /\ UNCHANGED <<disk, cache, machine>>

-----------------------------------------------------------------------------
LockStep(r) == CloneRun(r) \/ GenerateRun(r)

RequestStep(r) == \/ CloneThread(r) \/ CloneReject(r) \/ CloneRegister(r)
                  \/ GenerateThread(r) \/ GenerateEnd(r)

Next ==
    \/ ReadManifest
    \/ \E v \in Voice : DeleteVoice(v)
    \/ \E r \in Request :
          \/ \E v \in Voice, u \in Upload : CloneBegin(r, v, u)
          \/ \E v \in Voice : GenerateBegin(r, v)
          \/ LockStep(r)
          \/ RequestStep(r)

Spec == Init /\ [][Next]_vars

\* A synthesis ends, and the event loop runs what is ready: weak fairness.
\* asyncio.Lock serves its waiters in order of arrival: strong fairness.
FairSpec ==
    /\ Spec
    /\ \A r \in Request : WF_vars(RequestStep(r)) /\ SF_vars(LockStep(r))

-----------------------------------------------------------------------------
\* Properties

\* Two syntheses never run at once, whatever the mix of clones and generates.
AtMostOneInference ==
    \A r, q \in Request :
        /\ req[r].pc \in {"clone_run", "generate_run"}
        /\ req[q].pc \in {"clone_run", "generate_run"}
        => r = q

\* A generate or a list never answers from a manifest that is no longer the
\* one on disk, although threads load the cache behind the event loop's back.
CacheFresh == cache # NoCache => cache = manifest

\* A clone whose verification failed, against whatever concurrent clone or
\* delete, leaves no audio behind that no voice owns -- as long as the disk
\* refuses nothing: neither register_voice nor a removal that raises is followed
\* by a clean-up.
NoOrphanAudio ==
    ~refuses =>
       \A v \in Voice : wav[v] # Absent => manifest[v] # Absent \/ Cloning(v)

\* A voice that is registered has its own recording on disk, whole life long,
\* as long as clients do not clone its identifier while it is in use -- also
\* when the disk refuses writes and removals in the middle of a handler, and
\* when the identifier is cloned after a clone or a delete that broke off.
VoicesInOrder ==
    \A v \in Voice \ Reclone : manifest[v] # Absent => wav[v] = manifest[v]

\* Every clone and every generate is answered: no failure keeps the lock.
RequestsAnswered == \A r \in Request : ~Idle(r) ~> Idle(r)

-----------------------------------------------------------------------------
\* The inductive invariant

\* The lock is held from the start of the thread to the answer.
LockInv == \A r \in Request : req[r].pc \in HoldingPc <=> inference = r

\* With fresh identifiers, a voice is cloned by one handler at a time, from
\* nothing, and its file is that handler's upload.
FreshInv ==
    /\ VoicesInOrder
    /\ \A r \in Request : req[r].pc \in ClonePc /\ req[r].voice \notin Reclone =>
          /\ manifest[req[r].voice] = Absent
          /\ wav[req[r].voice] = req[r].upload
          /\ \A q \in Request : req[q].pc \in ClonePc
                                /\ req[q].voice = req[r].voice => q = r

IInv ==
    /\ TypeOK
    /\ LockInv
    /\ CacheFresh
    /\ NoOrphanAudio
    /\ FreshInv
=============================================================================
