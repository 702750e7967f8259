----------------------------- MODULE VoiceSync -----------------------------
(***************************************************************************)
(* Two copies of the voices: the gateway's disk, the lasting one, and the  *)
(* worker's disk, which is born from an archive of the code and dies with  *)
(* the machine.  The gateway carries voices over in three ways, and these  *)
(* are the actors of the module:                                           *)
(*   - a client's POST /voices/clone, forwarded, then stored here as well; *)
(*   - a task started when the session becomes READY, which asks for the   *)
(*     names the worker knows and clones the missing voices;               *)
(*   - a client's POST /generate, which clones a voice the worker does not *)
(*     know and asks a second time.                                        *)
(* A step of the gateway is what it does between two awaits.  The worker   *)
(* answers in steps of its own: a clone writes the recording first, and    *)
(* verifies it before it registers the voice (RemoteWorker has the rest).  *)
(* The session is reduced to whether the gateway is READY and whether the  *)
(* worker its tunnel leads to is up (SessionGateway has the rest).         *)
(***************************************************************************)
EXTENDS FiniteSets

CONSTANTS
    Voice, Upload, Absent,  \* identifiers; recordings with transcripts; none
    Language,               \* the languages a voice can be used for
    Client, Task,           \* requests, and synchronisations, at once
    ReadyBy,                \* the ways the gateway becomes READY
    Troubles                \* what may go wrong together in one behaviour

Ways == {"reuse", "poll", "reconcile", "last_probe"}

\* The worker refuses the list, or a recording; a call of the gateway's own
\* passes its deadline, or a client's clone does; the registration raises here;
\* a client clones an identifier already stored.
Trouble == {"list", "verify", "timeout", "late", "register", "reclone"}

ASSUME AbsentAssumption == Absent \notin Upload
ASSUME ActorAssumption == Client \intersect Task = {}
ASSUME WayAssumption == ReadyBy \subseteq Ways
ASSUME TroubleAssumption == Troubles \subseteq SUBSET Trouble

VARIABLES
    local,    \* the gateway's manifest and recordings
    remote,   \* the worker's
    bundle,   \* the archive's: what the next worker is born with
    ready,    \* is the gateway READY?
    up,       \* does its tunnel lead to a living worker?
    may,      \* what may go wrong in this behaviour
    actor,    \* requests and synchronisation tasks
    orphan    \* clones the worker still works on after the gateway gave up

disks == <<local, remote, bundle>>
session == <<ready, up, may>>
vars == <<disks, session, actor, orphan>>

UploadOrAbsent == Upload \union {Absent}

\* A voice on one disk: whose transcript the manifest entry has, whose
\* recording the file has, and the languages of the entry.
Copy == [text : UploadOrAbsent, wav : UploadOrAbsent, langs : SUBSET Language]
Nothing == [text |-> Absent, wav |-> Absent, langs |-> {}]
Stored(u, langs) == [text |-> u, wav |-> u, langs |-> langs]

\* What an actor waits for.  "..._run" is a clone at work in the worker.
GeneratePc == {"ask", "heal", "heal_run", "retry"}
ClonePc == {"clone", "clone_run", "cloned"}
TaskPc == {"list", "listed", "next", "post", "post_run"}
SendingPc == {"clone", "heal", "post"}
RunningPc == {"clone_run", "heal_run", "post_run"}
Answers == {"none", "spoken", "unknown", "no_audio", "no_language",
            "created", "failed"}
Actor == [pc : {"idle", "told"} \union GeneratePc \union ClonePc \union TaskPc,
          live : BOOLEAN,          \* is the worker it talks to the present one?
          voice : Voice,
          lang : Language,         \* the language a client names
          copy : Copy,             \* what a clone carries, what speech came from
          todo : SUBSET Voice,     \* names learned, then voices left to carry
          known : BOOLEAN,         \* was the voice stored here when it asked?
          ans : Answers]

\* Every variable has its type.
TypeOK ==
    /\ local \in [Voice -> Copy]
    /\ remote \in [Voice -> Copy]
    /\ bundle \in [Voice -> Copy]
    /\ ready \in BOOLEAN /\ up \in BOOLEAN /\ may \in Troubles
    /\ actor \in [Client \union Task -> Actor]
    /\ orphan \subseteq [voice : Voice, copy : Copy]

Registered(disk, v) == disk[v].text # Absent
Names(disk) == {v \in Voice : Registered(disk, v)}

\* An actor with nothing to do.
AtRest(v, l) ==
    [pc |-> "idle", live |-> FALSE, voice |-> v, lang |-> l, copy |-> Nothing,
     todo |-> {}, known |-> FALSE, ans |-> "none"]

\* The archive holds some of the voices of the disk it was built from; no
\* worker has been started.
Init ==
    /\ local \in [Voice -> {Nothing} \union
                  {Stored(u, l) : u \in Upload, l \in (SUBSET Language) \ {{}}}]
    /\ bundle \in {[v \in Voice |-> IF v \in kept THEN local[v] ELSE Nothing] :
                     kept \in SUBSET Voice}
    /\ remote = [v \in Voice |-> Nothing]
    /\ ready = FALSE
    /\ up = FALSE
    /\ may \in Troubles
    /\ \E v \in Voice, l \in Language :
          actor = [a \in Client \union Task |-> AtRest(v, l)]
    /\ orphan = {}

-----------------------------------------------------------------------------
Goto(a, pc) == actor' = [actor EXCEPT ![a].pc = pc]

\* The next step of an actor that ends with an answer for its client.
Tell(c, ans) ==
    actor' = [actor EXCEPT ![c].pc = "told", ![c].ans = ans, ![c].todo = {}]

\* A task forgets what it carried when it goes on or ends.
TaskGoto(t, pc, todo) ==
    actor' = [actor EXCEPT ![t].pc = pc, ![t].todo = todo, ![t].copy = Nothing]

-----------------------------------------------------------------------------
\* The session

\* The code and the voices are packed again and uploaded.
PackBundle ==
    /\ bundle' = local
    /\ UNCHANGED <<local, remote, session, actor, orphan>>

\* The machine is gone, with its disk and with what it was working on.
WorkerGone ==
    /\ up
    /\ up' = FALSE
    /\ remote' = [v \in Voice |-> Nothing]
    /\ actor' = [a \in Client \union Task |-> [actor[a] EXCEPT !.live = FALSE]]
    /\ orphan' = {}
    /\ UNCHANGED <<local, bundle, ready, may>>

\* A new kernel unpacks the archive; the gateway has left READY before.
WorkerBoots ==
    /\ ~up /\ ~ready
    /\ up' = TRUE
    /\ remote' = bundle
    /\ UNCHANGED <<local, bundle, ready, may, actor, orphan>>

LeaveReady ==
    /\ ready
    /\ ready' = FALSE
    /\ UNCHANGED <<disks, up, may, actor, orphan>>

\* A start takes minutes: an answer that reached the gateway has been handled.
AnswersHandled == \A c \in Client : actor[c].pc = "cloned" => actor[c].live

\* The worker's health check succeeded.  Starting on an existing worker and the
\* polling task begin a synchronisation; a reconciliation and the last probe
\* after the polling deadline do not.
BecomeReady(way) ==
    /\ way \in ReadyBy
    /\ up /\ ~ready /\ AnswersHandled
    /\ ready' = TRUE
    /\ \/ /\ way \in {"reuse", "poll"}
          /\ \E t \in Task :
                /\ actor[t].pc = "idle"
                /\ actor' = [actor EXCEPT ![t].pc = "list", ![t].live = TRUE]
       \/ /\ way \in {"reconcile", "last_probe"}
          /\ UNCHANGED actor
    /\ UNCHANGED <<disks, up, may, orphan>>

-----------------------------------------------------------------------------
\* The worker, for every actor whose call it still hears

\* POST /voices/clone arrives: the recording is written, the verification
\* waits and runs.
WorkerWrites(a) ==
    /\ actor[a].live
    /\ \E s \in {<<"clone", "clone_run">>, <<"heal", "heal_run">>,
                 <<"post", "post_run">>} :
          actor[a].pc = s[1] /\ Goto(a, s[2])
    /\ remote' = [remote EXCEPT ![actor[a].voice].wav = actor[a].copy.wav]
    /\ UNCHANGED <<local, bundle, session, orphan>>

\* Mutant of Enrol: an entry that exists is kept.
EnrolOnce(v, copy) ==
    remote' = [remote EXCEPT
       ![v].text = IF @ = Absent THEN copy.text ELSE @, ![v].langs = copy.langs]

\* Verified: the voice is registered.
Enrol(v, copy) ==
    remote' = [remote EXCEPT ![v].text = copy.text, ![v].langs = copy.langs]

\* The recording did not pass: it is removed, an older entry stays.
Reject(v) == "verify" \in may /\ remote' = [remote EXCEPT ![v].wav = Absent]

\* What the worker answers to /generate, and what the speech is made from.
\* An entry without its recording is an error of the server (500), an unknown
\* name and a language the entry does not have are errors of the client (400).
SpeechAnswer(v, lang) ==
    CASE ~Registered(remote, v) -> "unknown"
      [] Registered(remote, v) /\ remote[v].wav = Absent -> "no_audio"
      [] Registered(remote, v) /\ remote[v].wav # Absent
           /\ lang \notin remote[v].langs -> "no_language"
      [] OTHER -> "spoken"

-----------------------------------------------------------------------------
\* POST /voices/clone

\* A client that may not reclone sends an identifier that is new here and that
\* nobody else is sending.
MayClone(v) ==
    \/ "reclone" \in may
    \/ /\ ~Registered(local, v)
       /\ \A c \in Client : actor[c].pc \in ClonePc => actor[c].voice # v

CloneBegin(c, v, u, l) ==
    /\ actor[c].pc = "idle" /\ ready
    /\ MayClone(v)
    /\ actor' = [actor EXCEPT
          ![c] = [pc |-> "clone", live |-> up, voice |-> v, lang |-> l,
                  copy |-> Stored(u, {l}), todo |-> {}, known |-> FALSE,
                  ans |-> "none"]]
    /\ UNCHANGED <<disks, session, orphan>>

\* The worker answers 201.
CloneVerified(c) ==
    /\ actor[c].pc = "clone_run" /\ actor[c].live
    /\ Enrol(actor[c].voice, actor[c].copy)
    /\ Goto(c, "cloned")
    /\ UNCHANGED <<local, bundle, session, orphan>>

\* The worker answers 500; the client gets its answer, nothing is stored here.
CloneRejected(c) ==
    /\ actor[c].pc = "clone_run" /\ actor[c].live
    /\ Reject(actor[c].voice)
    /\ Tell(c, "failed")
    /\ UNCHANGED <<local, bundle, session, orphan>>

\* Mutant of CloneStore: the voice is left on the worker alone.
CloneStoreRemoteOnly(c) ==
    /\ actor[c].pc = "cloned"
    /\ Tell(c, "created")
    /\ UNCHANGED <<disks, session, orphan>>

\* The 201 reaches the gateway: it stores the recording, then the entry.
CloneStore(c) ==
    /\ actor[c].pc = "cloned"
    /\ local' = [local EXCEPT ![actor[c].voice] = actor[c].copy]
    /\ Tell(c, "created")
    /\ UNCHANGED <<remote, bundle, session, orphan>>

\* The registration raises after the recording was replaced: a 502.
CloneStoreFails(c) ==
    /\ "register" \in may
    /\ actor[c].pc = "cloned"
    /\ local' = [local EXCEPT ![actor[c].voice].wav = actor[c].copy.wav]
    /\ Tell(c, "failed")
    /\ UNCHANGED <<remote, bundle, session, orphan>>

-----------------------------------------------------------------------------
\* POST /generate

GenerateBegin(c, v, l) ==
    /\ actor[c].pc = "idle" /\ ready
    /\ actor' = [actor EXCEPT
          ![c] = [pc |-> "ask", live |-> up, voice |-> v, lang |-> l,
                  copy |-> Nothing, todo |-> {}, known |-> Registered(local, v),
                  ans |-> "none"]]
    /\ UNCHANGED <<disks, session, orphan>>

\* The answer is the client's, with what the speech was made from.
TellSpeech(c) ==
    actor' = [actor EXCEPT
      ![c].pc = "told",
      ![c].ans = SpeechAnswer(actor[c].voice, actor[c].lang),
      ![c].copy = IF SpeechAnswer(actor[c].voice, actor[c].lang) = "spoken"
                    THEN remote[actor[c].voice] ELSE Nothing]

\* A voice the worker does not know and this disk has is carried over, in the
\* language of the request.
MustHeal(c) ==
    /\ SpeechAnswer(actor[c].voice, actor[c].lang) = "unknown"
    /\ Registered(local, actor[c].voice)
    /\ local[actor[c].voice].wav # Absent

\* Mutant of GenerateAsked: an unknown voice is looked up on the worker only.
GenerateAskedOnce(c) ==
    /\ actor[c].pc = "ask" /\ actor[c].live
    /\ TellSpeech(c)
    /\ UNCHANGED <<disks, session, orphan>>

GenerateAsked(c) ==
    /\ actor[c].pc = "ask" /\ actor[c].live
    /\ \/ /\ MustHeal(c)
          /\ actor' = [actor EXCEPT
                ![c].pc = "heal",
                ![c].copy = [local[actor[c].voice] EXCEPT
                               !.langs = {actor[c].lang}]]
       \/ ~MustHeal(c) /\ TellSpeech(c)
    /\ UNCHANGED <<disks, session, orphan>>

\* 201: the request is sent a second time; its answer is final.
HealVerified(c) ==
    /\ actor[c].pc = "heal_run" /\ actor[c].live
    /\ Enrol(actor[c].voice, actor[c].copy)
    /\ Goto(c, "retry")
    /\ UNCHANGED <<local, bundle, session, orphan>>

HealRejected(c) ==
    /\ actor[c].pc = "heal_run" /\ actor[c].live
    /\ Reject(actor[c].voice)
    /\ Tell(c, "unknown")
    /\ UNCHANGED <<local, bundle, session, orphan>>

GenerateRetried(c) ==
    /\ actor[c].pc = "retry" /\ actor[c].live
    /\ TellSpeech(c)
    /\ UNCHANGED <<disks, session, orphan>>

-----------------------------------------------------------------------------
\* A synchronisation task, _sync_voices_to_worker

\* The worker answers GET /voices with the names it knows now ...
SyncListed(t) ==
    /\ actor[t].pc = "list" /\ actor[t].live
    /\ TaskGoto(t, "listed", Names(remote))
    /\ UNCHANGED <<disks, session, orphan>>

\* Mutant of SyncChoose: carries the voices both sides know.
SyncChooseCommon(t) ==
    /\ actor[t].pc = "listed"
    /\ TaskGoto(t, "next", Names(local) \intersect actor[t].todo)
    /\ UNCHANGED <<disks, session, orphan>>

\* ... and the manifest is read when the answer arrives.
SyncChoose(t) ==
    /\ actor[t].pc = "listed"
    /\ TaskGoto(t, "next", Names(local) \ actor[t].todo)
    /\ UNCHANGED <<disks, session, orphan>>

\* The next voice, read from disk when its turn comes, in its first language;
\* a voice without its recording is skipped.
SyncNext(t) ==
    /\ actor[t].pc = "next"
    /\ \E v \in actor[t].todo :
          LET rest == actor[t].todo \ {v} IN
          \/ /\ local[v].wav = Absent
             /\ TaskGoto(t, "next", rest)
          \/ /\ local[v].wav # Absent
             /\ \E l \in local[v].langs :
                   actor' = [actor EXCEPT
                     ![t].pc = "post", ![t].voice = v, ![t].todo = rest,
                     ![t].copy = [local[v] EXCEPT !.langs = {l}]]
    /\ UNCHANGED <<disks, session, orphan>>

\* Whatever the worker answers, the task goes on to the next voice.
SyncVerified(t) ==
    /\ actor[t].pc = "post_run" /\ actor[t].live
    /\ Enrol(actor[t].voice, actor[t].copy)
    /\ TaskGoto(t, "next", actor[t].todo)
    /\ UNCHANGED <<local, bundle, session, orphan>>

SyncRejected(t) ==
    /\ actor[t].pc = "post_run" /\ actor[t].live
    /\ Reject(actor[t].voice)
    /\ TaskGoto(t, "next", actor[t].todo)
    /\ UNCHANGED <<local, bundle, session, orphan>>

SyncEnd(t) ==
    /\ actor[t].pc = "next" /\ actor[t].todo = {}
    /\ TaskGoto(t, "idle", {})
    /\ UNCHANGED <<disks, session, orphan>>

-----------------------------------------------------------------------------
\* Failed calls

\* The gateway's side of a call without an answer: /generate and
\* /voices/clone are 502, but once the worker has said "unknown" that stays the
\* answer; a task gives up on the list, or on this voice.
GiveUp(a) ==
    \/ actor[a].pc \in {"ask", "clone", "clone_run"} /\ Tell(a, "failed")
    \/ actor[a].pc \in {"heal", "heal_run", "retry"} /\ Tell(a, "unknown")
    \/ actor[a].pc = "list" /\ TaskGoto(a, "idle", {})
    \/ actor[a].pc \in {"post", "post_run"} /\ TaskGoto(a, "next", actor[a].todo)

\* The worker of this call is gone.
Unreachable(a) ==
    /\ ~actor[a].live
    /\ GiveUp(a)
    /\ UNCHANGED <<disks, session, orphan>>

\* The worker refuses the list.
ListRefused(t) ==
    /\ "list" \in may
    /\ actor[t].pc = "list" /\ actor[t].live
    /\ GiveUp(t)
    /\ UNCHANGED <<disks, session, orphan>>

Deadline(pc) == IF pc \in ClonePc THEN "late" ELSE "timeout"

\* The deadline of a call (30, 60 or 120 s) passes; the worker goes on with
\* the clone it has begun.
TimeOut(a) ==
    /\ Deadline(actor[a].pc) \in may
    /\ actor[a].live
    /\ GiveUp(a)
    /\ orphan' = IF actor[a].pc \in RunningPc
                   THEN orphan \union {[voice |-> actor[a].voice,
                                        copy |-> actor[a].copy]}
                   ELSE orphan
    /\ UNCHANGED <<disks, session>>

OrphanEnds(o) ==
    /\ Enrol(o.voice, o.copy) \/ Reject(o.voice)
    /\ orphan' = orphan \ {o}
    /\ UNCHANGED <<local, bundle, session, actor>>

Forget(c) ==
    /\ actor[c].pc = "told"
    /\ actor' = [actor EXCEPT ![c].pc = "idle", ![c].copy = Nothing,
                              ![c].known = FALSE, ![c].ans = "none"]
    /\ UNCHANGED <<disks, session, orphan>>

-----------------------------------------------------------------------------
ClientStep(c) ==
    \/ CloneVerified(c) \/ CloneRejected(c) \/ CloneStore(c) \/ CloneStoreFails(c)
    \/ GenerateAsked(c) \/ HealVerified(c) \/ HealRejected(c) \/ GenerateRetried(c)
    \/ WorkerWrites(c) \/ Unreachable(c) \/ TimeOut(c)

TaskStep(t) ==
    \/ SyncListed(t) \/ SyncChoose(t) \/ SyncNext(t)
    \/ SyncVerified(t) \/ SyncRejected(t) \/ SyncEnd(t)
    \/ WorkerWrites(t) \/ Unreachable(t) \/ ListRefused(t) \/ TimeOut(t)

Next ==
    \/ PackBundle \/ WorkerGone \/ WorkerBoots \/ LeaveReady
    \/ \E way \in Ways : BecomeReady(way)
    \/ \E c \in Client :
          \/ ClientStep(c) \/ Forget(c)
          \/ \E v \in Voice, l \in Language :
                GenerateBegin(c, v, l) \/ \E u \in Upload : CloneBegin(c, v, u, l)
    \/ \E t \in Task : TaskStep(t)
    \/ \E o \in orphan : OrphanEnds(o)

\* The event loop resumes a task whose call is answered, and httpx bounds each
\* call; the worker answers as long as it lives.
Fairness == \A t \in Task : WF_vars(TaskStep(t))

Spec == Init /\ [][Next]_vars /\ Fairness

-----------------------------------------------------------------------------
Told(c, ans) == actor[c].pc = "told" /\ actor[c].ans = ans

AsStored(copy, v) == copy.text = local[v].text /\ copy.wav = local[v].wav

\* What a client was told is created is what it sent, on both disks: on the
\* gateway's for good, and on the worker's as long as that worker lives,
\* although synchronisations that asked for the names before, repairs and
\* clones that outlived their call go on writing there, and although an earlier
\* clone of the identifier was left on the worker when its registration raised
\* here (gateway.py proxy_clone_voice).  Not promised: identifiers cloned
\* twice, clones of clients that outlast their call, and a worker that refuses
\* a recording, which takes the recording of the same voice with it.
CreatedIsServed ==
    \A c \in Client :
       Told(c, "created") /\ may \subseteq {"list", "register", "timeout"} =>
          /\ AsStored(actor[c].copy, actor[c].voice)
          /\ actor[c].live =>
                /\ remote[actor[c].voice].text = actor[c].copy.text
                /\ remote[actor[c].voice].wav = actor[c].copy.wav

\* No identifier is cloned twice, no client's clone outlasts its call.
Calm == may \subseteq {"list", "verify", "timeout", "register"}

\* /generate answers "unknown voice" for a voice of the gateway's disk only
\* when the worker died on the way: the on-demand clone repairs a worker that
\* lost the voice, or never had it.  (A recording refused, a call of the
\* gateway's own out of time, a registration that raised are the failures that
\* may stop it.)
KnownIsHealed ==
    \A c \in Client :
       Told(c, "unknown") /\ may \subseteq {"list", "late", "reclone"} =>
          ~actor[c].known \/ ~actor[c].live

\* Speech in a voice of the gateway's disk is made from the recording and the
\* transcript stored there: no archive, synchronisation or on-demand clone
\* brings back another one, not even one that the worker carries out after
\* its call was given up, as long as identifiers are not cloned twice and no
\* client's own clone comes late.
SpeaksStoredVoice ==
    \A c \in Client :
       Told(c, "spoken") /\ actor[c].known /\ Calm =>
          AsStored(actor[c].copy, actor[c].voice)

\* A voice on the worker that is not on its way here is on the gateway's disk:
\* no voice exists only where it is lost with the machine, unless the
\* registration here raised or the client's call that cloned it ran out of
\* time.
WorkerVoicesAreStored ==
    \A v \in Voice :
       Registered(remote, v) /\ may \subseteq {"list", "verify", "timeout", "reclone"} =>
          \/ Registered(local, v)
          \/ \E c \in Client : actor[c].pc = "cloned" /\ actor[c].voice = v

\* Once the gateway is READY, every voice of its disk gets to the worker, or
\* the worker goes away.
VoicesReachWorker ==
    \A v \in Voice :
       (ready /\ up /\ Registered(local, v)) ~> (Registered(remote, v) \/ ~up)
-----------------------------------------------------------------------------
\* The inductive invariant.  What an actor's copy and its voices are, whichever
\* step it is at: a clone carries a whole voice, a repair and a synchronisation
\* carry voices of the gateway's disk.
CarryingPc == {"heal", "heal_run", "retry", "post", "post_run"}
Fit(x) ==
    /\ x.live => up
    /\ x.pc \in ClonePc => x.copy.text # Absent /\ x.copy.wav # Absent
    /\ x.pc \in CarryingPc => /\ x.copy.text # Absent
                              /\ Registered(local, x.voice)
    /\ x.pc \in {"next", "post", "post_run"} => x.todo \subseteq Names(local)
    /\ x.pc \in GeneratePc /\ x.known => Registered(local, x.voice)

\* No voice of the gateway's disk lacks its recording, and the archive holds no
\* other voices.
DiskWhole ==
    /\ \A v \in Voice : Registered(local, v) => local[v].wav # Absent
    /\ Names(bundle) \subseteq Names(local)

\* A request that is sent a second time finds its voice.
RetryFinds ==
    \A c \in Client :
       actor[c].pc = "retry" /\ actor[c].live => Registered(remote, actor[c].voice)

\* What goes on in a living worker without its caller carries a whole voice,
\* and unless a client's clone comes late, one of the gateway's disk.
OrphansFit ==
    /\ ~up => orphan = {}
    /\ \A o \in orphan :
          /\ o.copy.text # Absent
          /\ "late" \notin may => Registered(local, o.voice)

IInv ==
    /\ TypeOK /\ DiskWhole /\ OrphansFit
    /\ \A a \in Client \union Task : Fit(actor[a])
    /\ may \subseteq {"list", "late", "reclone"} => RetryFinds
    /\ KnownIsHealed /\ WorkerVoicesAreStored

\* What the speech depends on in calm behaviours: a voice that is stored here
\* is never sent by a client any more, so whatever carries it, and whatever the
\* worker has of it, is as it is stored; its recording is missing there only
\* when one may be refused.
Answered(x) == x.pc = "cloned" \/ (x.pc = "told" /\ x.ans = "created")
Speaks(x) ==
    /\ x.pc \in ClonePc => ~Registered(local, x.voice)
    /\ x.pc \in CarryingPc \ {"retry"} => AsStored(x.copy, x.voice)
    /\ x.live /\ x.pc \in RunningPc =>
          \/ remote[x.voice].wav = x.copy.wav
          \/ remote[x.voice].wav = Absent /\ "verify" \in may
    /\ x.pc = "cloned" /\ Registered(remote, x.voice) =>
          /\ remote[x.voice].text = x.copy.text
          /\ remote[x.voice].wav \in {Absent, x.copy.wav}
    /\ x.pc = "told" /\ x.ans = "spoken" /\ x.known =>
          Registered(local, x.voice) /\ AsStored(x.copy, x.voice)
    /\ x.pc = "told" /\ x.ans = "created" =>
          Registered(local, x.voice) /\ AsStored(x.copy, x.voice)
    /\ Answered(x) /\ x.live /\ "verify" \notin may =>
          /\ remote[x.voice].text = x.copy.text
          /\ remote[x.voice].wav = x.copy.wav

SpeechInv ==
    /\ \A a \in Client \union Task : Speaks(actor[a])
    /\ \A t \in Task : actor[t].pc \notin ClonePc
    /\ \A a, b \in Client \union Task :
          /\ actor[a].pc \in ClonePc /\ actor[b].pc \in ClonePc
          /\ actor[a].voice = actor[b].voice
          => a = b
    /\ \A o \in orphan :
          /\ Registered(local, o.voice) /\ AsStored(o.copy, o.voice)
          /\ remote[o.voice].wav \in {Absent, o.copy.wav}
    /\ \A v \in Voice : Registered(local, v) =>
          /\ Registered(remote, v) => /\ remote[v].text = local[v].text
                                      /\ remote[v].wav \in {Absent, local[v].wav}
          /\ Registered(bundle, v) => AsStored(bundle[v], v)
=============================================================================
