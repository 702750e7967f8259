---------------------------- MODULE VoiceSyncProofs ----------------------------
(***************************************************************************)
(* Proofs about the two copies of the voices, for any number of voices,    *)
(* recordings, requests and synchronisations.  What a step may do to the   *)
(* invariant is said once (Allowed); then every action is shown to be      *)
(* allowed.                                                                *)
(***************************************************************************)
EXTENDS VoiceSync, TLAPS

Actors == Client \union Task

LEMMA InitIInv ==
    ASSUME Init
    PROVE  IInv
<1> USE AbsentAssumption DEF Init
<1>1. Nothing \in Copy /\ \A u \in Upload, l \in SUBSET Language :
                             Stored(u, l) \in Copy /\ Stored(u, l).text = u
                             /\ Stored(u, l).wav = u
  BY DEF Nothing, Copy, Stored, UploadOrAbsent
<1>2. local \in [Voice -> Copy]
  BY <1>1
<1>3. bundle \in [Voice -> Copy] /\ remote \in [Voice -> Copy]
  BY <1>1, <1>2
<1>4. PICK v \in Voice, l \in Language :
        actor = [a \in Client \union Task |-> AtRest(v, l)]
  OBVIOUS
<1>5. /\ AtRest(v, l) \in Actor /\ AtRest(v, l).pc = "idle"
      /\ ~AtRest(v, l).live
  BY <1>1 DEF AtRest, Actor, Answers
<1>6. TypeOK
  <2>1. ready \in BOOLEAN /\ up \in BOOLEAN /\ may \in Troubles
    <3>1. ready = FALSE /\ up = FALSE
      OBVIOUS
    <3>2. may \in Troubles
      OBVIOUS
    <3> QED
      BY <3>1, <3>2
  <2>2. orphan \subseteq [voice : Voice, copy : Copy]
    OBVIOUS
  <2>3. actor \in [Client \union Task -> Actor]
    BY <1>4, <1>5
  <2> QED
    BY <1>2, <1>3, <2>1, <2>2, <2>3 DEF TypeOK
<1>7. \A w \in Voice : local[w].text # Absent => local[w].wav # Absent
  BY <1>1 DEF Nothing
<1>8. \A w \in Voice : Registered(bundle, w) => Registered(local, w)
  BY DEF Registered, Nothing
<1>9. DiskWhole
  BY <1>7, <1>8 DEF DiskWhole, Registered, Names
<1>10. \A a \in Client \union Task :
          actor[a].pc = "idle" /\ ~actor[a].live /\ Fit(actor[a])
  BY <1>4, <1>5 DEF Fit, ClonePc, CarryingPc, GeneratePc
<1>11. \A w \in Voice : ~Registered(remote, w)
  BY DEF Registered, Nothing
<1> QED
  BY <1>6, <1>9, <1>10, <1>11
      DEF IInv, OrphansFit, RetryFinds, KnownIsHealed, Told,
          WorkerVoicesAreStored

-----------------------------------------------------------------------------
\* What a step of actor a may do, that makes its record s: the gateway's voices
\* grow, the worker's grow by voices that are stored here or about to be, and
\* what s says is so afterwards.
Disks(a, s) ==
    /\ local' \in [Voice -> Copy] /\ remote' \in [Voice -> Copy]
    /\ \A v \in Voice : Registered(local, v) => Registered(local', v)
    /\ \A v \in Voice : local[v].wav # Absent => local'[v].wav # Absent
    /\ \A v \in Voice : Registered(local', v) => local'[v].wav # Absent
    /\ \A v \in Voice : Registered(remote, v) => Registered(remote', v)
    /\ \A v \in Voice : Registered(remote', v) =>
          \/ Registered(remote, v) \/ Registered(local', v)
          \/ a \in Client /\ s.pc = "cloned" /\ s.voice = v
    /\ actor[a].pc = "cloned" =>
          Registered(local', actor[a].voice) \/ "register" \in may

Says(s) ==
    /\ s.pc = "told" /\ s.ans = "unknown"
          /\ may \subseteq {"list", "late", "reclone"} =>
          ~s.known \/ ~s.live
    /\ s.pc = "retry" /\ s.live /\ may \subseteq {"list", "late", "reclone"} =>
          Registered(remote', s.voice)

FitNext(x) ==
    /\ x.live => up
    /\ x.pc \in ClonePc => x.copy.text # Absent /\ x.copy.wav # Absent
    /\ x.pc \in CarryingPc => /\ x.copy.text # Absent
                              /\ Registered(local', x.voice)
    /\ x.pc \in {"next", "post", "post_run"} =>
          \A v \in x.todo : v \in Voice /\ Registered(local', v)
    /\ x.pc \in GeneratePc /\ x.known => Registered(local', x.voice)

Allowed(a, s) ==
    /\ s \in Actor /\ actor' = [actor EXCEPT ![a] = s]
    /\ UNCHANGED <<bundle, session>>
    /\ orphan' \subseteq [voice : Voice, copy : Copy]
    /\ orphan' = orphan \/ up
    /\ \A o \in orphan' \ orphan :
          /\ o.copy.text # Absent
          /\ "late" \notin may => Registered(local, o.voice)
    /\ Disks(a, s) /\ Says(s) /\ FitNext(s)

LEMMA AllowedIInv ==
    ASSUME IInv, NEW a \in Actors, NEW s, Allowed(a, s)
    PROVE  IInv'
<1>1. /\ UNCHANGED <<bundle, ready, up, may>> /\ s \in Actor
      /\ Disks(a, s) /\ Says(s) /\ FitNext(s)
  BY DEF Allowed, session
<1>2. actor \in [Actors -> Actor] /\ actor' = [actor EXCEPT ![a] = s]
  BY DEF IInv, TypeOK, Allowed, Actors
<1>3. \A b \in Actors : actor'[b] = IF b = a THEN s ELSE actor[b]
  BY <1>2
<1>4. TypeOK'
  <2>1. actor' \in [Actors -> Actor]
    BY <1>1, <1>2
  <2> QED
    BY <1>1, <2>1 DEF IInv, TypeOK, Allowed, Disks, Actors
<1>5. DiskWhole'
  BY <1>1 DEF IInv, DiskWhole, Names, Disks, Registered
<1>6. \A b \in Actors : Fit(actor[b])'
  <2>1. SUFFICES ASSUME NEW b \in Actors
                 PROVE  Fit(actor[b])'
    OBVIOUS
  <2>2. CASE b = a
    BY <1>1, <1>3, <2>2 DEF FitNext, Fit, Names, Registered
  <2>3. CASE b # a
    <3>1. actor'[b] = actor[b] /\ Fit(actor[b]) /\ actor[b] \in Actor
      BY <1>2, <1>3, <2>3 DEF IInv, Actors
    <3>2. actor[b].voice \in Voice
      BY <3>1 DEF Actor
    <3> QED
      BY <1>1, <3>1, <3>2 DEF Fit, Names, Disks, Registered
  <2> QED
    BY <2>2, <2>3
<1>7. OrphansFit'
  <2>1. /\ ~up => orphan' = {}
        /\ \A o \in orphan' : /\ o.voice \in Voice /\ o.copy.text # Absent
                              /\ "late" \notin may => Registered(local, o.voice)
    BY DEF IInv, OrphansFit, Allowed
  <2> QED
    BY <1>1, <2>1 DEF OrphansFit, Disks, Registered
<1>8. ASSUME may \subseteq {"list", "late", "reclone"}
      PROVE  RetryFinds'
  <2>1. SUFFICES ASSUME NEW c \in Client, actor'[c].pc = "retry", actor'[c].live
                 PROVE  Registered(remote', actor'[c].voice)
    BY DEF RetryFinds, Registered
  <2>2. CASE c = a
    BY <1>1, <1>3, <1>8, <2>1, <2>2 DEF Says, Actors
  <2>3. CASE c # a
    <3>1. actor'[c] = actor[c] /\ actor[c] \in Actor
      BY <1>2, <1>3, <2>3 DEF Actors
    <3>2. actor[c].voice \in Voice /\ Registered(remote, actor[c].voice)
      BY <1>8, <2>1, <3>1 DEF Actor, IInv, RetryFinds
    <3> QED
      BY <1>1, <3>1, <3>2 DEF Disks
  <2> QED
    BY <2>2, <2>3
<1>9. KnownIsHealed'
  <2>1. SUFFICES ASSUME NEW c \in Client, may' \subseteq {"list", "late", "reclone"},
                        actor'[c].pc = "told", actor'[c].ans = "unknown"
                 PROVE  ~actor'[c].known \/ ~actor'[c].live
    BY DEF KnownIsHealed, Told
  <2>2. CASE c = a
    BY <1>1, <1>3, <2>1, <2>2 DEF Says, Actors
  <2>3. CASE c # a
    <3>1. actor'[c] = actor[c]
      BY <1>3, <2>3 DEF Actors
    <3> QED
      BY <1>1, <2>1, <3>1 DEF IInv, KnownIsHealed, Told
  <2> QED
    BY <2>2, <2>3
<1>10. WorkerVoicesAreStored'
  <2>1. SUFFICES ASSUME NEW v \in Voice, Registered(remote', v),
                        may \subseteq {"list", "verify", "timeout", "reclone"}
                 PROVE  \/ Registered(local', v)
                        \/ \E c \in Client : /\ actor'[c].pc = "cloned"
                                             /\ actor'[c].voice = v
    BY <1>1 DEF WorkerVoicesAreStored, Registered
  <2>2. CASE a \in Client /\ s.pc = "cloned" /\ s.voice = v
    BY <1>3, <2>2 DEF Actors
  <2>3. CASE Registered(local', v)
    BY <2>3
  <2>4. CASE Registered(remote, v)
    <3>1. CASE Registered(local, v)
      BY <1>1, <3>1 DEF Disks
    <3>2. ASSUME NEW c \in Client, actor[c].pc = "cloned", actor[c].voice = v
          PROVE  \/ Registered(local', v)
                 \/ actor'[c].pc = "cloned" /\ actor'[c].voice = v
      <4>1. CASE c = a
        BY <1>1, <2>1, <3>2, <4>1 DEF Disks
      <4>2. CASE c # a
        BY <1>3, <3>2, <4>2 DEF Actors
      <4> QED
        BY <4>1, <4>2
    <3> QED
      BY <2>1, <2>4, <3>1, <3>2 DEF IInv, WorkerVoicesAreStored
  <2> QED
    BY <1>1, <2>1, <2>2, <2>3, <2>4 DEF Disks
<1> QED
  BY <1>1, <1>4, <1>5, <1>6, <1>7, <1>8, <1>9, <1>10 DEF IInv, Actors

-----------------------------------------------------------------------------
\* The next record of an actor.
Pcs == {"idle", "told"} \union GeneratePc \union ClonePc \union TaskPc

Same(a, s) ==
    /\ s.live = actor[a].live /\ s.voice = actor[a].voice
    /\ s.known = actor[a].known

LEMMA GotoIs ==
    ASSUME IInv, NEW a \in Actors, NEW pc \in Pcs, Goto(a, pc)
    PROVE  \E s \in Actor : /\ actor' = [actor EXCEPT ![a] = s]
                            /\ Same(a, s) /\ s.pc = pc
                            /\ s.copy = actor[a].copy /\ s.todo = actor[a].todo
<1> DEFINE s == [actor[a] EXCEPT !.pc = pc]
<1>1. actor[a] \in Actor
  BY DEF IInv, TypeOK, Actors
<1>2. /\ s \in Actor /\ Same(a, s) /\ s.pc = pc
      /\ s.copy = actor[a].copy /\ s.todo = actor[a].todo
  BY <1>1 DEF Actor, Same, Pcs
<1>3. actor' = [actor EXCEPT ![a] = s]
  BY DEF Goto
<1> QED
  BY <1>2, <1>3

LEMMA TellIs ==
    ASSUME IInv, NEW a \in Actors, NEW ans \in Answers, Tell(a, ans)
    PROVE  \E s \in Actor : /\ actor' = [actor EXCEPT ![a] = s]
                            /\ Same(a, s) /\ s.pc = "told" /\ s.ans = ans
                            /\ s.copy = actor[a].copy
<1> DEFINE s == [actor[a] EXCEPT !.pc = "told", !.ans = ans, !.todo = {}]
<1>1. actor[a] \in Actor /\ actor \in [Actors -> Actor]
  BY DEF IInv, TypeOK, Actors
<1>2. /\ s \in Actor /\ Same(a, s) /\ s.pc = "told" /\ s.ans = ans
      /\ s.copy = actor[a].copy
  BY <1>1 DEF Actor, Same
<1>3. actor' = [actor EXCEPT ![a] = s]
  BY <1>1 DEF Tell, Actor
<1> QED
  BY <1>2, <1>3

LEMMA TaskGotoIs ==
    ASSUME IInv, NEW a \in Actors, NEW pc \in Pcs, NEW todo \in SUBSET Voice,
           TaskGoto(a, pc, todo)
    PROVE  \E s \in Actor : /\ actor' = [actor EXCEPT ![a] = s]
                            /\ Same(a, s) /\ s.pc = pc /\ s.todo = todo
<1> DEFINE s == [actor[a] EXCEPT !.pc = pc, !.todo = todo, !.copy = Nothing]
<1>1. actor[a] \in Actor /\ actor \in [Actors -> Actor]
  BY DEF IInv, TypeOK, Actors
<1>2. Nothing \in Copy
  BY DEF Nothing, Copy, UploadOrAbsent
<1>3. s \in Actor /\ Same(a, s) /\ s.pc = pc /\ s.todo = todo
  BY <1>1, <1>2 DEF Actor, Same, Pcs
<1>4. actor' = [actor EXCEPT ![a] = s]
  BY <1>1 DEF TaskGoto, Actor
<1> QED
  BY <1>3, <1>4

LEMMA TellSpeechIs ==
    ASSUME IInv, NEW a \in Actors, TellSpeech(a)
    PROVE  \E s \in Actor : /\ actor' = [actor EXCEPT ![a] = s]
                            /\ Same(a, s) /\ s.pc = "told"
                            /\ s.ans = SpeechAnswer(actor[a].voice, actor[a].lang)
                            /\ s.ans # "created"
                            /\ s.ans = "spoken" => s.copy = remote[s.voice]
<1> DEFINE ans == SpeechAnswer(actor[a].voice, actor[a].lang)
           copy == IF ans = "spoken" THEN remote[actor[a].voice] ELSE Nothing
           s == [actor[a] EXCEPT !.pc = "told", !.ans = ans, !.copy = copy]
<1>1. actor[a] \in Actor /\ actor \in [Actors -> Actor]
  BY DEF IInv, TypeOK, Actors
<1>2. ans \in Answers /\ ans # "created"
  BY DEF SpeechAnswer, Answers
<1>3. copy \in Copy
  <2>1. actor[a].voice \in Voice
    BY <1>1 DEF Actor
  <2> QED
    BY <2>1 DEF IInv, TypeOK, Nothing, Copy, UploadOrAbsent
<1>4. actor' = [actor EXCEPT ![a] = s]
  BY <1>1 DEF TellSpeech, Actor
<1> HIDE DEF ans, copy
<1>5. /\ s \in Actor /\ Same(a, s) /\ s.pc = "told" /\ s.ans = ans
      /\ s.copy = copy
  BY <1>1, <1>2, <1>3 DEF Actor, Same
<1> QED
  BY <1>2, <1>4, <1>5 DEF ans, copy, Same

\* A call without an answer.
LEMMA GiveUpIs ==
    ASSUME IInv, NEW a \in Actors, GiveUp(a)
    PROVE  /\ actor[a].pc # "cloned"
           /\ \E s \in Actor :
                 /\ actor' = [actor EXCEPT ![a] = s]
                 /\ Same(a, s) /\ s.pc \in {"told", "idle", "next"}
                 /\ s.pc = "told" => s.ans \in {"failed", "unknown"}
                 /\ s.pc = "next" => /\ actor[a].pc \in {"post", "post_run"}
                                     /\ s.todo = actor[a].todo
                 /\ actor[a].pc = "list" => s.pc = "idle"
                 /\ actor[a].pc \in ClonePc /\ s.pc = "told" => s.ans = "failed"
<1>1. actor[a].pc # "cloned"
  BY DEF GiveUp
<1>2. actor[a].todo \in SUBSET Voice
  BY DEF IInv, TypeOK, Actors, Actor
<1>3. CASE /\ actor[a].pc # "list"
           /\ \/ Tell(a, "failed")
              \/ Tell(a, "unknown") /\ actor[a].pc \notin ClonePc
  BY <1>1, <1>3, TellIs DEF Answers
<1>4. CASE TaskGoto(a, "idle", {})
  BY <1>1, <1>4, TaskGotoIs DEF Pcs
<1>5. CASE /\ actor[a].pc \in {"post", "post_run"}
           /\ TaskGoto(a, "next", actor[a].todo)
  BY <1>1, <1>2, <1>5, TaskGotoIs DEF Pcs, TaskPc
<1> QED
  BY <1>3, <1>4, <1>5 DEF GiveUp, ClonePc

-----------------------------------------------------------------------------
\* What the disks are after a step.
LEMMA DisksKept ==
    ASSUME IInv, NEW a \in Actors, NEW s, UNCHANGED <<local, remote>>,
           actor[a].pc # "cloned"
    PROVE  Disks(a, s)
BY DEF Disks, IInv, TypeOK, DiskWhole, Registered

LEMMA DisksEnrolled ==
    ASSUME IInv, NEW a \in Actors, NEW s, UNCHANGED local,
           actor[a].pc # "cloned", actor[a].copy.text # Absent,
           Enrol(actor[a].voice, actor[a].copy),
           \/ Registered(local, actor[a].voice)
           \/ a \in Client /\ s.pc = "cloned" /\ s.voice = actor[a].voice
    PROVE  Disks(a, s) /\ Registered(remote', actor[a].voice)
<1> DEFINE v == actor[a].voice
           r == [remote[v] EXCEPT !.text = actor[a].copy.text,
                                  !.langs = actor[a].copy.langs]
<1>1. v \in Voice /\ actor[a].copy \in Copy /\ remote \in [Voice -> Copy]
  BY DEF IInv, TypeOK, Actors, Actor
<1>2. r \in Copy /\ r.text = actor[a].copy.text
  BY <1>1 DEF Copy
<1>3. remote' = [remote EXCEPT ![v] = r]
  BY <1>1 DEF Enrol, Copy
<1> HIDE DEF v, r
<1>4. \A w \in Voice : remote'[w] = IF w = v THEN r ELSE remote[w]
  BY <1>1, <1>3
<1>5. remote' \in [Voice -> Copy]
  BY <1>1, <1>2, <1>3
<1>6. Registered(remote', v)
  BY <1>1, <1>2, <1>4 DEF Registered
<1> QED
  BY <1>1, <1>4, <1>5, <1>6 DEF Disks, IInv, TypeOK, DiskWhole, Registered, v

\* A recording written or removed registers no voice.
LEMMA DisksRecorded ==
    ASSUME IInv, NEW a \in Actors, NEW s, UNCHANGED local,
           actor[a].pc # "cloned", NEW v \in Voice, NEW w \in UploadOrAbsent,
           remote' = [remote EXCEPT ![v].wav = w]
    PROVE  Disks(a, s)
<1> DEFINE r == [remote[v] EXCEPT !.wav = w]
<1>1. remote \in [Voice -> Copy]
  BY DEF IInv, TypeOK
<1>2. r \in Copy /\ r.text = remote[v].text
  BY <1>1 DEF Copy
<1>3. remote' = [remote EXCEPT ![v] = r]
  OBVIOUS
<1> HIDE DEF r
<1>4. \A x \in Voice : remote'[x].text = remote[x].text
  BY <1>1, <1>2, <1>3
<1>5. remote' \in [Voice -> Copy]
  BY <1>1, <1>2, <1>3
<1> QED
  BY <1>4, <1>5 DEF Disks, IInv, TypeOK, DiskWhole, Registered

-----------------------------------------------------------------------------
\* The invariant at the actor of a step.
LEMMA AtActor ==
    ASSUME IInv, NEW a \in Actors
    PROVE  /\ actor[a] \in Actor /\ Fit(actor[a])
           /\ actor[a].voice \in Voice /\ actor[a].lang \in Language
           /\ actor[a].todo \subseteq Voice
           /\ actor[a].copy \in Copy /\ local[actor[a].voice] \in Copy
           /\ orphan \subseteq [voice : Voice, copy : Copy]
BY DEF IInv, TypeOK, Actors, Actor

\* POST /voices/clone
LEMMA CloneAllowed ==
    ASSUME IInv, NEW c \in Client,
           CloneVerified(c) \/ CloneRejected(c) \/ CloneStore(c)
             \/ CloneStoreFails(c)
    PROVE  \E s : Allowed(c, s)
<1> USE DEF Actors
<1>1. /\ actor[c] \in Actor /\ Fit(actor[c]) /\ actor[c].voice \in Voice
      /\ actor[c].copy \in Copy
      /\ orphan \subseteq [voice : Voice, copy : Copy]
  BY AtActor
<1>2. /\ actor[c].copy.text # Absent /\ actor[c].copy.wav # Absent
      /\ UNCHANGED <<bundle, session, orphan>>
  BY <1>1 DEF Fit, ClonePc, CloneVerified, CloneRejected, CloneStore,
              CloneStoreFails
<1>3. CASE CloneVerified(c)
  <2>1. /\ actor[c].pc = "clone_run" /\ UNCHANGED local
        /\ Goto(c, "cloned") /\ Enrol(actor[c].voice, actor[c].copy)
    BY <1>3 DEF CloneVerified
  <2>2. PICK s \in Actor : /\ actor' = [actor EXCEPT ![c] = s]
                           /\ Same(c, s) /\ s.pc = "cloned"
                           /\ s.copy = actor[c].copy /\ s.todo = actor[c].todo
    BY <2>1, GotoIs DEF Pcs, ClonePc
  <2>3. Disks(c, s)
    BY <1>2, <2>1, <2>2, DisksEnrolled DEF Same
  <2>4. Says(s) /\ FitNext(s)
    BY <1>1, <1>2, <2>2
        DEF Says, FitNext, Fit, Same, CarryingPc, GeneratePc
  <2> QED
    BY <1>1, <1>2, <2>2, <2>3, <2>4 DEF Allowed
<1>4. CASE CloneRejected(c)
  <2>1. /\ actor[c].pc = "clone_run" /\ UNCHANGED local
        /\ Tell(c, "failed")
        /\ remote' = [remote EXCEPT ![actor[c].voice].wav = Absent]
    BY <1>4 DEF CloneRejected, Reject
  <2>2. PICK s \in Actor : /\ actor' = [actor EXCEPT ![c] = s]
                           /\ Same(c, s) /\ s.pc = "told" /\ s.ans = "failed"
    BY <2>1, TellIs DEF Answers
  <2>3. Disks(c, s)
    BY <1>1, <2>1, DisksRecorded DEF UploadOrAbsent
  <2>4. Says(s) /\ FitNext(s)
    BY <1>1, <2>2
        DEF Says, FitNext, Fit, Same, CarryingPc, GeneratePc, ClonePc
  <2> QED
    BY <1>1, <1>2, <2>2, <2>3, <2>4 DEF Allowed
<1>5. CASE CloneStore(c)
  <2>1. /\ UNCHANGED remote /\ Tell(c, "created")
        /\ local' = [local EXCEPT ![actor[c].voice] = actor[c].copy]
    BY <1>5 DEF CloneStore
  <2>2. PICK s \in Actor : /\ actor' = [actor EXCEPT ![c] = s]
                           /\ Same(c, s) /\ s.pc = "told" /\ s.ans = "created"
    BY <2>1, TellIs DEF Answers
  <2>3. Disks(c, s)
    BY <1>1, <1>2, <2>1 DEF Disks, IInv, TypeOK, DiskWhole, Registered
  <2>4. Says(s) /\ FitNext(s)
    BY <1>1, <1>2, <2>1, <2>2
        DEF Says, FitNext, Fit, Same, CarryingPc, GeneratePc, ClonePc,
            Registered, IInv, TypeOK
  <2> QED
    BY <1>1, <1>2, <2>2, <2>3, <2>4 DEF Allowed
<1>6. CASE CloneStoreFails(c)
  <2> DEFINE r == [local[actor[c].voice] EXCEPT !.wav = actor[c].copy.wav]
  <2>1. /\ UNCHANGED remote /\ Tell(c, "failed") /\ "register" \in may
        /\ local' = [local EXCEPT ![actor[c].voice] = r]
    BY <1>6 DEF CloneStoreFails
  <2>2. PICK s \in Actor : /\ actor' = [actor EXCEPT ![c] = s]
                           /\ Same(c, s) /\ s.pc = "told" /\ s.ans = "failed"
    BY <2>1, TellIs DEF Answers
  <2>3. r \in Copy /\ r.text = local[actor[c].voice].text /\ r.wav # Absent
    BY <1>1, <1>2, AtActor DEF Copy
  <2> HIDE DEF r
  <2>4. Disks(c, s)
    BY <1>1, <2>1, <2>3 DEF Disks, IInv, TypeOK, DiskWhole, Registered
  <2>5. Says(s) /\ FitNext(s)
    BY <1>1, <2>2
        DEF Says, FitNext, Fit, Same, CarryingPc, GeneratePc, ClonePc
  <2> QED
    BY <1>1, <1>2, <2>2, <2>4, <2>5 DEF Allowed
<1> QED
  BY <1>3, <1>4, <1>5, <1>6

\* POST /generate
LEMMA GenerateAllowed ==
    ASSUME IInv, NEW c \in Client,
           GenerateAsked(c) \/ HealVerified(c) \/ HealRejected(c)
             \/ GenerateRetried(c)
    PROVE  \E s : Allowed(c, s)
<1> USE DEF Actors
<1>1. /\ actor[c] \in Actor /\ Fit(actor[c]) /\ actor[c].voice \in Voice
      /\ actor[c].lang \in Language /\ local[actor[c].voice] \in Copy
      /\ actor[c].copy \in Copy
      /\ orphan \subseteq [voice : Voice, copy : Copy]
  BY AtActor
<1>2. /\ UNCHANGED <<local, bundle, session, orphan>>
      /\ actor[c].pc \in GeneratePc /\ actor[c].pc # "cloned"
  BY DEF GenerateAsked, HealVerified, HealRejected, GenerateRetried, disks,
         GeneratePc
<1>3. CASE actor[c].pc = "ask" /\ MustHeal(c) /\ GenerateAsked(c)
  <2> DEFINE copy == [local[actor[c].voice] EXCEPT !.langs = {actor[c].lang}]
             s == [actor[c] EXCEPT !.pc = "heal", !.copy = copy]
  <2>1. UNCHANGED remote /\ actor' = [actor EXCEPT ![c] = s]
    <3>1. UNCHANGED remote
      BY <1>3 DEF GenerateAsked, disks
    <3>2. actor' = [actor EXCEPT ![c].pc = "heal", ![c].copy = copy]
      BY <1>3 DEF GenerateAsked
    <3>3. actor \in [Actors -> Actor]
      BY DEF IInv, TypeOK
    <3> QED
      BY <1>1, <3>1, <3>2, <3>3 DEF Actor
  <2>2. copy \in Copy /\ copy.text # Absent
    BY <1>1, <1>3 DEF Copy, MustHeal, Registered
  <2> HIDE DEF copy
  <2>3. /\ s \in Actor /\ Same(c, s) /\ s.pc = "heal" /\ s.copy = copy
    BY <1>1, <2>2 DEF Actor, Same, GeneratePc
  <2> HIDE DEF s
  <2>4. Disks(c, s)
    BY <1>2, <2>1, DisksKept
  <2>5. Says(s) /\ FitNext(s)
    BY <1>1, <1>2, <1>3, <2>2, <2>3
        DEF Says, FitNext, Fit, Same, CarryingPc, GeneratePc, ClonePc, MustHeal
  <2> QED
    BY <1>1, <1>2, <2>1, <2>3, <2>4, <2>5 DEF Allowed
<1>4. CASE /\ UNCHANGED remote /\ TellSpeech(c)
           /\ \/ actor[c].pc = "ask" /\ ~MustHeal(c)
              \/ actor[c].pc = "retry" /\ actor[c].live
  <2>1. PICK s \in Actor :
           /\ actor' = [actor EXCEPT ![c] = s] /\ Same(c, s) /\ s.pc = "told"
           /\ s.ans = SpeechAnswer(actor[c].voice, actor[c].lang)
           /\ s.ans # "created"
    BY <1>4, TellSpeechIs
  <2>2. Disks(c, s)
    BY <1>2, <1>4, DisksKept
  <2>3. ASSUME s.ans = "unknown", may \subseteq {"list", "late", "reclone"}
        PROVE  ~actor[c].known
    <3>1. ~Registered(remote, actor[c].voice)
      BY <2>1, <2>3 DEF SpeechAnswer
    <3>2. actor[c].pc = "ask" /\ ~MustHeal(c)
      BY <1>4, <2>3, <3>1 DEF IInv, RetryFinds
    <3>3. ~Registered(local, actor[c].voice)
      BY <1>1, <2>1, <2>3, <3>2 DEF MustHeal, IInv, DiskWhole
    <3> QED
      BY <1>1, <3>2, <3>3 DEF Fit, GeneratePc
  <2>4. Says(s) /\ FitNext(s)
    BY <1>1, <2>1, <2>3
        DEF Says, FitNext, Fit, Same, CarryingPc, GeneratePc, ClonePc
  <2> QED
    BY <1>1, <1>2, <2>1, <2>2, <2>4 DEF Allowed
<1>5. CASE HealVerified(c)
  <2>1. /\ actor[c].pc = "heal_run" /\ Goto(c, "retry")
        /\ Enrol(actor[c].voice, actor[c].copy)
    BY <1>5 DEF HealVerified
  <2>2. PICK s \in Actor : /\ actor' = [actor EXCEPT ![c] = s]
                           /\ Same(c, s) /\ s.pc = "retry"
                           /\ s.copy = actor[c].copy /\ s.todo = actor[c].todo
    BY <2>1, GotoIs DEF Pcs, GeneratePc
  <2>3. actor[c].copy.text # Absent /\ Registered(local, actor[c].voice)
    BY <1>1, <2>1 DEF Fit, CarryingPc
  <2>4. Disks(c, s) /\ Registered(remote', actor[c].voice)
    BY <1>2, <2>1, <2>3, DisksEnrolled
  <2>5. Says(s) /\ FitNext(s)
    BY <1>1, <1>2, <2>2, <2>3, <2>4
        DEF Says, FitNext, Fit, Same, CarryingPc, GeneratePc, ClonePc
  <2> QED
    BY <1>1, <1>2, <2>2, <2>4, <2>5 DEF Allowed
<1>6. CASE HealRejected(c)
  <2>1. /\ Tell(c, "unknown") /\ "verify" \in may
        /\ remote' = [remote EXCEPT ![actor[c].voice].wav = Absent]
    BY <1>6 DEF HealRejected, Reject
  <2>2. PICK s \in Actor : /\ actor' = [actor EXCEPT ![c] = s]
                           /\ Same(c, s) /\ s.pc = "told" /\ s.ans = "unknown"
    BY <2>1, TellIs DEF Answers
  <2>3. Disks(c, s)
    BY <1>1, <1>2, <2>1, DisksRecorded DEF UploadOrAbsent
  <2>4. Says(s) /\ FitNext(s)
    BY <1>1, <2>1, <2>2
        DEF Says, FitNext, Fit, Same, CarryingPc, GeneratePc, ClonePc
  <2> QED
    BY <1>1, <1>2, <2>2, <2>3, <2>4 DEF Allowed
<1> QED
  BY <1>3, <1>4, <1>5, <1>6 DEF GenerateAsked, GenerateRetried, disks

\* A request arrives, or its answer is forgotten.
LEMMA RequestAllowed ==
    ASSUME IInv, NEW c \in Client,
           \/ Forget(c)
           \/ \E v \in Voice, l \in Language :
                 GenerateBegin(c, v, l) \/ \E u \in Upload : CloneBegin(c, v, u, l)
    PROVE  \E s : Allowed(c, s)
<1> USE DEF Actors
<1>1. /\ actor[c] \in Actor /\ Fit(actor[c]) /\ actor \in [Actors -> Actor]
      /\ orphan \subseteq [voice : Voice, copy : Copy]
  BY AtActor DEF IInv, TypeOK
<1>2. /\ UNCHANGED <<local, remote, bundle, session, orphan>>
      /\ actor[c].pc \in {"idle", "told"}
  BY DEF Forget, GenerateBegin, CloneBegin, disks
<1>3. Nothing \in Copy
  BY DEF Nothing, Copy, UploadOrAbsent
<1>4. \A s : Disks(c, s)
  BY <1>2, DisksKept
<1>5. CASE Forget(c)
  <2> DEFINE s == [actor[c] EXCEPT !.pc = "idle", !.copy = Nothing,
                                   !.known = FALSE, !.ans = "none"]
  <2>1. actor' = [actor EXCEPT ![c] = s]
    BY <1>1, <1>5 DEF Forget, Actor
  <2>2. s \in Actor /\ s.pc = "idle" /\ s.live = actor[c].live
    BY <1>1, <1>3 DEF Actor, Answers
  <2> HIDE DEF s
  <2>3. Says(s) /\ FitNext(s)
    BY <1>1, <2>2 DEF Says, FitNext, Fit, CarryingPc, GeneratePc, ClonePc
  <2> QED
    BY <1>1, <1>2, <1>4, <2>1, <2>2, <2>3 DEF Allowed
<1>6. ASSUME NEW v \in Voice, NEW l \in Language, GenerateBegin(c, v, l)
      PROVE  \E s : Allowed(c, s)
  <2> DEFINE known == Registered(local, v)
             s == [pc |-> "ask", live |-> up, voice |-> v, lang |-> l,
                   copy |-> Nothing, todo |-> {}, known |-> known, ans |-> "none"]
  <2>1. actor' = [actor EXCEPT ![c] = s]
    BY <1>6 DEF GenerateBegin
  <2>2. known \in BOOLEAN /\ up \in BOOLEAN
    BY DEF Registered, IInv, TypeOK
  <2> HIDE DEF known
  <2>3. /\ s \in Actor /\ s.pc = "ask" /\ s.live = up /\ s.voice = v
        /\ s.known = known
    BY <1>3, <2>2 DEF Actor, Answers, GeneratePc
  <2> HIDE DEF s
  <2>4. FitNext(s)
    BY <1>2, <2>2, <2>3
        DEF FitNext, CarryingPc, GeneratePc, ClonePc, known, Registered
  <2>5. Says(s)
    BY <2>3 DEF Says
  <2> QED
    BY <1>1, <1>2, <1>4, <2>1, <2>3, <2>4, <2>5 DEF Allowed
<1>7. ASSUME NEW v \in Voice, NEW l \in Language, NEW u \in Upload,
             CloneBegin(c, v, u, l)
      PROVE  \E s : Allowed(c, s)
  <2> DEFINE copy == Stored(u, {l})
             s == [pc |-> "clone", live |-> up, voice |-> v, lang |-> l,
                   copy |-> copy, todo |-> {}, known |-> FALSE, ans |-> "none"]
  <2>1. actor' = [actor EXCEPT ![c] = s]
    BY <1>7 DEF CloneBegin
  <2>2. /\ copy \in Copy /\ copy.text # Absent /\ copy.wav # Absent
        /\ up \in BOOLEAN
    BY AbsentAssumption DEF Stored, Copy, UploadOrAbsent, IInv, TypeOK
  <2> HIDE DEF copy
  <2>3. s \in Actor /\ s.pc = "clone" /\ s.live = up /\ s.copy = copy
    BY <2>2 DEF Actor, Answers, ClonePc
  <2> HIDE DEF s
  <2>4. Says(s) /\ FitNext(s)
    BY <2>2, <2>3 DEF Says, FitNext, CarryingPc, GeneratePc
  <2> QED
    BY <1>1, <1>2, <1>4, <2>1, <2>3, <2>4 DEF Allowed
<1> QED
  BY <1>5, <1>6, <1>7

\* A synchronisation task
LEMMA SyncAllowed ==
    ASSUME IInv, NEW t \in Task,
           SyncListed(t) \/ SyncChoose(t) \/ SyncNext(t)
             \/ SyncVerified(t) \/ SyncRejected(t) \/ SyncEnd(t)
    PROVE  \E s : Allowed(t, s)
<1> USE DEF Actors
<1>1. /\ actor[t] \in Actor /\ Fit(actor[t]) /\ actor[t].voice \in Voice
      /\ actor[t].copy \in Copy /\ actor[t].todo \subseteq Voice
      /\ orphan \subseteq [voice : Voice, copy : Copy]
      /\ actor \in [Actors -> Actor] /\ local \in [Voice -> Copy]
  BY AtActor DEF IInv, TypeOK
<1>2. /\ UNCHANGED <<local, bundle, session, orphan>> /\ actor[t].pc # "cloned"
  BY DEF SyncListed, SyncChoose, SyncNext, SyncVerified, SyncRejected, SyncEnd,
         disks
<1>3. Names(local) \subseteq Voice /\ Names(remote) \subseteq Voice
      /\ \A v \in Names(local) : Registered(local, v)
  BY DEF Names
<1>4. ASSUME NEW pc \in {"listed", "next", "idle"}, NEW todo \in SUBSET Voice,
             TaskGoto(t, pc, todo), pc = "next" => todo \subseteq Names(local),
             \A s : Disks(t, s)
      PROVE  \E s : Allowed(t, s)
  <2>1. PICK s \in Actor : /\ actor' = [actor EXCEPT ![t] = s]
                           /\ Same(t, s) /\ s.pc = pc /\ s.todo = todo
    BY <1>4, TaskGotoIs DEF Pcs, TaskPc
  <2>2. Says(s) /\ FitNext(s)
    BY <1>1, <1>2, <1>3, <1>4, <2>1
        DEF Says, FitNext, Fit, Same, CarryingPc, GeneratePc, ClonePc
  <2> QED
    BY <1>1, <1>2, <1>4, <2>1, <2>2 DEF Allowed
<1>5. UNCHANGED remote => \A s : Disks(t, s)
  BY <1>2, DisksKept
<1>6. CASE SyncListed(t)
  BY <1>3, <1>4, <1>5, <1>6 DEF SyncListed, disks
<1>7. CASE SyncChoose(t)
  <2>1. Names(local) \ actor[t].todo \in SUBSET Voice
    BY <1>3
  <2> QED
    BY <1>4, <1>5, <1>7, <2>1 DEF SyncChoose, disks
<1>8. CASE SyncEnd(t)
  BY <1>4, <1>5, <1>8 DEF SyncEnd, disks
<1>9. CASE SyncVerified(t)
  <2>1. /\ actor[t].copy.text # Absent /\ Registered(local, actor[t].voice)
        /\ actor[t].todo \subseteq Names(local)
    BY <1>1, <1>9 DEF SyncVerified, Fit, CarryingPc
  <2>2. \A s : Disks(t, s)
    BY <1>2, <1>9, <2>1, DisksEnrolled DEF SyncVerified
  <2> QED
    BY <1>1, <1>4, <1>9, <2>1, <2>2 DEF SyncVerified
<1>10. CASE SyncRejected(t)
  <2>1. actor[t].todo \subseteq Names(local)
    BY <1>1, <1>10 DEF SyncRejected, Fit
  <2>2. \A s : Disks(t, s)
    BY <1>1, <1>2, <1>10, DisksRecorded DEF SyncRejected, Reject, UploadOrAbsent
  <2> QED
    BY <1>1, <1>4, <1>10, <2>1, <2>2 DEF SyncRejected
<1>11. CASE SyncNext(t)
  <2>1. actor[t].pc = "next" /\ UNCHANGED remote
        /\ actor[t].todo \subseteq Names(local)
    BY <1>1, <1>11 DEF SyncNext, disks, Fit
  <2>2. PICK v \in actor[t].todo :
          LET rest == actor[t].todo \ {v} IN
          \/ TaskGoto(t, "next", rest)
          \/ \E l \in local[v].langs :
                   actor' = [actor EXCEPT
                     ![t].pc = "post", ![t].voice = v, ![t].todo = rest,
                     ![t].copy = [local[v] EXCEPT !.langs = {l}]]
    BY <1>11 DEF SyncNext
  <2> DEFINE rest == actor[t].todo \ {v}
  <2>3. v \in Voice /\ Registered(local, v)
        /\ rest \in SUBSET Voice /\ rest \subseteq Names(local)
    BY <1>3, <2>1, <2>2
  <2>4. CASE TaskGoto(t, "next", rest)
    BY <1>4, <1>5, <2>1, <2>3, <2>4
  <2>5. ASSUME NEW l \in local[v].langs,
               actor' = [actor EXCEPT
                     ![t].pc = "post", ![t].voice = v, ![t].todo = rest,
                     ![t].copy = [local[v] EXCEPT !.langs = {l}]]
        PROVE  \E s : Allowed(t, s)
    <3> DEFINE copy == [local[v] EXCEPT !.langs = {l}]
               s == [actor[t] EXCEPT !.pc = "post", !.voice = v, !.todo = rest,
                                     !.copy = copy]
    <3>1. actor' = [actor EXCEPT ![t] = s]
      BY <1>1, <2>5 DEF Actor
    <3>2. copy \in Copy /\ copy.text # Absent
      BY <1>1, <2>3 DEF Copy, Registered
    <3> HIDE DEF copy, rest
    <3>3. /\ s \in Actor /\ s.pc = "post" /\ s.voice = v /\ s.todo = rest
          /\ s.copy = copy /\ s.live = actor[t].live
      BY <1>1, <2>3, <3>2 DEF Actor, TaskPc
    <3> HIDE DEF s
    <3>4. Says(s) /\ FitNext(s)
      BY <1>1, <1>2, <1>3, <2>3, <3>2, <3>3
          DEF Says, FitNext, Fit, CarryingPc, GeneratePc, ClonePc
    <3> QED
      BY <1>1, <1>2, <1>5, <2>1, <3>1, <3>3, <3>4 DEF Allowed
  <2> QED
    BY <2>2, <2>4, <2>5
<1> QED
  BY <1>6, <1>7, <1>8, <1>9, <1>10, <1>11

\* Calls that the worker takes up, and calls without an answer.
LEMMA CallAllowed ==
    ASSUME IInv, NEW a \in Actors,
           WorkerWrites(a) \/ Unreachable(a) \/ ListRefused(a) \/ TimeOut(a)
    PROVE  \E s : Allowed(a, s)
<1>1. /\ actor[a] \in Actor /\ Fit(actor[a]) /\ actor[a].voice \in Voice
      /\ actor[a].copy \in Copy /\ actor[a].todo \subseteq Voice
      /\ orphan \subseteq [voice : Voice, copy : Copy]
  BY AtActor
<1>2. CASE WorkerWrites(a)
  <2>1. /\ actor[a].pc \in SendingPc /\ UNCHANGED <<local, bundle, session, orphan>>
        /\ remote' = [remote EXCEPT ![actor[a].voice].wav = actor[a].copy.wav]
    BY <1>2 DEF WorkerWrites, SendingPc
  <2>2. PICK pc \in RunningPc :
           /\ Goto(a, pc)
           /\ pc = "clone_run" => actor[a].pc = "clone"
           /\ pc = "heal_run" => actor[a].pc = "heal"
           /\ pc = "post_run" => actor[a].pc = "post"
    BY <1>2 DEF WorkerWrites, RunningPc
  <2>3. PICK s \in Actor : /\ actor' = [actor EXCEPT ![a] = s]
                           /\ Same(a, s) /\ s.pc = pc
                           /\ s.copy = actor[a].copy /\ s.todo = actor[a].todo
    BY <2>2, GotoIs DEF RunningPc, Pcs, GeneratePc, ClonePc, TaskPc
  <2>4. actor[a].copy.wav \in UploadOrAbsent
    BY <1>1 DEF Copy
  <2>5. Disks(a, s)
    BY <1>1, <2>1, <2>4, DisksRecorded DEF SendingPc
  <2>6. Says(s)
    BY <2>3 DEF Says, RunningPc
  <2>7. FitNext(s)
    BY <1>1, <2>1, <2>2, <2>3
        DEF FitNext, Fit, Same, RunningPc, CarryingPc, GeneratePc, ClonePc, Names
  <2> QED
    BY <1>1, <2>1, <2>3, <2>5, <2>6, <2>7 DEF Allowed
<1>3. CASE Unreachable(a) \/ ListRefused(a) \/ TimeOut(a)
  <2>1. /\ GiveUp(a) /\ UNCHANGED <<local, remote, bundle, session>>
        /\ \/ ~actor[a].live \/ actor[a].pc = "list" \/ "timeout" \in may
           \/ actor[a].pc \in ClonePc
    BY <1>3 DEF Unreachable, ListRefused, TimeOut, Deadline, disks
  <2>2. /\ orphan' \subseteq [voice : Voice, copy : Copy]
        /\ orphan' = orphan \/ up
        /\ \A o \in orphan' \ orphan :
              /\ o.copy.text # Absent
              /\ "late" \notin may => Registered(local, o.voice)
    <3>1. CASE UNCHANGED orphan
      BY <1>1, <3>1
    <3>2. CASE TimeOut(a)
      <4>1. /\ actor[a].live /\ Deadline(actor[a].pc) \in may
            /\ \A o \in orphan' \ orphan :
                  /\ actor[a].pc \in RunningPc
                  /\ o = [voice |-> actor[a].voice, copy |-> actor[a].copy]
        BY <3>2 DEF TimeOut
      <4>2. orphan' \subseteq [voice : Voice, copy : Copy]
        BY <1>1, <3>2 DEF TimeOut
      <4>3. actor[a].pc \in RunningPc =>
              /\ actor[a].copy.text # Absent
              /\ "late" \notin may => Registered(local, actor[a].voice)
        BY <1>1, <4>1 DEF Fit, RunningPc, ClonePc, CarryingPc, Deadline
      <4> QED
        BY <1>1, <4>1, <4>2, <4>3 DEF Fit
    <3> QED
      BY <1>3, <3>1, <3>2 DEF Unreachable, ListRefused
  <2>3. PICK s \in Actor :
                 /\ actor' = [actor EXCEPT ![a] = s]
                 /\ Same(a, s) /\ s.pc \in {"told", "idle", "next"}
                 /\ s.pc = "told" => s.ans \in {"failed", "unknown"}
                 /\ s.pc = "next" => /\ actor[a].pc \in {"post", "post_run"}
                                     /\ s.todo = actor[a].todo
                 /\ actor[a].pc = "list" => s.pc = "idle"
                 /\ actor[a].pc \in ClonePc /\ s.pc = "told" => s.ans = "failed"
    BY <2>1, GiveUpIs
  <2>4. Disks(a, s)
    BY <2>1, GiveUpIs, DisksKept
  <2>5. Says(s) /\ FitNext(s)
    BY <1>1, <2>1, <2>3
        DEF Says, FitNext, Fit, Same, CarryingPc, GeneratePc, ClonePc, Names
  <2> QED
    BY <2>1, <2>2, <2>3, <2>4, <2>5 DEF Allowed
<1> QED
  BY <1>2, <1>3

-----------------------------------------------------------------------------
\* The session's steps.  A worker that goes takes its voices and its callers
\* with it; one that boots has those of the archive.
LEMMA SessionIInv ==
    ASSUME IInv,
           \/ PackBundle \/ WorkerGone \/ WorkerBoots \/ LeaveReady
           \/ \E way \in Ways : BecomeReady(way)
    PROVE  IInv'
<1> USE DEF Actors
<1>1. /\ TypeOK /\ DiskWhole /\ \A a \in Actors : Fit(actor[a])
      /\ OrphansFit
      /\ may \subseteq {"list", "late", "reclone"} => RetryFinds
      /\ KnownIsHealed /\ WorkerVoicesAreStored
  BY DEF IInv
<1>2. CASE PackBundle \/ LeaveReady
  <2>1. UNCHANGED <<local, remote, up, may, actor, orphan>>
        /\ bundle' \in {bundle, local} /\ ready' \in BOOLEAN
    BY <1>1, <1>2 DEF PackBundle, LeaveReady, disks, session, TypeOK
  <2>2. TypeOK' /\ DiskWhole'
    BY <1>1, <2>1 DEF TypeOK, DiskWhole, Names, Registered
  <2>3. /\ (\A a \in Actors : Fit(actor[a]))'
        /\ OrphansFit'
        /\ (may \subseteq {"list", "late", "reclone"} => RetryFinds)'
    BY <1>1, <2>1 DEF Fit, Names, Registered, OrphansFit, RetryFinds
  <2>4. KnownIsHealed' /\ WorkerVoicesAreStored'
    BY <1>1, <2>1
        DEF KnownIsHealed, WorkerVoicesAreStored, Told, Registered
  <2> QED
    BY <2>2, <2>3, <2>4 DEF IInv
<1>3. CASE WorkerGone
  <2>1. /\ UNCHANGED <<local, bundle, ready, may>> /\ up' = FALSE /\ orphan' = {}
        /\ remote' = [v \in Voice |-> Nothing]
        /\ actor' = [a \in Actors |-> [actor[a] EXCEPT !.live = FALSE]]
    BY <1>3 DEF WorkerGone
  <2>2. Nothing \in Copy /\ Nothing.text = Absent
    BY DEF Nothing, Copy, UploadOrAbsent
  <2>3. \A a \in Actors :
          /\ actor'[a] \in Actor /\ ~actor'[a].live
          /\ actor'[a].pc = actor[a].pc /\ actor'[a].voice = actor[a].voice
          /\ actor'[a].copy = actor[a].copy /\ actor'[a].todo = actor[a].todo
          /\ actor'[a].known = actor[a].known /\ actor'[a].ans = actor[a].ans
    BY <1>1, <2>1 DEF TypeOK, Actor
  <2>4. actor' \in [Actors -> Actor]
    BY <2>1, <2>3
  <2>5. TypeOK' /\ DiskWhole'
    BY <1>1, <2>1, <2>2, <2>4 DEF TypeOK, DiskWhole, Names, Registered
  <2>6. /\ (\A a \in Actors : Fit(actor[a]))'
        /\ OrphansFit'
        /\ (may \subseteq {"list", "late", "reclone"} => RetryFinds)'
    BY <1>1, <2>1, <2>3 DEF Fit, Names, Registered, OrphansFit, RetryFinds
  <2>7. KnownIsHealed'
    BY <1>1, <2>1, <2>3 DEF KnownIsHealed, Told, Registered
  <2>8. WorkerVoicesAreStored'
    <3>1. \A v \in Voice : ~Registered(remote', v)
      BY <2>1, <2>2 DEF Registered
    <3> QED
      BY <3>1 DEF WorkerVoicesAreStored, Registered
  <2> QED
    BY <2>5, <2>6, <2>7, <2>8 DEF IInv
<1>4. CASE WorkerBoots
  <2>1. /\ UNCHANGED <<local, bundle, ready, may, actor, orphan>>
        /\ ~up /\ up' = TRUE /\ remote' = bundle
    BY <1>4 DEF WorkerBoots
  <2>2. \A a \in Actors : ~actor[a].live
    BY <1>1, <2>1 DEF Fit
  <2>3. TypeOK' /\ DiskWhole'
    BY <1>1, <2>1 DEF TypeOK, DiskWhole, Names, Registered
  <2>4. /\ (\A a \in Actors : Fit(actor[a]))'
        /\ OrphansFit'
        /\ (may \subseteq {"list", "late", "reclone"} => RetryFinds)'
    BY <1>1, <2>1, <2>2 DEF Fit, Names, Registered, OrphansFit, RetryFinds
  <2>5. WorkerVoicesAreStored'
    BY <1>1, <2>1 DEF WorkerVoicesAreStored, DiskWhole, Names, Registered
  <2>6. KnownIsHealed'
    BY <1>1, <2>1 DEF KnownIsHealed, Told, Registered
  <2> QED
    BY <2>3, <2>4, <2>5, <2>6 DEF IInv
<1>5. ASSUME NEW way \in Ways, BecomeReady(way), UNCHANGED actor
      PROVE  IInv'
  <2>1. UNCHANGED <<local, remote, bundle, up, may, actor, orphan>>
        /\ ready' = TRUE
    BY <1>5 DEF BecomeReady, disks
  <2>2. TypeOK' /\ DiskWhole'
    BY <1>1, <2>1 DEF TypeOK, DiskWhole, Names, Registered
  <2>3. /\ (\A a \in Actors : Fit(actor[a]))'
        /\ OrphansFit'
        /\ (may \subseteq {"list", "late", "reclone"} => RetryFinds)'
    BY <1>1, <2>1 DEF Fit, Names, Registered, OrphansFit, RetryFinds
  <2>4. KnownIsHealed' /\ WorkerVoicesAreStored'
    BY <1>1, <2>1
        DEF KnownIsHealed, WorkerVoicesAreStored, Told, Registered
  <2> QED
    BY <2>2, <2>3, <2>4 DEF IInv
<1>6. ASSUME NEW way \in Ways, BecomeReady(way), NEW t \in Task,
             actor[t].pc = "idle",
             actor' = [actor EXCEPT ![t].pc = "list", ![t].live = TRUE]
      PROVE  IInv'
  <2> DEFINE s == [actor[t] EXCEPT !.pc = "list", !.live = TRUE]
  <2>1. UNCHANGED <<local, remote, bundle, up, may, orphan>> /\ up
        /\ ready' = TRUE
    BY <1>6 DEF BecomeReady, disks
  <2>2. actor \in [Actors -> Actor] /\ actor[t] \in Actor
    BY <1>1 DEF TypeOK
  <2>3. actor' = [actor EXCEPT ![t] = s]
    BY <1>6, <2>2 DEF Actor
  <2>4. s \in Actor /\ s.pc = "list" /\ s.live = TRUE
    BY <2>2 DEF Actor, TaskPc
  <2> HIDE DEF s
  <2>5. \A a \in Actors : actor'[a] = IF a = t THEN s ELSE actor[a]
    BY <2>2, <2>3
  <2>6. actor' \in [Actors -> Actor]
    BY <2>2, <2>3, <2>4
  <2>7. TypeOK' /\ DiskWhole'
    BY <1>1, <2>1, <2>6 DEF TypeOK, DiskWhole, Names, Registered
  <2>8. /\ (\A a \in Actors : Fit(actor[a]))'
        /\ OrphansFit'
        /\ (may \subseteq {"list", "late", "reclone"} => RetryFinds)'
    BY <1>1, <2>1, <2>4, <2>5
        DEF Fit, Names, Registered, OrphansFit, RetryFinds, ClonePc, CarryingPc, GeneratePc
  <2>9. KnownIsHealed'
    BY <1>1, <2>1, <2>4, <2>5
        DEF KnownIsHealed, Told, Registered
  <2>10. WorkerVoicesAreStored'
    <3>1. \A c \in Client : actor[c].pc = "cloned" => actor'[c] = actor[c]
      BY <1>6, <2>5
    <3> QED
      BY <1>1, <2>1, <3>1 DEF WorkerVoicesAreStored, Registered
  <2> QED
    BY <2>7, <2>8, <2>9, <2>10 DEF IInv
<1> QED
  BY <1>2, <1>3, <1>4, <1>5, <1>6 DEF BecomeReady

\* A clone that went on without its caller: what it registers is a voice of the
\* gateway's disk, or a client's clone was late.
LEMMA OrphanIInv ==
    ASSUME IInv, NEW o \in orphan, OrphanEnds(o)
    PROVE  IInv'
<1>1. /\ TypeOK /\ DiskWhole /\ \A a \in Client \union Task : Fit(actor[a])
      /\ KnownIsHealed /\ WorkerVoicesAreStored /\ OrphansFit
      /\ may \subseteq {"list", "late", "reclone"} => RetryFinds
  BY DEF IInv
<1>2. /\ UNCHANGED <<local, bundle, ready, up, may, actor>>
      /\ orphan' = orphan \ {o}
      /\ Enrol(o.voice, o.copy) \/ Reject(o.voice)
  BY DEF OrphanEnds, session
<1>3. /\ o.voice \in Voice /\ o.copy \in Copy /\ remote \in [Voice -> Copy]
      /\ orphan' \subseteq [voice : Voice, copy : Copy]
  BY <1>1, <1>2 DEF TypeOK
<1>4. /\ remote' \in [Voice -> Copy]
      /\ \A v \in Voice : Registered(remote', v) <=>
                            \/ Registered(remote, v)
                            \/ v = o.voice /\ Enrol(o.voice, o.copy)
  <2>1. CASE Enrol(o.voice, o.copy)
    <3> DEFINE r == [remote[o.voice] EXCEPT !.text = o.copy.text,
                                            !.langs = o.copy.langs]
    <3>1. r \in Copy /\ r.text # Absent
      BY <1>1, <1>3 DEF Copy, OrphansFit
    <3>2. remote' = [remote EXCEPT ![o.voice] = r]
      BY <1>3, <2>1 DEF Enrol, Copy
    <3> HIDE DEF r
    <3> QED
      BY <1>3, <2>1, <3>1, <3>2 DEF Registered
  <2>2. CASE Reject(o.voice) /\ ~Enrol(o.voice, o.copy)
    <3> DEFINE r == [remote[o.voice] EXCEPT !.wav = Absent]
    <3>1. r \in Copy /\ r.text = remote[o.voice].text
      BY <1>3 DEF Copy, UploadOrAbsent
    <3>2. remote' = [remote EXCEPT ![o.voice] = r]
      BY <2>2 DEF Reject
    <3> HIDE DEF r
    <3> QED
      BY <1>3, <2>2, <3>1, <3>2 DEF Registered
  <2> QED
    BY <1>2, <2>1, <2>2
<1>5. TypeOK' /\ DiskWhole'
  BY <1>1, <1>2, <1>3, <1>4 DEF TypeOK, DiskWhole, Names, Registered
<1>6. (\A a \in Client \union Task : Fit(actor[a]))'
  BY <1>1, <1>2 DEF Fit, Names, Registered
<1>7. KnownIsHealed' /\ OrphansFit'
  BY <1>1, <1>2 DEF KnownIsHealed, OrphansFit, Told, Registered
<1>8. (may \subseteq {"list", "late", "reclone"} => RetryFinds)'
  <2>1. SUFFICES ASSUME may \subseteq {"list", "late", "reclone"}, NEW c \in Client,
                        actor[c].pc = "retry", actor[c].live
                 PROVE  Registered(remote', actor[c].voice)
    BY <1>2 DEF RetryFinds, Registered
  <2>2. actor[c].voice \in Voice /\ Registered(remote, actor[c].voice)
    BY <1>1, <2>1 DEF RetryFinds, TypeOK, Actor
  <2> QED
    BY <1>4, <2>2
<1>9. WorkerVoicesAreStored'
  <2>1. SUFFICES ASSUME NEW v \in Voice, Registered(remote', v),
                        may \subseteq {"list", "verify", "timeout", "reclone"}
                 PROVE  \/ Registered(local, v)
                        \/ \E c \in Client : /\ actor[c].pc = "cloned"
                                             /\ actor[c].voice = v
    BY <1>2 DEF WorkerVoicesAreStored, Registered
  <2>2. CASE Registered(remote, v)
    BY <1>1, <2>1, <2>2 DEF WorkerVoicesAreStored
  <2>3. CASE v = o.voice
    BY <1>1, <2>1, <2>3 DEF OrphansFit
  <2> QED
    BY <1>4, <2>1, <2>2, <2>3
<1> QED
  BY <1>1, <1>2, <1>5, <1>6, <1>7, <1>8, <1>9 DEF IInv

LEMMA NextIInv ==
    ASSUME IInv, [Next]_vars
    PROVE  IInv'
<1>1. CASE \/ PackBundle \/ WorkerGone \/ WorkerBoots \/ LeaveReady
           \/ \E way \in Ways : BecomeReady(way)
  BY <1>1, SessionIInv
<1>2. CASE \E o \in orphan : OrphanEnds(o)
  BY <1>2, OrphanIInv
<1>3. ASSUME NEW c \in Client,
             \/ ClientStep(c) \/ Forget(c)
             \/ \E v \in Voice, l \in Language :
                   GenerateBegin(c, v, l) \/ \E u \in Upload : CloneBegin(c, v, u, l)
      PROVE  IInv'
  <2>1. \E s : Allowed(c, s)
    BY <1>3, CloneAllowed, GenerateAllowed, RequestAllowed, CallAllowed
        DEF ClientStep, Actors
  <2> QED
    BY <2>1, AllowedIInv DEF Actors
<1>4. ASSUME NEW t \in Task, TaskStep(t)
      PROVE  IInv'
  <2>1. \E s : Allowed(t, s)
    BY <1>4, SyncAllowed, CallAllowed DEF TaskStep, Actors
  <2> QED
    BY <2>1, AllowedIInv DEF Actors
<1>5. CASE UNCHANGED vars
  <2>1. UNCHANGED <<local, remote, bundle, ready, up, may, actor, orphan>>
    BY <1>5 DEF vars, disks, session
  <2>2. TypeOK' /\ DiskWhole'
    BY <2>1 DEF IInv, TypeOK, DiskWhole, Names, Registered
  <2>3. /\ (\A a \in Client \union Task : Fit(actor[a]))'
        /\ OrphansFit'
        /\ (may \subseteq {"list", "late", "reclone"} => RetryFinds)'
    BY <2>1 DEF IInv, Fit, Names, Registered, OrphansFit, RetryFinds
  <2>4. KnownIsHealed' /\ WorkerVoicesAreStored'
    BY <2>1
        DEF IInv, KnownIsHealed, WorkerVoicesAreStored, Told,
            Registered
  <2> QED
    BY <2>2, <2>3, <2>4 DEF IInv
<1> QED
  BY <1>1, <1>2, <1>3, <1>4, <1>5 DEF Next

-----------------------------------------------------------------------------
\* The invariant that the rest follows from: what every actor carries, and what
\* it may rely on when it goes on (gateway.py, the voice proxy).
THEOREM Inductive == Spec => []IInv
<1>1. Init => IInv
  BY InitIInv
<1>2. IInv /\ [Next]_vars => IInv'
  BY NextIInv
<1> QED
  BY <1>1, <1>2, PTL DEF Spec

\* A voice of the gateway's disk is not unknown to a worker that lives.
THEOREM KnownVoicesAreHealed == Spec => []KnownIsHealed
<1>1. IInv => KnownIsHealed
  BY DEF IInv
<1> QED
  BY <1>1, Inductive, PTL

\* No voice exists on the worker alone.
THEOREM VoicesAreStored == Spec => []WorkerVoicesAreStored
<1>1. IInv => WorkerVoicesAreStored
  BY DEF IInv
<1> QED
  BY <1>1, Inductive, PTL

-----------------------------------------------------------------------------
\* What both disks hold in calm behaviours, and what speech is made from
\* (SpeechInv).  Again: what a step of actor a may do, that
\* makes its record s.
SpeaksNext(x) ==
    /\ x.pc \in ClonePc => ~Registered(local', x.voice)
    /\ x.pc \in CarryingPc \ {"retry"} => /\ x.copy.text = local'[x.voice].text
                                          /\ x.copy.wav = local'[x.voice].wav
    /\ x.live /\ x.pc \in RunningPc =>
          \/ remote'[x.voice].wav = x.copy.wav
          \/ remote'[x.voice].wav = Absent /\ "verify" \in may
    /\ x.pc = "cloned" /\ Registered(remote', x.voice) =>
          /\ remote'[x.voice].text = x.copy.text
          /\ remote'[x.voice].wav \in {Absent, x.copy.wav}
    /\ x.pc = "told" /\ x.ans = "spoken" /\ x.known =>
          /\ Registered(local', x.voice)
          /\ x.copy.text = local'[x.voice].text
          /\ x.copy.wav = local'[x.voice].wav
    /\ x.pc = "told" /\ x.ans = "created" =>
          /\ Registered(local', x.voice)
          /\ x.copy.text = local'[x.voice].text
          /\ x.copy.wav = local'[x.voice].wav
    /\ Answered(x) /\ x.live /\ "verify" \notin may =>
          /\ remote'[x.voice].text = x.copy.text
          /\ remote'[x.voice].wav = x.copy.wav

\* A clone that was answered is stored here, or its registration raised.
Stores(a) ==
    /\ actor[a].pc = "cloned" /\ UNCHANGED remote
    /\ \A w \in Voice \ {actor[a].voice} : local'[w] = local[w]
    /\ \/ local'[actor[a].voice] = actor[a].copy
       \/ ~Registered(local', actor[a].voice)

\* A clone at work on the worker: a recording comes or goes, or the entry of a
\* recording that is there is written.
Sends(a) ==
    LET v == actor[a].voice IN
    /\ actor[a].live /\ actor[a].pc \in SendingPc \union RunningPc
    /\ UNCHANGED local
    /\ \A w \in Voice \ {v} : remote'[w] = remote[w]
    /\ \/ remote'[v].wav \in {remote[v].wav, actor[a].copy.wav}
       \/ remote'[v].wav = Absent /\ "verify" \in may
    /\ \/ remote'[v].text = remote[v].text
       \/ /\ remote'[v].text = actor[a].copy.text
          /\ remote'[v].wav \in {Absent, actor[a].copy.wav}

\* What a clone that is given up is like, if it goes on.
Own(o) ==
    /\ Registered(local, o.voice) /\ AsStored(o.copy, o.voice)
    /\ remote[o.voice].wav \in {Absent, o.copy.wav}

GivenUp ==
    \/ orphan' = orphan
    \/ /\ UNCHANGED <<local, remote>>
       /\ \A o \in orphan' : o \in orphan \/ Own(o)

Effect(a, s) ==
    /\ s \in Actor /\ actor' = [actor EXCEPT ![a] = s]
    /\ UNCHANGED <<bundle, may>> /\ GivenUp
    /\ SpeaksNext(s)
    /\ s.pc \in ClonePc =>
          /\ a \notin Task
          /\ \A b \in Actors \ {a} :
                actor[b].pc \in ClonePc => actor[b].voice # s.voice
    /\ UNCHANGED <<local, remote>> \/ Stores(a) \/ Sends(a)

LEMMA EffectSpeech ==
    ASSUME IInv, SpeechInv, NEW a \in Actors, NEW s, Effect(a, s)
    PROVE  SpeechInv'
<1> USE DEF Actors
<1>1. /\ s \in Actor /\ actor' = [actor EXCEPT ![a] = s]
      /\ bundle' = bundle /\ may' = may /\ GivenUp
      /\ SpeaksNext(s)
      /\ UNCHANGED <<local, remote>> \/ Stores(a) \/ Sends(a)
  BY DEF Effect
<1>2. /\ actor \in [Actors -> Actor]
      /\ \A b \in Actors : Speaks(actor[b]) /\ Fit(actor[b])
      /\ \A v \in Voice : Registered(bundle, v) => Registered(local, v)
  BY DEF SpeechInv, IInv, TypeOK, DiskWhole, Names
<1>3. \A b \in Actors : actor'[b] = IF b = a THEN s ELSE actor[b]
  BY <1>1, <1>2
<1>4. \A b \in Actors : actor[b].voice \in Voice
  BY <1>2 DEF Actor
<1>5. ASSUME Stores(a)
      PROVE  ~Registered(local, actor[a].voice)
  BY <1>2, <1>5 DEF Stores, Speaks, ClonePc
<1>6. ASSUME Sends(a)
      PROVE  \/ /\ actor[a].pc \in ClonePc /\ actor[a].pc # "cloned"
                /\ ~Registered(local, actor[a].voice)
             \/ /\ AsStored(actor[a].copy, actor[a].voice)
                /\ Registered(local, actor[a].voice)
  BY <1>2, <1>6
      DEF Sends, Speaks, Fit, SendingPc, RunningPc, ClonePc, CarryingPc
<1>7. \A b, c \in Actors :
          /\ actor[b].pc \in ClonePc /\ actor[c].pc \in ClonePc
          /\ actor[b].voice = actor[c].voice
          => b = c
  BY DEF SpeechInv
<1>8. ASSUME NEW b \in Actors
      PROVE  Speaks(actor[b])'
  <2>1. CASE b = a
    BY <1>1, <1>3, <2>1 DEF SpeaksNext, Speaks, Answered, Registered, AsStored
  <2>2. CASE b # a
    <3>1. actor'[b] = actor[b] /\ Speaks(actor[b]) /\ Fit(actor[b])
          /\ actor[b].voice \in Voice
      BY <1>2, <1>3, <1>4, <2>2
    <3>2. CASE UNCHANGED <<local, remote>>
      BY <1>1, <3>1, <3>2 DEF Speaks, Answered, Registered, AsStored
    <3>3. CASE Stores(a)
      <4>1. CASE actor[b].voice # actor[a].voice
        BY <1>1, <3>1, <3>3, <4>1
            DEF Speaks, Answered, Registered, AsStored, Stores
      <4>2. CASE actor[b].voice = actor[a].voice
        <5>1. ~Registered(local, actor[b].voice)
          BY <1>5, <3>3, <4>2
        <5>2. actor[b].pc \notin ClonePc
          BY <1>7, <2>2, <3>3, <4>2 DEF Stores, ClonePc
        <5>3. actor[b].pc \notin CarryingPc
          BY <3>1, <5>1 DEF Fit
        <5>4. /\ ~(actor[b].pc = "told" /\ actor[b].ans = "spoken" /\ actor[b].known)
              /\ ~(actor[b].pc = "told" /\ actor[b].ans = "created")
          BY <3>1, <5>1 DEF Speaks
        <5> QED
          BY <3>1, <5>2, <5>3, <5>4
              DEF Speaks, Answered, ClonePc, CarryingPc, RunningPc
      <4> QED
        BY <4>1, <4>2
    <3>4. CASE Sends(a)
      <4>1. CASE actor[b].voice # actor[a].voice
        BY <1>1, <3>1, <3>4, <4>1
            DEF Speaks, Answered, Registered, AsStored, Sends
      <4>2. CASE actor[b].voice = actor[a].voice
        <5>1. local' = local
          BY <3>4 DEF Sends
        <5>2. CASE ~Registered(local, actor[b].voice)
          <6>1. actor[b].pc \notin ClonePc
            BY <1>6, <1>7, <2>2, <3>4, <4>2, <5>2
          <6>2. actor[b].pc \notin CarryingPc
            BY <3>1, <5>2 DEF Fit
          <6> QED
            BY <3>1, <5>1, <5>2, <6>1, <6>2
                DEF Speaks, Answered, ClonePc, CarryingPc, RunningPc, Registered,
                    AsStored
        <5>3. CASE Registered(local, actor[b].voice)
          <6>1. actor[b].pc \notin ClonePc
            BY <3>1, <5>3 DEF Speaks
          <6>2. AsStored(actor[a].copy, actor[b].voice)
            BY <1>6, <3>4, <4>2, <5>3
          <6>3. /\ \/ remote'[actor[b].voice].wav
                         \in {remote[actor[b].voice].wav, actor[a].copy.wav}
                   \/ /\ remote'[actor[b].voice].wav = Absent
                      /\ "verify" \in may
                /\ remote'[actor[b].voice].text
                      \in {remote[actor[b].voice].text, actor[a].copy.text}
            BY <3>4, <4>2 DEF Sends
          <6>4. actor[b].live /\ actor[b].pc \in RunningPc =>
                  \/ remote'[actor[b].voice].wav = actor[b].copy.wav
                  \/ remote'[actor[b].voice].wav = Absent /\ "verify" \in may
            BY <3>1, <6>1, <6>2, <6>3
                DEF Speaks, AsStored, RunningPc, ClonePc, CarryingPc
          <6>5. Answered(actor[b]) /\ actor[b].live /\ "verify" \notin may =>
                  /\ remote'[actor[b].voice].text = actor[b].copy.text
                  /\ remote'[actor[b].voice].wav = actor[b].copy.wav
            BY <3>1, <6>1, <6>2, <6>3 DEF Speaks, Answered, AsStored, ClonePc
          <6> QED
            BY <1>1, <3>1, <5>1, <6>1, <6>4, <6>5
                DEF Speaks, Answered, ClonePc, Registered, AsStored
        <5> QED
          BY <5>2, <5>3
      <4> QED
        BY <4>1, <4>2
    <3> QED
      BY <1>1, <3>2, <3>3, <3>4
  <2> QED
    BY <2>1, <2>2
<1>9. ASSUME NEW b \in Actors, NEW c \in Actors,
             actor'[b].pc \in ClonePc, actor'[c].pc \in ClonePc,
             actor'[b].voice = actor'[c].voice
      PROVE  b = c
  BY <1>3, <1>7, <1>9 DEF Effect
<1>10. ASSUME NEW v \in Voice, Registered(local', v)
       PROVE  /\ Registered(remote', v) =>
                   /\ remote'[v].text = local'[v].text
                   /\ remote'[v].wav \in {Absent, local'[v].wav}
              /\ Registered(bundle, v) => /\ bundle[v].text = local'[v].text
                                          /\ bundle[v].wav = local'[v].wav
  <2>1. Registered(local, v) =>
          /\ Registered(remote, v) => /\ remote[v].text = local[v].text
                                      /\ remote[v].wav \in {Absent, local[v].wav}
          /\ Registered(bundle, v) => AsStored(bundle[v], v)
    BY DEF SpeechInv
  <2>2. CASE UNCHANGED <<local, remote>>
    BY <1>10, <2>1, <2>2 DEF Registered, AsStored
  <2>3. CASE Stores(a)
    <3>1. CASE v # actor[a].voice
      BY <1>10, <2>1, <2>3, <3>1 DEF Stores, Registered, AsStored
    <3>2. CASE v = actor[a].voice
      <4>1. local'[v] = actor[a].copy /\ remote' = remote /\ actor[a].pc = "cloned"
        BY <1>10, <2>3, <3>2 DEF Stores
      <4>2. ~Registered(bundle, v)
        BY <1>2, <1>5, <2>3, <3>2
      <4>3. Registered(remote, v) =>
              /\ remote[v].text = actor[a].copy.text
              /\ remote[v].wav \in {Absent, actor[a].copy.wav}
        BY <1>2, <3>2, <4>1 DEF Speaks
      <4> QED
        BY <4>1, <4>2, <4>3 DEF Registered
    <3> QED
      BY <3>1, <3>2
  <2>4. CASE Sends(a)
    <3>1. local' = local /\ Registered(local, v)
      BY <1>10, <2>4 DEF Sends, Registered
    <3>2. CASE v # actor[a].voice
      BY <2>1, <2>4, <3>1, <3>2 DEF Sends, Registered, AsStored
    <3>3. CASE v = actor[a].voice
      <4>1. AsStored(actor[a].copy, v)
        BY <1>6, <2>4, <3>1, <3>3
      <4> QED
        BY <2>1, <2>4, <3>1, <3>3, <4>1 DEF Sends, Registered, AsStored
    <3> QED
      BY <3>2, <3>3
  <2> QED
    BY <1>1, <2>2, <2>3, <2>4
<1>11. \A t \in Task : actor'[t].pc \notin ClonePc
  BY <1>3 DEF Effect, SpeechInv
<1>12. ASSUME NEW o \in orphan'
       PROVE  /\ Registered(local', o.voice)
              /\ o.copy.text = local'[o.voice].text
              /\ o.copy.wav = local'[o.voice].wav
              /\ remote'[o.voice].wav \in {Absent, o.copy.wav}
  <2>1. CASE UNCHANGED <<local, remote>>
    BY <1>1, <2>1 DEF GivenUp, Own, SpeechInv, Registered, AsStored
  <2>2. CASE ~UNCHANGED <<local, remote>>
    <3>1. o \in orphan /\ o.voice \in Voice
      BY <1>1, <1>12, <2>2 DEF GivenUp, IInv, TypeOK
    <3>2. /\ Registered(local, o.voice) /\ AsStored(o.copy, o.voice)
          /\ remote[o.voice].wav \in {Absent, o.copy.wav}
      BY <3>1 DEF SpeechInv
    <3>3. CASE Stores(a)
      BY <1>5, <3>1, <3>2, <3>3 DEF Stores, Registered, AsStored
    <3>4. CASE Sends(a) /\ o.voice # actor[a].voice
      BY <3>1, <3>2, <3>4 DEF Sends, Registered, AsStored
    <3>5. CASE Sends(a) /\ o.voice = actor[a].voice
      BY <1>6, <3>1, <3>2, <3>5 DEF Sends, Registered, AsStored
    <3> QED
      BY <1>1, <2>2, <3>3, <3>4, <3>5
  <2> QED
    BY <2>1, <2>2
<1> QED
  BY <1>1, <1>8, <1>9, <1>10, <1>11, <1>12 DEF SpeechInv, Registered, AsStored

\* The disks after a call that the worker works on.
LEMMA RecordingSent ==
    ASSUME IInv, NEW a \in Actors, actor[a].live, UNCHANGED local,
           actor[a].pc \in SendingPc \union RunningPc,
           NEW w \in {Absent, actor[a].copy.wav},
           w = actor[a].copy.wav \/ "verify" \in may,
           remote' = [remote EXCEPT ![actor[a].voice].wav = w]
    PROVE  Sends(a) /\ remote'[actor[a].voice].wav = w
<1> DEFINE v == actor[a].voice
           r == [remote[v] EXCEPT !.wav = w]
<1>1. v \in Voice /\ remote \in [Voice -> Copy]
  BY AtActor DEF IInv, TypeOK
<1>2. r.wav = w /\ r.text = remote[v].text
  BY <1>1 DEF Copy
<1>3. remote' = [remote EXCEPT ![v] = r]
  OBVIOUS
<1> HIDE DEF r
<1>4. remote'[v] = r /\ \A x \in Voice \ {v} : remote'[x] = remote[x]
  BY <1>1, <1>3
<1> QED
  BY <1>2, <1>4 DEF Sends

LEMMA EntrySent ==
    ASSUME IInv, SpeechInv, NEW a \in Actors, actor[a].live, UNCHANGED local,
           actor[a].pc \in RunningPc, Enrol(actor[a].voice, actor[a].copy)
    PROVE  /\ Sends(a)
           /\ remote'[actor[a].voice].text = actor[a].copy.text
           /\ \/ remote'[actor[a].voice].wav = actor[a].copy.wav
              \/ remote'[actor[a].voice].wav = Absent /\ "verify" \in may
<1> DEFINE v == actor[a].voice
           r == [remote[v] EXCEPT !.text = actor[a].copy.text,
                                  !.langs = actor[a].copy.langs]
<1>1. v \in Voice /\ remote \in [Voice -> Copy]
  BY AtActor DEF IInv, TypeOK
<1>2. r.wav = remote[v].wav /\ r.text = actor[a].copy.text
  BY <1>1 DEF Copy
<1>3. remote' = [remote EXCEPT ![v] = r]
  BY <1>1 DEF Enrol, Copy
<1> HIDE DEF r
<1>4. remote'[v] = r /\ \A x \in Voice \ {v} : remote'[x] = remote[x]
  BY <1>1, <1>3
<1>5. \/ remote[v].wav = actor[a].copy.wav
      \/ remote[v].wav = Absent /\ "verify" \in may
  BY DEF SpeechInv, Speaks, Actors
<1> QED
  BY <1>2, <1>4, <1>5 DEF Sends

\* An actor that carries nothing afterwards and has not spoken.
LEMMA QuietEffect ==
    ASSUME NEW a \in Actors, NEW s \in Actor, actor' = [actor EXCEPT ![a] = s],
           UNCHANGED <<bundle, may>>, GivenUp,
           UNCHANGED <<local, remote>> \/ Stores(a) \/ Sends(a),
           \/ s.pc \in {"idle", "ask", "retry", "list", "listed", "next"}
           \/ s.pc = "told" /\ s.ans \notin {"spoken", "created"}
    PROVE  Effect(a, s)
BY DEF Effect, SpeaksNext, Answered, ClonePc, CarryingPc, RunningPc

LEMMA CloneEffect ==
    ASSUME IInv, SpeechInv, NEW c \in Client,
           CloneVerified(c) \/ CloneRejected(c) \/ CloneStore(c)
             \/ CloneStoreFails(c)
    PROVE  \E s : Effect(c, s)
<1> USE DEF Actors
<1>1. /\ actor[c] \in Actor /\ actor[c].voice \in Voice
      /\ actor[c].copy \in Copy /\ local[actor[c].voice] \in Copy
      /\ local \in [Voice -> Copy]
  BY AtActor DEF IInv, TypeOK
<1>2. /\ actor[c].pc \in ClonePc /\ ~Registered(local, actor[c].voice)
      /\ UNCHANGED <<bundle, may>> /\ GivenUp
  BY DEF SpeechInv, Speaks, ClonePc, CloneVerified, CloneRejected, CloneStore,
         CloneStoreFails, session, GivenUp
<1>3. CASE CloneVerified(c)
  <2>1. /\ actor[c].pc = "clone_run" /\ actor[c].live /\ UNCHANGED local
        /\ Goto(c, "cloned") /\ Enrol(actor[c].voice, actor[c].copy)
    BY <1>3 DEF CloneVerified
  <2>2. PICK s \in Actor : /\ actor' = [actor EXCEPT ![c] = s]
                           /\ Same(c, s) /\ s.pc = "cloned"
                           /\ s.copy = actor[c].copy /\ s.todo = actor[c].todo
    BY <2>1, GotoIs DEF Pcs, ClonePc
  <2>3. /\ Sends(c) /\ remote'[actor[c].voice].text = actor[c].copy.text
        /\ \/ remote'[actor[c].voice].wav = actor[c].copy.wav
           \/ remote'[actor[c].voice].wav = Absent /\ "verify" \in may
    BY <2>1, EntrySent DEF RunningPc
  <2>4. SpeaksNext(s)
    BY <1>2, <2>1, <2>2, <2>3
        DEF SpeaksNext, Answered, Same, Registered, CarryingPc, RunningPc
  <2>5. \A b \in Actors \ {c} : actor[b].pc \in ClonePc => actor[b].voice # s.voice
    BY <1>2, <2>2 DEF SpeechInv, Same
  <2> QED
    BY <1>2, <2>2, <2>3, <2>4, <2>5, ActorAssumption DEF Effect
<1>4. CASE CloneRejected(c)
  <2>1. /\ actor[c].pc = "clone_run" /\ actor[c].live /\ UNCHANGED local
        /\ Tell(c, "failed") /\ "verify" \in may
        /\ remote' = [remote EXCEPT ![actor[c].voice].wav = Absent]
    BY <1>4 DEF CloneRejected, Reject
  <2>2. PICK s \in Actor : /\ actor' = [actor EXCEPT ![c] = s]
                           /\ Same(c, s) /\ s.pc = "told" /\ s.ans = "failed"
    BY <2>1, TellIs DEF Answers
  <2>3. Sends(c)
    BY <2>1, RecordingSent DEF RunningPc
  <2> QED
    BY <1>2, <2>2, <2>3, QuietEffect
<1>5. CASE CloneStore(c)
  <2>1. /\ UNCHANGED remote /\ Tell(c, "created") /\ actor[c].pc = "cloned"
        /\ local' = [local EXCEPT ![actor[c].voice] = actor[c].copy]
    BY <1>5 DEF CloneStore
  <2>2. PICK s \in Actor : /\ actor' = [actor EXCEPT ![c] = s]
                           /\ Same(c, s) /\ s.pc = "told" /\ s.ans = "created"
                           /\ s.copy = actor[c].copy
    BY <2>1, TellIs DEF Answers
  <2>3. Stores(c) /\ local'[actor[c].voice] = actor[c].copy
    BY <1>1, <2>1 DEF Stores
  <2>4. actor[c].copy.text # Absent /\ Speaks(actor[c])
    BY <2>1, AtActor DEF Fit, ClonePc, SpeechInv
  <2>5. SpeaksNext(s)
    BY <2>1, <2>2, <2>3, <2>4
        DEF SpeaksNext, Speaks, Answered, Same, Registered, ClonePc, CarryingPc,
            RunningPc
  <2> QED
    BY <1>2, <2>2, <2>3, <2>5 DEF Effect, ClonePc
<1>6. CASE CloneStoreFails(c)
  <2> DEFINE r == [local[actor[c].voice] EXCEPT !.wav = actor[c].copy.wav]
  <2>1. /\ UNCHANGED remote /\ Tell(c, "failed") /\ actor[c].pc = "cloned"
        /\ local' = [local EXCEPT ![actor[c].voice] = r]
    BY <1>6 DEF CloneStoreFails
  <2>2. PICK s \in Actor : /\ actor' = [actor EXCEPT ![c] = s]
                           /\ Same(c, s) /\ s.pc = "told" /\ s.ans = "failed"
    BY <2>1, TellIs DEF Answers
  <2>3. r.text = Absent
    BY <1>1, <1>2 DEF Copy, Registered
  <2> HIDE DEF r
  <2>4. Stores(c)
    BY <1>1, <2>1, <2>3 DEF Stores, Registered
  <2> QED
    BY <1>2, <2>2, <2>4, QuietEffect
<1> QED
  BY <1>3, <1>4, <1>5, <1>6

LEMMA GenerateEffect ==
    ASSUME IInv, SpeechInv, NEW c \in Client,
           GenerateAsked(c) \/ HealVerified(c) \/ HealRejected(c)
             \/ GenerateRetried(c)
    PROVE  \E s : Effect(c, s)
<1> USE DEF Actors
<1>1. /\ actor[c] \in Actor /\ Fit(actor[c]) /\ actor[c].voice \in Voice
      /\ actor[c].lang \in Language /\ local[actor[c].voice] \in Copy
      /\ actor \in [Actors -> Actor]
  BY AtActor DEF IInv, TypeOK
<1>2. /\ UNCHANGED <<local, bundle, may>> /\ GivenUp
      /\ actor[c].pc \in GeneratePc
  BY DEF GenerateAsked, HealVerified, HealRejected, GenerateRetried, disks,
         session, GivenUp, GeneratePc
<1>3. CASE MustHeal(c) /\ actor[c].pc = "ask" /\ GenerateAsked(c)
           /\ actor' = [actor EXCEPT
                ![c].pc = "heal",
                ![c].copy = [local[actor[c].voice] EXCEPT
                               !.langs = {actor[c].lang}]]
  <2> DEFINE copy == [local[actor[c].voice] EXCEPT !.langs = {actor[c].lang}]
             s == [actor[c] EXCEPT !.pc = "heal", !.copy = copy]
  <2>1. UNCHANGED remote
    BY <1>3 DEF GenerateAsked, disks
  <2>2. actor' = [actor EXCEPT ![c] = s]
    BY <1>1, <1>3 DEF Actor
  <2>3. copy \in Copy /\ AsStored(copy, actor[c].voice)
    BY <1>1 DEF Copy, AsStored
  <2> HIDE DEF copy
  <2>4. s \in Actor /\ Same(c, s) /\ s.pc = "heal" /\ s.copy = copy
    BY <1>1, <2>3 DEF Actor, Same, GeneratePc
  <2> HIDE DEF s
  <2>5. SpeaksNext(s)
    BY <1>2, <2>3, <2>4
        DEF SpeaksNext, Answered, Same, ClonePc, RunningPc, AsStored
  <2> QED
    BY <1>2, <2>1, <2>2, <2>4, <2>5 DEF Effect, ClonePc
<1>4. CASE UNCHANGED remote /\ TellSpeech(c)
  <2>1. PICK s \in Actor :
           /\ actor' = [actor EXCEPT ![c] = s] /\ Same(c, s) /\ s.pc = "told"
           /\ s.ans = SpeechAnswer(actor[c].voice, actor[c].lang)
           /\ s.ans # "created"
           /\ s.ans = "spoken" => s.copy = remote[s.voice]
    BY <1>4, TellSpeechIs
  <2>2. ASSUME s.ans = "spoken", s.known
        PROVE  /\ Registered(local, s.voice) /\ AsStored(s.copy, s.voice)
    <3>1. s.voice = actor[c].voice /\ s.known = actor[c].known
          /\ s.copy = remote[s.voice]
      BY <2>1, <2>2 DEF Same
    <3>2. Registered(local, s.voice)
      BY <1>1, <1>2, <2>2, <3>1 DEF Fit
    <3>3. Registered(remote, s.voice) /\ remote[s.voice].wav # Absent
      BY <2>1, <2>2, <3>1 DEF SpeechAnswer
    <3> QED
      BY <1>1, <3>1, <3>2, <3>3 DEF SpeechInv, AsStored
  <2>3. SpeaksNext(s)
    BY <1>2, <2>1, <2>2
        DEF SpeaksNext, Answered, ClonePc, CarryingPc, RunningPc, AsStored,
            Registered
  <2> QED
    BY <1>2, <1>4, <2>1, <2>3 DEF Effect, ClonePc
<1>5. CASE HealVerified(c)
  <2>1. /\ actor[c].pc = "heal_run" /\ actor[c].live /\ Goto(c, "retry")
        /\ Enrol(actor[c].voice, actor[c].copy)
    BY <1>5 DEF HealVerified
  <2>2. PICK s \in Actor : /\ actor' = [actor EXCEPT ![c] = s]
                           /\ Same(c, s) /\ s.pc = "retry"
                           /\ s.copy = actor[c].copy /\ s.todo = actor[c].todo
    BY <2>1, GotoIs DEF Pcs, GeneratePc
  <2>3. Sends(c)
    BY <1>2, <2>1, EntrySent DEF RunningPc
  <2> QED
    BY <1>2, <2>2, <2>3, QuietEffect
<1>6. CASE HealRejected(c)
  <2>1. /\ Tell(c, "unknown") /\ actor[c].pc = "heal_run" /\ actor[c].live
        /\ "verify" \in may
        /\ remote' = [remote EXCEPT ![actor[c].voice].wav = Absent]
    BY <1>6 DEF HealRejected, Reject
  <2>2. PICK s \in Actor : /\ actor' = [actor EXCEPT ![c] = s]
                           /\ Same(c, s) /\ s.pc = "told" /\ s.ans = "unknown"
    BY <2>1, TellIs DEF Answers
  <2>3. Sends(c)
    BY <1>2, <2>1, RecordingSent DEF RunningPc
  <2> QED
    BY <1>2, <2>2, <2>3, QuietEffect
<1> QED
  BY <1>3, <1>4, <1>5, <1>6 DEF GenerateAsked, GenerateRetried, disks

LEMMA RequestEffect ==
    ASSUME IInv, SpeechInv, Calm, NEW c \in Client,
           \/ Forget(c)
           \/ \E v \in Voice, l \in Language :
                 GenerateBegin(c, v, l) \/ \E u \in Upload : CloneBegin(c, v, u, l)
    PROVE  \E s : Effect(c, s)
<1> USE DEF Actors
<1>1. /\ actor[c] \in Actor /\ actor \in [Actors -> Actor]
      /\ UNCHANGED <<local, remote, bundle, may>> /\ GivenUp
  BY AtActor DEF IInv, TypeOK, Forget, GenerateBegin, CloneBegin, disks, session,
                 GivenUp
<1>2. Nothing \in Copy
  BY DEF Nothing, Copy, UploadOrAbsent
<1>3. CASE Forget(c)
  <2> DEFINE s == [actor[c] EXCEPT !.pc = "idle", !.copy = Nothing,
                                   !.known = FALSE, !.ans = "none"]
  <2>1. actor' = [actor EXCEPT ![c] = s]
    BY <1>1, <1>3 DEF Forget, Actor
  <2>2. s \in Actor /\ s.pc = "idle"
    BY <1>1, <1>2 DEF Actor, Answers
  <2> HIDE DEF s
  <2> QED
    BY <1>1, <2>1, <2>2, QuietEffect
<1>4. ASSUME NEW v \in Voice, NEW l \in Language, GenerateBegin(c, v, l)
      PROVE  \E s : Effect(c, s)
  <2> DEFINE known == Registered(local, v)
             s == [pc |-> "ask", live |-> up, voice |-> v, lang |-> l,
                   copy |-> Nothing, todo |-> {}, known |-> known, ans |-> "none"]
  <2>1. actor' = [actor EXCEPT ![c] = s]
    BY <1>4 DEF GenerateBegin
  <2>2. known \in BOOLEAN /\ up \in BOOLEAN
    BY DEF Registered, IInv, TypeOK
  <2> HIDE DEF known
  <2>3. s \in Actor /\ s.pc = "ask"
    BY <1>2, <2>2 DEF Actor, Answers, GeneratePc
  <2> HIDE DEF s
  <2> QED
    BY <1>1, <2>1, <2>3, QuietEffect
<1>5. ASSUME NEW v \in Voice, NEW l \in Language, NEW u \in Upload,
             CloneBegin(c, v, u, l)
      PROVE  \E s : Effect(c, s)
  <2> DEFINE copy == Stored(u, {l})
             s == [pc |-> "clone", live |-> up, voice |-> v, lang |-> l,
                   copy |-> copy, todo |-> {}, known |-> FALSE, ans |-> "none"]
  <2>1. actor' = [actor EXCEPT ![c] = s]
    BY <1>5 DEF CloneBegin
  <2>2. copy \in Copy /\ up \in BOOLEAN
    BY DEF Stored, Copy, UploadOrAbsent, IInv, TypeOK
  <2> HIDE DEF copy
  <2>3. s \in Actor /\ s.pc = "clone" /\ s.voice = v
    BY <2>2 DEF Actor, Answers, ClonePc
  <2> HIDE DEF s
  <2>4. /\ ~Registered(local, v)
        /\ \A b \in Client : actor[b].pc \in ClonePc => actor[b].voice # v
    BY <1>5 DEF CloneBegin, MayClone, Calm
  <2>5. SpeaksNext(s)
    BY <1>1, <2>3, <2>4 DEF SpeaksNext, Answered, Registered, CarryingPc, RunningPc
  <2> QED
    BY <1>1, <2>1, <2>3, <2>4, <2>5, ActorAssumption DEF Effect, SpeechInv
<1> QED
  BY <1>3, <1>4, <1>5

LEMMA SyncEffect ==
    ASSUME IInv, SpeechInv, NEW t \in Task,
           SyncListed(t) \/ SyncChoose(t) \/ SyncNext(t)
             \/ SyncVerified(t) \/ SyncRejected(t) \/ SyncEnd(t)
    PROVE  \E s : Effect(t, s)
<1> USE DEF Actors
<1>1. /\ actor[t] \in Actor /\ Fit(actor[t]) /\ actor[t].todo \subseteq Voice
      /\ actor \in [Actors -> Actor] /\ local \in [Voice -> Copy]
  BY AtActor DEF IInv, TypeOK
<1>2. UNCHANGED <<local, bundle, may>> /\ GivenUp
  BY DEF SyncListed, SyncChoose, SyncNext, SyncVerified, SyncRejected, SyncEnd,
         disks, session, GivenUp
<1>3. ASSUME NEW pc \in {"listed", "next", "idle"}, NEW todo \in SUBSET Voice,
             TaskGoto(t, pc, todo), UNCHANGED <<local, remote>> \/ Sends(t)
      PROVE  \E s : Effect(t, s)
  <2>1. pc \in Pcs /\ TaskGoto(t, pc, todo)
    BY <1>3 DEF Pcs, TaskPc
  <2>2. PICK s \in Actor : /\ actor' = [actor EXCEPT ![t] = s]
                           /\ Same(t, s) /\ s.pc = pc /\ s.todo = todo
    BY <2>1, TaskGotoIs
  <2> QED
    BY <1>2, <1>3, <2>2, QuietEffect
<1>4. CASE SyncListed(t)
  <2>1. Names(remote) \in SUBSET Voice /\ UNCHANGED <<local, remote>>
    BY <1>4 DEF Names, SyncListed, disks
  <2> QED
    BY <1>3, <1>4, <2>1 DEF SyncListed
<1>5. CASE SyncChoose(t)
  <2>1. /\ Names(local) \ actor[t].todo \in SUBSET Voice
        /\ UNCHANGED <<local, remote>>
    BY <1>5 DEF Names, SyncChoose, disks
  <2> QED
    BY <1>3, <1>5, <2>1 DEF SyncChoose
<1>6. CASE SyncEnd(t)
  <2>1. UNCHANGED <<local, remote>>
    BY <1>6 DEF SyncEnd, disks
  <2> QED
    BY <1>3, <1>6, <2>1 DEF SyncEnd
<1>7. CASE SyncVerified(t)
  <2>1. Sends(t)
    BY <1>2, <1>7, EntrySent DEF SyncVerified, RunningPc
  <2> QED
    BY <1>1, <1>3, <1>7, <2>1 DEF SyncVerified
<1>8. CASE SyncRejected(t)
  <2>1. Sends(t)
    BY <1>2, <1>8, RecordingSent DEF SyncRejected, Reject, RunningPc
  <2> QED
    BY <1>1, <1>3, <1>8, <2>1 DEF SyncRejected
<1>9. CASE SyncNext(t)
  <2>1. UNCHANGED remote
    BY <1>9 DEF SyncNext, disks
  <2>2. PICK v \in actor[t].todo :
          LET rest == actor[t].todo \ {v} IN
          \/ TaskGoto(t, "next", rest)
          \/ \E l \in local[v].langs :
                   actor' = [actor EXCEPT
                     ![t].pc = "post", ![t].voice = v, ![t].todo = rest,
                     ![t].copy = [local[v] EXCEPT !.langs = {l}]]
    BY <1>9 DEF SyncNext
  <2> DEFINE rest == actor[t].todo \ {v}
  <2>3. v \in Voice /\ rest \in SUBSET Voice
    BY <1>1
  <2>4. CASE TaskGoto(t, "next", rest)
    BY <1>2, <1>3, <2>1, <2>3, <2>4
  <2>5. ASSUME NEW l \in local[v].langs,
               actor' = [actor EXCEPT
                     ![t].pc = "post", ![t].voice = v, ![t].todo = rest,
                     ![t].copy = [local[v] EXCEPT !.langs = {l}]]
        PROVE  \E s : Effect(t, s)
    <3> DEFINE copy == [local[v] EXCEPT !.langs = {l}]
               s == [actor[t] EXCEPT !.pc = "post", !.voice = v, !.todo = rest,
                                     !.copy = copy]
    <3>1. actor' = [actor EXCEPT ![t] = s]
      BY <1>1, <2>5 DEF Actor
    <3>2. copy \in Copy /\ AsStored(copy, v)
      BY <1>1, <2>3 DEF Copy, AsStored
    <3> HIDE DEF copy, rest
    <3>3. s \in Actor /\ s.pc = "post" /\ s.voice = v /\ s.copy = copy
      BY <1>1, <2>3, <3>2 DEF Actor, TaskPc
    <3> HIDE DEF s
    <3>4. SpeaksNext(s)
      BY <1>2, <3>2, <3>3 DEF SpeaksNext, Answered, ClonePc, RunningPc, AsStored
    <3> QED
      BY <1>2, <2>1, <3>1, <3>3, <3>4 DEF Effect, ClonePc
  <2> QED
    BY <2>2, <2>4, <2>5
<1> QED
  BY <1>4, <1>5, <1>6, <1>7, <1>8, <1>9

LEMMA CallEffect ==
    ASSUME IInv, SpeechInv, Calm, NEW a \in Actors,
           WorkerWrites(a) \/ Unreachable(a) \/ ListRefused(a) \/ TimeOut(a)
    PROVE  \E s : Effect(a, s)
<1>1. CASE WorkerWrites(a)
  <2>1. /\ actor[a].live /\ actor[a].pc \in SendingPc
        /\ UNCHANGED <<local, bundle, may>> /\ GivenUp
        /\ remote' = [remote EXCEPT ![actor[a].voice].wav = actor[a].copy.wav]
    BY <1>1 DEF WorkerWrites, SendingPc, session, GivenUp
  <2>2. PICK pc \in RunningPc :
           /\ Goto(a, pc)
           /\ pc = "clone_run" => actor[a].pc = "clone"
           /\ pc = "heal_run" => actor[a].pc = "heal"
           /\ pc = "post_run" => actor[a].pc = "post"
    BY <1>1 DEF WorkerWrites, RunningPc
  <2>3. PICK s \in Actor : /\ actor' = [actor EXCEPT ![a] = s]
                           /\ Same(a, s) /\ s.pc = pc
                           /\ s.copy = actor[a].copy /\ s.todo = actor[a].todo
    BY <2>2, GotoIs DEF RunningPc, Pcs, GeneratePc, ClonePc, TaskPc
  <2>4. Sends(a) /\ remote'[actor[a].voice].wav = actor[a].copy.wav
    BY <2>1, RecordingSent
  <2>5. Speaks(actor[a])
    BY DEF SpeechInv, Actors
  <2>6. SpeaksNext(s)
    <3>1. s.voice = actor[a].voice /\ s.pc # "cloned" /\ s.pc # "told"
      BY <2>3 DEF Same, RunningPc
    <3>2. s.pc \in ClonePc => actor[a].pc \in ClonePc
      BY <2>2, <2>3 DEF RunningPc, ClonePc
    <3>3. s.pc \in CarryingPc \ {"retry"} => actor[a].pc \in CarryingPc \ {"retry"}
      BY <2>2, <2>3 DEF RunningPc, CarryingPc
    <3> QED
      BY <2>1, <2>3, <2>4, <2>5, <3>1, <3>2, <3>3
          DEF SpeaksNext, Speaks, Answered, AsStored, Registered
  <2>7. s.pc \in ClonePc => actor[a].pc \in ClonePc
    BY <2>2, <2>3 DEF RunningPc, ClonePc
  <2>8. s.pc \in ClonePc => /\ a \notin Task
                            /\ \A b \in Actors \ {a} : actor[b].pc \in ClonePc =>
                                                          actor[b].voice # s.voice
    BY <2>3, <2>7 DEF SpeechInv, Same, Actors
  <2> QED
    BY <2>1, <2>3, <2>4, <2>6, <2>8 DEF Effect
<1>2. CASE Unreachable(a) \/ ListRefused(a) \/ TimeOut(a)
  <2>1. GiveUp(a) /\ UNCHANGED <<local, remote, bundle, may>>
    BY <1>2 DEF Unreachable, ListRefused, TimeOut, disks, session
  <2>2. PICK s \in Actor : /\ actor' = [actor EXCEPT ![a] = s]
                           /\ s.pc \in {"told", "idle", "next"}
                           /\ s.pc = "told" => s.ans \in {"failed", "unknown"}
    BY <2>1, GiveUpIs
  <2>3. CASE UNCHANGED orphan
    BY <2>1, <2>2, <2>3, QuietEffect DEF GivenUp
  <2>4. CASE TimeOut(a)
    <3>1. Speaks(actor[a]) /\ Fit(actor[a])
      BY AtActor DEF SpeechInv, Actors
    <3>2. ASSUME NEW o \in orphan', o \notin orphan
          PROVE  Own(o)
      <4>1. /\ actor[a].pc \in RunningPc /\ actor[a].live
            /\ o = [voice |-> actor[a].voice, copy |-> actor[a].copy]
            /\ actor[a].pc \notin ClonePc
        BY <2>4, <3>2 DEF TimeOut, Deadline, Calm
      <4> QED
        BY <3>1, <4>1
            DEF Own, Speaks, Fit, RunningPc, ClonePc, CarryingPc, AsStored
    <3>3. GivenUp
      BY <2>1, <3>2 DEF GivenUp
    <3> QED
      BY <2>1, <2>2, <3>3, QuietEffect
  <2> QED
    BY <1>2, <2>3, <2>4 DEF Unreachable, ListRefused
<1> QED
  BY <1>1, <1>2

\* The session's steps: a worker that boots has the voices of the archive, and
\* none that a client is about to store.
LEMMA SessionSpeech ==
    ASSUME IInv, SpeechInv,
           \/ PackBundle \/ WorkerGone \/ WorkerBoots \/ LeaveReady
           \/ \E way \in Ways : BecomeReady(way)
    PROVE  SpeechInv'
<1> USE DEF Actors
<1>1. /\ actor \in [Actors -> Actor]
      /\ \A a \in Actors : actor[a].voice \in Voice
      /\ \A a \in Actors : Speaks(actor[a]) /\ Fit(actor[a])
      /\ \A v \in Voice : Registered(bundle, v) => Registered(local, v)
  BY AtActor DEF IInv, TypeOK, SpeechInv, DiskWhole, Names
<1>2. CASE PackBundle \/ LeaveReady
  <2>1. /\ UNCHANGED <<local, remote, may, actor, orphan>>
        /\ bundle' \in {bundle, local}
    BY <1>2 DEF PackBundle, LeaveReady, disks, session
  <2>2. (\A a \in Actors : Speaks(actor[a]))'
    BY <1>1, <2>1 DEF Speaks, Answered, AsStored, Registered
  <2> QED
    BY <2>1, <2>2 DEF SpeechInv, AsStored, Registered
<1>3. CASE WorkerGone
  <2>1. /\ UNCHANGED <<local, bundle, may>> /\ orphan' = {}
        /\ remote' = [v \in Voice |-> Nothing]
        /\ actor' = [a \in Actors |-> [actor[a] EXCEPT !.live = FALSE]]
    BY <1>3 DEF WorkerGone
  <2>2. \A a \in Actors :
          /\ ~actor'[a].live /\ actor'[a].pc = actor[a].pc
          /\ actor'[a].voice = actor[a].voice /\ actor'[a].copy = actor[a].copy
          /\ actor'[a].known = actor[a].known /\ actor'[a].ans = actor[a].ans
    BY <1>1, <2>1 DEF Actor
  <2>3. \A v \in Voice : ~Registered(remote', v)
    BY <2>1 DEF Registered, Nothing
  <2>4. ASSUME NEW a \in Actors
        PROVE  Speaks(actor[a])'
    <3>1. ~actor'[a].live /\ ~Registered(remote', actor'[a].voice)
      BY <1>1, <2>2, <2>3
    <3>2. Speaks(actor[a]) /\ local' = local
      BY <1>1, <2>1
    <3> QED
      BY <2>2, <3>1, <3>2 DEF Speaks, Answered, AsStored, Registered
  <2> QED
    BY <2>1, <2>2, <2>3, <2>4 DEF SpeechInv, AsStored, Registered
<1>4. CASE WorkerBoots
  <2>1. UNCHANGED <<local, bundle, may, actor>> /\ ~up /\ remote' = bundle
        /\ orphan' = {}
    BY <1>4 DEF WorkerBoots, IInv, OrphansFit
  <2>2. \A a \in Actors : ~actor[a].live
    BY <1>1, <2>1 DEF Fit
  <2>3. (\A a \in Actors : Speaks(actor[a]))'
    BY <1>1, <2>1, <2>2 DEF Speaks, Answered, AsStored, Registered, ClonePc
  <2> QED
    BY <2>1, <2>3 DEF SpeechInv, AsStored, Registered
<1>5. ASSUME NEW way \in Ways, BecomeReady(way), UNCHANGED actor
      PROVE  SpeechInv'
  <2>1. UNCHANGED <<local, remote, bundle, may, actor, orphan>>
    BY <1>5 DEF BecomeReady, disks
  <2>2. (\A a \in Actors : Speaks(actor[a]))'
    BY <1>1, <2>1 DEF Speaks, Answered, AsStored, Registered
  <2> QED
    BY <2>1, <2>2 DEF SpeechInv, AsStored, Registered
<1>6. ASSUME NEW way \in Ways, BecomeReady(way), NEW t \in Task,
             actor' = [actor EXCEPT ![t].pc = "list", ![t].live = TRUE]
      PROVE  SpeechInv'
  <2> DEFINE s == [actor[t] EXCEPT !.pc = "list", !.live = TRUE]
  <2>1. UNCHANGED <<local, remote, bundle, may>> /\ GivenUp
    BY <1>6 DEF BecomeReady, disks, GivenUp
  <2>2. actor' = [actor EXCEPT ![t] = s]
    BY <1>1, <1>6 DEF Actor
  <2>3. s \in Actor /\ s.pc = "list"
    BY <1>1 DEF Actor, TaskPc
  <2> HIDE DEF s
  <2> QED
    BY <2>1, <2>2, <2>3, QuietEffect, EffectSpeech
<1> QED
  BY <1>2, <1>3, <1>4, <1>5, <1>6 DEF BecomeReady

\* A clone that goes on without its caller registers what is stored here.
LEMMA OrphanSpeech ==
    ASSUME IInv, SpeechInv, NEW o \in orphan, OrphanEnds(o)
    PROVE  SpeechInv'
<1> USE DEF Actors
<1> DEFINE v == o.voice
<1>1. /\ UNCHANGED <<local, bundle, may, actor>> /\ orphan' \subseteq orphan
      /\ Enrol(v, o.copy) \/ Reject(v)
  BY DEF OrphanEnds, session
<1>2. /\ v \in Voice /\ o.copy \in Copy /\ remote \in [Voice -> Copy]
      /\ \A x \in orphan : x.voice \in Voice
      /\ \A b \in Actors : actor[b].voice \in Voice
  BY AtActor DEF IInv, TypeOK
<1>3. /\ Registered(local, v) /\ AsStored(o.copy, v)
      /\ remote[v].wav \in {Absent, o.copy.wav}
  BY DEF SpeechInv
<1> HIDE DEF v
<1>4. /\ \A w \in Voice \ {v} : remote'[w] = remote[w]
      /\ \/ remote'[v].text = o.copy.text /\ remote'[v].wav = remote[v].wav
         \/ /\ remote'[v].text = remote[v].text
            /\ remote'[v].wav = Absent /\ "verify" \in may
  <2>1. CASE Enrol(v, o.copy)
    <3> DEFINE r == [remote[v] EXCEPT !.text = o.copy.text,
                                      !.langs = o.copy.langs]
    <3>1. r.text = o.copy.text /\ r.wav = remote[v].wav
      BY <1>2 DEF Copy
    <3>2. remote' = [remote EXCEPT ![v] = r]
      BY <1>2, <2>1 DEF Enrol, Copy
    <3> HIDE DEF r
    <3> QED
      BY <1>2, <3>1, <3>2
  <2>2. CASE Reject(v)
    <3> DEFINE r == [remote[v] EXCEPT !.wav = Absent]
    <3>1. r.text = remote[v].text /\ r.wav = Absent
      BY <1>2 DEF Copy
    <3>2. remote' = [remote EXCEPT ![v] = r] /\ "verify" \in may
      BY <2>2 DEF Reject
    <3> HIDE DEF r
    <3> QED
      BY <1>2, <3>1, <3>2
  <2> QED
    BY <1>1, <2>1, <2>2
<1>5. ASSUME NEW b \in Actors
      PROVE  Speaks(actor[b])'
  <2>1. actor'[b] = actor[b] /\ Speaks(actor[b]) /\ Fit(actor[b])
    BY <1>1 DEF SpeechInv, IInv
  <2>2. CASE actor[b].voice # v
    BY <1>1, <1>2, <1>4, <2>1, <2>2 DEF Speaks, Answered, Registered, AsStored
  <2>3. CASE actor[b].voice = v
    <3>1. actor[b].pc \notin ClonePc
      BY <1>3, <2>1, <2>3 DEF Speaks
    <3>2. actor[b].live /\ actor[b].pc \in RunningPc =>
            \/ remote'[v].wav = actor[b].copy.wav
            \/ remote'[v].wav = Absent /\ "verify" \in may
      BY <1>4, <2>1, <2>3 DEF Speaks
    <3>3. Answered(actor[b]) /\ actor[b].live /\ "verify" \notin may =>
            /\ remote'[v].text = actor[b].copy.text
            /\ remote'[v].wav = actor[b].copy.wav
      BY <1>3, <1>4, <2>1, <2>3, <3>1 DEF Speaks, Answered, AsStored, ClonePc
    <3> QED
      BY <1>1, <2>1, <2>3, <3>1, <3>2, <3>3
          DEF Speaks, Answered, Registered, AsStored, ClonePc
  <2> QED
    BY <2>2, <2>3
<1>6. ASSUME NEW x \in orphan'
      PROVE  /\ Registered(local, x.voice) /\ AsStored(x.copy, x.voice)
             /\ remote'[x.voice].wav \in {Absent, x.copy.wav}
  BY <1>1, <1>2, <1>4 DEF SpeechInv
<1>7. ASSUME NEW w \in Voice, Registered(local, w), Registered(remote', w)
      PROVE  /\ remote'[w].text = local[w].text
             /\ remote'[w].wav \in {Absent, local[w].wav}
  BY <1>3, <1>4, <1>7 DEF SpeechInv, Registered, AsStored
<1> QED
  BY <1>1, <1>5, <1>6, <1>7 DEF SpeechInv, Registered, AsStored

LEMMA InitSpeech ==
    ASSUME Init
    PROVE  SpeechInv
<1>1. PICK v \in Voice, l \in Language :
        actor = [a \in Client \union Task |-> AtRest(v, l)]
  BY DEF Init
<1>2. \A a \in Client \union Task : actor[a].pc = "idle"
  BY <1>1 DEF AtRest
<1>3. /\ \A w \in Voice : ~Registered(remote, w)
      /\ \A w \in Voice : Registered(bundle, w) => bundle[w] = local[w]
  BY DEF Init, Registered, Nothing
<1> QED
  BY <1>2, <1>3
      DEF Init, SpeechInv, Speaks, Answered, AsStored, ClonePc, CarryingPc, RunningPc

LEMMA NextSpeech ==
    ASSUME IInv, Calm => SpeechInv, [Next]_vars, Calm'
    PROVE  SpeechInv'
<1>1. Calm /\ SpeechInv
  <2>1. may' = may
    BY DEF Next, vars, session, PackBundle, WorkerGone, WorkerBoots, LeaveReady,
           BecomeReady, ClientStep, TaskStep, Forget, GenerateBegin, CloneBegin,
           OrphanEnds, CloneVerified, CloneRejected, CloneStore,
           CloneStoreFails, GenerateAsked, HealVerified, HealRejected,
           GenerateRetried, WorkerWrites, Unreachable, TimeOut, SyncListed,
           SyncChoose, SyncNext, SyncVerified, SyncRejected, SyncEnd,
           ListRefused
  <2> QED
    BY <2>1 DEF Calm
<1>2. CASE \/ PackBundle \/ WorkerGone \/ WorkerBoots \/ LeaveReady
           \/ \E way \in Ways : BecomeReady(way)
  BY <1>1, <1>2, SessionSpeech
<1>3. CASE \E o \in orphan : OrphanEnds(o)
  BY <1>1, <1>3, OrphanSpeech
<1>4. ASSUME NEW c \in Client,
             \/ ClientStep(c) \/ Forget(c)
             \/ \E v \in Voice, l \in Language :
                   GenerateBegin(c, v, l) \/ \E u \in Upload : CloneBegin(c, v, u, l)
      PROVE  SpeechInv'
  <2>1. \E s : Effect(c, s)
    BY <1>1, <1>4, CloneEffect, GenerateEffect, RequestEffect, CallEffect
        DEF ClientStep, Actors
  <2> QED
    BY <1>1, <2>1, EffectSpeech DEF Actors
<1>5. ASSUME NEW t \in Task, TaskStep(t)
      PROVE  SpeechInv'
  <2>1. \E s : Effect(t, s)
    BY <1>1, <1>5, SyncEffect, CallEffect DEF TaskStep, Actors
  <2> QED
    BY <1>1, <2>1, EffectSpeech DEF Actors
<1>6. CASE UNCHANGED vars
  <2>1. UNCHANGED <<local, remote, bundle, may, actor, orphan>>
    BY <1>6 DEF vars, disks, session
  <2>2. (\A a \in Client \union Task : Speaks(actor[a]))'
    BY <1>1, <2>1 DEF SpeechInv, Speaks, Answered, AsStored, Registered
  <2> QED
    BY <1>1, <2>1, <2>2 DEF SpeechInv, AsStored, Registered
<1> QED
  BY <1>2, <1>3, <1>4, <1>5, <1>6 DEF Next

\* In calm behaviours both disks hold a voice alike.
LEMMA CalmSpeech == Spec => [](IInv /\ (Calm => SpeechInv))
<1>1. Init => IInv /\ (Calm => SpeechInv)
  BY InitIInv, InitSpeech
<1>2. IInv /\ (Calm => SpeechInv) /\ [Next]_vars => IInv' /\ (Calm => SpeechInv)'
  BY NextIInv, NextSpeech
<1> QED
  BY <1>1, <1>2, PTL DEF Spec

\* Speech in a voice of the gateway's disk is made from what is stored there,
\* whatever archive, synchronisation, repair or clone that outlived its call
\* brought the voice to the worker.
THEOREM SpeechIsStored == Spec => []SpeaksStoredVoice
<1>1. IInv /\ (Calm => SpeechInv) => SpeaksStoredVoice
  BY DEF SpeaksStoredVoice, SpeechInv, Speaks, Told
<1> QED
  BY <1>1, CalmSpeech, PTL

\* What a client was told is created stays what it sent, here and on the worker
\* that verified it, for any number of clients, synchronisations and repairs.
THEOREM CreatedVoicesAreServed == Spec => []CreatedIsServed
<1>1. IInv /\ (Calm => SpeechInv) => CreatedIsServed
  <2>1. SUFFICES ASSUME SpeechInv, NEW c \in Client, Told(c, "created"),
                        "verify" \notin may
                 PROVE  /\ AsStored(actor[c].copy, actor[c].voice)
                        /\ actor[c].live =>
                              /\ remote[actor[c].voice].text = actor[c].copy.text
                              /\ remote[actor[c].voice].wav = actor[c].copy.wav
    BY DEF CreatedIsServed, Calm
  <2> QED
    BY <2>1 DEF SpeechInv, Speaks, Answered, Told
<1> QED
  BY <1>1, CalmSpeech, PTL
=============================================================================
