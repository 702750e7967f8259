------------------------- MODULE SecretsSyncProofs -------------------------
(***************************************************************************)
(* Proofs about the dataset of secrets: as long as nothing has gone wrong  *)
(* that the code cannot notice (Trusted), a kernel finds the secrets and   *)
(* the code of the run that pushed it.  The types are proved action by     *)
(* action; the rest rests on a description of what a run's step can do.    *)
(***************************************************************************)
EXTENDS SecretsSync, TLAPS

LEMMA InitIInv ==
    ASSUME Init
    PROVE  IInv
<1> USE BoundAssumption DEF Init
<1>1. AtRest \in Run /\ 0 \in Version
  BY DEF AtRest, Run, Version
<1>2. store \in [Account -> Content \union {None}]
  BY <1>1 DEF Content
<1>3. TypeOK
  BY <1>1, <1>2, TroubleAssumption DEF TypeOK
<1>6. Waited
  BY DEF Waited, Active, Idle, Exists, AtRest
<1>4. \A r \in Runner : Idle(r) /\ run[r].pc = "idle"
  BY DEF AtRest, Idle
<1>5. HashTaken /\ Alike /\ CacheHonest /\ SecretsKept /\ CodeKept
  BY <1>1, <1>4
      DEF HashTaken, Alike, CacheHonest, SecretsKept, CodeKept, Active, Version
<1> QED
  BY <1>3, <1>5, <1>6 DEF IInv

\* What the user changes keeps the types.
LEMMA UserTypes ==
    ASSUME TypeOK, EditSecrets \/ SwitchAccount \/ EditCode
    PROVE  TypeOK'
<1> USE BoundAssumption DEF TypeOK, local, kaggle
<1>1. CASE EditSecrets
  BY <1>1 DEF EditSecrets, Env
<1>2. CASE SwitchAccount
  BY <1>2 DEF SwitchAccount, Env
<1>3. CASE EditCode
  BY <1>3 DEF EditCode, Version
<1> QED
  BY <1>1, <1>2, <1>3

-----------------------------------------------------------------------------
\* What a step of run r can do, when it makes its record s.
Same(r, s) ==
    /\ s.hash = run[r].hash /\ s.cached = run[r].cached
    /\ s.account = run[r].account /\ s.tree = run[r].tree

Ends(r, s) ==
    s = AtRest /\ run[r].pc # "record" /\ UNCHANGED <<cache, store>>

Moves(r, s) ==
    /\ Same(r, s) /\ run[r].pc # "record" /\ UNCHANGED <<cache, store>>
    /\ \/ s.pc \in {"list", "stage"}
       \/ s.pc = "push" /\ run[r].cached = run[r].hash
       \/ s.pc \in {"ready", "record"} /\ run[r].pc = "ready"

Stages(r, s) ==
    /\ Same(r, s) /\ run[r].pc # "record" /\ UNCHANGED <<cache, store>>
    /\ s.pc = "upload"
    /\ s.staged \in Content /\ s.staged.secrets = run[r].hash.secrets
    /\ s.staged.tree = code.tree \/ "bundle" \in may

Uploads(r, s) ==
    /\ Same(r, s) /\ cache' = cache
    /\ run[r].pc = "upload"
    /\ s.pc = "record" \/ (s.pc = "ready" /\ ~Exists(run[r].account))
    /\ Upload(r)

GivesUp(r, s) == "timeout" \in may /\ s = AtRest /\ Upload(r) /\ cache' = cache

Records(r, s) ==
    /\ Same(r, s) /\ store' = store
    /\ run[r].pc = "record" /\ s.pc = "push"
    /\ cache' = run[r].hash \/ ("cache" \in may /\ cache' = cache)

\* An upload that failed, taken for one that was made.
Misses(r, s) ==
    /\ "unheard" \in may /\ Same(r, s) /\ UNCHANGED <<cache, store>>
    /\ run[r].pc = "upload" /\ s.pc \in {"ready", "record"}

Shape(r, s) ==
    /\ s \in Run
    /\ run' = [run EXCEPT ![r] = s]
    /\ run[r].pc # "idle"
    /\ Ends(r, s) \/ Moves(r, s) \/ Stages(r, s) \/ Uploads(r, s)
       \/ GivesUp(r, s) \/ Records(r, s) \/ Misses(r, s)

\* A run that goes on to another pc keeps the rest.
LEMMA GotoShape ==
    ASSUME TypeOK, NEW r \in Runner,
           NEW pc \in {"list", "stage", "push", "ready", "record"},
           Goto(r, pc)
    PROVE  \E s \in Run : /\ run' = [run EXCEPT ![r] = s]
                          /\ Same(r, s) /\ s.pc = pc
<1> DEFINE s == [run[r] EXCEPT !.pc = pc]
<1>1. run[r] \in Run
  BY DEF TypeOK
<1>2. s \in Run /\ Same(r, s) /\ s.pc = pc
  BY <1>1 DEF Run, Same
<1>3. run' = [run EXCEPT ![r] = s]
  BY DEF Goto
<1> QED
  BY <1>2, <1>3

\* So does a run that has learned whether the dataset is there.
LEMMA KnownShape ==
    ASSUME TypeOK, NEW r \in Runner, NEW exists \in BOOLEAN, Known(r, exists)
    PROVE  \E s \in Run : /\ run' = [run EXCEPT ![r] = s] /\ Same(r, s)
                          /\ \/ s.pc = "stage"
                             \/ s.pc = "push" /\ run[r].cached = run[r].hash
<1> DEFINE pc == IF UpToDate(r, exists) THEN "push" ELSE "stage"
           s == [run[r] EXCEPT !.exists = exists, !.pc = pc]
<1>1. run[r] \in Run /\ run \in [Runner -> Run]
  BY DEF TypeOK
<1>2. s \in Run /\ Same(r, s) /\ s.pc = pc
  BY <1>1 DEF Run, Same
<1>3. run' = [run EXCEPT ![r] = s]
  BY <1>1 DEF Known, Run
<1>4. pc = "stage" \/ (pc = "push" /\ run[r].cached = run[r].hash)
  <2>1. CASE UpToDate(r, exists)
    BY <2>1 DEF UpToDate
  <2>2. CASE ~UpToDate(r, exists)
    BY <2>2
  <2> QED
    BY <2>1, <2>2
<1> QED
  BY <1>2, <1>3, <1>4

\* Every step of a run has that shape.
LEMMA StepShape ==
    ASSUME TypeOK, HashTaken, NEW r \in Runner, RunStep(r)
    PROVE  /\ UNCHANGED <<local, may>>
           /\ \E s \in Run : Shape(r, s)
<1>1. run[r] \in Run /\ AtRest \in Run /\ run \in [Runner -> Run]
  BY BoundAssumption DEF TypeOK, AtRest, Run, Version
<1>2. CASE StatusAnswered(r)
  <2>1. UNCHANGED <<local, cache, kaggle, may>> /\ run[r].pc = "status"
    BY <1>2 DEF StatusAnswered
  <2>2. CASE Goto(r, "list")
    BY <2>1, <2>2, GotoShape DEF Shape, Moves, kaggle
  <2>3. CASE \E exists \in BOOLEAN : Known(r, exists)
    BY <2>1, <2>3, KnownShape DEF Shape, Moves, kaggle
  <2> QED
    BY <1>2, <2>2, <2>3 DEF StatusAnswered
<1>3. CASE ListAnswered(r)
  <2>1. UNCHANGED <<local, cache, kaggle, may>> /\ run[r].pc = "list"
    BY <1>3 DEF ListAnswered
  <2>2. \E exists \in BOOLEAN : Known(r, exists)
    BY <1>3 DEF ListAnswered
  <2> QED
    BY <2>1, <2>2, KnownShape DEF Shape, Moves, kaggle
<1>4. CASE CallFails(r) \/ Push(r)
  BY <1>1, <1>4 DEF CallFails, Push, Fail, Shape, Ends, kaggle
<1>5. CASE Stage(r)
  <2>1. PICK tree \in {code.tree, NoCode} :
          /\ tree = NoCode => "bundle" \in may
          /\ run' = [run EXCEPT ![r].pc = "upload",
                     ![r].staged = [secrets |-> run[r].hash.secrets, tree |-> tree]]
    BY <1>5 DEF Stage
  <2> DEFINE staged == [secrets |-> run[r].hash.secrets, tree |-> tree]
             s == [run[r] EXCEPT !.pc = "upload", !.staged = staged]
  <2>2. run[r].pc = "stage" /\ UNCHANGED <<local, cache, kaggle, may>>
    BY <1>5 DEF Stage
  <2>3. run[r].hash \in Hash
    BY <1>1, <2>2 DEF HashTaken, Active, Idle, Run
  <2>4. tree \in Version \union {NoCode}
    BY DEF TypeOK
  <2>5. staged \in Content /\ staged.secrets = run[r].hash.secrets
        /\ staged.tree = tree
    BY <2>3, <2>4 DEF Hash, Content
  <2>6. run' = [run EXCEPT ![r] = s]
    BY <1>1, <2>1 DEF Run
  <2> HIDE DEF staged
  <2>7. s \in Run /\ Same(r, s) /\ s.pc = "upload" /\ s.staged = staged
    BY <1>1, <2>5 DEF Run, Same
  <2> QED
    BY <2>1, <2>2, <2>5, <2>6, <2>7 DEF Shape, Stages, kaggle
<1>6. CASE Create(r) \/ NewVersion(r)
  <2>1. /\ run[r].pc = "upload" /\ Upload(r)
        /\ UNCHANGED <<local, cache, may>>
        /\ \/ Goto(r, "ready") /\ ~Exists(run[r].account)
           \/ Goto(r, "record")
    BY <1>6 DEF Create, NewVersion, Accepted, Uploaded
  <2> QED
    BY <2>1, GotoShape DEF Shape, Uploads
<1>10. CASE FailsUnheard(r)
  <2>1. /\ run[r].pc = "upload" /\ UNCHANGED <<local, cache, kaggle, may>>
        /\ Goto(r, "ready") \/ Goto(r, "record")
    BY <1>10 DEF FailsUnheard, Uploaded
  <2>2. "unheard" \in may
    BY <1>10 DEF FailsUnheard
  <2> QED
    BY <2>1, <2>2, GotoShape DEF Shape, Misses, kaggle
<1>7. CASE UploadTimesOut(r)
  BY <1>1, <1>7 DEF UploadTimesOut, Fail, Shape, GivesUp
<1>8. CASE PollReady(r)
  <2>1. run[r].pc = "ready" /\ UNCHANGED <<local, cache, kaggle, may>>
    BY <1>8 DEF PollReady
  <2>2. CASE Goto(r, "record")
    BY <2>1, <2>2, GotoShape DEF Shape, Moves, kaggle
  <2>3. CASE /\ run[r].polls + 1 < MaxPolls
             /\ run' = [run EXCEPT ![r].polls = @ + 1]
    <3> DEFINE s == [run[r] EXCEPT !.polls = @ + 1]
    <3>1. run[r].polls + 1 \in 0..MaxPolls
      BY <1>1, <2>3, BoundAssumption DEF Run
    <3>2. s \in Run /\ Same(r, s) /\ s.pc = "ready"
      BY <1>1, <2>1, <3>1 DEF Run, Same
    <3>3. run' = [run EXCEPT ![r] = s]
      BY <2>3
    <3> QED
      BY <2>1, <3>2, <3>3 DEF Shape, Moves, kaggle
  <2>4. CASE Fail(r)
    BY <1>1, <2>1, <2>4 DEF Fail, Shape, Ends, kaggle
  <2> QED
    BY <1>8, <2>2, <2>3, <2>4 DEF PollReady
<1>9. CASE Record(r)
  <2>1. /\ run[r].pc = "record" /\ Goto(r, "push")
        /\ UNCHANGED <<local, kaggle, may>>
        /\ cache' = run[r].hash \/ ("cache" \in may /\ cache' = cache)
    BY <1>9 DEF Record
  <2>2. PICK s \in Run : /\ run' = [run EXCEPT ![r] = s]
                         /\ Same(r, s) /\ s.pc = "push"
    BY <2>1, GotoShape
  <2>3. Records(r, s)
    BY <2>1, <2>2 DEF Records, kaggle
  <2> QED
    BY <2>1, <2>2, <2>3 DEF Shape
<1> QED
  BY <1>2, <1>3, <1>4, <1>5, <1>6, <1>7, <1>8, <1>9, <1>10 DEF RunStep

LEMMA StepTypes ==
    ASSUME TypeOK, HashTaken, NEW r \in Runner, RunStep(r)
    PROVE  TypeOK' /\ HashTaken'
<1>1. UNCHANGED <<local, may>>
  BY StepShape
<1>2. PICK s \in Run : Shape(r, s)
  BY StepShape
<1>3. run' = [run EXCEPT ![r] = s] /\ run \in [Runner -> Run]
  BY <1>2 DEF Shape, TypeOK
<1>4. run' \in [Runner -> Run]
  BY <1>3
<1>5. run[r].hash \in Hash /\ run[r].staged \in Content \union {None}
  BY <1>2, <1>3 DEF Shape, HashTaken, Active, Idle, Run
<1>6. store' \in [Account -> Content \union {None}]
  BY <1>2, <1>5
      DEF TypeOK, Shape, Ends, Moves, Stages, Uploads, GivesUp, Records, Misses,
          Upload
<1>7. cache' \in Hash \union {None}
  BY <1>2, <1>5
      DEF TypeOK, Shape, Ends, Moves, Stages, Uploads, GivesUp, Records, Misses
<1>8. s = AtRest \/ (s.hash = run[r].hash /\ s.account = run[r].account)
  BY <1>2 DEF Shape, Ends, Moves, Stages, Uploads, GivesUp, Records, Misses, Same
<1>11. Active(r)
  BY <1>2 DEF Shape, Active, Idle
<1>9. HashTaken'
  BY <1>3, <1>8, <1>11 DEF HashTaken, Active, Idle, AtRest
<1>10. ready' \subseteq Account
  BY DEF RunStep, StatusAnswered, ListAnswered, CallFails, Stage, Create,
         NewVersion, FailsUnheard, UploadTimesOut, PollReady, Record, Push,
         Upload, kaggle, TypeOK
<1> QED
  BY <1>1, <1>4, <1>6, <1>7, <1>9, <1>10 DEF TypeOK, local

LEMMA BeginTypes ==
    ASSUME TypeOK, HashTaken, NEW r \in Runner, Begin(r)
    PROVE  TypeOK' /\ HashTaken'
<1> DEFINE s == [AtRest EXCEPT !.pc = "status", !.account = env.account,
                               !.hash = HashNow, !.cached = cache,
                               !.tree = code.tree]
<1>1. UNCHANGED <<local, cache, kaggle, may>> /\ run' = [run EXCEPT ![r] = s]
  BY DEF Begin
<1>2. HashNow \in Hash /\ HashNow # None
  BY NoneAssumption DEF HashNow, Hash, TypeOK, Env
<1>3. AtRest \in Run
  BY BoundAssumption DEF AtRest, Run, Version
<1>4. s \in Run /\ s.hash = HashNow
  BY <1>2, <1>3 DEF TypeOK, Run, Env
<1>6. s.account # None
  BY <1>3, NoneAssumption DEF TypeOK, Env
<1> HIDE DEF s
<1>5. HashTaken'
  BY <1>1, <1>2, <1>4, <1>6 DEF TypeOK, HashTaken, Active, Idle
<1> QED
  BY <1>1, <1>4, <1>5 DEF TypeOK, local, kaggle

-----------------------------------------------------------------------------
\* The invariant where the hash file can be trusted.
Kept ==
    /\ Alike /\ CacheHonest /\ SecretsKept
    /\ may \intersect {"bundle", "silent"} = {} => CodeKept

\* Runs under way together have the same hash and the same code.
LEMMA AlikeRuns ==
    ASSUME Alike, NEW r \in Runner, NEW q \in Runner, Active(r), Active(q)
    PROVE  run[q].hash = run[r].hash /\ run[q].tree = run[r].tree
BY DEF Alike

\* Changes by the user: none while runs overlap, and every one that the hash
\* does not cover is excluded.
LEMMA UserKept ==
    ASSUME TypeOK, Trusted, Kept, EditSecrets \/ SwitchAccount \/ EditCode
    PROVE  Kept'
<1>1. "account" \notin may
  BY DEF Trusted, Harmless
<1>2. UNCHANGED <<cache, store, run, may>> /\ MayEdit
  BY DEF EditSecrets, SwitchAccount, EditCode, kaggle
<1>3. env'.account = env.account
  BY <1>1 DEF EditSecrets, SwitchAccount, EditCode, TypeOK, Env
<1>4. Alike'
  BY <1>2, <1>3 DEF Kept, Alike, MayEdit, Active, Idle
<1>5. CacheHonest' /\ SecretsKept'
  BY <1>2, <1>3
      DEF Kept, CacheHonest, SecretsKept, Found, Mine, Active, Idle
<1>6. ASSUME CodeKept, "silent" \notin may
      PROVE  CodeKept'
  <2>1. code'.marker = code'.tree /\ code'.tree \in Int /\ code.tree \in Int
        /\ code.tree <= code'.tree
    BY <1>6 DEF EditSecrets, SwitchAccount, EditCode, TypeOK, Version, CodeKept
  <2>2. cache # None => cache.marker \in Int
    BY DEF TypeOK, Hash, Version
  <2>3. \A q \in Runner : run[q].tree \in Int
    BY DEF TypeOK, Run, Version
  <2> QED
    BY <1>2, <1>3, <1>6, <2>1, <2>2, <2>3 DEF CodeKept, Mine, Active, Idle
<1> QED
  BY <1>2, <1>4, <1>5, <1>6 DEF Kept

\* A run that begins finds what the hash file tells it.
LEMMA BeginKept ==
    ASSUME TypeOK, Trusted, Kept, NEW r \in Runner, Begin(r)
    PROVE  Kept'
<1> DEFINE s == [AtRest EXCEPT !.pc = "status", !.account = env.account,
                               !.hash = HashNow, !.cached = cache,
                               !.tree = code.tree]
<1>1. UNCHANGED <<local, cache, store, may>> /\ run' = [run EXCEPT ![r] = s]
  BY DEF Begin, kaggle
<1>2. /\ s.pc = "status" /\ s.account = env.account /\ s.hash = HashNow
      /\ s.cached = cache /\ s.tree = code.tree
  BY DEF AtRest
<1> HIDE DEF s
<1>3. \A q \in Runner : run'[q] = IF q = r THEN s ELSE run[q]
  BY <1>1 DEF TypeOK
<1>4. "midway" \in may => \A q \in Runner : ~Active(q)
  BY DEF Trusted, Harmless, Begin, Active
<1>5. Alike'
  BY <1>1, <1>2, <1>3, <1>4
      DEF Kept, Alike, Active, Idle, HashNow, local
<1>6. CacheHonest'
  BY <1>1, <1>2, <1>3, Idle(r) DEF Kept, CacheHonest, Mine, local, Begin, Idle
<1>7. cache = HashNow => Mine # None /\ Mine.secrets = HashNow.secrets
  <2>1. HashNow # None
    BY NoneAssumption DEF HashNow, Hash, TypeOK, Env
  <2>2. \A q \in Runner : run[q].pc = "record" => run[q].hash = HashNow
    BY <1>4 DEF Kept, Alike, Active, Idle
  <2> QED
    BY <2>1, <2>2 DEF Kept, CacheHonest
<1>8. SecretsKept'
  BY <1>1, <1>2, <1>3, <1>7
      DEF Kept, SecretsKept, Found, Mine, Active, Idle, local
<1>9. ASSUME CodeKept
      PROVE  CodeKept'
  <2>1. HashNow # None /\ HashNow.marker = code.marker
    BY NoneAssumption DEF HashNow, Hash, TypeOK, Env
  <2>2. code.tree \in Int
    BY DEF TypeOK, Version
  <2> QED
    BY <1>1, <1>2, <1>3, <1>9, <2>1, <2>2
        DEF CodeKept, Mine, Active, Idle, local
<1> QED
  BY <1>1, <1>5, <1>6, <1>8, <1>9 DEF Kept

\* A run that makes a step: the dataset changes in an upload alone, and then to
\* what every run under way is to find; the hash file only after that.
LEMMA StepKept ==
    ASSUME TypeOK, HashTaken, Trusted, Kept, NEW r \in Runner, RunStep(r)
    PROVE  Kept'
<1>1. UNCHANGED <<local, may>>
  BY StepShape
<1>2. PICK s \in Run : Shape(r, s)
  BY StepShape
<1>3. \A q \in Runner : run'[q] = IF q = r THEN s ELSE run[q]
  BY <1>2 DEF Shape, TypeOK
<1>4. Active(r) /\ ~GivesUp(r, s) /\ ~Misses(r, s) /\ "cache" \notin may
  BY <1>2 DEF Shape, Active, Idle, GivesUp, Misses, Trusted, Harmless
<1>5. run[r].account = env.account /\ env.account \in Account
  BY <1>4 DEF Kept, Alike, TypeOK, Env
<1>6. \A q \in Runner : Active(q) => /\ run[q].hash = run[r].hash
                                     /\ run[q].tree = run[r].tree
  BY <1>4, AlikeRuns DEF Kept
<1>7. s = AtRest \/ Same(r, s)
  BY <1>2, <1>4 DEF Shape, Ends, Moves, Stages, Uploads, GivesUp, Records
<1>8. Alike'
  BY <1>1, <1>3, <1>4, <1>7
      DEF Kept, Alike, Same, Active, Idle, AtRest, HashNow, local
<1>9. CASE Ends(r, s)
  <2>1. CacheHonest'
    BY <1>1, <1>3, <1>9 DEF Kept, CacheHonest, Mine, Ends, local
  <2>2. SecretsKept'
    BY <1>1, <1>3, <1>9
        DEF Kept, SecretsKept, Found, Mine, Active, Idle, Ends, AtRest, local
  <2>3. CodeKept => CodeKept'
    BY <1>1, <1>3, <1>9 DEF CodeKept, Mine, Active, Idle, Ends, AtRest, local
  <2> QED
    BY <1>1, <1>8, <2>1, <2>2, <2>3 DEF Kept
<1>10. CASE Moves(r, s)
  <2>1. CacheHonest'
    BY <1>1, <1>3, <1>10 DEF Kept, CacheHonest, Mine, Moves, local
  <2>2. SecretsKept'
    BY <1>1, <1>3, <1>4, <1>10
        DEF Kept, SecretsKept, Found, Mine, Active, Idle, Moves, Same, local
  <2>3. CodeKept => CodeKept'
    BY <1>1, <1>3, <1>4, <1>10
        DEF CodeKept, Mine, Active, Idle, Moves, Same, local
  <2> QED
    BY <1>1, <1>8, <2>1, <2>2, <2>3 DEF Kept
<1>11. CASE Stages(r, s)
  <2>1. CacheHonest'
    BY <1>1, <1>3, <1>11 DEF Kept, CacheHonest, Mine, Stages, local
  <2>2. s.staged # None
    BY <1>11, NoneAssumption DEF Stages
  <2>3. SecretsKept'
    BY <1>1, <1>3, <1>4, <1>11, <2>2
        DEF Kept, SecretsKept, Found, Mine, Active, Idle, Stages, Same, local
  <2>4. "bundle" \notin may /\ CodeKept => CodeKept'
    BY <1>1, <1>3, <1>4, <1>11
        DEF CodeKept, Mine, Active, Idle, Stages, Same, local
  <2> QED
    BY <1>1, <1>8, <2>1, <2>3, <2>4 DEF Kept
<1>12. CASE Uploads(r, s)
  <2>1. Mine' = run[r].staged /\ cache' = cache
    BY <1>1, <1>5, <1>12 DEF Uploads, Upload, Mine, TypeOK, local
  <2>2. run[r].staged # None /\ run[r].staged.secrets = run[r].hash.secrets
    BY <1>12 DEF Uploads, Kept, SecretsKept
  <2>3. s.hash = run[r].hash
    BY <1>12 DEF Uploads, Same
  <2>4. CacheHonest'
    <3>1. CASE s.pc = "record"
      BY <1>3, <2>1, <2>2, <2>3, <3>1 DEF CacheHonest
    <3>2. CASE ~Exists(run[r].account)
      BY <1>5, <2>1, <3>2 DEF Kept, CacheHonest, Exists, Mine
    <3> QED
      BY <1>12, <3>1, <3>2 DEF Uploads
  <2>5. SecretsKept'
    BY <1>3, <1>4, <1>6, <1>12, <2>1, <2>2
        DEF Kept, SecretsKept, Found, Active, Idle, Uploads, Same
  <2>6. CodeKept => CodeKept'
    <3>1. SUFFICES ASSUME CodeKept
                   PROVE  CodeKept'
      OBVIOUS
    <3>2. run[r].staged.tree >= run[r].tree
          /\ (cache # None => cache.marker <= run[r].tree)
      BY <1>4, <1>12, <3>1 DEF CodeKept, Uploads
    <3>3. run[r].staged \in Content /\ run[r].tree \in Int
      BY <2>2 DEF TypeOK, Run, Version
    <3>4. run[r].staged.tree \in Int
      BY <3>3 DEF Content, Version, NoCode
    <3>5. cache # None => cache.marker \in Int
      BY DEF TypeOK, Hash, Version
    <3>6. cache # None => run[r].staged.tree >= cache.marker
      BY <3>2, <3>3, <3>4, <3>5
    <3>7. \A q \in Runner : Active(q)' => Active(q) /\ run'[q].tree = run[r].tree
      BY <1>3, <1>4, <1>6, <1>12 DEF Active, Idle, Uploads, Same
    <3> QED
      BY <1>1, <1>3, <1>4, <1>6, <1>12, <2>1, <3>1, <3>2, <3>6, <3>7
          DEF CodeKept, Active, Idle, Uploads, Same, local
  <2> QED
    BY <1>1, <1>8, <2>4, <2>5, <2>6 DEF Kept
<1>13. CASE Records(r, s)
  <2>1. cache' = run[r].hash /\ Mine' = Mine /\ Found(r)
    BY <1>1, <1>4, <1>13 DEF Records, Mine, local, Kept, SecretsKept
  <2>2. CacheHonest'
    BY <2>1 DEF CacheHonest, Found
  <2>3. SecretsKept'
    BY <1>3, <1>4, <1>13, <2>1
        DEF Kept, SecretsKept, Found, Active, Idle, Records, Same
  <2>4. CodeKept => CodeKept'
    <3>1. SUFFICES ASSUME CodeKept
                   PROVE  CodeKept'
      OBVIOUS
    <3>2. /\ run[r].hash.marker = run[r].tree /\ run[r].tree <= code.tree
          /\ Mine.tree >= run[r].tree /\ run[r].tree \in Int
      BY <1>4, <1>13, <3>1 DEF CodeKept, Records, TypeOK, Run, Version
    <3>3. \A q \in Runner : Active(q)' => Active(q) /\ run'[q].tree = run[r].tree
      BY <1>3, <1>4, <1>6, <1>13 DEF Active, Idle, Records, Same
    <3> QED
      BY <1>1, <1>3, <1>4, <1>13, <2>1, <3>1, <3>2, <3>3
          DEF CodeKept, Active, Idle, Records, Same, local
  <2> QED
    BY <1>1, <1>8, <2>2, <2>3, <2>4 DEF Kept
<1> QED
  BY <1>2, <1>4, <1>9, <1>10, <1>11, <1>12, <1>13 DEF Shape

-----------------------------------------------------------------------------
\* A dataset that is not ready is waited for: a run under way.
LEMMA StepWaited ==
    ASSUME TypeOK, HashTaken, Waited, NEW r \in Runner, RunStep(r)
    PROVE  Waited'
<1>1. may' = may
  BY StepShape
<1>2. PICK s \in Run : Shape(r, s)
  BY StepShape
<1>3. /\ \A q \in Runner : run'[q] = IF q = r THEN s ELSE run[q]
      /\ Active(r) /\ run[r] \in Run
  BY <1>2 DEF Shape, TypeOK, Active, Idle
<1>4. \A q \in Runner : Active(q)' => Active(q)
  BY <1>3 DEF Active, Idle
<1>5. ASSUME Prompt, NEW a \in Account, Exists(a)', a \notin ready'
      PROVE  run'[r].pc = "ready" /\ run'[r].account = a
  <2>1. \A q \in Runner : Active(q) => q = r
    BY <1>3, <1>5 DEF Waited, Prompt
  <2>2. Exists(a) /\ a \notin ready => run[r].pc = "ready" /\ run[r].account = a
    BY <1>5, <2>1 DEF Waited, Active, Idle
  <2>3. "slow" \notin may /\ "hang" \notin may /\ "timeout" \notin may
    BY <1>5 DEF Prompt
  <2>4. CASE Create(r) \/ NewVersion(r)
    <3>1. ready' = ready /\ run[r].pc = "upload"
      BY <2>3, <2>4 DEF Create, NewVersion, Upload
    <3>2. ~Exists(a)
      BY <1>5, <2>2, <3>1
    <3>3. a = run[r].account
      BY <1>5, <2>4, <3>2 DEF Create, NewVersion, Upload, Exists, TypeOK
    <3>4. Goto(r, "ready")
      BY <2>4, <3>2, <3>3 DEF Create, NewVersion, Accepted, Uploaded
    <3>5. run' = [run EXCEPT ![r].pc = "ready"]
      BY <3>4 DEF Goto
    <3> QED
      BY <1>3, <3>3, <3>5 DEF TypeOK, Run
  <2>5. CASE PollReady(r)
    <3>1. run[r].pc = "ready" /\ run[r].account = a
      BY <1>5, <2>2, <2>5 DEF PollReady, kaggle, Exists
    <3>2. run' = [run EXCEPT ![r].polls = @ + 1]
      BY <1>5, <2>2, <2>3, <2>5, <3>1 DEF PollReady, LastPoll, kaggle, Exists
    <3> QED
      BY <1>3, <3>1, <3>2 DEF TypeOK, Run
  <2>6. CASE /\ UNCHANGED kaggle
             /\ run[r].pc # "ready"
    BY <1>5, <2>2, <2>6 DEF kaggle, Exists
  <2> QED
    BY <2>3, <2>4, <2>5, <2>6
        DEF RunStep, StatusAnswered, ListAnswered, CallFails, Stage,
            FailsUnheard, UploadTimesOut, Record, Push
<1>6. Prompt' <=> Prompt
  BY <1>1 DEF Prompt
<1> QED
  BY <1>1, <1>4, <1>5, <1>6 DEF Waited

LEMMA BeginWaited ==
    ASSUME TypeOK, Waited, NEW r \in Runner, Begin(r)
    PROVE  Waited'
<1>1. UNCHANGED <<store, ready, may>> /\ \A q \in Runner \ {r} : run'[q] = run[q]
  BY DEF Begin, kaggle, TypeOK
<1>2. "overlap" \notin may => \A q \in Runner : Idle(q)
  BY DEF Begin
<1>3. "overlap" \notin may => \A q \in Runner : Active(q)' => q = r
  BY <1>1, <1>2 DEF Active, Idle
<1>4. Prompt => \A a \in Account : Exists(a) => a \in ready
  BY <1>2 DEF Waited, Idle, Prompt
<1> QED
  BY <1>1, <1>3, <1>4 DEF Waited, Prompt, Exists

LEMMA NextIInv ==
    ASSUME IInv, [Next]_vars
    PROVE  IInv'
<1>1. TypeOK /\ HashTaken /\ Waited /\ (Trusted => Kept)
  BY DEF IInv, Kept
<1>2. may' = may
  BY <1>1, StepShape
      DEF Next, vars, EditSecrets, SwitchAccount, EditCode, Begin, DatasetReady
<1>3. CASE EditSecrets \/ SwitchAccount \/ EditCode
  <2>1. TypeOK' /\ HashTaken'
    BY <1>1, <1>3, UserTypes
        DEF EditSecrets, SwitchAccount, EditCode, HashTaken, Active, Idle
  <2>2. Waited'
    BY <1>1, <1>3 DEF Waited, Prompt, Exists, EditSecrets, SwitchAccount,
                      EditCode, kaggle, Active, Idle
  <2> QED
    BY <1>1, <1>2, <1>3, <2>1, <2>2, UserKept DEF IInv, Kept, Trusted
<1>4. CASE \E r \in Runner : Begin(r)
  BY <1>1, <1>2, <1>4, BeginTypes, BeginKept, BeginWaited
      DEF IInv, Kept, Trusted
<1>5. CASE \E r \in Runner : RunStep(r)
  BY <1>1, <1>2, <1>5, StepTypes, StepKept, StepWaited DEF IInv, Kept, Trusted
<1>6. CASE UNCHANGED vars \/ \E a \in Account : DatasetReady(a)
  <2>1. /\ UNCHANGED <<local, cache, store, run, may>>
        /\ ready' = ready \/ \E a \in Account : ready' = ready \union {a}
    BY <1>6 DEF vars, kaggle, DatasetReady
  <2>2. TypeOK' /\ HashTaken' /\ Waited'
    BY <1>1, <2>1
        DEF local, TypeOK, HashTaken, Waited, Prompt, Exists, Active, Idle
  <2>3. Trusted' = Trusted /\ (Kept => Kept')
    BY <2>1 DEF local, Trusted, Kept, Alike, CacheHonest, SecretsKept, CodeKept,
                Active, Idle, HashNow, Found, Mine
  <2> QED
    BY <1>1, <2>2, <2>3 DEF IInv, Kept
<1> QED
  BY <1>3, <1>4, <1>5, <1>6 DEF Next

-----------------------------------------------------------------------------
\* The invariant that the rest follows from: the hash file and the runs under
\* way tell what the dataset holds (sync_secrets_dataset.py, main).
THEOREM Inductive == Spec => []IInv
<1>1. Init => IInv
  BY InitIInv
<1>2. IInv /\ [Next]_vars => IInv'
  BY NextIInv
<1> QED
  BY <1>1, <1>2, PTL DEF Spec

\* A kernel is pushed with the secrets of its run in the dataset, for any
\* number of runs, accounts and secrets.
THEOREM SecretsAreDelivered == Spec => []SecretsDelivered
<1>1. IInv => SecretsDelivered
  BY DEF IInv, Alike, SecretsKept, SecretsDelivered, Exists, Found, Mine,
         Active, Idle
<1> QED
  BY <1>1, Inductive, PTL

\* And with code as new as its run.
THEOREM CodeIsDelivered == Spec => []CodeDelivered
<1>1. IInv => CodeDelivered
  BY DEF IInv, Alike, CodeKept, CodeDelivered, Mine, Active, Idle
<1> QED
  BY <1>1, Inductive, PTL

\* And once that version can be used, unless Kaggle or the program is late in
\* one of the ways Prompt names.
THEOREM DatasetsAreReady == Spec => []ReadyWhenPushed
<1>1. IInv => ReadyWhenPushed
  BY DEF IInv, TypeOK, Run, HashTaken, Waited, ReadyWhenPushed, Prompt, Exists,
         Active, Idle
<1> QED
  BY <1>1, Inductive, PTL
=============================================================================
