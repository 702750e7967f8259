------------------------- MODULE RemoteWorkerProofs -------------------------
(***************************************************************************)
(* Proofs about the worker's voices.  The invariant is proved conjunct by  *)
(* conjunct, and each conjunct action by action; the theorems at the end   *)
(* combine them.                                                           *)
(***************************************************************************)
EXTENDS RemoteWorker, TLAPS

\* The worker starts in the invariant.
LEMMA InitIInv ==
    ASSUME Init
    PROVE  IInv
<1> USE DEF Init, Manifest, UploadOrAbsent
<1>1. TypeOK
  BY DEF TypeOK, Handler
<1>2. LockInv
  BY NoRequestAssumption DEF LockInv, HoldingPc
<1>3. CacheFresh /\ NoOrphanAudio
  BY DEF CacheFresh, NoOrphanAudio
<1>4. FreshInv
  BY DEF FreshInv, VoicesInOrder, ClonePc
<1> QED
  BY <1>1, <1>2, <1>3, <1>4 DEF IInv

\* Every step keeps the types.
LEMMA TypeStep ==
    ASSUME TypeOK, [Next]_vars
    PROVE  TypeOK'
<1> USE DEF disk, machine, TypeOK, Manifest, UploadOrAbsent, Handler, ClonePc,
    GeneratePc
<1>1. ASSUME ReadManifest PROVE TypeOK'
  BY <1>1 DEF ReadManifest, Loaded
<1>2. ASSUME NEW v \in Voice, DeleteVoice(v) PROVE TypeOK'
  BY <1>2 DEF DeleteVoice, RemoveAudio
<1>3. ASSUME NEW r \in Request, NEW v \in Voice, NEW u \in Upload,
           CloneBegin(r, v, u)
       PROVE  TypeOK'
  <2> USE <1>3 DEF CloneBegin
  <2>1. wav' \in Manifest /\ engine' \in BOOLEAN /\ inference' \in Request
      \union {NoRequest}
    OBVIOUS
  <2>2. manifest' \in Manifest /\ cache' \in Manifest \union {NoCache}
    BY DEF Register
  <2>3. req' \in [Request -> Handler]
    OBVIOUS
  <2> QED
    BY <2>1, <2>2, <2>3
<1>4. ASSUME NEW r \in Request, NEW v \in Voice, GenerateBegin(r, v)
       PROVE  TypeOK'
  BY <1>4 DEF GenerateBegin, Idle, Loaded
<1>5. ASSUME NEW r \in Request, CloneRun(r) PROVE TypeOK'
  BY <1>5 DEF CloneRun, Acquire, Await
<1>6. ASSUME NEW r \in Request, GenerateRun(r) PROVE TypeOK'
  BY <1>6 DEF GenerateRun, Acquire, Await
<1>7. ASSUME NEW r \in Request, CloneThread(r) PROVE TypeOK'
  BY <1>7 DEF CloneThread, Await, Loaded
<1>8. ASSUME NEW r \in Request, CloneReject(r) PROVE TypeOK'
  BY <1>8 DEF CloneReject, RemoveAudio, Release, Await
<1>9. ASSUME NEW r \in Request, CloneRegister(r) PROVE TypeOK'
  BY <1>9 DEF CloneRegister, Register, Release, Await
<1>10. ASSUME NEW r \in Request, GenerateThread(r) PROVE TypeOK'
  BY <1>10 DEF GenerateThread, Await, Loaded
<1>11. ASSUME NEW r \in Request, GenerateEnd(r) PROVE TypeOK'
  BY <1>11 DEF GenerateEnd, Release, Await
<1>12. CASE UNCHANGED vars
  BY <1>12 DEF vars
<1> QED
  BY <1>1, <1>2, <1>3, <1>4, <1>5, <1>6, <1>7, <1>8, <1>9, <1>10, <1>11, <1>12
      DEF Next, LockStep, RequestStep

\* The lock belongs to the handler whose thread runs or has just ended.
LEMMA LockStepInv ==
    ASSUME TypeOK, LockInv, [Next]_vars
    PROVE  LockInv'
<1> USE NoRequestAssumption DEF disk, machine, TypeOK, Manifest, UploadOrAbsent,
    Handler, ClonePc, GeneratePc, LockInv, HoldingPc
<1>1. ASSUME ReadManifest PROVE LockInv'
  BY <1>1 DEF ReadManifest, Loaded
<1>2. ASSUME NEW v \in Voice, DeleteVoice(v) PROVE LockInv'
  BY <1>2 DEF DeleteVoice, RemoveAudio
<1>3. ASSUME NEW r \in Request, NEW v \in Voice, NEW u \in Upload,
           CloneBegin(r, v, u)
       PROVE  LockInv'
  BY <1>3 DEF CloneBegin, MayClone, Register, Idle
<1>4. ASSUME NEW r \in Request, NEW v \in Voice, GenerateBegin(r, v)
       PROVE  LockInv'
  BY <1>4 DEF GenerateBegin, Idle, Loaded
<1>5. ASSUME NEW r \in Request, CloneRun(r) PROVE LockInv'
  BY <1>5 DEF CloneRun, Acquire, Await
<1>6. ASSUME NEW r \in Request, GenerateRun(r) PROVE LockInv'
  BY <1>6 DEF GenerateRun, Acquire, Await
<1>7. ASSUME NEW r \in Request, CloneThread(r) PROVE LockInv'
  BY <1>7 DEF CloneThread, Await, Loaded
<1>8. ASSUME NEW r \in Request, CloneReject(r) PROVE LockInv'
  BY <1>8 DEF CloneReject, RemoveAudio, Release, Await
<1>9. ASSUME NEW r \in Request, CloneRegister(r) PROVE LockInv'
  BY <1>9 DEF CloneRegister, Register, Release, Await
<1>10. ASSUME NEW r \in Request, GenerateThread(r) PROVE LockInv'
  BY <1>10 DEF GenerateThread, Await, Loaded
<1>11. ASSUME NEW r \in Request, GenerateEnd(r) PROVE LockInv'
  BY <1>11 DEF GenerateEnd, Release, Await
<1>12. CASE UNCHANGED vars
  BY <1>12 DEF vars
<1> QED
  BY <1>1, <1>2, <1>3, <1>4, <1>5, <1>6, <1>7, <1>8, <1>9, <1>10, <1>11, <1>12
      DEF Next, LockStep, RequestStep

\* Whoever changes the manifest clears or renews the cache.
LEMMA CacheStep ==
    ASSUME TypeOK, CacheFresh, [Next]_vars
    PROVE  CacheFresh'
<1> USE NoCacheAssumption DEF disk, machine, TypeOK, Manifest, UploadOrAbsent,
    CacheFresh
<1>1. ASSUME ReadManifest PROVE CacheFresh'
  BY <1>1 DEF ReadManifest, Loaded
<1>2. ASSUME NEW v \in Voice, DeleteVoice(v) PROVE CacheFresh'
  BY <1>2 DEF DeleteVoice, RemoveAudio
<1>3. ASSUME NEW r \in Request, NEW v \in Voice, NEW u \in Upload,
           CloneBegin(r, v, u)
       PROVE  CacheFresh'
  BY <1>3 DEF CloneBegin, MayClone, Register, Idle
<1>4. ASSUME NEW r \in Request, NEW v \in Voice, GenerateBegin(r, v)
       PROVE  CacheFresh'
  BY <1>4 DEF GenerateBegin, Idle, Loaded
<1>5. ASSUME NEW r \in Request, CloneRun(r) PROVE CacheFresh'
  BY <1>5 DEF CloneRun, Acquire, Await
<1>6. ASSUME NEW r \in Request, GenerateRun(r) PROVE CacheFresh'
  BY <1>6 DEF GenerateRun, Acquire, Await
<1>7. ASSUME NEW r \in Request, CloneThread(r) PROVE CacheFresh'
  BY <1>7 DEF CloneThread, Await, Loaded
<1>8. ASSUME NEW r \in Request, CloneReject(r) PROVE CacheFresh'
  BY <1>8 DEF CloneReject, RemoveAudio, Release, Await
<1>9. ASSUME NEW r \in Request, CloneRegister(r) PROVE CacheFresh'
  BY <1>9 DEF CloneRegister, Register, Release, Await
<1>10. ASSUME NEW r \in Request, GenerateThread(r) PROVE CacheFresh'
  BY <1>10 DEF GenerateThread, Await, Loaded
<1>11. ASSUME NEW r \in Request, GenerateEnd(r) PROVE CacheFresh'
  BY <1>11 DEF GenerateEnd, Release, Await
<1>12. CASE UNCHANGED vars
  BY <1>12 DEF vars
<1> QED
  BY <1>1, <1>2, <1>3, <1>4, <1>5, <1>6, <1>7, <1>8, <1>9, <1>10, <1>11, <1>12
      DEF Next, LockStep, RequestStep

\* Audio without a voice belongs to a clone in flight.
LEMMA OrphanStep ==
    ASSUME TypeOK, NoOrphanAudio, [Next]_vars
    PROVE  NoOrphanAudio'
<1> USE AbsentAssumption DEF disk, machine, TypeOK, Manifest, UploadOrAbsent, Handler,
    ClonePc, GeneratePc, NoOrphanAudio, Cloning
<1>1. ASSUME ReadManifest PROVE NoOrphanAudio'
  BY <1>1 DEF ReadManifest, Loaded
<1>2. ASSUME NEW v \in Voice, DeleteVoice(v) PROVE NoOrphanAudio'
  BY <1>2 DEF DeleteVoice, RemoveAudio
<1>3. ASSUME NEW r \in Request, NEW v \in Voice, NEW u \in Upload,
           CloneBegin(r, v, u)
       PROVE  NoOrphanAudio'
  BY <1>3 DEF CloneBegin, MayClone, Register, Idle
<1>4. ASSUME NEW r \in Request, NEW v \in Voice, GenerateBegin(r, v)
       PROVE  NoOrphanAudio'
  BY <1>4 DEF GenerateBegin, Idle, Loaded
<1>5. ASSUME NEW r \in Request, CloneRun(r) PROVE NoOrphanAudio'
  BY <1>5 DEF CloneRun, Acquire, Await
<1>6. ASSUME NEW r \in Request, GenerateRun(r) PROVE NoOrphanAudio'
  BY <1>6 DEF GenerateRun, Acquire, Await
<1>7. ASSUME NEW r \in Request, CloneThread(r) PROVE NoOrphanAudio'
  BY <1>7 DEF CloneThread, Await, Loaded
<1>8. ASSUME NEW r \in Request, CloneReject(r) PROVE NoOrphanAudio'
  BY <1>8 DEF CloneReject, RemoveAudio, Release, Await
<1>9. ASSUME NEW r \in Request, CloneRegister(r) PROVE NoOrphanAudio'
  BY <1>9 DEF CloneRegister, Register, Release, Await
<1>10. ASSUME NEW r \in Request, GenerateThread(r) PROVE NoOrphanAudio'
  BY <1>10 DEF GenerateThread, Await, Loaded
<1>11. ASSUME NEW r \in Request, GenerateEnd(r) PROVE NoOrphanAudio'
  BY <1>11 DEF GenerateEnd, Release, Await
<1>12. CASE UNCHANGED vars
  BY <1>12 DEF vars
<1> QED
  BY <1>1, <1>2, <1>3, <1>4, <1>5, <1>6, <1>7, <1>8, <1>9, <1>10, <1>11, <1>12
      DEF Next, LockStep, RequestStep

\* Identifiers that are not in use are cloned by one handler, from nothing.
LEMMA FreshStep ==
    ASSUME TypeOK, FreshInv, [Next]_vars
    PROVE  FreshInv'
<1> USE AbsentAssumption DEF disk, machine, TypeOK, Manifest, UploadOrAbsent, Handler,
    ClonePc, GeneratePc, FreshInv, VoicesInOrder
<1>1. ASSUME ReadManifest PROVE FreshInv'
  BY <1>1 DEF ReadManifest, Loaded
<1>2. ASSUME NEW v \in Voice, DeleteVoice(v) PROVE FreshInv'
  BY <1>2 DEF DeleteVoice, RemoveAudio
<1>3. ASSUME NEW r \in Request, NEW v \in Voice, NEW u \in Upload,
           CloneBegin(r, v, u)
       PROVE  FreshInv'
  <2> USE <1>3
  <2>1. ASSUME v \notin Reclone PROVE manifest[v] = Absent /\ ~Cloning(v)
    BY <2>1 DEF CloneBegin, MayClone
  <2>2. wav' = [wav EXCEPT ![v] = u]
    BY DEF CloneBegin
  <2>3. CASE /\ UNCHANGED manifest
             /\ req' = [req EXCEPT ![r] = [pc |-> "clone_wait", voice |-> v,
                 upload |-> u]]
    BY <2>1, <2>2, <2>3 DEF Cloning
  <2>4. CASE manifest' = [manifest EXCEPT ![v] = u] /\ UNCHANGED req
    BY <2>1, <2>2, <2>4 DEF Cloning
  <2>5. CASE UNCHANGED <<manifest, req>>
    BY <2>1, <2>2, <2>5 DEF Cloning
  <2> QED
    BY <2>3, <2>4, <2>5 DEF CloneBegin, Register
<1>4. ASSUME NEW r \in Request, NEW v \in Voice, GenerateBegin(r, v)
       PROVE  FreshInv'
  BY <1>4 DEF GenerateBegin, Idle, Loaded
<1>5. ASSUME NEW r \in Request, CloneRun(r) PROVE FreshInv'
  BY <1>5 DEF CloneRun, Acquire, Await
<1>6. ASSUME NEW r \in Request, GenerateRun(r) PROVE FreshInv'
  BY <1>6 DEF GenerateRun, Acquire, Await
<1>7. ASSUME NEW r \in Request, CloneThread(r) PROVE FreshInv'
  BY <1>7 DEF CloneThread, Await, Loaded
<1>8. ASSUME NEW r \in Request, CloneReject(r) PROVE FreshInv'
  BY <1>8 DEF CloneReject, RemoveAudio, Release, Await
<1>9. ASSUME NEW r \in Request, CloneRegister(r) PROVE FreshInv'
  BY <1>9 DEF CloneRegister, Register, Release, Await
<1>10. ASSUME NEW r \in Request, GenerateThread(r) PROVE FreshInv'
  BY <1>10 DEF GenerateThread, Await, Loaded
<1>11. ASSUME NEW r \in Request, GenerateEnd(r) PROVE FreshInv'
  BY <1>11 DEF GenerateEnd, Release, Await
<1>12. CASE UNCHANGED vars
  BY <1>12 DEF vars
<1> QED
  BY <1>1, <1>2, <1>3, <1>4, <1>5, <1>6, <1>7, <1>8, <1>9, <1>10, <1>11, <1>12
      DEF Next, LockStep, RequestStep

\* The invariant holds in every reachable state.
THEOREM Inductive == Spec => []IInv
<1>1. Init => IInv
  BY InitIInv
<1>2. IInv /\ [Next]_vars => IInv'
  BY TypeStep, LockStepInv, CacheStep, OrphanStep, FreshStep DEF IInv
<1> QED
  BY <1>1, <1>2, PTL DEF Spec

\* Every variable keeps its type.
THEOREM TypeCorrect == Spec => []TypeOK
<1>1. IInv => TypeOK
  BY DEF IInv
<1> QED
  BY <1>1, Inductive, PTL

\* The inference lock does its work: clones and generates take turns on the
\* GPU.
THEOREM InferenceIsSerial == Spec => []AtMostOneInference
<1>1. IInv => AtMostOneInference
  BY DEF IInv, LockInv, HoldingPc, AtMostOneInference
<1> QED
  BY <1>1, Inductive, PTL

\* The cache is empty or equal to the manifest on disk.
THEOREM CacheIsFresh == Spec => []CacheFresh
<1>1. IInv => CacheFresh
  BY DEF IInv
<1> QED
  BY <1>1, Inductive, PTL

\* While the disk refuses nothing, no failed verification and no interleaving
\* leaves audio behind that belongs to no voice and no clone.
THEOREM NoAudioIsOrphaned == Spec => []NoOrphanAudio
<1>1. IInv => NoOrphanAudio
  BY DEF IInv
<1> QED
  BY <1>1, Inductive, PTL

\* A voice whose identifier clients do not clone while it is in use has its own
\* recording on disk as long as it is registered, whatever the disk refuses.
THEOREM FreshVoicesAreInOrder == Spec => []VoicesInOrder
<1>1. IInv => VoicesInOrder
  BY DEF IInv, FreshInv
<1> QED
  BY <1>1, Inductive, PTL
=============================================================================
