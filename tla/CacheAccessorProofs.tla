------------------------- MODULE CacheAccessorProofs -------------------------
(***************************************************************************)
(* Proofs about ShaderCache for any set of threads, shaders and blobs, any *)
(* bound on failures, with and without a cache file; and about             *)
(* CacheAccessor: the accessors use the cache as ShaderCache allows, so    *)
(* that its invariant holds with them too, and from it follow the promises *)
(* of the entry handle.                                                    *)
(***************************************************************************)
EXTENDS CacheAccessor, TLAPS

-----------------------------------------------------------------------------
(* The shader cache *)

(* An empty or seeded cache (ShaderCache::init) satisfies the invariant. *)
LEMMA InitIInv == Init => IInv
BY NoBlobAssumption, NoThreadAssumption, MaxFailuresAssumption
   DEF Init, IInv, TypeOK, EntryShape, LockInv, OneCompiler, ReaderInv,
       NoMissedWakeup, EntryStates, PCs, None, Ready, Owns, Final

(* Every step keeps the variables in their types. *)
LEMMA TypeStep == TypeOK /\ [Next]_vars => TypeOK'
<1> SUFFICES ASSUME TypeOK, [Next]_vars PROVE TypeOK'
  OBVIOUS
<1> USE DEF TypeOK, EntryStates, PCs, Goto, SetEntry, Ready, New, Compiling
<1>1. CASE UNCHANGED vars
  BY <1>1 DEF vars
<1>2. ASSUME NEW t \in Threads, NEW k \in Keys, NEW a \in BOOLEAN, Call(t, k, a)
      PROVE TypeOK'
  BY <1>2 DEF Call
<1>3. ASSUME NEW t \in Threads, Find(t)
      PROVE TypeOK'
  <2>1. CASE FindUnavailable(t)
    BY <2>1 DEF FindUnavailable
  <2>2. CASE FindExternalHit(t)
    BY <2>2 DEF FindExternalHit
  <2>3. CASE FindMiss(t)
    BY <2>3 DEF FindMiss
  <2>4. CASE FindExisting(t)
    BY <2>4 DEF FindExisting
  <2>5. CASE FindWait(t)
    BY <2>5 DEF FindWait
  <2>6. CASE FindReady(t)
    BY <2>6 DEF FindReady
  <2>7. CASE FindNew(t)
    BY <2>7 DEF FindNew
  <2> QED
    BY <1>3, <2>1, <2>2, <2>3, <2>4, <2>5, <2>6, <2>7 DEF Find
<1>4. ASSUME NEW t \in Threads, SpuriousWakeup(t)
      PROVE TypeOK'
  BY <1>4 DEF SpuriousWakeup
<1>5. ASSUME NEW t \in Threads, Insert(t)
      PROVE TypeOK'
  <2>1. ASSUME NEW b \in Blobs, InsertPublish(t, b)
        PROVE TypeOK'
    BY <2>1 DEF InsertPublish
  <2>2. CASE InsertDone(t)
    BY <2>2 DEF InsertDone
  <2>3. CASE InsertFailed(t)
    BY <2>3, MaxFailuresAssumption DEF InsertFailed
  <2> QED
    BY <1>5, <2>1, <2>2, <2>3 DEF Insert
<1>6. ASSUME NEW t \in Threads, ResetShader(t)
      PROVE TypeOK'
  BY <1>6, MaxFailuresAssumption DEF ResetShader
<1>7. ASSUME NEW t \in Threads, NotifyAll(t)
      PROVE TypeOK'
  BY <1>7 DEF NotifyAll
<1>8. ASSUME NEW t \in Threads, Retrieve(t) \/ Release(t)
      PROVE TypeOK'
  <2>1. CASE RetrieveCheck(t)
    <3>1. got' \in [Threads -> Blobs \cup {NoBlob}]
      BY <2>1 DEF RetrieveCheck
    <3>2. res' \in [Threads -> {"none", "Success", "ErrorUnknown", "ErrorOutOfMemory"}]
      BY <2>1 DEF RetrieveCheck
    <3>3. pc' \in [Threads -> PCs]
      BY <2>1 DEF RetrieveCheck
    <3> QED
      BY <2>1, <3>1, <3>2, <3>3 DEF RetrieveCheck
  <2>2. CASE RetrieveRead(t)
    BY <2>2 DEF RetrieveRead
  <2>3. CASE Release(t)
    BY <2>3 DEF Release
  <2> QED
    BY <1>8, <2>1, <2>2, <2>3 DEF Retrieve
<1> QED
  BY <1>1, <1>2, <1>3, <1>4, <1>5, <1>6, <1>7, <1>8 DEF Next, Step

(* The type invariant holds in every reachable state. *)
THEOREM TypeCorrect == Spec => []TypeOK
<1>1. Init => TypeOK
  BY InitIInv DEF IInv
<1> QED
  BY <1>1, TypeStep, PTL DEF Spec

-----------------------------------------------------------------------------
(* The parts of the invariant, kept by each of the operations. *)

(* A call of findShader does not disturb the invariant. *)
LEMMA CallIInv ==
  ASSUME IInv, TypeOK', NEW t \in Threads, NEW k \in Keys, NEW a \in BOOLEAN, Call(t, k, a)
  PROVE  IInv'
<1> USE DEF IInv, TypeOK, Call, Goto
<1>1. EntryShape' /\ LockInv' /\ OneCompiler'
  BY DEF EntryShape, LockInv, OneCompiler, Owns
<1>2. ReaderInv' /\ NoMissedWakeup'
  BY DEF ReaderInv, Final, NoMissedWakeup
<1> QED
  BY <1>1, <1>2

(* Neither does any outcome of findShader, nor a spurious wake-up. *)
LEMMA FindIInv ==
  ASSUME IInv, TypeOK', NEW t \in Threads, Find(t) \/ SpuriousWakeup(t)
  PROVE  IInv'
<1> USE NoThreadAssumption, NoBlobAssumption
        DEF IInv, TypeOK, Goto, SetEntry, Free, Looking, Ready, New, Compiling, None
<1>1. CASE FindUnavailable(t)
  <2>1. EntryShape' /\ LockInv' /\ OneCompiler'
    BY <1>1 DEF FindUnavailable, EntryShape, LockInv, OneCompiler, Owns
  <2>2. ReaderInv'
    BY <1>1 DEF FindUnavailable, ReaderInv, Final
  <2>3. NoMissedWakeup'
    BY <1>1 DEF FindUnavailable, NoMissedWakeup
  <2> QED
    BY <2>1, <2>2, <2>3
<1>5. CASE FindExisting(t)
  <2>1. EntryShape' /\ LockInv' /\ OneCompiler'
    BY <1>5 DEF FindExisting, EntryShape, LockInv, OneCompiler, Owns
  <2>2. ReaderInv'
    BY <1>5 DEF FindExisting, ReaderInv, Final
  <2>3. NoMissedWakeup'
    BY <1>5 DEF FindExisting, NoMissedWakeup
  <2> QED
    BY <2>1, <2>2, <2>3
<1>6. CASE FindWait(t)
  <2>1. EntryShape' /\ LockInv' /\ OneCompiler'
    BY <1>6 DEF FindWait, EntryShape, LockInv, OneCompiler, Owns
  <2>2. ReaderInv' /\ NoMissedWakeup'
    BY <1>6 DEF FindWait, ReaderInv, Final, NoMissedWakeup
  <2> QED
    BY <2>1, <2>2
<1>7. CASE SpuriousWakeup(t)
  <2>1. EntryShape' /\ LockInv' /\ OneCompiler'
    BY <1>7 DEF SpuriousWakeup, EntryShape, LockInv, OneCompiler, Owns
  <2>2. ReaderInv' /\ NoMissedWakeup'
    BY <1>7 DEF SpuriousWakeup, ReaderInv, Final, NoMissedWakeup
  <2> QED
    BY <2>1, <2>2
<1>2. CASE FindReady(t)
  <2>1. EntryShape' /\ LockInv' /\ OneCompiler'
    BY <1>2 DEF FindReady, EntryShape, LockInv, OneCompiler, Owns
  <2>2. ReaderInv' /\ NoMissedWakeup'
    BY <1>2 DEF FindReady, LockInv, ReaderInv, Final, NoMissedWakeup
  <2> QED
    BY <2>1, <2>2
<1>3. CASE FindExternalHit(t)
  <2>1. EntryShape' /\ LockInv'
    BY <1>3 DEF FindExternalHit, EntryShape, LockInv
  <2>2. OneCompiler'
    BY <1>3 DEF FindExternalHit, OneCompiler, Owns
  <2>3. ReaderInv'
    BY <1>3 DEF FindExternalHit, LockInv, ReaderInv, Final
  <2>4. NoMissedWakeup'
    BY <1>3 DEF FindExternalHit, NoMissedWakeup
  <2> QED
    BY <2>1, <2>2, <2>3, <2>4
<1>4. CASE FindMiss(t)
  <2>1. EntryShape' /\ LockInv'
    BY <1>4 DEF FindMiss, EntryShape, LockInv
  <2>2. OneCompiler'
    BY <1>4 DEF FindMiss, LockInv, OneCompiler, Owns
  <2>3. ReaderInv'
    BY <1>4 DEF FindMiss, LockInv, ReaderInv, Final
  <2>4. NoMissedWakeup'
    BY <1>4 DEF FindMiss, NoMissedWakeup
  <2> QED
    BY <2>1, <2>2, <2>3, <2>4
<1>8. CASE FindNew(t)
  <2>1. EntryShape' /\ LockInv'
    BY <1>8 DEF FindNew, EntryShape, LockInv
  <2>2. OneCompiler'
    BY <1>8 DEF FindNew, LockInv, OneCompiler, Owns
  <2>3. ReaderInv'
    BY <1>8 DEF FindNew, LockInv, ReaderInv, Final
  <2>4. NoMissedWakeup'
    BY <1>8 DEF FindNew, NoMissedWakeup
  <2> QED
    BY <2>1, <2>2, <2>3, <2>4
<1> QED
  BY <1>1, <1>2, <1>3, <1>4, <1>5, <1>6, <1>7, <1>8 DEF Find

(* Neither does insertShader, its rollback included, nor resetShader. *)
LEMMA InsertIInv ==
  ASSUME IInv, TypeOK', NEW t \in Threads, Insert(t) \/ ResetShader(t)
  PROVE  IInv'
<1> USE NoThreadAssumption, NoBlobAssumption
        DEF IInv, TypeOK, Goto, SetEntry, Free, Ready, New
<1>1. ASSUME NEW b \in Blobs, InsertPublish(t, b)
      PROVE IInv'
  <2>1. EntryShape' /\ LockInv'
    BY <1>1 DEF InsertPublish, EntryShape, LockInv
  <2>2. OneCompiler'
    BY <1>1 DEF InsertPublish, LockInv, OneCompiler, Owns
  <2>3. ReaderInv'
    <3>1. entry[key[t]].state = "Compiling"
      BY <1>1 DEF InsertPublish, OneCompiler
    <3>2. \A u \in Threads : Final(key[u]) => key[u] # key[t] /\ Final(key[u])'
      BY <1>1, <3>1 DEF InsertPublish, Final
    <3> QED
      BY <1>1, <3>2 DEF InsertPublish, ReaderInv
  <2>4. NoMissedWakeup'
    BY <1>1 DEF InsertPublish, NoMissedWakeup
  <2> QED
    BY <2>1, <2>2, <2>3, <2>4
<1>2. CASE InsertDone(t)
  <2>1. EntryShape' /\ LockInv'
    BY <1>2 DEF InsertDone, EntryShape, LockInv
  <2>2. OneCompiler'
    BY <1>2 DEF InsertDone, LockInv, OneCompiler, Owns
  <2>3. ReaderInv'
    BY <1>2 DEF InsertDone, LockInv, ReaderInv, Final
  <2>4. NoMissedWakeup'
    BY <1>2 DEF InsertDone, NoMissedWakeup
  <2> QED
    BY <2>1, <2>2, <2>3, <2>4
<1>3. CASE InsertFailed(t)
  <2>1. EntryShape' /\ LockInv'
    BY <1>3 DEF InsertFailed, EntryShape, LockInv
  <2>2. OneCompiler'
    BY <1>3 DEF InsertFailed, LockInv, OneCompiler, Owns
  <2>3. ReaderInv'
    BY <1>3 DEF InsertFailed, LockInv, ReaderInv, Final
  <2>4. NoMissedWakeup'
    BY <1>3 DEF InsertFailed, NoMissedWakeup
  <2> QED
    BY <2>1, <2>2, <2>3, <2>4
<1>4. CASE ResetShader(t)
  <2>1. EntryShape' /\ LockInv'
    BY <1>4 DEF ResetShader, EntryShape, LockInv
  <2>2. OneCompiler'
    BY <1>4 DEF ResetShader, LockInv, OneCompiler, Owns
  <2>3. ReaderInv'
    BY <1>4 DEF ResetShader, LockInv, OneCompiler, Owns, ReaderInv, Final
  <2>4. NoMissedWakeup'
    BY <1>4 DEF ResetShader, NoMissedWakeup
  <2> QED
    BY <2>1, <2>2, <2>3, <2>4
<1> QED
  BY <1>1, <1>2, <1>3, <1>4 DEF Insert

(* Neither does the notify_all that follows them without the mutex. *)
LEMMA NotifyIInv ==
  ASSUME IInv, TypeOK', NEW t \in Threads, NotifyAll(t)
  PROVE  IInv'
<1> USE DEF IInv, TypeOK, NotifyAll
<1>1. EntryShape' /\ LockInv'
  BY DEF EntryShape, LockInv
<1>2. OneCompiler'
  <2>1. \A u \in Threads : /\ pc'[u] = "owner" <=> pc[u] = "owner"
                           /\ pc'[u] = "addfile" <=> pc[u] = "addfile"
    OBVIOUS
  <2> QED
    BY <2>1 DEF OneCompiler, Owns
<1>3. ReaderInv'
  BY DEF ReaderInv, Final
<1>4. NoMissedWakeup'
  BY DEF NoMissedWakeup
<1> QED
  BY <1>1, <1>2, <1>3, <1>4

(* Neither does retrieveShader, nor giving a handle up. *)
LEMMA RetrieveIInv ==
  ASSUME IInv, TypeOK', NEW t \in Threads, Retrieve(t) \/ Release(t)
  PROVE  IInv'
<1> USE NoBlobAssumption, NoThreadAssumption DEF IInv, TypeOK, Goto, Free
<1>1. CASE RetrieveCheck(t)
  <2>1. EntryShape' /\ LockInv' /\ OneCompiler'
    BY <1>1 DEF RetrieveCheck, EntryShape, LockInv, OneCompiler, Owns
  <2>2. ReaderInv'
    <3>1. CASE entry[key[t]].state = "Ready"
      BY <1>1, <3>1 DEF RetrieveCheck, ReaderInv, Final
    <3>2. CASE entry[key[t]].state # "Ready"
      BY <1>1, <3>2 DEF RetrieveCheck, ReaderInv, Final
    <3> QED
      BY <3>1, <3>2
  <2>3. NoMissedWakeup'
    BY <1>1 DEF RetrieveCheck, NoMissedWakeup
  <2> QED
    BY <2>1, <2>2, <2>3
<1>2. CASE RetrieveRead(t)
  <2>1. EntryShape' /\ LockInv' /\ OneCompiler'
    BY <1>2 DEF RetrieveRead, EntryShape, LockInv, OneCompiler, Owns
  <2>2. ReaderInv'
    BY <1>2 DEF RetrieveRead, EntryShape, LockInv, ReaderInv, Final
  <2>3. NoMissedWakeup'
    BY <1>2 DEF RetrieveRead, NoMissedWakeup
  <2> QED
    BY <2>1, <2>2, <2>3
<1>3. CASE Release(t)
  <2>1. EntryShape' /\ LockInv' /\ OneCompiler'
    BY <1>3 DEF Release, EntryShape, LockInv, OneCompiler, Owns
  <2>2. ReaderInv' /\ NoMissedWakeup'
    BY <1>3 DEF Release, ReaderInv, Final, NoMissedWakeup
  <2> QED
    BY <2>1, <2>2
<1> QED
  BY <1>1, <1>2, <1>3 DEF Retrieve

(* Neither does a step that changes nothing. *)
LEMMA StutterIInv == IInv /\ UNCHANGED vars => IInv'
BY DEF IInv, vars, TypeOK, EntryShape, LockInv, OneCompiler, Owns, ReaderInv,
       Final, NoMissedWakeup

(* IInv is inductive. *)
LEMMA StepIInv == IInv /\ [Next]_vars => IInv'
<1> SUFFICES ASSUME IInv, [Next]_vars PROVE IInv'
  OBVIOUS
<1>1. TypeOK'
  BY TypeStep DEF IInv
<1> QED
  BY <1>1, StutterIInv, CallIInv, FindIInv, InsertIInv, NotifyIInv, RetrieveIInv
     DEF Next, Step

(* The invariant that every safety property of the cache rests on: shape of  *)
(* the entries, use of the mutex, ownership, what readers know, and wake-ups, *)
(* over all steps of findShader, insertShader, resetShader and retrieveShader.*)
THEOREM Inductive == Spec => []IInv
BY InitIInv, StepIInv, PTL DEF Spec

(* At every moment an entry is being compiled by exactly one thread or by    *)
(* none, for any number of threads and shaders (findShader, insertShader,    *)
(* resetShader).                                                             *)
THEOREM CompiledByOne == Spec => []OneCompiler
<1>1. IInv => OneCompiler
  BY DEF IInv
<1> QED
  BY <1>1, Inductive, PTL

(* No thread sleeps in findShader unless somebody is still to wake it. *)
THEOREM WakeupsNotLost == Spec => []NoMissedWakeup
<1>1. IInv => NoMissedWakeup
  BY DEF IInv
<1> QED
  BY <1>1, Inductive, PTL

(* What findShader announced as Ready can be retrieved. *)
THEOREM HitsStay == Spec => []HitRetrieves
<1>1. IInv => HitRetrieves
  BY DEF IInv, ReaderInv, HitRetrieves, Final
<1> QED
  BY <1>1, Inductive, PTL

(* The blob of a retrieved shader is never replaced or dropped. *)
THEOREM BlobsStay == Spec => []HandedOutBlobStays
<1>1. IInv => HandedOutBlobStays
  BY DEF IInv, TypeOK, ReaderInv, HandedOutBlobStays, Final, Ready
<1> QED
  BY <1>1, Inductive, PTL

-----------------------------------------------------------------------------
(* Without a file, retrieveShader never succeeds with a null blob. *)

(* No step makes the unlocked test of retrieveShader stale without a file. *)
LEMMA RuntimeStep == IInv /\ IInv' /\ RuntimeReadInv /\ [Next]_vars => RuntimeReadInv'
<1> SUFFICES ASSUME IInv, IInv', RuntimeReadInv, [Next]_vars, ~FileOpen
             PROVE  \A u \in Threads :
                      /\ pc'[u] = "readHeld" => entry'[key'[u]].state = "Ready"
                      /\ res'[u] = "Success" => got'[u] # NoBlob
  BY DEF RuntimeReadInv
<1>1. \A k \in Keys : entry[k].state = "Ready" => entry'[k].state = "Ready"
  <2>1. CASE UNCHANGED vars
    BY <2>1 DEF vars
  <2>2. ASSUME NEW t \in Threads, NEW k \in Keys, NEW a \in BOOLEAN, Call(t, k, a)
        PROVE  UNCHANGED entry
    BY <2>2 DEF Call
  <2>3. ASSUME NEW t \in Threads, Find(t) \/ SpuriousWakeup(t)
        PROVE  \A k \in Keys : entry[k].state = "Ready" => entry'[k].state = "Ready"
    <3>1. CASE FindExternalHit(t) \/ FindMiss(t) \/ FindNew(t)
      <4>1. entry[key[t]].state # "Ready"
        <5>1. CASE FindNew(t)
          BY <5>1 DEF FindNew
        <5>2. CASE entry[key[t]] = None
          BY <5>2 DEF None
        <5> QED
          BY <3>1, <5>1, <5>2 DEF FindExternalHit, FindMiss
      <4>2. \A k \in Keys : k # key[t] => entry'[k] = entry[k]
        BY <3>1 DEF IInv, TypeOK, FindExternalHit, FindMiss, FindNew, SetEntry
      <4> QED
        BY <4>1, <4>2
    <3>2. CASE ~(FindExternalHit(t) \/ FindMiss(t) \/ FindNew(t))
      BY <2>3, <3>2 DEF Find, SpuriousWakeup, FindUnavailable, FindExisting, FindWait,
                        FindReady
    <3> QED
      BY <3>1, <3>2
  <2>4. ASSUME NEW t \in Threads, Insert(t) \/ ResetShader(t)
        PROVE  \A k \in Keys : entry[k].state = "Ready" => entry'[k].state = "Ready"
    <3>1. CASE InsertDone(t)
      BY <3>1 DEF InsertDone
    <3>2. CASE (\E b \in Blobs : InsertPublish(t, b)) \/ ResetShader(t)
      <4>1. entry[key[t]].state # "Ready"
        BY <3>2 DEF InsertPublish, ResetShader, IInv, TypeOK, OneCompiler
      <4>2. \A k \in Keys : k # key[t] => entry'[k] = entry[k]
        BY <3>2 DEF IInv, TypeOK, InsertPublish, ResetShader, SetEntry
      <4> QED
        BY <4>1, <4>2
    <3> QED
      BY <2>4, <3>1, <3>2 DEF Insert, InsertFailed
  <2>5. ASSUME NEW t \in Threads, NotifyAll(t) \/ Retrieve(t) \/ Release(t)
        PROVE  UNCHANGED entry
    BY <2>5 DEF NotifyAll, Retrieve, RetrieveCheck, RetrieveRead, Release
  <2> QED
    BY <2>1, <2>2, <2>3, <2>4, <2>5 DEF Next, Step
<1>2. CASE UNCHANGED vars
  BY <1>2 DEF vars, RuntimeReadInv
<1>3. ASSUME NEW t \in Threads, Step(t), ~Retrieve(t)
      PROVE  /\ \A u \in Threads : pc'[u] = "readHeld" => pc[u] = "readHeld" /\ key'[u] = key[u]
             /\ \A u \in Threads : res'[u] = "Success" => res[u] = "Success" /\ got'[u] = got[u]
  <2>1. CASE \E k \in Keys, a \in BOOLEAN : Call(t, k, a)
    BY <2>1 DEF Call, Goto, IInv, TypeOK
  <2>2. CASE Find(t) \/ SpuriousWakeup(t)
    BY <2>2 DEF Find, SpuriousWakeup, FindUnavailable, FindExternalHit, FindMiss,
                FindExisting, FindWait, FindReady, FindNew, Goto, IInv, TypeOK
  <2>3. CASE Insert(t) \/ ResetShader(t)
    BY <2>3 DEF Insert, InsertPublish, InsertDone, InsertFailed, ResetShader, Goto,
                IInv, TypeOK
  <2>4. CASE NotifyAll(t)
    BY <2>4 DEF NotifyAll, IInv, TypeOK
  <2>5. CASE Release(t)
    BY <2>5 DEF Release, Goto, IInv, TypeOK
  <2> QED
    BY <1>3, <2>1, <2>2, <2>3, <2>4, <2>5 DEF Step
<1>4. ASSUME NEW t \in Threads, RetrieveCheck(t)
      PROVE  \A u \in Threads :
               /\ pc'[u] = "readHeld" => entry'[key'[u]].state = "Ready"
               /\ res'[u] = "Success" => got'[u] # NoBlob
  BY <1>4 DEF RetrieveCheck, Goto, IInv, TypeOK, RuntimeReadInv
<1>5. ASSUME NEW t \in Threads, RetrieveRead(t)
      PROVE  \A u \in Threads :
               /\ pc'[u] = "readHeld" => entry'[key'[u]].state = "Ready"
               /\ res'[u] = "Success" => got'[u] # NoBlob
  BY <1>5 DEF RetrieveRead, Goto, IInv, TypeOK, RuntimeReadInv, EntryShape, ReaderInv, Final
<1>6. ASSUME NEW t \in Threads, Step(t), ~Retrieve(t)
      PROVE  \A u \in Threads :
               /\ pc'[u] = "readHeld" => entry'[key'[u]].state = "Ready"
               /\ res'[u] = "Success" => got'[u] # NoBlob
  BY <1>1, <1>3, <1>6 DEF RuntimeReadInv, IInv, TypeOK
<1> QED
  BY <1>2, <1>4, <1>5, <1>6 DEF Next, Retrieve

(* With the cache in memory only, a successful retrieveShader always hands   *)
(* out the blob of a shader; the run on a file shows that it may not there.  *)
THEOREM RuntimeNeverNull == ~FileOpen => (Spec => []RetrieveNeverNull)
<1> SUFFICES ASSUME ~FileOpen PROVE Spec => []RetrieveNeverNull
  OBVIOUS
<1>1. Init => RuntimeReadInv
  BY DEF Init, RuntimeReadInv
<1>2. RuntimeReadInv => RetrieveNeverNull
  BY DEF RuntimeReadInv, RetrieveNeverNull
<1> QED
  BY <1>1, <1>2, RuntimeStep, Inductive, PTL DEF Spec

-----------------------------------------------------------------------------
(* The cache implements CompileOnce. *)

(* The seeded cache is an initial state of CompileOnce. *)
LEMMA RefinesInit == Init => CO!Init
BY NoBlobAssumption DEF Init, CO!Init, Builders, Done, Owns, None, Ready

(* An operation that changes neither the owner of an entry nor a finished    *)
(* entry is invisible in CompileOnce.                                        *)
LEMMA InvisibleStep ==
  ASSUME TypeOK, TypeOK',
         UNCHANGED entry,
         \A u \in Threads : \A k \in Keys : Owns(u, k)' <=> Owns(u, k)
  PROVE  UNCHANGED <<Builders, Done>>
<1>1. Builders' = Builders
  BY DEF Builders
<1>2. Done' = Done
  BY <1>1 DEF Done
<1> QED
  BY <1>1, <1>2

(* A thread that findShader told to compile becomes an owner, no other does. *)
LEMMA OwnerAdded ==
  ASSUME NEW t \in Threads, NEW K \in Keys, Builders[K] = {},
         \A u \in Threads : \A k \in Keys : Owns(u, k)' <=> Owns(u, k) \/ (u = t /\ k = K)
  PROVE  Builders' = [Builders EXCEPT ![K] = {t}]
<1>1. \A k \in Keys : k # K => Builders'[k] = Builders[k]
  BY DEF Builders
<1>2. Builders'[K] = {t}
  BY DEF Builders
<1> QED
  BY <1>1, <1>2 DEF Builders

(* The same for a thread that inserted or reset its entry. *)
LEMMA OwnerRemoved ==
  ASSUME NEW K \in Keys,
         \A u \in Threads : \A k \in Keys : Owns(u, k)' <=> Owns(u, k) /\ k # K
  PROVE  Builders' = [Builders EXCEPT ![K] = {}]
<1>1. \A k \in Keys : k # K => Builders'[k] = Builders[k]
  BY DEF Builders
<1>2. Builders'[K] = {}
  BY DEF Builders
<1> QED
  BY <1>1, <1>2 DEF Builders

(* Only the finished shader of the key whose entry or owner changes changes. *)
LEMMA DoneChanges ==
  ASSUME NEW K \in Keys, NEW b,
         \A k \in Keys : k # K => entry'[k] = entry[k] /\ Builders'[k] = Builders[k],
         Done'[K] = b
  PROVE  Done' = [Done EXCEPT ![K] = b]
<1>1. \A k \in Keys : k # K => Done'[k] = Done[k]
  BY DEF Done
<1> QED
  BY <1>1 DEF Done

(* Nobody owns an entry that is neither being compiled nor being inserted. *)
LEMMA NoOwner ==
  ASSUME IInv, Free, NEW K \in Keys, entry[K].state \notin {"Compiling", "Ready"}
  PROVE  Builders[K] = {} /\ Done[K] = NoBlob
<1>1. \A u \in Threads : ~Owns(u, K)
  BY NoThreadAssumption DEF IInv, OneCompiler, LockInv, Free, Owns
<1> QED
  BY <1>1 DEF Builders, Done

(* Every step is a step of CompileOnce or leaves its variables unchanged. *)
LEMMA RefinesStep == IInv /\ IInv' /\ [Next]_vars => [CO!Next]_CO!vars
<1> SUFFICES ASSUME IInv, IInv', [Next]_vars PROVE [CO!Next]_CO!vars
  OBVIOUS
<1> USE DEF IInv, TypeOK
<1>1. CASE UNCHANGED vars
  <2>1. \A u \in Threads : \A k \in Keys : Owns(u, k)' <=> Owns(u, k)
    BY <1>1 DEF vars, Owns
  <2> QED
    BY <1>1, <2>1, InvisibleStep DEF vars, CO!vars
<1>2. ASSUME NEW t \in Threads,
             \/ \E k \in Keys, a \in BOOLEAN : Call(t, k, a)
             \/ FindUnavailable(t) \/ FindExisting(t) \/ FindWait(t) \/ FindReady(t)
             \/ SpuriousWakeup(t) \/ NotifyAll(t) \/ Retrieve(t) \/ Release(t)
      PROVE  UNCHANGED CO!vars
  <2>1. UNCHANGED entry
    BY <1>2 DEF Call, FindUnavailable, FindExisting, FindWait, FindReady, SpuriousWakeup,
                NotifyAll, Retrieve, RetrieveCheck, RetrieveRead, Release
  <2>2. \A u \in Threads : \A k \in Keys : Owns(u, k)' <=> Owns(u, k)
    <3>1. CASE \E k \in Keys, a \in BOOLEAN : Call(t, k, a)
      BY <3>1 DEF Call, Goto, Owns
    <3>2. CASE FindUnavailable(t) \/ FindExisting(t) \/ FindWait(t) \/ FindReady(t)
      BY <3>2 DEF FindUnavailable, FindExisting, FindWait, FindReady, Looking, Goto, Owns
    <3>3. CASE SpuriousWakeup(t)
      BY <3>3 DEF SpuriousWakeup, Goto, Owns
    <3>4. CASE NotifyAll(t)
      BY <3>4 DEF NotifyAll, Owns
    <3>5. CASE Retrieve(t)
      BY <3>5 DEF Retrieve, RetrieveCheck, RetrieveRead, Goto, Owns
    <3>6. CASE Release(t)
      BY <3>6 DEF Release, Goto, Owns
    <3> QED
      BY <1>2, <3>1, <3>2, <3>3, <3>4, <3>5, <3>6
  <2> QED
    BY <2>1, <2>2, InvisibleStep DEF CO!vars
<1>3. ASSUME NEW t \in Threads, FindMiss(t) \/ FindNew(t)
      PROVE  CO!Start(t, key[t])
  <2> DEFINE K == key[t]
  <2>1. K \in Keys /\ Free /\ entry[K].state \notin {"Compiling", "Ready"}
    <3>1. CASE FindMiss(t)
      BY <3>1 DEF FindMiss, None
    <3>2. CASE FindNew(t)
      BY <3>2 DEF FindNew, Looking
    <3> QED
      BY <1>3, <3>1, <3>2
  <2>2. Builders[K] = {} /\ Done[K] = NoBlob
    BY <2>1, NoOwner
  <2>3. \A u \in Threads : \A k \in Keys : Owns(u, k)' <=> Owns(u, k) \/ (u = t /\ k = K)
    <3>1. CASE FindMiss(t)
      BY <3>1 DEF FindMiss, Goto, Owns
    <3>2. CASE FindNew(t)
      BY <3>2 DEF FindNew, Looking, Goto, Owns
    <3> QED
      BY <1>3, <3>1, <3>2
  <2>4. Builders' = [Builders EXCEPT ![K] = {t}]
    BY <2>1, <2>2, <2>3, OwnerAdded
  <2>5. entry' = [entry EXCEPT ![K] = Compiling]
    BY <1>3 DEF FindMiss, FindNew, SetEntry
  <2>6. Done'[K] = NoBlob
    BY <2>1, <2>5 DEF Done, Compiling
  <2>7. Done' = [Done EXCEPT ![K] = NoBlob]
    BY <2>1, <2>4, <2>5, <2>6, DoneChanges DEF Builders
  <2>8. Done' = Done
    BY <2>1, <2>2, <2>7 DEF Done
  <2> QED
    BY <2>2, <2>4, <2>8 DEF CO!Start
<1>4. ASSUME NEW t \in Threads, FindExternalHit(t)
      PROVE  CO!Import(key[t], ext[key[t]]) /\ ext[key[t]] \in Blobs
  <2> DEFINE K == key[t]
  <2>1. /\ K \in Keys /\ Free /\ entry[K].state \notin {"Compiling", "Ready"}
        /\ ext[K] \in Blobs
    BY <1>4 DEF FindExternalHit, None
  <2>2. Builders[K] = {} /\ Done[K] = NoBlob
    BY <2>1, NoOwner
  <2>3. Builders' = Builders
    BY <1>4 DEF FindExternalHit, Goto, Builders, Owns
  <2>4. Done'[K] = ext[K]
    BY <1>4, <2>1, <2>2, <2>3 DEF FindExternalHit, SetEntry, Ready, Done
  <2>5. Done' = [Done EXCEPT ![K] = ext[K]]
    BY <1>4, <2>1, <2>3, <2>4, DoneChanges DEF FindExternalHit, SetEntry
  <2> QED
    BY <2>1, <2>2, <2>3, <2>5 DEF CO!Import
<1>5. ASSUME NEW t \in Threads, NEW b \in Blobs, InsertPublish(t, b)
      PROVE  UNCHANGED CO!vars
  <2>1. Builders' = Builders
    BY <1>5 DEF InsertPublish, Goto, Builders, Owns
  <2>2. t \in Builders[key[t]]
    BY <1>5 DEF InsertPublish, Builders, Owns
  <2>3. Done' = Done
    BY <1>5, <2>1, <2>2 DEF InsertPublish, SetEntry, Ready, Done
  <2> QED
    BY <2>1, <2>3 DEF CO!vars
<1>6. ASSUME NEW t \in Threads, InsertDone(t)
      PROVE  CO!Finish(t, key[t], entry[key[t]].data) /\ entry[key[t]].data \in Blobs
  <2> DEFINE K == key[t]
  <2>1. /\ K \in Keys /\ Builders[K] = {t}
    BY <1>6 DEF InsertDone, OneCompiler, Builders, Owns
  <2>2. entry[K].state = "Ready" /\ entry[K].data \in Blobs
    BY <1>6 DEF InsertDone, LockInv, EntryShape
  <2>3. \A u \in Threads : \A k \in Keys : Owns(u, k)' <=> Owns(u, k) /\ k # K
    BY <1>6, <2>1 DEF InsertDone, Goto, Owns, OneCompiler
  <2>4. Builders' = [Builders EXCEPT ![K] = {}]
    BY <2>1, <2>3, OwnerRemoved
  <2>5. Done'[K] = entry[K].data
    BY <1>6, <2>1, <2>2, <2>4 DEF InsertDone, Done, Builders
  <2>6. Done' = [Done EXCEPT ![K] = entry[K].data]
    BY <1>6, <2>1, <2>4, <2>5, DoneChanges DEF InsertDone, Builders
  <2> QED
    BY <2>1, <2>2, <2>4, <2>6 DEF CO!Finish
<1>7. ASSUME NEW t \in Threads, InsertFailed(t) \/ ResetShader(t)
      PROVE  CO!GiveUp(t, key[t])
  <2> DEFINE K == key[t]
  <2>1. /\ K \in Keys /\ Builders[K] = {t} /\ Owns(t, K)
    BY <1>7 DEF InsertFailed, ResetShader, OneCompiler, Builders, Owns
  <2>2. /\ entry' = [entry EXCEPT ![K] = New] /\ key' = key
        /\ pc' = [pc EXCEPT ![t] = "notify"]
    BY <1>7 DEF InsertFailed, ResetShader, SetEntry, Goto
  <2>3. \A u \in Threads : \A k \in Keys : Owns(u, k)' <=> Owns(u, k) /\ k # K
    BY <2>1, <2>2 DEF Owns, OneCompiler
  <2>4. Builders' = [Builders EXCEPT ![K] = {}]
    BY <2>1, <2>3, OwnerRemoved
  <2>5. Done[K] = NoBlob /\ Done'[K] = NoBlob
    BY <2>1, <2>2 DEF Done, New
  <2>6. Done' = [Done EXCEPT ![K] = NoBlob]
    BY <2>1, <2>2, <2>4, <2>5, DoneChanges DEF Builders
  <2>7. Done' = Done
    BY <2>1, <2>5, <2>6 DEF Done
  <2> QED
    BY <2>1, <2>4, <2>7 DEF CO!GiveUp
<1> QED
  BY <1>1, <1>2, <1>3, <1>4, <1>5, <1>6, <1>7 DEF Next, Step, Find, Insert, CO!Next

(* The concurrent cache, with its mutex, condition variable, external cache  *)
(* and fallible file, implements CompileOnce.                                *)
THEOREM Refinement == Spec => ImplementsCompileOnce
BY RefinesInit, RefinesStep, Inductive, PTL DEF Spec, ImplementsCompileOnce, CO!Spec

-----------------------------------------------------------------------------
(* The accessors: the inductive invariant *)

(* Where a thread is in the shader cache, by what its accessor is doing and   *)
(* by the handle that it holds.                                               *)
PhaseInv ==
  \A t \in Threads :
    /\ phase[t] = "none" => pc[t] = "idle" /\ handle[t] = "empty"
    /\ phase[t] = "lookup" =>
         /\ pc[t] \in {"find", "relock", "waiting", "owner", "hit", "readHit"}
         /\ handle[t] = "empty"
    /\ phase[t] = "ready" => \/ handle[t] = "mustPopulate" /\ pc[t] = "owner"
                             \/ handle[t] = "held" /\ pc[t] = "hit"
                             \/ handle[t] = "empty" /\ pc[t] = "held"
    /\ phase[t] = "set" => /\ pc[t] \in {"addfile", "notify", "held", "readHeld"}
                           /\ handle[t] = "held"
    /\ phase[t] = "put" => /\ pc[t] \in {"addfile", "notify", "held"}
                           /\ handle[t] = "empty"
    /\ phase[t] = "noPopulate" => pc[t] = "hit" /\ handle[t] = "held"
    /\ phase[t] = "noReadBack" => pc[t] = "held" /\ handle[t] = "held"

(* The ELF of a hit is what retrieveShader returned, which is not empty. *)
ElfInv ==
  \A t \in Threads :
    /\ res[t] = "Success" => got[t] # EmptyBlob
    /\ phase[t] = "ready" /\ handle[t] = "held" /\ result[t] = "Success" =>
         res[t] = "Success" /\ elf[t] = got[t]

AInv == ATypeOK /\ IInv /\ PhaseInv /\ ElfInv

(* Without a file, what a handle has inserted stays, and can be read back. *)
KeptInv ==
  \A t \in Threads :
    /\ phase[t] = "set" => /\ entry[key[t]].state = "Ready"
                           /\ entry[key[t]].data # EmptyBlob
                           /\ res[t] \in {"none", "Success"}
    /\ phase[t] # "noReadBack"

-----------------------------------------------------------------------------
(* The accessors as users of the cache *)

(* Every step of an accessor is a step of the cache or leaves it alone. *)
LEMMA StepOfCache == [ANext]_allVars => [Next]_vars
<1> SUFFICES ASSUME [ANext]_allVars PROVE [Next]_vars
  OBVIOUS
<1>1. CASE UNCHANGED allVars
  BY <1>1 DEF allVars
<1>2. ASSUME NEW t \in Threads, AStep(t)
      PROVE  Step(t) \/ UNCHANGED vars
  <2>1. ASSUME NEW k \in Keys, Construct(t, k) PROVE Step(t)
    BY <2>1 DEF Construct, Step
  <2>2. CASE CacheStep(t)
    BY <2>2 DEF CacheStep, Step, Insert
  <2>3. CASE LookupMiss(t) \/ LookupHit(t) \/ SetElfAsserts(t) \/ SetElfDone(t)
    BY <2>3 DEF LookupMiss, LookupHit, SetElfAsserts, SetElfDone
  <2>4. ASSUME NEW b \in Blobs \ {EmptyBlob}, SetElfInCache(t, b) PROVE Step(t)
    BY <2>4 DEF SetElfInCache, Step, Insert
  <2>5. CASE DestroyUnpopulated(t)
    BY <2>5, EmptyBlobAssumption DEF DestroyUnpopulated, Step, Insert
  <2>6. CASE Destroy(t)
    BY <2>6 DEF Destroy, Step
  <2> QED
    BY <1>2, <2>1, <2>2, <2>3, <2>4, <2>5, <2>6 DEF AStep
<1> QED
  BY <1>1, <1>2 DEF ANext, Next

(* The cache with its accessors, through ShaderCacheWrap, is the cache with a *)
(* client that keeps its protocol: all that is proved of it holds for them.   *)
THEOREM AccessorsUseCache == ASpec => Spec
<1>1. AInit => Init
  BY DEF AInit
<1> QED
  BY <1>1, StepOfCache, PTL DEF ASpec, Spec

(* So compiles through accessors are compiles through CompileOnce. *)
THEOREM AccessorsCompileOnce == ASpec => ImplementsCompileOnce
BY AccessorsUseCache, Refinement, PTL

-----------------------------------------------------------------------------
(* Invariance *)

(* No accessor yet. *)
LEMMA InitAInv == AInit => AInv
<1> SUFFICES ASSUME AInit PROVE AInv
  OBVIOUS
<1>1. IInv
  BY InitIInv DEF AInit
<1>2. ATypeOK
  BY <1>1 DEF AInit, ATypeOK, IInv, Phases, Handles
<1>3. PhaseInv /\ ElfInv
  BY DEF AInit, Init, PhaseInv, ElfInv
<1> QED
  BY <1>1, <1>2, <1>3 DEF AInv

(* Every step keeps the variables of the accessors in their types. *)
LEMMA ATypeStep ==
  ASSUME ATypeOK, TypeOK', NEW t \in Threads, AStep(t)
  PROVE  ATypeOK'
<1> USE DEF ATypeOK, Enter, Phases, Handles, accVars
<1>1. ASSUME NEW k \in Keys, Construct(t, k) PROVE ATypeOK'
  BY <1>1 DEF Construct
<1>2. CASE CacheStep(t)
  BY <1>2 DEF CacheStep
<1>3. CASE LookupMiss(t)
  BY <1>3 DEF LookupMiss
<1>4. CASE LookupHit(t)
  BY <1>4 DEF LookupHit, TypeOK
<1>5. ASSUME NEW b \in Blobs \ {EmptyBlob}, SetElfInCache(t, b) PROVE ATypeOK'
  BY <1>5 DEF SetElfInCache
<1>6. CASE SetElfAsserts(t)
  BY <1>6 DEF SetElfAsserts
<1>7. CASE SetElfDone(t)
  <2>1. got[t] \in Blobs \cup {NoBlob}
    BY DEF TypeOK
  <2>2. CASE res[t] = "Success"
    BY <1>7, <2>1, <2>2 DEF SetElfDone
  <2>3. CASE res[t] # "Success"
    BY <1>7, <2>3 DEF SetElfDone
  <2> QED
    BY <2>2, <2>3
<1>8. CASE DestroyUnpopulated(t) \/ Destroy(t)
  BY <1>8 DEF DestroyUnpopulated, Destroy
<1> QED
  BY <1>1, <1>2, <1>3, <1>4, <1>5, <1>6, <1>7, <1>8 DEF AStep

(* A step of the cache itself moves the thread within the part of the cache   *)
(* that its accessor is in, and at most wakes others, which are in a lookup.  *)
LEMMA CacheStepAInv ==
  ASSUME AInv, ATypeOK', NEW t \in Threads, CacheStep(t)
  PROVE  PhaseInv' /\ ElfInv'
<1> USE DEF AInv, ATypeOK, TypeOK, CacheStep, accVars, Goto, PhaseInv, ElfInv
<1>1. CASE phase[t] = "lookup" /\ (Find(t) \/ SpuriousWakeup(t))
  <2>1. CASE FindUnavailable(t)
    BY <1>1, <2>1 DEF FindUnavailable
  <2>2. CASE FindExternalHit(t)
    BY <1>1, <2>2 DEF FindExternalHit
  <2>5. CASE FindMiss(t)
    BY <1>1, <2>5 DEF FindMiss
  <2>3. CASE FindExisting(t) \/ FindWait(t) \/ SpuriousWakeup(t)
    BY <1>1, <2>3 DEF FindExisting, FindWait, SpuriousWakeup
  <2>4. CASE FindReady(t) \/ FindNew(t)
    BY <1>1, <2>4 DEF FindReady, FindNew
  <2> QED
    BY <1>1, <2>1, <2>2, <2>3, <2>4, <2>5 DEF Find
<1>2. CASE phase[t] \in {"set", "put"} /\ (InsertDone(t) \/ InsertFailed(t))
  BY <1>2 DEF InsertDone, InsertFailed
<1>3. CASE phase[t] \in {"set", "put"} /\ NotifyAll(t)
  BY <1>3 DEF NotifyAll
<1>4. CASE RetrieveCheck(t) /\ phase[t] \in {"lookup", "set"}
  BY SMTT(40), <1>4 DEF RetrieveCheck
<1>5. CASE RetrieveRead(t) /\ phase[t] \in {"lookup", "set"}
  BY <1>5 DEF RetrieveRead
<1> QED
  BY <1>1, <1>2, <1>3, <1>4, <1>5 DEF Retrieve

(* The steps of the accessor proper. *)
LEMMA AccessorAInv ==
  ASSUME AInv, ATypeOK', NEW t \in Threads, AStep(t)
  PROVE  PhaseInv' /\ ElfInv'
<1> USE DEF AInv, ATypeOK, TypeOK, Goto, Enter, PhaseInv, ElfInv, vars
<1>1. ASSUME NEW k \in Keys, Construct(t, k) PROVE PhaseInv' /\ ElfInv'
  BY <1>1 DEF Construct, Call
<1>2. CASE CacheStep(t)
  BY <1>2, CacheStepAInv
<1>3. CASE LookupMiss(t)
  BY <1>3 DEF LookupMiss
<1>4. CASE LookupHit(t)
  BY <1>4 DEF LookupHit
<1>5. ASSUME NEW b \in Blobs \ {EmptyBlob}, SetElfInCache(t, b)
      PROVE  PhaseInv' /\ ElfInv'
  BY <1>5 DEF SetElfInCache, InsertPublish
<1>6. CASE SetElfAsserts(t)
  BY <1>6 DEF SetElfAsserts
<1>7. CASE SetElfDone(t)
  BY <1>7 DEF SetElfDone
<1>8. CASE DestroyUnpopulated(t)
  BY <1>8 DEF DestroyUnpopulated, InsertPublish
<1>9. CASE Destroy(t)
  BY <1>9 DEF Destroy, Release
<1> QED
  BY <1>1, <1>2, <1>3, <1>4, <1>5, <1>6, <1>7, <1>8, <1>9 DEF AStep

(* Every step keeps the invariant. *)
LEMMA StepAInv == AInv /\ [ANext]_allVars => AInv'
<1> SUFFICES ASSUME AInv, [ANext]_allVars PROVE AInv'
  OBVIOUS
<1>1. IInv'
  BY StepOfCache, StepIInv DEF AInv
<1>2. CASE UNCHANGED allVars
  BY <1>1, <1>2 DEF AInv, IInv, ATypeOK, PhaseInv, ElfInv, allVars, vars, accVars
<1>3. ASSUME NEW t \in Threads, AStep(t) PROVE AInv'
  BY <1>1, <1>3, ATypeStep, AccessorAInv DEF AInv, IInv
<1> QED
  BY <1>2, <1>3 DEF ANext

(* The invariant of cache and accessors holds in every reachable state. *)
THEOREM AccessorInductive == ASpec => []AInv
BY InitAInv, StepAInv, PTL DEF ASpec

(* The obligation to populate an entry is the handle's, and is never lost. *)
THEOREM ObligationKept == ASpec => []ObligationTracked
<1>1. AInv => ObligationTracked
  BY DEF AInv, ATypeOK, Phases, PhaseInv, ObligationTracked
<1> QED
  BY <1>1, AccessorInductive, PTL

(* An ELF that was found stays the finished shader of its entry. *)
THEOREM ElfKept == ASpec => []ElfStaysValid
<1>1. AInv => ElfStaysValid
  BY DEF AInv, IInv, TypeOK, PhaseInv, ElfInv, ReaderInv, Final, Ready, isInCache, ElfStaysValid
<1> QED
  BY <1>1, AccessorInductive, PTL

-----------------------------------------------------------------------------
(* Without a file a finished entry is never rolled back. *)

LEMMA ReadyStays ==
  ASSUME IInv, Next, ~FileOpen, NEW k \in Keys, entry[k].state = "Ready"
  PROVE  entry'[k] = entry[k]
<1> USE DEF IInv, TypeOK
<1>1. ASSUME NEW t \in Threads, pc[t] = "owner" PROVE key[t] # k
  BY <1>1 DEF OneCompiler
<1>2. ASSUME NEW t \in Threads, Find(t) PROVE entry'[k] = entry[k]
  <2>2. CASE FindExternalHit(t)
    BY <2>2 DEF FindExternalHit, SetEntry, None
  <2>3. CASE FindMiss(t)
    BY <2>3 DEF FindMiss, SetEntry, None
  <2>4. CASE FindNew(t)
    BY <2>4 DEF FindNew, SetEntry
  <2> QED
    BY <1>2, <2>2, <2>3, <2>4 DEF Find, FindUnavailable, FindExisting, FindWait, FindReady
<1>3. ASSUME NEW t \in Threads, Insert(t) \/ ResetShader(t) PROVE entry'[k] = entry[k]
  BY <1>1, <1>3 DEF Insert, InsertPublish, InsertDone, InsertFailed, ResetShader,
                         SetEntry
<1> QED
  BY <1>2, <1>3 DEF Next, Step, Call, SpuriousWakeup, NotifyAll, Retrieve, RetrieveCheck,
                    RetrieveRead, Release

(* What setElfInCache inserted is still there when it is read back. *)
LEMMA KeptStep ==
  ASSUME AInv, KeptInv, ~FileOpen, NEW t \in Threads, AStep(t)
  PROVE  KeptInv'
<1> USE DEF AInv, ATypeOK, TypeOK, KeptInv, Enter, Goto, accVars, vars
<1>1. Next \/ UNCHANGED vars
  BY StepOfCache DEF ANext
<1>2. \A k \in Keys : entry[k].state = "Ready" => entry'[k] = entry[k]
  BY <1>1, ReadyStays
<1>3. ASSUME NEW k \in Keys, Construct(t, k) PROVE KeptInv'
  BY <1>2, <1>3 DEF Construct, Call
<1>4. CASE CacheStep(t)
  <2>1. phase' = phase /\ key' = key
    BY <1>4 DEF CacheStep, Find, FindUnavailable, FindExternalHit, FindMiss, FindExisting,
                FindWait, FindReady, FindNew, SpuriousWakeup, InsertDone, InsertFailed,
                NotifyAll, Retrieve, RetrieveCheck, RetrieveRead
  <2>2. \A u \in Threads : phase[u] = "set" => res'[u] \in {"none", "Success"}
    BY <1>4 DEF CacheStep, Find, FindUnavailable, FindExternalHit, FindMiss, FindExisting,
                FindWait, FindReady, FindNew, SpuriousWakeup, InsertDone, InsertFailed,
                NotifyAll, Retrieve, RetrieveCheck, RetrieveRead
  <2> QED
    BY <1>2, <2>1, <2>2
<1>5. CASE LookupMiss(t) \/ LookupHit(t) \/ SetElfAsserts(t) \/ SetElfDone(t)
  BY <1>5 DEF LookupMiss, LookupHit, SetElfAsserts, SetElfDone
<1>6. ASSUME NEW b \in Blobs \ {EmptyBlob}, SetElfInCache(t, b) PROVE KeptInv'
  <2>1. res[t] = "none" /\ entry' = [entry EXCEPT ![key[t]] = Ready(b)]
    BY <1>6 DEF SetElfInCache, InsertPublish, SetEntry, IInv, ReaderInv
  <2>2. phase' = [phase EXCEPT ![t] = "set"] /\ UNCHANGED <<key, res>>
    BY <1>6 DEF SetElfInCache, InsertPublish
  <2> QED
    BY <1>2, <2>1, <2>2 DEF Ready
<1>7. CASE DestroyUnpopulated(t)
  BY <1>2, <1>7 DEF DestroyUnpopulated, InsertPublish
<1>8. CASE Destroy(t)
  BY <1>2, <1>8 DEF Destroy, Release
<1> QED
  BY <1>3, <1>4, <1>5, <1>6, <1>7, <1>8 DEF AStep

(* Without a file the mustSucceed of setElfInCache holds: the value that was  *)
(* inserted can be read back.  (A file whose write fails rolls it back.)      *)
THEOREM ReadBack == ~FileOpen => (ASpec => []ReadBackSucceeds)
<1> SUFFICES ASSUME ~FileOpen PROVE ASpec => []ReadBackSucceeds
  OBVIOUS
<1>1. AInit => KeptInv
  BY DEF AInit, KeptInv
<1>2. AInv /\ KeptInv /\ [ANext]_allVars => KeptInv'
  <2> SUFFICES ASSUME AInv, KeptInv, [ANext]_allVars PROVE KeptInv'
    OBVIOUS
  <2>1. CASE UNCHANGED allVars
    BY <2>1 DEF KeptInv, allVars, vars, accVars
  <2> QED
    BY <2>1, KeptStep DEF ANext
<1>3. KeptInv => ReadBackSucceeds
  BY DEF KeptInv, ReadBackSucceeds
<1> QED
  BY <1>1, <1>2, <1>3, AccessorInductive, PTL DEF ASpec
==============================================================================
