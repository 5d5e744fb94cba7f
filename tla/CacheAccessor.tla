---------------------------- MODULE CacheAccessor ----------------------------
(***************************************************************************)
(* How the compiler uses the shader cache: a CacheAccessor                 *)
(* (llpc/util/llpcCacheAccessor.cpp) looks a hash up when it is constructed*)
(* and holds a Vkgc::EntryHandle (include/vkgcDefs.h) on the entry; the    *)
(* compiler either takes the ELF from it, or compiles and stores the ELF   *)
(* through it, and its destructor settles an entry that nobody populated.  *)
(* ShaderCacheWrap (llpc/tool/llpcShaderCacheWrap.cpp) forwards the calls  *)
(* to ShaderCache, whose steps this module composes with the client's.     *)
(***************************************************************************)
EXTENDS ShaderCache

VARIABLES
  phase,    \* what the thread's accessor is doing
  result,   \* m_cacheResult
  handle,   \* m_cacheEntry: empty, or held with or without m_mustPopulate
  elf       \* m_elf

accVars == <<phase, result, handle, elf>>
allVars == <<vars, accVars>>

(* "lookup": in the constructor.  "ready": constructed.  "set": in            *)
(* setElfInCache, inserting.  "put": in EntryHandle::Put, inserting an empty  *)
(* value.  "noPopulate", "noReadBack": assert(m_mustPopulate) of SetValue and  *)
(* mustSucceed(GetValueZeroCopy) of setElfInCache, respectively, do not hold. *)
Phases == {"none", "lookup", "ready", "set", "put", "noPopulate", "noReadBack"}

Handles == {"empty", "held", "mustPopulate"}

AInit ==
  /\ Init
  /\ phase = [t \in Threads |-> "none"]
  /\ result = [t \in Threads |-> "ErrorUnknown"]
  /\ handle = [t \in Threads |-> "empty"]
  /\ elf = [t \in Threads |-> NoBlob]

Enter(t, p) == phase' = [phase EXCEPT ![t] = p]

(* initialize(), then GetEntry(hash, allocateOnMiss = true). *)
Construct(t, k) ==
  /\ phase[t] = "none"
  /\ Call(t, k, TRUE)
  /\ Enter(t, "lookup")
  /\ result' = [result EXCEPT ![t] = "ErrorUnknown"]
  /\ handle' = [handle EXCEPT ![t] = "empty"]
  /\ elf' = [elf EXCEPT ![t] = NoBlob]

(* The steps of findShader, insertShader and retrieveShader in progress. *)
CacheStep(t) ==
  /\ \/ phase[t] = "lookup" /\ (Find(t) \/ SpuriousWakeup(t))
     \/ phase[t] \in {"set", "put"} /\ (InsertDone(t) \/ InsertFailed(t) \/ NotifyAll(t))
     \/ /\ \/ phase[t] = "lookup" /\ pc[t] \in {"hit", "readHit"}
           \/ phase[t] = "set" /\ pc[t] \in {"held", "readHeld"}
        /\ res[t] = "none"
        /\ Retrieve(t)
  /\ UNCHANGED accVars

(* Mutant: the handle of a miss does not have to be populated. *)
LookupMissHeld(t) ==
  /\ phase[t] = "lookup" /\ pc[t] = "owner"
  /\ Enter(t, "ready")
  /\ result' = [result EXCEPT ![t] = "NotFound"]
  /\ handle' = [handle EXCEPT ![t] = "held"]
  /\ UNCHANGED <<vars, elf>>

(* GetEntry returned NotFound: the caller has to populate the entry. *)
LookupMiss(t) ==
  /\ phase[t] = "lookup" /\ pc[t] = "owner"
  /\ Enter(t, "ready")
  /\ result' = [result EXCEPT ![t] = "NotFound"]
  /\ handle' = [handle EXCEPT ![t] = "mustPopulate"]
  /\ UNCHANGED <<vars, elf>>

(* GetEntry returned Success: the result is that of GetValueZeroCopy. *)
LookupHit(t) ==
  /\ phase[t] = "lookup" /\ pc[t] = "hit" /\ res[t] # "none"
  /\ Enter(t, "ready")
  /\ result' = [result EXCEPT ![t] = res[t]]
  /\ handle' = [handle EXCEPT ![t] = "held"]
  /\ elf' = [elf EXCEPT ![t] = got[t]]
  /\ UNCHANGED vars

(* Mutant: everything but NotFound counts as a hit. *)
isInCacheLax(t) == result[t] # "NotFound"

isInCache(t) == result[t] = "Success"

(* The compile after a miss succeeded with b: setElfInCache(b) calls          *)
(* SetValue(true, ...), which needs m_mustPopulate.                           *)
SetElfInCache(t, b) ==
  /\ phase[t] = "ready" /\ ~isInCache(t) /\ handle[t] = "mustPopulate"
  /\ InsertPublish(t, b)
  /\ Enter(t, "set")
  /\ handle' = [handle EXCEPT ![t] = "held"]
  /\ UNCHANGED <<result, elf>>

SetElfAsserts(t) ==
  /\ phase[t] = "ready" /\ ~isInCache(t) /\ handle[t] = "held"
  /\ Enter(t, "noPopulate")
  /\ UNCHANGED <<vars, result, handle, elf>>

(* GetValueZeroCopy after SetValue must succeed; the handle is released. *)
SetElfDone(t) ==
  /\ phase[t] = "set" /\ pc[t] = "held" /\ res[t] # "none"
  /\ IF res[t] = "Success"
       THEN /\ Enter(t, "ready")
            /\ elf' = [elf EXCEPT ![t] = got[t]]
            /\ handle' = [handle EXCEPT ![t] = "empty"]
            /\ result' = [result EXCEPT ![t] = "Success"]
       ELSE /\ Enter(t, "noReadBack")
            /\ UNCHANGED <<result, handle, elf>>
  /\ UNCHANGED vars

(* Mutant: the destructor forgets the obligation. *)
DestroyForgets(t) ==
  /\ phase[t] = "ready" /\ handle[t] = "mustPopulate"
  /\ Goto(t, "idle")
  /\ Enter(t, "none")
  /\ handle' = [handle EXCEPT ![t] = "empty"]
  /\ UNCHANGED <<entry, lock, useExt, ext, key, res, got, failures, result, elf>>

(* The destructor with the entry not populated (the compile, or the output    *)
(* allocation after it, failed): Put() calls SetValue(false, nullptr, 0), and *)
(* ShaderCacheWrap::SetValue inserts a value of size 0.                       *)
DestroyUnpopulated(t) ==
  /\ phase[t] = "ready" /\ handle[t] = "mustPopulate"
  /\ InsertPublish(t, EmptyBlob)
  /\ Enter(t, "put")
  /\ handle' = [handle EXCEPT ![t] = "empty"]
  /\ UNCHANGED <<result, elf>>

(* The destructor otherwise: ReleaseEntry does nothing. *)
Destroy(t) ==
  /\ \/ phase[t] = "ready" /\ handle[t] # "mustPopulate"
     \/ phase[t] = "put" /\ pc[t] = "held"
  /\ Release(t)
  /\ Enter(t, "none")
  /\ handle' = [handle EXCEPT ![t] = "empty"]
  /\ result' = [result EXCEPT ![t] = "ErrorUnknown"]
  /\ elf' = [elf EXCEPT ![t] = NoBlob]

AStep(t) ==
  \/ \E k \in Keys : Construct(t, k)
  \/ CacheStep(t)
  \/ LookupMiss(t) \/ LookupHit(t)
  \/ \E b \in Blobs \ {EmptyBlob} : SetElfInCache(t, b)
  \/ SetElfAsserts(t) \/ SetElfDone(t)
  \/ DestroyUnpopulated(t) \/ Destroy(t)

ANext == \E t \in Threads : AStep(t)

ASpec == AInit /\ [][ANext]_allVars

-----------------------------------------------------------------------------
ATypeOK ==
  /\ TypeOK
  /\ phase \in [Threads -> Phases]
  /\ result \in [Threads -> {"NotFound", "Success", "ErrorUnknown", "ErrorOutOfMemory"}]
  /\ handle \in [Threads -> Handles]
  /\ elf \in [Threads -> Blobs \cup {NoBlob}]

(* The obligation to populate is never lost or doubled: the thread that       *)
(* ShaderCache counts as the compiler of an entry is the one whose handle has *)
(* m_mustPopulate (EntryHandle moves, Put, SetValue).                         *)
ObligationTracked ==
  \A t \in Threads :
    /\ handle[t] = "mustPopulate" => pc[t] = "owner" /\ phase[t] = "ready"
    /\ pc[t] = "owner" => handle[t] = "mustPopulate" \/ phase[t] = "lookup"

(* An ELF that a lookup found is a finished shader and stays the entry's for  *)
(* as long as the accessor lives, whatever is rolled back meanwhile: the      *)
(* callers use and copy it without a lock.                                    *)
ElfStaysValid ==
  \A t \in Threads :
    phase[t] = "ready" /\ isInCache(t) /\ handle[t] = "held" =>
      elf[t] \notin {NoBlob, EmptyBlob} /\ entry[key[t]] = Ready(elf[t])

(* SetValue is only called on a handle whose entry must be populated: the     *)
(* assert of EntryHandle::SetValue holds whatever compiles failed before.     *)
MustPopulateHolds == \A t \in Threads : phase[t] # "noPopulate"

(* The value that setElfInCache just inserted can be read back: the           *)
(* mustSucceed of setElfInCache holds whatever happens to the file.           *)
ReadBackSucceeds == \A t \in Threads : phase[t] # "noReadBack"

-----------------------------------------------------------------------------
(* Threads are scheduled and a compile ends; the destructor runs when the     *)
(* accessor goes out of scope.  A thread that sleeps is not scheduled: only a *)
(* notification is sure to wake it.                                           *)
AFairSpec ==
  ASpec /\ \A t \in Threads :
             WF_allVars(/\ pc[t] # "waiting"
                        /\ AStep(t) /\ ~\E k \in Keys : Construct(t, k))

(* Whoever starts to use the cache gets through (or stops at an assertion):   *)
(* no compile failure leaves a waiting accessor behind.                       *)
AccessorsFinish ==
  \A t \in Threads : phase[t] = "lookup" ~> phase[t] \in {"none", "noPopulate", "noReadBack"}
==============================================================================
