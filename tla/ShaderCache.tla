----------------------------- MODULE ShaderCache -----------------------------
(***************************************************************************)
(* The in-memory half of Llpc::ShaderCache (llpc/tool/llpcShaderCache.cpp) *)
(* as used by several compiling threads: the index map and the state of    *)
(* its entries, the one cache mutex, the condition variable a second       *)
(* requester of a shader sleeps on, the client's external cache, and the   *)
(* on-disk file as a step that may fail.                                   *)
(*                                                                         *)
(* A critical section of the code is one step, except that of              *)
(* insertShader: it marks the entry Ready, writes the file and only then   *)
(* may have to take the entry back, while retrieveShader looks at the      *)
(* state of an entry without the mutex.                                    *)
(***************************************************************************)
EXTENDS Naturals, FiniteSets

CONSTANTS Threads,      \* client threads
          Keys,         \* compacted 64-bit shader hashes (hashKey)
          Blobs,        \* contents of a serialized shader
          NoBlob,       \* dataBlob = nullptr and header.size = 0
          EmptyBlob,    \* the blob of a shader of size 0
          NoThread,     \* nobody holds m_lock
          FileOpen,     \* m_onDiskFile.isOpen()
          MaxFailures   \* bound on failed compiles plus failed file writes

ASSUME NoBlobAssumption == NoBlob \notin Blobs
ASSUME EmptyBlobAssumption == EmptyBlob \in Blobs
ASSUME NoThreadAssumption == NoThread \notin Threads
ASSUME FileOpenAssumption == FileOpen \in BOOLEAN
ASSUME MaxFailuresAssumption == MaxFailures \in Nat

VARIABLES
  entry,     \* m_shaderIndexMap: per key, the state of its ShaderIndex and its blob
  lock,      \* holder of m_lock between two steps
  useExt,    \* m_getValueFunc and m_storeValueFunc are non-null
  ext,       \* contents of the client's external cache
  pc,        \* where each thread is
  key,       \* the entry a thread asks for, or whose handle it holds
  res,       \* result of the thread's last retrieveShader
  got,       \* *ppBlob of the thread's last retrieveShader
  failures   \* failed compiles and failed file writes so far

vars == <<entry, lock, useExt, ext, pc, key, res, got, failures>>

EntryStates == {"None", "New", "Compiling", "Ready"}

(* "find", "peek": findShader called with and without allocateOnMiss.        *)
(* "relock": in findShader, about to (re)acquire                             *)
(* the mutex before looking at the entry's state.  "waiting": asleep on the  *)
(* condition variable.  "owner": findShader returned Compiling.  "addfile":  *)
(* in insertShader, mutex held, entry Ready, file not yet written.           *)
(* "notify": mutex released, notify_all pending.  "hit": findShader returned *)
(* Ready.  "held": the handle of an entry that the thread had to populate.   *)
(* "read": in retrieveShader, past the unlocked test of the state.           *)
PCs == {"idle", "find", "peek", "relock", "waiting", "owner", "addfile", "notify",
        "hit", "held", "readHit", "readHeld"}

None == [state |-> "None", data |-> NoBlob]
New == [state |-> "New", data |-> NoBlob]
Compiling == [state |-> "Compiling", data |-> NoBlob]
Ready(b) == [state |-> "Ready", data |-> b]

(* A cache starts empty or seeded with the shaders of a file or a blob. *)
Init ==
  /\ entry \in [Keys -> {None} \cup {Ready(b) : b \in Blobs}]
  /\ lock = NoThread
  /\ useExt \in BOOLEAN
  /\ ext \in [Keys -> Blobs \cup {NoBlob}]
  /\ pc = [t \in Threads |-> "idle"]
  /\ key \in [Threads -> Keys]
  /\ res = [t \in Threads |-> "none"]
  /\ got = [t \in Threads |-> NoBlob]
  /\ failures = 0

-----------------------------------------------------------------------------
Free == lock = NoThread

Goto(t, l) == pc' = [pc EXCEPT ![t] = l]

SetEntry(k, e) == entry' = [entry EXCEPT ![k] = e]

(* findShader(k, allocateOnMiss = a) is called. *)
Call(t, k, a) ==
  /\ pc[t] = "idle"
  /\ Goto(t, IF a THEN "find" ELSE "peek")
  /\ key' = [key EXCEPT ![t] = k]
  /\ UNCHANGED <<entry, lock, useExt, ext, res, got, failures>>

(* The entry is missing and must not be allocated: Unavailable. *)
FindUnavailable(t) ==
  /\ pc[t] = "peek" /\ Free
  /\ entry[key[t]] = None
  /\ Goto(t, "idle")
  /\ UNCHANGED <<entry, lock, useExt, ext, key, res, got, failures>>

(* A new entry whose contents the external cache has. *)
FindExternalHit(t) ==
  /\ pc[t] = "find" /\ Free
  /\ entry[key[t]] = None
  /\ useExt /\ ext[key[t]] # NoBlob
  /\ SetEntry(key[t], Ready(ext[key[t]]))
  /\ Goto(t, "hit")
  /\ UNCHANGED <<lock, useExt, ext, key, res, got, failures>>

(* A new entry that the external cache does not have, or does not return;   *)
(* an external cache that says it is unavailable is not asked again.        *)
FindMiss(t) ==
  /\ pc[t] = "find" /\ Free
  /\ entry[key[t]] = None
  /\ useExt' \in (IF useExt THEN BOOLEAN ELSE {FALSE})
  /\ SetEntry(key[t], Compiling)
  /\ Goto(t, "owner")
  /\ UNCHANGED <<lock, ext, key, res, got, failures>>

(* The entry exists: an allocating caller gives the mutex up and takes it    *)
(* again before it looks at the state.                                       *)
FindExisting(t) ==
  /\ pc[t] = "find" /\ Free
  /\ entry[key[t]] # None
  /\ Goto(t, "relock")
  /\ UNCHANGED <<entry, lock, useExt, ext, key, res, got, failures>>

Looking(t) == pc[t] \in {"peek", "relock"} /\ Free

(* Mutant: a Ready entry is taken without the mutex. *)
FindReadyUnlocked(t) ==
  /\ pc[t] \in {"peek", "relock"}
  /\ entry[key[t]].state = "Ready"
  /\ Goto(t, "hit")
  /\ UNCHANGED <<entry, lock, useExt, ext, key, res, got, failures>>

(* Mutant: a New entry is not marked Compiling. *)
FindNewUnmarked(t) ==
  /\ Looking(t)
  /\ entry[key[t]].state = "New"
  /\ Goto(t, "owner")
  /\ UNCHANGED <<entry, lock, useExt, ext, key, res, got, failures>>

(* With the mutex held, the state of an existing entry decides: sleep while  *)
(* somebody compiles it, take it when it is Ready, compile it when it is New.*)
FindWait(t) ==
  /\ Looking(t)
  /\ entry[key[t]].state = "Compiling"
  /\ Goto(t, "waiting")
  /\ UNCHANGED <<entry, lock, useExt, ext, key, res, got, failures>>

FindReady(t) ==
  /\ Looking(t)
  /\ entry[key[t]].state = "Ready"
  /\ Goto(t, "hit")
  /\ UNCHANGED <<entry, lock, useExt, ext, key, res, got, failures>>

FindNew(t) ==
  /\ Looking(t)
  /\ entry[key[t]].state = "New"
  /\ SetEntry(key[t], Compiling)
  /\ Goto(t, "owner")
  /\ UNCHANGED <<lock, useExt, ext, key, res, got, failures>>

(* A sleeping thread may wake up without having been notified. *)
SpuriousWakeup(t) ==
  /\ pc[t] = "waiting"
  /\ Goto(t, "relock")
  /\ UNCHANGED <<entry, lock, useExt, ext, key, res, got, failures>>

-----------------------------------------------------------------------------
(* insertShader up to the file: blob, external store, Ready. *)
InsertPublish(t, b) ==
  /\ pc[t] = "owner" /\ Free
  /\ lock' = t
  /\ SetEntry(key[t], Ready(b))
  /\ \/ ~useExt /\ UNCHANGED <<useExt, ext>>
     \/ useExt /\ UNCHANGED useExt /\ ext' = [ext EXCEPT ![key[t]] = b]
     \/ useExt /\ useExt' \in BOOLEAN /\ UNCHANGED ext
  /\ Goto(t, "addfile")
  /\ UNCHANGED <<key, res, got, failures>>

(* Mutant: a successful insertion does not notify. *)
InsertDoneSilent(t) ==
  /\ pc[t] = "addfile"
  /\ lock' = NoThread
  /\ Goto(t, "held")
  /\ UNCHANGED <<entry, useExt, ext, key, res, got, failures>>

(* The file is not in use, or addShaderToFile succeeds. *)
InsertDone(t) ==
  /\ pc[t] = "addfile"
  /\ lock' = NoThread
  /\ Goto(t, "notify")
  /\ UNCHANGED <<entry, useExt, ext, key, res, got, failures>>

(* addShaderToFile fails: the entry goes back to New. *)
InsertFailed(t) ==
  /\ pc[t] = "addfile" /\ FileOpen
  /\ failures < MaxFailures
  /\ failures' = failures + 1
  /\ SetEntry(key[t], New)
  /\ lock' = NoThread
  /\ Goto(t, "notify")
  /\ UNCHANGED <<useExt, ext, key, res, got>>

(* Mutant: resetShader does not notify. *)
ResetShaderSilent(t) ==
  /\ pc[t] = "owner" /\ Free
  /\ failures < MaxFailures
  /\ failures' = failures + 1
  /\ SetEntry(key[t], New)
  /\ Goto(t, "held")
  /\ UNCHANGED <<lock, useExt, ext, key, res, got>>

(* Mutant: a handle whose entry was inserted may still reset it. *)
ResetShaderTwice(t) ==
  /\ pc[t] \in {"owner", "held"} /\ Free
  /\ failures < MaxFailures
  /\ failures' = failures + 1
  /\ SetEntry(key[t], New)
  /\ Goto(t, "notify")
  /\ UNCHANGED <<lock, useExt, ext, key, res, got>>

(* The compile failed. *)
ResetShader(t) ==
  /\ pc[t] = "owner" /\ Free
  /\ failures < MaxFailures
  /\ failures' = failures + 1
  /\ SetEntry(key[t], New)
  /\ Goto(t, "notify")
  /\ UNCHANGED <<lock, useExt, ext, key, res, got>>

(* m_conditionVariable.notify_all(), after the mutex was released. *)
NotifyAll(t) ==
  /\ pc[t] = "notify"
  /\ pc' = [u \in Threads |-> IF u = t THEN "held"
                              ELSE IF pc[u] = "waiting" THEN "relock"
                              ELSE pc[u]]
  /\ UNCHANGED <<entry, lock, useExt, ext, key, res, got, failures>>

-----------------------------------------------------------------------------
(* Mutant: the state of the entry is not tested. *)
RetrieveUnchecked(t) ==
  /\ pc[t] \in {"hit", "held"}
  /\ Goto(t, IF pc[t] = "hit" THEN "readHit" ELSE "readHeld")
  /\ res' = [res EXCEPT ![t] = "none"]
  /\ got' = [got EXCEPT ![t] = NoBlob]
  /\ UNCHANGED <<entry, lock, useExt, ext, key, failures>>

(* retrieveShader tests the state of the entry without the mutex ... *)
RetrieveCheck(t) ==
  /\ pc[t] \in {"hit", "held"}
  /\ IF entry[key[t]].state = "Ready"
       THEN /\ Goto(t, IF pc[t] = "hit" THEN "readHit" ELSE "readHeld")
            /\ res' = [res EXCEPT ![t] = "none"]
       ELSE /\ res' = [res EXCEPT ![t] = "ErrorOutOfMemory"]
            /\ UNCHANGED pc
  /\ got' = [got EXCEPT ![t] = NoBlob]
  /\ UNCHANGED <<entry, lock, useExt, ext, key, failures>>

(* ... and reads the blob and its size with it. *)
RetrieveRead(t) ==
  /\ pc[t] \in {"readHit", "readHeld"} /\ Free
  /\ got' = [got EXCEPT ![t] = entry[key[t]].data]
  /\ res' = [res EXCEPT ![t] = IF entry[key[t]].data = EmptyBlob
                                 THEN "ErrorUnknown" ELSE "Success"]
  /\ Goto(t, IF pc[t] = "readHit" THEN "hit" ELSE "held")
  /\ UNCHANGED <<entry, lock, useExt, ext, key, failures>>

(* The client is done with the handle (ICache::ReleaseEntry does nothing). *)
Release(t) ==
  /\ pc[t] \in {"hit", "held"}
  /\ Goto(t, "idle")
  /\ res' = [res EXCEPT ![t] = "none"]
  /\ got' = [got EXCEPT ![t] = NoBlob]
  /\ UNCHANGED <<entry, lock, useExt, ext, key, failures>>

-----------------------------------------------------------------------------
Find(t) == \/ FindUnavailable(t) \/ FindExternalHit(t) \/ FindMiss(t)
           \/ FindExisting(t) \/ FindWait(t) \/ FindReady(t) \/ FindNew(t)

Insert(t) == \/ \E b \in Blobs : InsertPublish(t, b)
             \/ InsertDone(t) \/ InsertFailed(t)

Retrieve(t) == RetrieveCheck(t) \/ RetrieveRead(t)

Step(t) == \/ \E k \in Keys, a \in BOOLEAN : Call(t, k, a)
           \/ Find(t) \/ SpuriousWakeup(t)
           \/ Insert(t) \/ ResetShader(t) \/ NotifyAll(t)
           \/ Retrieve(t) \/ Release(t)

Next == \E t \in Threads : Step(t)

Spec == Init /\ [][Next]_vars

-----------------------------------------------------------------------------
Owns(t, k) == pc[t] \in {"owner", "addfile"} /\ key[t] = k

TypeOK ==
  /\ entry \in [Keys -> [state : EntryStates, data : Blobs \cup {NoBlob}]]
  /\ lock \in Threads \cup {NoThread}
  /\ useExt \in BOOLEAN
  /\ ext \in [Keys -> Blobs \cup {NoBlob}]
  /\ pc \in [Threads -> PCs]
  /\ key \in [Threads -> Keys]
  /\ res \in [Threads -> {"none", "Success", "ErrorUnknown", "ErrorOutOfMemory"}]
  /\ got \in [Threads -> Blobs \cup {NoBlob}]
  /\ failures \in 0..MaxFailures

(* Avoiding duplicate compiles, the purpose of the cache: an entry is        *)
(* Compiling exactly when one thread, and one only, was told to compile it   *)
(* and has not yet inserted or reset it.                                     *)
OneCompiler ==
  \A k \in Keys :
    /\ \A t, u \in Threads : Owns(t, k) /\ Owns(u, k) => t = u
    /\ entry[k].state = "Compiling" <=> \E t \in Threads : pc[t] = "owner" /\ key[t] = k

(* No lost wake-up: although insertShader and resetShader notify only after  *)
(* they released the mutex, a thread asleep in findShader either waits for a *)
(* compile in progress or a notify_all is still to come.                     *)
NoMissedWakeup ==
  \A t \in Threads : pc[t] = "waiting" =>
    \/ entry[key[t]].state = "Compiling"
    \/ \E u \in Threads : pc[u] \in {"addfile", "notify"} /\ key[u] = key[t]

(* A pointer that retrieveShader handed out stays that of the entry: the     *)
(* blob of a retrieved shader is never replaced or dropped by another thread.*)
HandedOutBlobStays ==
  \A t \in Threads :
    pc[t] \in {"hit", "held"} /\ got[t] # NoBlob => entry[key[t]] = Ready(got[t])

(* A thread that findShader told the entry is Ready can retrieve it: no other*)
(* thread's failure turns the hit into ErrorOutOfMemory or a null blob.      *)
HitRetrieves ==
  \A t \in Threads :
    /\ pc[t] \in {"hit", "readHit"} =>
         entry[key[t]].state = "Ready" /\ res[t] # "ErrorOutOfMemory"
    /\ pc[t] = "hit" /\ res[t] = "Success" => got[t] # NoBlob

(* retrieveShader only succeeds with the blob of a shader ("If               *)
(* ShaderIndex::state is not ShaderEntryState::Ready it fails").             *)
RetrieveNeverNull ==
  \A t \in Threads : res[t] = "Success" => got[t] # NoBlob

(* The cache implements CompileOnce; a shader counts as done once it is Ready*)
(* and its insertion can no longer be rolled back.                           *)
Builders == [k \in Keys |-> {t \in Threads : Owns(t, k)}]

Done == [k \in Keys |-> IF entry[k].state = "Ready" /\ Builders[k] = {}
                          THEN entry[k].data ELSE NoBlob]

CO == INSTANCE CompileOnce WITH builders <- Builders, done <- Done

ImplementsCompileOnce == CO!Spec

-----------------------------------------------------------------------------
(* The parts of the inductive invariant that the properties above rest on.   *)

(* An entry has a blob exactly when it is Ready. *)
EntryShape ==
  \A k \in Keys : entry[k].state = "Ready" <=> entry[k].data # NoBlob

(* Between two steps the mutex is held by the thread writing the file only,  *)
(* whose entry is Ready.                                                     *)
LockInv ==
  \A t \in Threads : /\ pc[t] = "addfile" <=> lock = t
                     /\ pc[t] = "addfile" => entry[key[t]].state = "Ready"

(* k is Ready and no insertion can still roll it back. *)
Final(k) == /\ entry[k].state = "Ready"
            /\ \A u \in Threads : pc[u] = "addfile" => key[u] # k

(* What a thread holding a handle knows of its entry. *)
ReaderInv ==
  \A t \in Threads :
    /\ pc[t] \in {"hit", "readHit"} => Final(key[t]) /\ res[t] # "ErrorOutOfMemory"
    /\ res[t] # "none" => pc[t] \in {"hit", "held"}
    /\ pc[t] = "hit" /\ res[t] = "Success" => got[t] # NoBlob
    /\ got[t] # NoBlob => /\ pc[t] \in {"hit", "held"}
                          /\ Final(key[t]) /\ entry[key[t]].data = got[t]

IInv == /\ TypeOK /\ EntryShape /\ LockInv /\ OneCompiler
        /\ ReaderInv /\ NoMissedWakeup

(* Without a file an insertion is never rolled back, so that the unlocked    *)
(* test of retrieveShader is still true when it reads the blob.              *)
RuntimeReadInv ==
  ~FileOpen => \A t \in Threads :
                 /\ pc[t] = "readHeld" => entry[key[t]].state = "Ready"
                 /\ res[t] = "Success" => got[t] # NoBlob

-----------------------------------------------------------------------------
(* Threads are scheduled, the mutex is given to a thread that waits for it,  *)
(* and a compile ends (the entry handle inserts or resets when it goes).     *)
(* Nothing obliges a client to start another operation.                      *)
Fairness ==
  \A t \in Threads :
    /\ WF_vars(Find(t))
    /\ WF_vars(Insert(t) \/ ResetShader(t))
    /\ WF_vars(NotifyAll(t))
    /\ WF_vars(RetrieveRead(t))

FairSpec == Spec /\ Fairness

Finding == {"find", "peek", "relock", "waiting"}

(* Every findShader returns, whatever compiles fail while it sleeps. *)
FindReturns ==
  \A t \in Threads : pc[t] \in Finding ~> pc[t] \notin Finding
==============================================================================
