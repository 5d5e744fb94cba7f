----------------------------- MODULE CompileOnce -----------------------------
(***************************************************************************)
(* What the shader cache promises its clients, without locks, condition    *)
(* variables or files: a shader is built by at most one thread at a time,  *)
(* a builder either finishes or gives up, and a finished shader is never   *)
(* built again, replaced or withdrawn.                                     *)
(***************************************************************************)
CONSTANTS Threads,   \* threads that compile shaders
          Keys,      \* compacted 64-bit shader hashes
          Blobs,     \* contents a compiled shader can have
          NoBlob     \* "no contents"

VARIABLES builders,  \* for each key, the threads that were told to compile it
          done       \* for each key, the finished shader, or NoBlob

vars == <<builders, done>>

Init == /\ builders = [k \in Keys |-> {}]
        /\ done \in [Keys -> Blobs \cup {NoBlob}]

(* A thread is told that it has to compile k. *)
Start(t, k) ==
  /\ done[k] = NoBlob
  /\ builders[k] = {}
  /\ builders' = [builders EXCEPT ![k] = {t}]
  /\ UNCHANGED done

(* The builder of k publishes its result. *)
Finish(t, k, b) ==
  /\ builders[k] = {t}
  /\ builders' = [builders EXCEPT ![k] = {}]
  /\ done' = [done EXCEPT ![k] = b]

(* The builder of k gives up: k may be built by somebody else. *)
GiveUp(t, k) ==
  /\ builders[k] = {t}
  /\ builders' = [builders EXCEPT ![k] = {}]
  /\ UNCHANGED done

(* k is taken from a backing store instead of being built. *)
Import(k, b) ==
  /\ done[k] = NoBlob
  /\ builders[k] = {}
  /\ done' = [done EXCEPT ![k] = b]
  /\ UNCHANGED builders

Next == \E k \in Keys :
          \/ \E t \in Threads : \/ Start(t, k)
                                \/ GiveUp(t, k)
                                \/ \E b \in Blobs : Finish(t, k, b)
          \/ \E b \in Blobs : Import(k, b)

Spec == Init /\ [][Next]_vars
==============================================================================
