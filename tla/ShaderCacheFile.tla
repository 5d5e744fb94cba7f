--------------------------- MODULE ShaderCacheFile ---------------------------
(***************************************************************************)
(* Persistence of Llpc::ShaderCache (llpc/tool/llpcShaderCache.cpp): the   *)
(* on-disk cache file, which several caches may have open (the processes,  *)
(* or the compilers of one process, that run one executable name on one    *)
(* kind of device), and the serialized blob of a runtime cache.            *)
(*                                                                         *)
(* A file or a blob is an image: a header and a sequence of cells.  The    *)
(* record of a shader (ShaderHeader and data) takes Size[k] cells; a write *)
(* may stop after some of them.  Offsets count cells from the end of the   *)
(* header, so that sizeof(ShaderCacheSerializedHeader) is 0.  The CRC is   *)
(* taken to tell a whole record from anything else.                        *)
(***************************************************************************)
EXTENDS Naturals, Sequences, FiniteSets, SequencesExt

CONSTANTS Caches,       \* instances of ShaderCache
          Keys,         \* compacted 64-bit shader hashes
          Size,         \* cells of the record of a shader
          Builds,       \* BuildUniqueIds: build date and time, gfxIp, options
          NoBuild,      \* the build id of a header that was never written
          NoKey,        \* no shader is being inserted
          Failed,       \* an entry in state New: its compile failed
          Empty,        \* an entry in state Ready without a record
          Hole,         \* bytes of a file that nobody wrote
          DiskModes,    \* the on-disk values of ShaderCacheMode in use
          MixedBuilds,  \* caches of different builds may be alive at a time
          MaxSessions,  \* bound on the caches initialized
          MaxShaders,   \* bound on the shaders a cache counts
          MaxFaults     \* bound on crashes and failed reads and writes

ASSUME KeysAssumption == IsFiniteSet(Keys)
ASSUME SizeAssumption == Size \in [Keys -> Nat \ {0}]
ASSUME NoBuildAssumption == {NoBuild, Failed, Empty} \cap Builds = {}
                            /\ NoBuild # Failed /\ NoBuild # Empty /\ Failed # Empty
ASSUME NoKeyAssumption == NoKey \notin Keys
ASSUME HoleAssumption == Hole \notin [build : Builds, key : Keys, part : Nat]
ASSUME DiskModesAssumption == DiskModes \subseteq {"OnDisk", "OnDiskReadOnly"}
ASSUME BoundsAssumption == MaxSessions \in Nat /\ MaxShaders \in Nat /\ MaxFaults \in Nat /\ MixedBuilds \in BOOLEAN

VARIABLES
  file,       \* the cache file
  blob,       \* the client's copy of a serialized cache
  mem,        \* per cache, its members
  onDisk,     \* all caches are on-disk or all are runtime caches: the two share nothing
  sessions,   \* caches initialized so far
  faults,     \* crashes and failed reads and writes so far
  stored,     \* shaders added to the file since it was last reset, each under its build
  disturbed,  \* since then a write was lost or another cache had the file open
  past,       \* caches that took entries from behind the block they were loaded from
  pastBlob    \* the blob was serialized by such a cache

vars == <<file, blob, mem, onDisk, sessions, faults, stored, disturbed, past, pastBlob>>

Cells == [build : Builds, key : Keys, part : Nat] \cup {Hole}

(* ShaderCacheSerializedHeader and the data behind it; short: the file ends  *)
(* inside of the header; hollow: its count counts entries without a record   *)
(* in the data.                                                              *)
NoImage == [exists |-> FALSE, short |-> TRUE, build |-> NoBuild,
            count |-> 0, end |-> 0, data |-> <<>>, hollow |-> FALSE]

Truncated == [NoImage EXCEPT !.exists = TRUE]

(* The header resetCacheFile writes. *)
WithHeader(img, b) ==
  [img EXCEPT !.short = FALSE, !.build = b, !.count = 0, !.end = 0]

Record(b, k) == [i \in 1..Size[k] |-> [build |-> b, key |-> k, part |-> i]]

-----------------------------------------------------------------------------
(* calculateCrc and the comparison with the CRC of the record's header: what *)
(* lies at offset o is a record as insertShader built it.                    *)
Whole(d, o) ==
  /\ o < Len(d) /\ d[o + 1] # Hole
  /\ LET r == Record(d[o + 1].build, d[o + 1].key)
     IN  /\ o + Len(r) <= Len(d)
         /\ SubSeq(d, o + 1, o + Len(r)) = r

(* Where populateIndexMap stands after i entries. *)
Offset(d, n) ==
  LET off[i \in 0..n] ==
        IF i = 0 THEN 0
        ELSE LET o == off[i - 1]
             IN  IF Whole(d, o) THEN o + Size[d[o + 1].key] ELSE o
  IN  off

(* populateIndexMap succeeds on count entries. *)
Populates(d, n) == \A i \in 0..n - 1 : Whole(d, Offset(d, n)[i])

(* The index map it makes: the first entry of a key wins. *)
IndexMap(d, n) ==
  LET off == Offset(d, n)
      at(k) == {i \in 0..n - 1 : d[off[i] + 1].key = k}
  IN  [k \in Keys |-> IF at(k) = {} THEN NoBuild
                      ELSE d[off[CHOOSE i \in at(k) : \A j \in at(k) : i <= j] + 1].build]

(* The record at offset o, its header and the size that this announces, is   *)
(* inside the block: its CRC is that of bytes that were read.  A hole        *)
(* announces size 0, from which sizeof(ShaderHeader) is subtracted.          *)
Contained(d, o) ==
  /\ o < Len(d) /\ d[o + 1] # Hole /\ d[o + 1].part = 1
  /\ o + Size[d[o + 1].key] <= Len(d)

(* populateIndexMap gets to a record that is not.  Its assertion is about    *)
(* the offset, and holds at the end of the block.                            *)
Overruns(d, n) == ~Populates(d, n) /\ ~Contained(d, Offset(d, n)[n])

(* Should what lies behind the block pass for records, they are of any key   *)
(* that the records in the block do not have.                                *)
Guesses(d, n) ==
  LET whole == Cardinality({i \in 0..n - 1 : Whole(d, Offset(d, n)[i])})
      found == IndexMap(d, whole)
  IN  {e \in [Keys -> Builds \cup {NoBuild}] : \A k \in Keys : found[k] \in {NoBuild, e[k]}}

(* Mutant: the build id is not compared. *)
HeaderAnyBuild(hdr, b, size) == hdr.end <= size

(* validateAndLoadHeader. *)
HeaderValid(hdr, b, size) == hdr.build = b /\ hdr.end <= size

(* fwrite of the cells s at offset o; what lies between the old end of the   *)
(* file and o reads as zeros.                                                *)
Overwrite(d, o, s) ==
  [i \in 1..(IF o + Len(s) > Len(d) THEN o + Len(s) ELSE Len(d)) |->
     CASE i > o /\ i <= o + Len(s) -> s[i - o]
       [] i <= o /\ i > Len(d) -> Hole
       [] OTHER -> d[i]]

-----------------------------------------------------------------------------
NoHeader == [build |-> NoBuild, count |-> 0, end |-> 0]

Off == [pc |-> "off", mode |-> "Runtime", build |-> NoBuild, open |-> "no", pending |-> FALSE,
        hdr |-> NoHeader,
        totalShaders |-> 0, shaderDataEnd |-> 0, alloc |-> <<>>,
        entry |-> [k \in Keys |-> NoBuild], key |-> NoKey]

Init ==
  /\ file = NoImage
  /\ blob = NoImage
  /\ mem = [c \in Caches |-> Off]
  /\ onDisk \in BOOLEAN
  /\ sessions = 0
  /\ faults = 0
  /\ stored = [k \in Keys |-> NoBuild]
  /\ disturbed = FALSE
  /\ past = {} /\ pastBlob = FALSE

Fault == faults < MaxFaults /\ faults' = faults + 1

Set(c, m) == mem' = [mem EXCEPT ![c] = m]

Alive == {c \in Caches : mem[c].pc # "off"}
OnFile == {c \in Caches : mem[c].open # "no"}

(* resetRuntimeCache: an empty cache that goes on running. *)
Reset(m) == [m EXCEPT !.totalShaders = 0, !.shaderDataEnd = 0, !.alloc = <<>>,
                      !.entry = [k \in Keys |-> NoBuild], !.pc = "run"]

(* init with an on-disk mode: an existing file is opened for reading, or for *)
(* reading and updating; a missing one is created, whatever the mode, and    *)
(* reset.                                                                    *)
InitOnDisk(c, m, b) ==
  /\ mem[c].pc = "off" /\ onDisk
  /\ sessions < MaxSessions /\ sessions' = sessions + 1
  /\ MixedBuilds \/ \A d \in Alive : mem[d].build = b
  /\ Set(c, [Off EXCEPT !.mode = m, !.build = b,
                        !.pc = IF file.exists THEN "readHeader" ELSE "resetFile",
                        !.open = IF m = "OnDiskReadOnly" /\ file.exists THEN "r" ELSE "rw"])
  /\ file' = [file EXCEPT !.exists = TRUE]
  /\ disturbed' = (disturbed \/ OnFile # {})
  /\ UNCHANGED <<onDisk, blob, faults, stored, past, pastBlob>>

(* init when the file cannot be opened: the cache runs without a file. *)
InitOpenFails(c, m, b) ==
  /\ mem[c].pc = "off" /\ onDisk
  /\ sessions < MaxSessions /\ sessions' = sessions + 1
  /\ MixedBuilds \/ \A d \in Alive : mem[d].build = b
  /\ Fault
  /\ Set(c, [Off EXCEPT !.mode = m, !.build = b, !.pc = "run"])
  /\ UNCHANGED <<onDisk, file, blob, stored, disturbed, past, pastBlob>>

(* loadCacheFromFile, first read: a file shorter than a header is left as it *)
(* is, and open.                                                             *)
ReadHeader(c) ==
  LET m == mem[c] IN
  /\ m.pc = "readHeader"
  /\ IF file.short
     THEN Set(c, Reset(m))
     ELSE Set(c, [m EXCEPT !.pc = "readData",
                           !.hdr = [build |-> file.build, count |-> file.count, end |-> file.end]])
  /\ UNCHANGED <<onDisk, file, blob, sessions, faults, stored, disturbed, past, pastBlob>>

(* loadCacheFromFile, the rest: File::read refuses to read 0 bytes, so that  *)
(* a file without shaders does not load.                                     *)
Loads(m, d) == HeaderValid(m.hdr, m.build, Len(d)) /\ Len(d) > 0 /\ Populates(d, m.hdr.count)

ReadData(c) ==
  LET m == mem[c] IN
  /\ m.pc = "readData"
  /\ Loads(m, file.data)
  /\ Set(c, [m EXCEPT !.pc = "run", !.hdr = NoHeader,
                      !.totalShaders = m.hdr.count, !.shaderDataEnd = m.hdr.end,
                      !.entry = IndexMap(file.data, m.hdr.count),
                      !.open = IF m.mode = "OnDiskReadOnly" THEN "no" ELSE @])
  /\ UNCHANGED <<onDisk, file, blob, sessions, faults, stored, disturbed, past, pastBlob>>

(* populateIndexMap reads what happens to lie behind the block: the process  *)
(* dies of it, the bytes pass for records, or (below) they do not.           *)
ReadPast(c) ==
  LET m == mem[c] IN
  /\ m.pc = "readData"
  /\ HeaderValid(m.hdr, m.build, Len(file.data)) /\ Len(file.data) > 0
  /\ Overruns(file.data, m.hdr.count)
  /\ \/ Set(c, Off) /\ UNCHANGED past
     \/ /\ \E e \in Guesses(file.data, m.hdr.count) :
             Set(c, [m EXCEPT !.pc = "run", !.hdr = NoHeader,
                              !.totalShaders = m.hdr.count, !.shaderDataEnd = m.hdr.end, !.entry = e,
                              !.open = IF m.mode = "OnDiskReadOnly" THEN "no" ELSE @])
        /\ past' = past \cup {c}
  /\ UNCHANGED <<onDisk, file, blob, sessions, faults, stored, disturbed, pastBlob>>

(* A read of the data may fail as well. *)
ReadDataFails(c) ==
  LET m == mem[c] IN
  /\ m.pc = "readData"
  /\ \/ ~Loads(m, file.data) /\ UNCHANGED faults
     \/ Loads(m, file.data) /\ Fault
  /\ Set(c, [m EXCEPT !.pc = "resetFile", !.hdr = NoHeader])
  /\ UNCHANGED <<onDisk, file, blob, sessions, stored, disturbed, past, pastBlob>>

(* resetCacheFile, then resetRuntimeCache in init: the file is reopened with *)
(* mode w, which truncates it; the new header stays in the stdio buffer.     *)
ResetFile(c) ==
  LET m == mem[c] IN
  /\ m.pc = "resetFile"
  /\ file' = Truncated
  /\ Set(c, [Reset(m) EXCEPT !.open = "rw", !.pending = TRUE])
  /\ stored' = [k \in Keys |-> NoBuild]
  /\ disturbed' = (OnFile # {c})
  /\ UNCHANGED <<onDisk, blob, sessions, faults, past, pastBlob>>

-----------------------------------------------------------------------------
(* getCacheSpace appends to m_allocationList, whose contents only Serialize  *)
(* reads again: they are kept for a runtime cache.                           *)
Allocated(m, k) == IF m.mode = "Runtime" THEN m.alloc \o Record(m.build, k) ELSE m.alloc

(* insertShader: the record is allocated and counted before the file is      *)
(* written.  The first seek of addShaderToFile flushes a pending header.     *)
InsertShader(c, k) ==
  LET m == mem[c]
      n == [m EXCEPT !.totalShaders = @ + 1, !.alloc = Allocated(m, k), !.entry[k] = m.build] IN
  /\ m.pc = "run" /\ m.entry[k] \in {NoBuild, Failed} /\ m.totalShaders < MaxShaders
  /\ IF m.open = "no"
     THEN Set(c, n) /\ UNCHANGED file
     ELSE /\ Set(c, [n EXCEPT !.pc = "writeCount", !.key = k, !.pending = FALSE])
          /\ file' = IF m.pending THEN WithHeader(file, m.build) ELSE file
  /\ UNCHANGED <<onDisk, blob, sessions, faults, stored, disturbed, past, pastBlob>>

(* insertShader takes the entry back: the allocation and the count remain. *)
TakenBack(m) == [m EXCEPT !.pc = "run", !.entry[m.key] = NoBuild, !.key = NoKey]

(* Mutant: the count is written after the data. *)
WriteCountOld(c) ==
  LET m == mem[c] IN
  /\ m.pc = "writeCount" /\ m.open = "rw"
  /\ file' = [file EXCEPT !.count = m.totalShaders - 1]
  /\ Set(c, [m EXCEPT !.pc = "writeData"])
  /\ UNCHANGED <<onDisk, blob, sessions, faults, stored, disturbed, past, pastBlob>>

(* addShaderToFile: the number of shaders, the shader, the end of the data.  *)
WriteCount(c) ==
  LET m == mem[c] IN
  /\ m.pc = "writeCount" /\ m.open = "rw"
  /\ file' = [file EXCEPT !.count = m.totalShaders]
  /\ Set(c, [m EXCEPT !.pc = "writeData"])
  /\ UNCHANGED <<onDisk, blob, sessions, faults, stored, disturbed, past, pastBlob>>

WriteData(c) ==
  LET m == mem[c] IN
  /\ m.pc = "writeData"
  /\ file' = [file EXCEPT !.short = FALSE,
                          !.data = Overwrite(@, m.shaderDataEnd, Record(m.build, m.key))]
  /\ Set(c, [m EXCEPT !.pc = "writeEnd", !.shaderDataEnd = @ + Size[m.key]])
  /\ UNCHANGED <<onDisk, blob, sessions, faults, stored, disturbed, past, pastBlob>>

(* shaderDataEnd is the last field of the header: writing it makes the       *)
(* header complete.                                                          *)
WriteEnd(c) ==
  LET m == mem[c] IN
  /\ m.pc = "writeEnd"
  /\ file' = [file EXCEPT !.short = FALSE, !.end = m.shaderDataEnd]
  /\ Set(c, [m EXCEPT !.pc = "run", !.key = NoKey])
  /\ stored' = [stored EXCEPT ![m.key] = m.build]
  /\ UNCHANGED <<onDisk, blob, sessions, faults, disturbed, past, pastBlob>>

(* A write is refused: always when the file was opened for reading, and any  *)
(* other time by the system; part of the shader may have reached the file.   *)
WriteFails(c) ==
  LET m == mem[c] IN
  /\ m.pc \in {"writeCount", "writeData", "writeEnd"}
  /\ \/ m.open = "r" /\ UNCHANGED <<faults, file>>
     \/ m.open = "rw" /\ m.pc # "writeData" /\ Fault /\ UNCHANGED file
     \/ /\ m.pc = "writeData" /\ Fault
        /\ \E n \in 0..Size[m.key] - 1 :
             file' = IF n = 0 THEN file
                     ELSE [file EXCEPT !.short = FALSE,
                                       !.data = Overwrite(@, m.shaderDataEnd,
                                                          SubSeq(Record(m.build, m.key), 1, n))]
  /\ Set(c, TakenBack(m))
  /\ disturbed' = TRUE
  /\ UNCHANGED <<onDisk, blob, sessions, stored, past, pastBlob>>

(* The stdio buffer cannot be written when the next seek or fflush wants to: *)
(* seek and flush report success all the same.                               *)
WriteLost(c) ==
  LET m == mem[c] IN
  /\ m.pc \in {"writeCount", "writeData", "writeEnd"} /\ m.open = "rw"
  /\ Fault
  /\ Set(c, CASE m.pc = "writeCount" -> [m EXCEPT !.pc = "writeData"]
              [] m.pc = "writeData" -> [m EXCEPT !.pc = "writeEnd", !.shaderDataEnd = @ + Size[m.key]]
              [] m.pc = "writeEnd" -> [m EXCEPT !.pc = "run", !.key = NoKey])
  /\ disturbed' = TRUE
  /\ UNCHANGED <<onDisk, file, blob, sessions, stored, past, pastBlob>>

(* findShader takes a shader from the external cache of the client: it is    *)
(* allocated, but neither counted nor written to the file, so that an        *)
(* on-disk cache merely has no reason left to insert it.                     *)
ExternalHit(c, k) ==
  LET m == mem[c] IN
  /\ ~onDisk /\ m.pc = "run" /\ m.entry[k] = NoBuild
  /\ Set(c, [m EXCEPT !.alloc = Allocated(m, k), !.entry[k] = m.build])
  /\ UNCHANGED <<onDisk, file, blob, sessions, faults, stored, disturbed, past, pastBlob>>

(* resetShader after a compile that failed: the entry stays in the map, in   *)
(* state New.  For an on-disk cache this is no different from no entry.      *)
ResetShader(c, k) ==
  LET m == mem[c] IN
  /\ ~onDisk /\ m.pc = "run" /\ m.entry[k] = NoBuild
  /\ Set(c, [m EXCEPT !.entry[k] = Failed])
  /\ UNCHANGED <<onDisk, file, blob, sessions, faults, stored, disturbed, past, pastBlob>>

(* Mutant: the entries the destination already has are counted, too. *)
MergedCountsAll(m, src, ks) == m.totalShaders + Cardinality({k \in Keys : src.entry[k] # NoBuild})

(* Merge counts each entry it copies. *)
MergedCount(m, src, ks) == m.totalShaders + Len(ks)

(* Merge of runtime caches copies, in the order of an unordered map, each    *)
(* entry that the destination does not have, whatever its state: one that    *)
(* has no record arrives as Ready with no bytes, and is counted.             *)
Merge(c, d) ==
  LET m == mem[c]
      src == mem[d]
      missing == {k \in Keys : m.entry[k] = NoBuild /\ src.entry[k] # NoBuild}
      hasRecord(k) == src.entry[k] \in Builds IN
  /\ c # d /\ ~onDisk /\ m.pc = "run" /\ src.pc = "run"
  /\ \E ks \in SetToSeqs(missing) :
       /\ MergedCount(m, src, ks) <= MaxShaders
       /\ Set(c, [m EXCEPT
            !.totalShaders = MergedCount(m, src, ks),
            !.alloc = @ \o FlattenSeq([i \in DOMAIN ks |->
                              IF hasRecord(ks[i]) THEN Record(src.entry[ks[i]], ks[i]) ELSE <<>>]),
            !.entry = [k \in Keys |-> IF k \notin missing THEN @[k]
                                      ELSE IF hasRecord(k) THEN src.entry[k] ELSE Empty]])
  /\ past' = IF d \in past THEN past \cup {c} ELSE past
  /\ UNCHANGED <<onDisk, file, blob, sessions, faults, stored, disturbed, pastBlob>>

-----------------------------------------------------------------------------
(* Serialize of a runtime cache: all allocations in the order they were made.*)
Serialize(c) ==
  LET m == mem[c] IN
  /\ m.pc = "run" /\ m.mode = "Runtime"
  /\ blob' = [exists |-> TRUE, short |-> FALSE, build |-> m.build,
              count |-> m.totalShaders, end |-> m.shaderDataEnd, data |-> m.alloc,
              hollow |-> c \in past \/ \E k \in Keys : m.entry[k] = Empty]
  /\ pastBlob' = (c \in past)
  /\ UNCHANGED <<onDisk, file, mem, sessions, faults, stored, disturbed, past>>

(* The header that loadCacheFromBlob reads, and what becomes of a runtime    *)
(* cache whose index map is e.                                               *)
BlobHeader == [build |-> blob.build, count |-> blob.count, end |-> blob.end]

Seeded(b, e) == [Off EXCEPT !.build = b, !.pc = "run", !.totalShaders = blob.count,
                            !.shaderDataEnd = blob.end, !.alloc = blob.data, !.entry = e]

(* init of a runtime cache, with or without the blob as initial data. *)
InitRuntime(c, b, seeded) ==
  LET loads == /\ seeded /\ HeaderValid(BlobHeader, b, Len(blob.data))
               /\ Populates(blob.data, blob.count) IN
  /\ mem[c].pc = "off" /\ ~onDisk
  /\ sessions < MaxSessions /\ sessions' = sessions + 1
  /\ MixedBuilds \/ \A d \in Alive : mem[d].build = b
  /\ seeded => blob.exists
  /\ Set(c, IF loads THEN Seeded(b, IndexMap(blob.data, blob.count)) ELSE Reset([Off EXCEPT !.build = b]))
  /\ past' = IF loads /\ pastBlob THEN past \cup {c} ELSE past
  /\ UNCHANGED <<onDisk, file, blob, faults, stored, disturbed, pastBlob>>

(* As in ReadPast, of the client's blob. *)
InitPast(c, b) ==
  /\ mem[c].pc = "off" /\ ~onDisk
  /\ sessions < MaxSessions /\ sessions' = sessions + 1
  /\ MixedBuilds \/ \A d \in Alive : mem[d].build = b
  /\ blob.exists /\ HeaderValid(BlobHeader, b, Len(blob.data)) /\ Overruns(blob.data, blob.count)
  /\ \/ UNCHANGED <<mem, past>>
     \/ /\ \E e \in Guesses(blob.data, blob.count) : Set(c, Seeded(b, e))
        /\ past' = past \cup {c}
  /\ UNCHANGED <<onDisk, file, blob, faults, stored, disturbed, pastBlob>>

(* Destroy: closing the file flushes a pending header. *)
Destroy(c) ==
  LET m == mem[c] IN
  /\ m.pc = "run"
  /\ file' = IF m.pending THEN WithHeader(file, m.build) ELSE file
  /\ Set(c, Off)
  /\ past' = past \ {c}
  /\ UNCHANGED <<onDisk, blob, sessions, faults, stored, disturbed, pastBlob>>

(* The process dies: what its stdio buffer still held is lost. *)
Crash(c) ==
  LET m == mem[c] IN
  /\ m.pc # "off"
  /\ Fault
  /\ Set(c, Off)
  /\ disturbed' = (disturbed \/ m.pending \/ m.pc \notin {"run", "readHeader", "readData"})
  /\ past' = past \ {c}
  /\ UNCHANGED <<onDisk, file, blob, sessions, stored, pastBlob>>

Step(c) ==
  \/ \E b \in Builds : \/ \E m \in DiskModes : InitOnDisk(c, m, b) \/ InitOpenFails(c, m, b)
                       \/ \E s \in BOOLEAN : InitRuntime(c, b, s)
                       \/ InitPast(c, b)
  \/ ReadHeader(c) \/ ReadData(c) \/ ReadPast(c) \/ ReadDataFails(c) \/ ResetFile(c)
  \/ \E k \in Keys : InsertShader(c, k) \/ ExternalHit(c, k) \/ ResetShader(c, k)
  \/ \E d \in Caches : Merge(c, d)
  \/ WriteCount(c) \/ WriteData(c) \/ WriteEnd(c) \/ WriteFails(c) \/ WriteLost(c)
  \/ Serialize(c)
  \/ Destroy(c)
  \/ Crash(c)

Next == \E c \in Caches : Step(c)

Spec == Init /\ [][Next]_vars
-----------------------------------------------------------------------------
PCs == {"off", "readHeader", "readData", "resetFile", "run", "writeCount", "writeData", "writeEnd"}

Headers == [build : Builds \cup {NoBuild}, count : Nat, end : Nat]

(* The members of a cache and the images have their types.                  *)
TypeOK ==
  /\ \A img \in {file, blob} :
       /\ {img.exists, img.short, img.hollow} \subseteq BOOLEAN
       /\ [build |-> img.build, count |-> img.count, end |-> img.end] \in Headers
       /\ img.data \in Seq(Cells)
  /\ \A c \in Caches :
       /\ mem[c].pc \in PCs /\ mem[c].mode \in DiskModes \cup {"Runtime"}
       /\ mem[c].open \in {"no", "r", "rw"} /\ mem[c].pending \in BOOLEAN
       /\ mem[c].hdr \in Headers
       /\ mem[c].totalShaders \in Nat /\ mem[c].shaderDataEnd \in Nat
       /\ mem[c].alloc \in Seq(Cells)
       /\ mem[c].entry \in [Keys -> Builds \cup {NoBuild, Failed, Empty}]
       /\ mem[c].key \in Keys \cup {NoKey}
  /\ onDisk \in BOOLEAN
  /\ sessions \in 0..MaxSessions /\ faults \in 0..MaxFaults
  /\ stored \in [Keys -> Builds \cup {NoBuild}] /\ disturbed \in BOOLEAN
  /\ past \subseteq Caches /\ pastBlob \in BOOLEAN

Settled ==
  \A c \in Caches : ~mem[c].pending /\ mem[c].pc \in {"off", "run", "readHeader", "readData"}

(* What addShaderToFile added, and reported as added, is what the next cache *)
(* finds, no more and no less: since the file was last reset, no write went  *)
(* wrong, no process died between the writes of an insertion or before the   *)
(* new header left its buffer, and no other cache had the file open.  A      *)
(* process may die at any other time.                                        *)
Durable ==
  file.exists /\ ~disturbed /\ Settled =>
    /\ ~file.short
    /\ file.end = Len(file.data)
    /\ Populates(file.data, file.count)
    /\ IndexMap(file.data, file.count) = stored

(* A cache only serves shaders of its own build id (compiler build, device,  *)
(* compilation options), and only whole ones, whatever crashes, lost writes  *)
(* and other caches on the file have left in it.  The exception are caches   *)
(* for which populateIndexMap, or that of a cache they were merged with or   *)
(* seeded from, took entries from behind its block.                          *)
OnlyOwnBuild ==
  \A c \in Caches \ past, k \in Keys :
    mem[c].entry[k] \in Builds => mem[c].entry[k] = mem[c].build

(* A blob that Serialize made loads again, also after merges and restarts:   *)
(* the entries that its header counts are there, although shaders of the     *)
(* external cache are in it and not counted.  The exception are caches that  *)
(* were merged with one in which a compile had failed.                       *)
BlobLoads ==
  blob.exists /\ ~blob.hollow =>
    /\ HeaderValid(BlobHeader, blob.build, Len(blob.data))
    /\ Populates(blob.data, blob.count)

(* "Guard against buffer overruns": populateIndexMap reads no record that is *)
(* not inside the block it was given.                                        *)
NoOverrun ==
  \A c \in Caches : mem[c].pc = "readData" /\ HeaderValid(mem[c].hdr, mem[c].build, Len(file.data))
                     /\ file.data # <<>> => ~Overruns(file.data, mem[c].hdr.count)

(* What findShader asserts of an entry in state Ready: it has data.          *)
ReadyHasData == \A c \in Caches, k \in Keys : mem[c].entry[k] # Empty

(* The mode "Only read on-disk file with write-protection" leaves a file     *)
(* that exists as it is.                                                     *)
ReadOnlyKeepsFile ==
  [][\A c \in Caches : mem[c].mode = "OnDiskReadOnly" /\ file.exists /\ mem'[c] # mem[c]
                        => file' = file]_vars
=============================================================================
