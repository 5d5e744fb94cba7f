------------------------ MODULE ShaderCacheFileProofs ------------------------
(***************************************************************************)
(* Proofs about ShaderCacheFile, for any caches, shaders, builds and any   *)
(* number of sessions and faults: that a cache only serves shaders of its  *)
(* own build, that what was added to the file is what the next cache       *)
(* finds, and that a serialized cache loads again.                         *)
(***************************************************************************)
EXTENDS ShaderCacheFile, FiniteSetTheorems, SequenceTheorems, WellFoundedInduction, TLAPS

-----------------------------------------------------------------------------
(* The inductive invariant *)

Images == [exists : BOOLEAN, short : BOOLEAN, build : Builds \cup {NoBuild},
           count : Nat, end : Nat, data : Seq(Cells), hollow : BOOLEAN]

Entries == [Keys -> Builds \cup {NoBuild, Failed, Empty}]

Members == [pc : PCs, mode : DiskModes \cup {"Runtime"}, build : Builds \cup {NoBuild},
            open : {"no", "r", "rw"}, pending : BOOLEAN, hdr : Headers,
            totalShaders : Nat, shaderDataEnd : Nat, alloc : Seq(Cells),
            entry : Entries, key : Keys \cup {NoKey}]

TypeInv ==
  /\ file \in Images /\ blob \in Images
  /\ mem \in [Caches -> Members]
  /\ onDisk \in BOOLEAN /\ disturbed \in BOOLEAN
  /\ sessions \in 0..MaxSessions /\ faults \in 0..MaxFaults
  /\ stored \in [Keys -> Builds \cup {NoBuild}]
  /\ past \in SUBSET Caches /\ pastBlob \in BOOLEAN

Writing == {"writeCount", "writeData", "writeEnd"}

(* Where a cache has the file open, and what for. *)
PlaceInv(c) ==
  /\ mem[c].pc = "off" => mem[c] = Off
  /\ mem[c].pc # "off" => mem[c].build \in Builds /\ (onDisk <=> mem[c].mode # "Runtime")
  /\ mem[c].mode = "Runtime" => mem[c].pc \in {"off", "run"} /\ mem[c].open = "no"
  /\ mem[c].pending => mem[c].pc = "run" /\ mem[c].open = "rw"
  /\ mem[c].pc \notin {"off", "run"} => mem[c].open # "no"
  /\ mem[c].open # "no" => file.exists /\ mem[c].pc # "off"
  /\ mem[c].pc \in Writing => mem[c].key \in Keys
  /\ mem[c].pc \in Writing \ {"writeCount"} => mem[c].open = "rw"

(* The cells d come from shaders of build b. *)
OwnCells(d, b) == \A i \in DOMAIN d : d[i] = Hole \/ d[i].build = b

(* The file may be written to by c, or read. *)
Trusts(c) ==
  \/ mem[c].pc \in Writing \cup {"run"} /\ mem[c].open # "no"
  \/ mem[c].pc = "readData" /\ mem[c].hdr.build = mem[c].build

OwnShaders(m) ==
  OwnCells(m.alloc, m.build) /\ \A k \in Keys : m.entry[k] \in Builds => m.entry[k] = m.build

OwnFile ==
  /\ file.build \in Builds => OwnCells(file.data, file.build)
  /\ file.short => file.data = <<>> /\ file.build = NoBuild
  /\ \A c \in Caches : Trusts(c) => /\ OwnCells(file.data, mem[c].build)
                                    /\ file.build \in {NoBuild, mem[c].build}

(* Whose shaders are where: a file whose header names a build holds shaders   *)
(* of that build, and so does one that caches of the build have open; what is *)
(* in a file without a header is not read.  Nothing is known of the shaders   *)
(* that were taken from behind a block.                                       *)
OwnInv ==
  /\ \A c, d \in Alive : mem[c].build = mem[d].build
  /\ \A c \in Alive \ past : OwnShaders(mem[c])
  /\ pastBlob \/ OwnCells(blob.data, blob.build)
  /\ OwnFile

(* n entries are the whole of d. *)
Parsed(d, n) == n \in Nat /\ Populates(d, n) /\ Offset(d, n)[n] = Len(d)

(* The file holds n shaders and they are those of s. *)
Holds(n, s) == ~file.short /\ Parsed(file.data, n) /\ IndexMap(file.data, n) = s

Clean == file.end = Len(file.data) /\ Holds(file.count, stored)

NoEntries == [k \in Keys |-> NoBuild]

(* How far the one cache that has the file open has come with it. *)
DiskInv(c) ==
  LET m == mem[c] IN
  /\ m.pc \in {"readHeader", "readData"} => Clean /\ (m.open = "rw" \/ m.mode = "OnDiskReadOnly")
  /\ m.pc = "readData" => m.hdr = [build |-> file.build, count |-> file.count, end |-> file.end]
  /\ m.pc = "run" /\ m.pending =>
       /\ file = Truncated /\ m.totalShaders = 0 /\ m.shaderDataEnd = 0
       /\ m.entry = NoEntries /\ stored = NoEntries
  /\ m.pc = "run" /\ ~m.pending =>
       /\ Clean /\ m.totalShaders = file.count /\ m.entry = stored
  /\ m.pc \in Writing => m.entry = [stored EXCEPT ![m.key] = m.build] /\ stored[m.key] = NoBuild
  /\ m.pc = "writeCount" => Clean /\ m.totalShaders = file.count + 1
  /\ m.pc = "writeData" =>
       /\ file.end = Len(file.data) /\ file.count \in Nat \ {0} /\ Holds(file.count - 1, stored)
  /\ m.pc = "writeEnd" => Holds(file.count, m.entry) /\ m.shaderDataEnd = Len(file.data)
  /\ m.pc \in {"writeData", "writeEnd"} => m.totalShaders = file.count
  /\ m.pc \in {"run", "writeCount", "writeData"} => m.shaderDataEnd = file.end /\ m.open = "rw"

FileInv ==
  ~disturbed =>
    /\ \A c, d \in OnFile : c = d
    /\ file.exists /\ OnFile = {} => Clean
    /\ \A c \in OnFile : DiskInv(c)

(* The allocations of a runtime cache are whole records, as many as it counts *)
(* and more, unless it took entries over that have none there.                *)
Serial(d, n, e, hollow) == e <= Len(d) /\ \E m \in Nat : Parsed(d, m) /\ (hollow \/ n <= m)

Hollow(c) == c \in past \/ \E k \in Keys : mem[c].entry[k] = Empty

BlobInv ==
  /\ \A c \in Caches : mem[c].mode = "Runtime" =>
       Serial(mem[c].alloc, mem[c].totalShaders, mem[c].shaderDataEnd, Hollow(c))
  /\ Serial(blob.data, blob.count, blob.end, blob.hollow)

BaseInv == TypeInv /\ \A c \in Caches : PlaceInv(c)

-----------------------------------------------------------------------------
(* Induction over the natural numbers, for a set of them *)

LEMMA Least ==
  ASSUME NEW T \in SUBSET Nat, T # {}
  PROVE  \E x \in T : \A y \in T : x <= y
<1> DEFINE R == {ss \in Nat \X Nat : ss[1] < ss[2]}
<1>1. IsWellFoundedOn(R, Nat)
  BY NatLessThanWellFounded DEF OpToRel
<1> HIDE DEF R
<1>2. PICK x \in T : \A y \in T : ~ (<<y, x>> \in R)
  BY <1>1, WFMin
<1>3. \A y \in T : ~(y < x)
  BY <1>2 DEF R
<1> QED
  BY <1>3

LEMMA Induction ==
  ASSUME NEW T, 0 \in T, \A n \in Nat : n \in T => n + 1 \in T
  PROVE  Nat \subseteq T
<1> SUFFICES ASSUME NEW m \in Nat, m \notin T  PROVE FALSE
  OBVIOUS
<1> DEFINE U == {n \in Nat : n \notin T}
<1>1. PICK x \in U : \A y \in U : x <= y
  BY Least
<1>2. x # 0 /\ x - 1 \in Nat /\ x - 1 \in T
  BY <1>1
<1> QED
  BY <1>2

-----------------------------------------------------------------------------
(* What populateIndexMap reads *)

After(d, o) == IF Whole(d, o) THEN o + Size[d[o + 1].key] ELSE o

(* The recursion of Offset defines a function. *)
LEMMA OffsetDef ==
  ASSUME NEW d, NEW n \in Nat
  PROVE  Offset(d, n) = [i \in 0..n |-> IF i = 0 THEN 0 ELSE After(d, Offset(d, n)[i - 1])]
<1> DEFINE Ok(f, m) == f = [i \in 0..m |-> IF i = 0 THEN 0 ELSE After(d, f[i - 1])]
           T == {m \in Nat : \E f : Ok(f, m)}
<1>1. 0 \in T
  <2>1. Ok([i \in 0..0 |-> 0], 0)
    OBVIOUS
  <2> QED
    BY <2>1
<1>2. ASSUME NEW m \in Nat, m \in T  PROVE m + 1 \in T
  <2>1. PICK f : Ok(f, m)
    BY <1>2
  <2> DEFINE g == [i \in 0..m + 1 |-> IF i = m + 1 THEN After(d, f[m]) ELSE f[i]]
  <2>2. Ok(g, m + 1)
    <3>1. ASSUME NEW i \in 0..m + 1  PROVE g[i] = IF i = 0 THEN 0 ELSE After(d, g[i - 1])
      <4>1. CASE i = m + 1
        BY <4>1
      <4>2. CASE i # m + 1 /\ i # 0
        <5>1. i \in 0..m /\ i - 1 \in 0..m
          BY <4>2
        <5>2. g[i] = f[i] /\ g[i - 1] = f[i - 1]
          BY <5>1
        <5> QED
          BY <2>1, <4>2, <5>1, <5>2
      <4>3. CASE i = 0
        BY <2>1, <4>3
      <4> QED
        BY <4>1, <4>2, <4>3
    <3> QED
      BY <3>1
  <2> HIDE DEF g, Ok
  <2> QED
    BY <2>2
<1>3. Nat \subseteq T
  <2> HIDE DEF T
  <2> QED
    BY <1>1, <1>2, Induction
<1>4. \E f : Ok(f, n)
  BY <1>3
<1>5. Offset(d, n) = CHOOSE f : Ok(f, n)
  BY DEF Offset, After
<1> HIDE DEF Ok
<1>6. Ok(Offset(d, n), n)
  BY <1>4, <1>5
<1> QED
  BY <1>6 DEF Ok

(* A record at offset o, cell by cell. *)
LEMMA RecordFacts ==
  ASSUME NEW b \in Builds, NEW k \in Keys
  PROVE  /\ Size[k] \in Nat \ {0} /\ Record(b, k) \in Seq(Cells) /\ Len(Record(b, k)) = Size[k]
         /\ \A i \in 1..Size[k] : Record(b, k)[i] = [build |-> b, key |-> k, part |-> i]
<1>1. Size[k] \in Nat \ {0}
  BY SizeAssumption
<1>2. \A i \in 1..Size[k] : [build |-> b, key |-> k, part |-> i] \in Cells
  BY <1>1 DEF Cells
<1> QED
  BY <1>1, <1>2 DEF Record

LEMMA WholeFacts ==
  ASSUME NEW d \in Seq(Cells), NEW o \in Nat
  PROVE  /\ Whole(d, o) =>
              /\ o + 1 \in DOMAIN d /\ d[o + 1] # Hole /\ d[o + 1].build \in Builds /\ d[o + 1].key \in Keys
              /\ Size[d[o + 1].key] \in Nat \ {0} /\ o + Size[d[o + 1].key] <= Len(d)
              /\ \A i \in 1..Size[d[o + 1].key] :
                   d[o + i] = [build |-> d[o + 1].build, key |-> d[o + 1].key, part |-> i]
         /\ \A b \in Builds, k \in Keys :
              /\ o + 1 \in DOMAIN d /\ d[o + 1] # Hole /\ o + Size[k] <= Len(d)
              /\ \A i \in 1..Size[k] : d[o + i] = [build |-> b, key |-> k, part |-> i]
              => Whole(d, o)
<1>1. ASSUME o + 1 \in DOMAIN d, d[o + 1] # Hole
      PROVE  d[o + 1].build \in Builds /\ d[o + 1].key \in Keys
  BY <1>1 DEF Cells
<1>2. ASSUME o < Len(d), d[o + 1] # Hole
      PROVE  LET r == Record(d[o + 1].build, d[o + 1].key)
             IN  /\ o + 1 \in DOMAIN d
                 /\ r \in Seq(Cells) /\ Len(r) = Size[d[o + 1].key] /\ Size[d[o + 1].key] \in Nat \ {0}
                 /\ \A i \in 1..Len(r) : r[i] = [build |-> d[o + 1].build, key |-> d[o + 1].key, part |-> i]
  BY <1>1, <1>2, RecordFacts
<1>3. ASSUME NEW m \in Nat, o + m <= Len(d)
      PROVE  /\ SubSeq(d, o + 1, o + m) \in Seq(Cells) /\ Len(SubSeq(d, o + 1, o + m)) = m
             /\ \A i \in 1..m : SubSeq(d, o + 1, o + m)[i] = d[o + i]
  BY SMTT(40), <1>3
<1>4. ASSUME Whole(d, o)
      PROVE  /\ o + 1 \in DOMAIN d /\ d[o + 1] # Hole /\ d[o + 1].build \in Builds /\ d[o + 1].key \in Keys
             /\ Size[d[o + 1].key] \in Nat \ {0} /\ o + Size[d[o + 1].key] <= Len(d)
             /\ \A i \in 1..Size[d[o + 1].key] :
                  d[o + i] = [build |-> d[o + 1].build, key |-> d[o + 1].key, part |-> i]
  <2> DEFINE r == Record(d[o + 1].build, d[o + 1].key)
  <2>1. o < Len(d) /\ d[o + 1] # Hole /\ o + Len(r) <= Len(d) /\ SubSeq(d, o + 1, o + Len(r)) = r
    BY <1>4 DEF Whole
  <2> HIDE DEF r
  <2>2. /\ o + 1 \in DOMAIN d
        /\ r \in Seq(Cells) /\ Len(r) = Size[d[o + 1].key] /\ Size[d[o + 1].key] \in Nat \ {0}
        /\ \A i \in 1..Len(r) : r[i] = [build |-> d[o + 1].build, key |-> d[o + 1].key, part |-> i]
    BY <1>2, <2>1 DEF r
  <2>3. \A i \in 1..Len(r) : SubSeq(d, o + 1, o + Len(r))[i] = d[o + i]
    BY <1>3, <2>1, <2>2
  <2> QED
    BY <1>1, <2>1, <2>2, <2>3
<1>5. ASSUME NEW b \in Builds, NEW k \in Keys, o + 1 \in DOMAIN d, d[o + 1] # Hole, o + Size[k] <= Len(d),
             \A i \in 1..Size[k] : d[o + i] = [build |-> b, key |-> k, part |-> i]
      PROVE  Whole(d, o)
  <2> DEFINE r == Record(b, k)
  <2>1. /\ Size[k] \in Nat \ {0} /\ r \in Seq(Cells) /\ Len(r) = Size[k]
        /\ \A i \in 1..Size[k] : r[i] = [build |-> b, key |-> k, part |-> i]
    BY RecordFacts
  <2> HIDE DEF r
  <2>2. d[o + 1].build = b /\ d[o + 1].key = k
    <3>1. 1 \in 1..Size[k]
      BY <2>1
    <3>2. d[o + 1] = [build |-> b, key |-> k, part |-> 1]
      BY <1>5, <3>1
    <3> QED
      BY <3>2
  <2>3. SubSeq(d, o + 1, o + Len(r)) = r
    <3> DEFINE s == SubSeq(d, o + 1, o + Size[k])
    <3>1. /\ s \in Seq(Cells) /\ Len(s) = Size[k]
          /\ \A i \in 1..Size[k] : s[i] = d[o + i]
      BY <1>3, <1>5, <2>1
    <3> HIDE DEF s
    <3>2. ASSUME NEW i \in 1..Size[k]  PROVE s[i] = r[i]
      <4>1. s[i] = d[o + i]
        BY <3>1
      <4>2. d[o + i] = [build |-> b, key |-> k, part |-> i]
        BY <1>5
      <4>3. r[i] = [build |-> b, key |-> k, part |-> i]
        BY <2>1
      <4> QED
        BY <4>1, <4>2, <4>3
    <3>3. s = r
      BY <2>1, <3>1, <3>2, SeqEqual
    <3> QED
      BY <2>1, <3>3 DEF s
  <2>4. o < Len(d) /\ o + Len(r) <= Len(d)
    BY <1>5, <2>1
  <2> QED
    BY <1>5, <2>2, <2>3, <2>4 DEF Whole, r
<1> QED
  BY <1>4, <1>5

(* f gives the offsets of n whole records that lie one behind the other. *)
Chain(d, n, f) ==
  /\ f \in [0..n -> Nat] /\ f[0] = 0
  /\ \A i \in 0..n - 1 : Whole(d, f[i]) /\ f[i + 1] = f[i] + Size[d[f[i] + 1].key]

LEMMA OffsetSteps ==
  ASSUME NEW d \in Seq(Cells), NEW n \in Nat
  PROVE  /\ Offset(d, n) \in [0..n -> Nat] /\ Offset(d, n)[0] = 0
         /\ \A i \in 0..n - 1 : Offset(d, n)[i + 1] = After(d, Offset(d, n)[i])
<1> DEFINE f == Offset(d, n)
           T == {i \in Nat : i <= n => f[i] \in Nat}
<1>1. f = [i \in 0..n |-> IF i = 0 THEN 0 ELSE After(d, f[i - 1])]
  BY OffsetDef
<1> HIDE DEF f
<1>2. f[0] = 0
  BY <1>1
<1>3. ASSUME NEW i \in 0..n - 1  PROVE f[i + 1] = After(d, f[i])
  <2>1. i + 1 \in 0..n /\ i + 1 # 0 /\ (i + 1) - 1 = i
    OBVIOUS
  <2>2. f[i + 1] = IF i + 1 = 0 THEN 0 ELSE After(d, f[(i + 1) - 1])
    BY <1>1, <2>1
  <2> QED
    BY <2>1, <2>2
<1>4. ASSUME NEW o \in Nat  PROVE After(d, o) \in Nat
  BY <1>4, WholeFacts DEF After
<1>5. 0 \in T
  BY <1>2
<1>6. ASSUME NEW i \in Nat, i \in T  PROVE i + 1 \in T
  <2>1. ASSUME i + 1 <= n  PROVE f[i + 1] \in Nat
    <3>1. i \in 0..n - 1 /\ f[i] \in Nat
      BY <1>6, <2>1
    <3> QED
      BY <1>3, <1>4, <3>1
  <2> QED
    BY <2>1
<1>7. Nat \subseteq T
  <2> HIDE DEF T
  <2> QED
    BY <1>5, <1>6, Induction
<1>8. \A i \in 0..n : f[i] \in Nat
  BY <1>7
<1>9. f \in [0..n -> Nat]
  <2>1. DOMAIN f = 0..n
    BY <1>1
  <2>2. f = [i \in 0..n |-> f[i]]
    BY <1>1, <2>1
  <2> QED
    BY <1>8, <2>2
<1> QED
  BY <1>2, <1>3, <1>9 DEF f

LEMMA OffsetChain ==
  ASSUME NEW d \in Seq(Cells), NEW n \in Nat, Populates(d, n)
  PROVE  Chain(d, n, Offset(d, n))
<1> DEFINE f == Offset(d, n)
<1>1. f \in [0..n -> Nat] /\ f[0] = 0 /\ \A i \in 0..n - 1 : f[i + 1] = After(d, f[i])
  BY OffsetSteps
<1>2. \A i \in 0..n - 1 : Whole(d, f[i])
  BY DEF Populates
<1> HIDE DEF f
<1>3. \A i \in 0..n - 1 : f[i + 1] = f[i] + Size[d[f[i] + 1].key]
  BY <1>1, <1>2 DEF After
<1>4. Chain(d, n, f)
  BY <1>1, <1>2, <1>3 DEF Chain
<1> QED
  BY <1>4 DEF f

Steps(d, n, f) == f[0] = 0 /\ \A i \in 0..n - 1 : f[i + 1] = After(d, f[i])

(* Two chains have the same offsets, as far as both go. *)
LEMMA ChainsAgree ==
  ASSUME NEW d, NEW n \in Nat, NEW m \in Nat, NEW f, NEW g,
         Steps(d, n, f), Steps(d, m, g)
  PROVE  \A i \in Nat : i <= n /\ i <= m => f[i] = g[i]
<1> DEFINE T == {i \in Nat : i <= n /\ i <= m => f[i] = g[i]}
<1>1. 0 \in T
  BY DEF Steps
<1>2. ASSUME NEW i \in Nat, i \in T  PROVE i + 1 \in T
  <2>1. ASSUME i + 1 <= n, i + 1 <= m  PROVE f[i + 1] = g[i + 1]
    <3>1. i \in 0..n - 1 /\ i \in 0..m - 1 /\ f[i] = g[i]
      BY <1>2, <2>1
    <3>2. f[i + 1] = After(d, f[i]) /\ g[i + 1] = After(d, g[i])
      BY <3>1 DEF Steps
    <3> QED
      BY <3>1, <3>2
  <2> QED
    BY <2>1
<1>3. Nat \subseteq T
  <2> HIDE DEF T
  <2> QED
    BY <1>1, <1>2, Induction
<1> QED
  BY <1>3

LEMMA ChainSteps ==
  ASSUME NEW d, NEW n \in Nat, NEW f, Chain(d, n, f)
  PROVE  Steps(d, n, f)
BY DEF Chain, After, Steps

(* A chain is what populateIndexMap follows. *)
LEMMA ChainOffset ==
  ASSUME NEW d \in Seq(Cells), NEW n \in Nat, NEW f, Chain(d, n, f)
  PROVE  Offset(d, n) = f /\ Populates(d, n)
<1> DEFINE g == Offset(d, n)
<1>1. g \in [0..n -> Nat] /\ Steps(d, n, g)
  BY OffsetSteps DEF Steps
<1>2. Steps(d, n, f)
  BY ChainSteps
<1> HIDE DEF g
<1>3. \A i \in Nat : i <= n /\ i <= n => g[i] = f[i]
  BY <1>1, <1>2, ChainsAgree
<1>4. f \in [0..n -> Nat]
  BY DEF Chain
<1>5. g = f
  BY <1>1, <1>3, <1>4
<1>6. Offset(d, n) = f
  BY <1>5 DEF g
<1> QED
  BY <1>6 DEF Populates, Chain

(* n records that are the whole of d: no more than n can be read from it. *)
LEMMA ParsedBound ==
  ASSUME NEW d \in Seq(Cells), NEW n \in Nat, NEW m \in Nat, Parsed(d, n), Populates(d, m)
  PROVE  m <= n
<1> SUFFICES ASSUME n < m  PROVE FALSE
  OBVIOUS
<1> DEFINE f == Offset(d, n)
           g == Offset(d, m)
<1>1. f[n] = Len(d) /\ Chain(d, n, f) /\ Chain(d, m, g)
  BY OffsetChain DEF Parsed
<1> HIDE DEF f, g
<1>2. Steps(d, n, f)
  BY <1>1, ChainSteps
<1>3. Steps(d, m, g)
  BY <1>1, ChainSteps
<1>4. \A i \in Nat : i <= n /\ i <= m => f[i] = g[i]
  BY <1>2, <1>3, ChainsAgree
<1>5. g[n] = Len(d) /\ n \in 0..m - 1
  BY <1>1, <1>4
<1>6. Whole(d, Len(d))
  BY <1>1, <1>5 DEF Chain
<1> QED
  BY <1>6 DEF Whole

LEMMA PopulatesFewer ==
  ASSUME NEW d \in Seq(Cells), NEW n \in Nat, NEW m \in Nat, Populates(d, n), m <= n
  PROVE  Populates(d, m)
<1> DEFINE f == Offset(d, n)
           g == [i \in 0..m |-> f[i]]
<1>1. Chain(d, n, f)
  BY OffsetChain
<1> HIDE DEF f
<1>2. \A i \in 0..m : g[i] = f[i] /\ f[i] \in Nat
  BY <1>1 DEF Chain
<1>3. \A i \in 0..m - 1 : i \in 0..n - 1 /\ i \in 0..m /\ i + 1 \in 0..m
  OBVIOUS
<1>4. g \in [0..m -> Nat] /\ 0 \in 0..m
  BY <1>2
<1> HIDE DEF g
<1>5. Chain(d, m, g)
  BY <1>1, <1>2, <1>3, <1>4 DEF Chain
<1> QED
  BY <1>5, ChainOffset

LEMMA WholeIntro ==
  ASSUME NEW d \in Seq(Cells), NEW o \in Nat, NEW b \in Builds, NEW k \in Keys,
         o + 1 \in DOMAIN d, d[o + 1] # Hole, o + Size[k] <= Len(d),
         \A i \in 1..Size[k] : d[o + i] = [build |-> b, key |-> k, part |-> i]
  PROVE  Whole(d, o)
BY WholeFacts

LEMMA WholeConcat ==
  ASSUME NEW d \in Seq(Cells), NEW r \in Seq(Cells), NEW o \in Nat, Whole(d, o)
  PROVE  (d \o r)[o + 1] = d[o + 1] /\ Whole(d \o r, o)
<1> DEFINE e == d \o r
           b == d[o + 1].build
           k == d[o + 1].key
<1>1. e \in Seq(Cells) /\ Len(e) = Len(d) + Len(r) /\ \A i \in 1..Len(d) : e[i] = d[i]
  OBVIOUS
<1>2. /\ o + 1 \in DOMAIN d /\ d[o + 1] # Hole /\ b \in Builds /\ k \in Keys
      /\ Size[k] \in Nat \ {0} /\ o + Size[k] <= Len(d)
      /\ \A i \in 1..Size[k] : d[o + i] = [build |-> b, key |-> k, part |-> i]
  BY WholeFacts
<1> HIDE DEF e, b, k
<1>3. e[o + 1] = d[o + 1] /\ o + 1 \in DOMAIN e
  BY <1>1, <1>2
<1>4. ASSUME NEW i \in 1..Size[k]  PROVE e[o + i] = [build |-> b, key |-> k, part |-> i]
  <2>1. o + i \in 1..Len(d)
    BY <1>2
  <2> QED
    BY <1>1, <1>2, <2>1
<1>5. o + Size[k] <= Len(e)
  BY <1>1, <1>2
<1>6. Whole(e, o)
  <2>1. e \in Seq(Cells) /\ e[o + 1] # Hole /\ o + 1 \in DOMAIN e /\ b \in Builds /\ k \in Keys
    BY <1>1, <1>2, <1>3
  <2> QED
    BY <1>4, <1>5, <2>1, WholeIntro
<1> QED
  BY <1>3, <1>6 DEF e

LEMMA WholeLast ==
  ASSUME NEW d \in Seq(Cells), NEW b \in Builds, NEW k \in Keys
  PROVE  LET e == d \o Record(b, k) IN
         /\ e \in Seq(Cells) /\ Len(e) = Len(d) + Size[k]
         /\ e[Len(d) + 1] = [build |-> b, key |-> k, part |-> 1] /\ Whole(e, Len(d))
<1> DEFINE r == Record(b, k)
           e == d \o r
<1>1. /\ Size[k] \in Nat \ {0} /\ r \in Seq(Cells) /\ Len(r) = Size[k]
      /\ \A i \in 1..Size[k] : r[i] = [build |-> b, key |-> k, part |-> i]
  BY RecordFacts
<1> HIDE DEF r
<1>2. /\ e \in Seq(Cells) /\ Len(e) = Len(d) + Size[k] /\ Len(d) \in Nat
      /\ \A i \in 1..Size[k] : e[Len(d) + i] = r[i]
  BY <1>1
<1> HIDE DEF e
<1>3. \A i \in 1..Size[k] : e[Len(d) + i] = [build |-> b, key |-> k, part |-> i]
  BY <1>1, <1>2
<1>4. Len(d) + 1 \in DOMAIN e /\ 1 \in 1..Size[k]
  BY <1>1, <1>2
<1>5. e[Len(d) + 1] = [build |-> b, key |-> k, part |-> 1]
  BY <1>3, <1>4
<1>6. e[Len(d) + 1] # Hole
  BY <1>5, HoleAssumption
<1>7. Whole(e, Len(d))
  BY <1>2, <1>3, <1>4, <1>6, WholeFacts
<1> QED
  BY <1>2, <1>5, <1>7 DEF e, r

(* The offsets when a record is appended to n whole ones. *)
LEMMA OffsetAppend ==
  ASSUME NEW d \in Seq(Cells), NEW n \in Nat, Parsed(d, n), NEW b \in Builds, NEW k \in Keys
  PROVE  LET e == d \o Record(b, k)
             f == Offset(d, n)
             g == Offset(e, n + 1)
         IN  /\ Chain(d, n, f) /\ Chain(e, n + 1, g) /\ g[n + 1] = Len(e) /\ g[n] = Len(d)
             /\ \A i \in 0..n - 1 : g[i] = f[i] /\ e[g[i] + 1] = d[f[i] + 1]
<1> DEFINE e == d \o Record(b, k)
           f == Offset(d, n)
           g == [i \in 0..n + 1 |-> IF i = n + 1 THEN Len(e) ELSE f[i]]
<1>1. Chain(d, n, f) /\ f[n] = Len(d)
  BY OffsetChain DEF Parsed
<1>2. /\ Size[k] \in Nat \ {0} /\ Record(b, k) \in Seq(Cells)
      /\ e \in Seq(Cells) /\ Len(e) = Len(d) + Size[k] /\ Len(e) \in Nat
      /\ e[Len(d) + 1] = [build |-> b, key |-> k, part |-> 1] /\ Whole(e, Len(d))
  BY WholeLast, RecordFacts
<1>3. ASSUME NEW o \in Nat, Whole(d, o)  PROVE e[o + 1] = d[o + 1] /\ Whole(e, o)
  BY <1>2, <1>3, WholeConcat
<1> HIDE DEF e, f
<1>4. \A i \in 0..n : g[i] = f[i] /\ f[i] \in Nat
  BY <1>1 DEF Chain
<1>5. g[n + 1] = Len(e) /\ g[0] = 0 /\ g \in [0..n + 1 -> Nat]
  BY <1>1, <1>2, <1>4 DEF Chain
<1> HIDE DEF g
<1>6. ASSUME NEW i \in 0..n - 1
      PROVE  /\ g[i] = f[i] /\ e[g[i] + 1] = d[f[i] + 1]
             /\ Whole(e, g[i]) /\ g[i + 1] = g[i] + Size[e[g[i] + 1].key]
  <2>1. i \in 0..n /\ i + 1 \in 0..n
    OBVIOUS
  <2>2. Whole(d, f[i]) /\ f[i + 1] = f[i] + Size[d[f[i] + 1].key]
    BY <1>1 DEF Chain
  <2>3. g[i] = f[i] /\ g[i + 1] = f[i + 1] /\ f[i] \in Nat
    BY <1>4, <2>1
  <2>4. e[f[i] + 1] = d[f[i] + 1] /\ Whole(e, f[i])
    BY <1>3, <2>2, <2>3
  <2> QED
    BY <2>2, <2>3, <2>4
<1>7. g[n] = Len(d)
  BY <1>1, <1>4
<1>8. Whole(e, g[n]) /\ g[n + 1] = g[n] + Size[e[g[n] + 1].key]
  BY <1>2, <1>5, <1>7
<1>9. Chain(e, n + 1, g)
  <2>1. ASSUME NEW i \in 0..(n + 1) - 1
        PROVE  Whole(e, g[i]) /\ g[i + 1] = g[i] + Size[e[g[i] + 1].key]
    <3>1. CASE i = n
      BY <1>8, <3>1
    <3>2. CASE i # n
      BY <1>6, <3>2
    <3> QED
      BY <3>1, <3>2
  <2> QED
    BY <1>5, <2>1 DEF Chain
<1>10. Offset(e, n + 1) = g
  BY <1>2, <1>9, ChainOffset
<1> QED
  BY <1>1, <1>5, <1>6, <1>7, <1>9, <1>10 DEF e, f

LEMMA ParsedAppend ==
  ASSUME NEW d \in Seq(Cells), NEW n \in Nat, Parsed(d, n), NEW b \in Builds, NEW k \in Keys
  PROVE  d \o Record(b, k) \in Seq(Cells) /\ Parsed(d \o Record(b, k), n + 1)
<1> DEFINE e == d \o Record(b, k)
<1>1. e \in Seq(Cells)
  BY WholeLast
<1>2. Chain(e, n + 1, Offset(e, n + 1)) /\ Offset(e, n + 1)[n + 1] = Len(e)
  BY OffsetAppend
<1> HIDE DEF e
<1>3. Populates(e, n + 1)
  BY <1>1, <1>2, ChainOffset
<1>4. Parsed(e, n + 1)
  BY <1>2, <1>3 DEF Parsed
<1> QED
  BY <1>1, <1>4 DEF e

LEMMA ParsedEmpty == Parsed(<<>>, 0) /\ IndexMap(<<>>, 0) = NoEntries
<1>1. <<>> \in Seq(Cells)
  OBVIOUS
<1>2. Offset(<<>>, 0)[0] = 0
  BY <1>1, OffsetSteps
<1>3. \A i \in 0..0 - 1 : FALSE
  OBVIOUS
<1>4. Parsed(<<>>, 0)
  BY <1>2, <1>3 DEF Parsed, Populates
<1>5. IndexMap(<<>>, 0) = NoEntries
  BY <1>3 DEF IndexMap, NoEntries
<1> QED
  BY <1>4, <1>5

(* The index map, by the first entry of each key. *)
FirstEntry(d, n, k) ==
  LET f == Offset(d, n)
      at == {i \in 0..n - 1 : d[f[i] + 1].key = k}
  IN  /\ at = {} => IndexMap(d, n)[k] = NoBuild
      /\ \A i \in at : (\A j \in at : i <= j) => IndexMap(d, n)[k] = d[f[i] + 1].build
      /\ at # {} => \E i \in at : \A j \in at : i <= j
      /\ \A i \in 0..n - 1 : /\ f[i] + 1 \in DOMAIN d /\ d[f[i] + 1] # Hole
                             /\ d[f[i] + 1].build \in Builds

LEMMA IndexFacts ==
  ASSUME NEW d \in Seq(Cells), NEW n \in Nat, Populates(d, n), NEW k \in Keys
  PROVE  FirstEntry(d, n, k)
<1> DEFINE f == Offset(d, n)
           at == {i \in 0..n - 1 : d[f[i] + 1].key = k}
<1>1. Chain(d, n, f)
  BY OffsetChain
<1>2. IndexMap(d, n)[k] = IF at = {} THEN NoBuild
                          ELSE d[f[CHOOSE i \in at : \A j \in at : i <= j] + 1].build
  BY DEF IndexMap
<1> HIDE DEF f
<1>3. at \in SUBSET Nat
  OBVIOUS
<1>4. at # {} => \E i \in at : \A j \in at : i <= j
  <2> HIDE DEF at
  <2> QED
    BY <1>3, Least
<1>5. ASSUME NEW i \in at, \A j \in at : i <= j
      PROVE  IndexMap(d, n)[k] = d[f[i] + 1].build
  <2> HIDE DEF at
  <2> DEFINE x == CHOOSE y \in at : \A j \in at : y <= j
  <2>1. x \in at /\ \A j \in at : x <= j
    BY <1>5
  <2> HIDE DEF x
  <2>2. x = i
    BY <1>3, <1>5, <2>1
  <2> QED
    BY <1>2, <2>2, <1>5 DEF x
<1>6. ASSUME NEW i \in 0..n - 1
      PROVE  f[i] + 1 \in DOMAIN d /\ d[f[i] + 1] # Hole /\ d[f[i] + 1].build \in Builds
  <2>1. Whole(d, f[i]) /\ f[i] \in Nat
    BY <1>1 DEF Chain
  <2> QED
    BY <2>1, WholeFacts
<1>7. at = {} => IndexMap(d, n)[k] = NoBuild
  BY <1>2
<1> HIDE DEF at
<1>8. /\ at = {} => IndexMap(d, n)[k] = NoBuild
      /\ \A i \in at : (\A j \in at : i <= j) => IndexMap(d, n)[k] = d[f[i] + 1].build
      /\ at # {} => \E i \in at : \A j \in at : i <= j
      /\ \A i \in 0..n - 1 : /\ f[i] + 1 \in DOMAIN d /\ d[f[i] + 1] # Hole
                             /\ d[f[i] + 1].build \in Builds
  BY <1>4, <1>5, <1>6, <1>7
<1> QED
  BY <1>8 DEF at, f, FirstEntry

(* What the index map serves is the build of a cell that was read. *)
LEMMA IndexOwn ==
  ASSUME NEW d \in Seq(Cells), NEW n \in Nat, Populates(d, n), NEW k \in Keys
  PROVE  \/ IndexMap(d, n)[k] = NoBuild
         \/ \E i \in DOMAIN d : d[i] # Hole /\ IndexMap(d, n)[k] = d[i].build /\ d[i].build \in Builds
<1> DEFINE f == Offset(d, n)
           at == {i \in 0..n - 1 : d[f[i] + 1].key = k}
<1>1. /\ at = {} => IndexMap(d, n)[k] = NoBuild
      /\ \A i \in at : (\A j \in at : i <= j) => IndexMap(d, n)[k] = d[f[i] + 1].build
      /\ at # {} => \E i \in at : \A j \in at : i <= j
      /\ \A i \in 0..n - 1 : /\ f[i] + 1 \in DOMAIN d /\ d[f[i] + 1] # Hole
                             /\ d[f[i] + 1].build \in Builds
  BY IndexFacts DEF FirstEntry
<1>2. at \subseteq 0..n - 1
  OBVIOUS
<1> HIDE DEF f, at
<1>3. CASE at # {}
  <2>1. PICK i \in at : \A j \in at : i <= j
    BY <1>1, <1>3
  <2>2. /\ IndexMap(d, n)[k] = d[f[i] + 1].build /\ f[i] + 1 \in DOMAIN d
        /\ d[f[i] + 1] # Hole /\ d[f[i] + 1].build \in Builds
    BY <1>1, <1>2, <2>1
  <2> QED
    BY <2>2
<1> QED
  BY <1>1, <1>3

LEMMA IndexType ==
  ASSUME NEW d \in Seq(Cells), NEW n \in Nat, Populates(d, n)
  PROVE  IndexMap(d, n) \in [Keys -> Builds \cup {NoBuild}]
<1>1. \A k \in Keys : IndexMap(d, n)[k] \in Builds \cup {NoBuild}
  BY IndexOwn
<1>2. IndexMap(d, n) = [k \in Keys |-> IndexMap(d, n)[k]]
  BY DEF IndexMap
<1> QED
  BY <1>1, <1>2

(* The index map finds an appended record, and what it found before. *)
LEMMA IndexAppend ==
  ASSUME NEW d \in Seq(Cells), NEW n \in Nat, Parsed(d, n), NEW b \in Builds, NEW k \in Keys,
         IndexMap(d, n)[k] = NoBuild
  PROVE  IndexMap(d \o Record(b, k), n + 1) = [IndexMap(d, n) EXCEPT ![k] = b]
<1> DEFINE e == d \o Record(b, k)
           f == Offset(d, n)
           g == Offset(e, n + 1)
           u == IndexMap(d, n)
           v == IndexMap(e, n + 1)
<1>1. e \in Seq(Cells) /\ Populates(e, n + 1) /\ Populates(d, n) /\ n + 1 \in Nat
  BY ParsedAppend DEF Parsed
<1>2. u \in [Keys -> Builds \cup {NoBuild}] /\ v \in [Keys -> Builds \cup {NoBuild}]
  BY <1>1, IndexType
<1>3. g[n] = Len(d) /\ \A i \in 0..n - 1 : g[i] = f[i] /\ e[g[i] + 1] = d[f[i] + 1]
  BY ZenonT(60), OffsetAppend
<1>4. e[Len(d) + 1] = [build |-> b, key |-> k, part |-> 1]
  BY WholeLast
<1> HIDE DEF e, f, g, u, v
<1>5. \A h \in Keys : FirstEntry(d, n, h)
  BY <1>1, IndexFacts
<1>6. \A h \in Keys : FirstEntry(e, n + 1, h)
  BY <1>1, IndexFacts
<1>7. ASSUME NEW h \in Keys  PROVE v[h] = IF h = k THEN b ELSE u[h]
  <2> DEFINE at == {i \in 0..n - 1 : d[f[i] + 1].key = h}
             to == {i \in 0..(n + 1) - 1 : e[g[i] + 1].key = h}
  <2>1. /\ at = {} => u[h] = NoBuild
        /\ \A i \in at : (\A j \in at : i <= j) => u[h] = d[f[i] + 1].build
        /\ at # {} => \E i \in at : \A j \in at : i <= j
        /\ \A i \in 0..n - 1 : d[f[i] + 1].build \in Builds
    BY <1>5 DEF FirstEntry, u, f
  <2>2. /\ to = {} => v[h] = NoBuild
        /\ \A i \in to : (\A j \in to : i <= j) => v[h] = e[g[i] + 1].build
    BY <1>6 DEF FirstEntry, v, g
  <2>3. \A i \in 0..n - 1 : i \in to <=> i \in at
    BY <1>3
  <2>4. n \in to <=> h = k
    BY <1>3, <1>4
  <2>5. to \subseteq 0..n /\ at \subseteq 0..n - 1
    OBVIOUS
  <2> HIDE DEF at, to
  <2>6. CASE at # {}
    <3>1. PICK i \in at : \A j \in at : i <= j
      BY <2>1, <2>6
    <3>2. i \in 0..n - 1 /\ i \in to /\ \A j \in to : i <= j
      <4>1. i \in 0..n - 1 /\ i \in to
        BY <2>3, <2>5
      <4>2. ASSUME NEW j \in to  PROVE i <= j
        <5>1. CASE j = n
          BY <4>1, <5>1
        <5>2. CASE j # n
          <6>1. j \in 0..n - 1
            BY <2>5, <5>2
          <6> QED
            BY <2>3, <3>1, <6>1
        <5> QED
          BY <5>1, <5>2
      <4> QED
        BY <4>1, <4>2
    <3>3. u[h] = d[f[i] + 1].build /\ v[h] = e[g[i] + 1].build
      BY <2>1, <2>2, <3>1, <3>2
    <3>4. u[h] = v[h] /\ u[h] \in Builds
      BY <1>3, <2>1, <3>2, <3>3
    <3>5. h # k
      BY <3>4, NoBuildAssumption DEF u
    <3> QED
      BY <3>4, <3>5
  <2>7. CASE at = {} /\ h = k
    <3>1. n \in to /\ \A j \in to : n <= j
      BY <2>3, <2>4, <2>5, <2>7
    <3> QED
      BY <1>3, <1>4, <2>2, <2>7, <3>1
  <2>8. CASE at = {} /\ h # k
    <3>1. to = {}
      BY <2>3, <2>4, <2>5, <2>8
    <3> QED
      BY <2>1, <2>2, <2>8, <3>1
  <2> QED
    BY <2>6, <2>7, <2>8
<1>8. v = [u EXCEPT ![k] = b]
  BY <1>2, <1>7
<1> QED
  BY <1>8 DEF e, u, v

(* fwrite of cells at an offset *)

LEMMA OverwriteFacts ==
  ASSUME NEW d \in Seq(Cells), NEW s \in Seq(Cells), NEW o \in Nat
  PROVE  /\ Overwrite(d, o, s) \in Seq(Cells)
         /\ o = Len(d) => Overwrite(d, o, s) = d \o s
         /\ \A b : OwnCells(d, b) /\ OwnCells(s, b) => OwnCells(Overwrite(d, o, s), b)
<1> DEFINE n == IF o + Len(s) > Len(d) THEN o + Len(s) ELSE Len(d)
           e == Overwrite(d, o, s)
<1>1. n \in Nat
  OBVIOUS
<1>2. e = [i \in 1..n |-> CASE i > o /\ i <= o + Len(s) -> s[i - o]
                           [] i <= o /\ i > Len(d) -> Hole
                           [] OTHER -> d[i]]
  BY DEF Overwrite
<1> HIDE DEF e
<1>3. ASSUME NEW i \in 1..n
      PROVE  \/ i - o \in DOMAIN s /\ e[i] = s[i - o]
             \/ e[i] = Hole
             \/ i \in DOMAIN d /\ e[i] = d[i]
  <2>1. CASE i > o /\ i <= o + Len(s)
    BY <1>2, <2>1
  <2>2. CASE i <= o /\ i > Len(d)
    BY <1>2, <2>2
  <2>3. CASE ~(i > o /\ i <= o + Len(s)) /\ ~(i <= o /\ i > Len(d))
    <3>1. i \in DOMAIN d
      BY <2>3
    <3> QED
      BY <1>2, <2>3, <3>1
  <2> QED
    BY <2>1, <2>2, <2>3
<1>4. \A i \in 1..n : e[i] \in Cells
  <2>1. Hole \in Cells
    BY DEF Cells
  <2> QED
    BY <1>3, <2>1
<1> HIDE DEF n
<1>5. e \in Seq(Cells) /\ Len(e) = n /\ DOMAIN e = 1..n
  <2>1. DOMAIN e = 1..n
    BY <1>2
  <2>2. e = [i \in 1..n |-> e[i]]
    BY <1>2, <2>1
  <2>3. e \in [1..n -> Cells]
    BY <1>4, <2>2
  <2> QED
    BY <1>1, <2>3, IsASeq
<1>6. ASSUME o = Len(d)  PROVE e = d \o s
  <2>1. n = Len(d) + Len(s)
    BY <1>6 DEF n
  <2>2. d \o s \in Seq(Cells) /\ Len(d \o s) = n
    BY <2>1
  <2>3. ASSUME NEW i \in 1..n  PROVE e[i] = (d \o s)[i]
    <3>1. CASE i <= Len(d)
      BY <1>2, <1>6, <2>1, <3>1
    <3>2. CASE i > Len(d)
      BY <1>2, <1>6, <2>1, <3>2
    <3>3. i <= Len(d) \/ i > Len(d)
      BY <1>1
    <3> QED
      BY <3>1, <3>2, <3>3
  <2> QED
    BY <1>5, <2>2, <2>3, SeqEqual
<1>7. ASSUME NEW b, OwnCells(d, b), OwnCells(s, b)  PROVE OwnCells(e, b)
  BY <1>3, <1>5, <1>7 DEF OwnCells
<1> QED
  BY <1>5, <1>6, <1>7 DEF e

-----------------------------------------------------------------------------
(* What Merge appends *)

LEMMA FlattenDef ==
  ASSUME NEW seqs, NEW n \in Nat, Len(seqs) = n, n # 0
  PROVE  \E f : /\ f[1] = seqs[1] /\ FlattenSeq(seqs) = f[n]
                /\ \A i \in 1..n - 1 : f[i + 1] = f[i] \o seqs[i + 1]
<1> DEFINE Ok(f, m) == f = [i \in 1..m |-> IF i = 1 THEN seqs[i] ELSE f[i - 1] \o seqs[i]]
           T == {m \in Nat : \E f : Ok(f, m)}
<1>1. 0 \in T
  <2>1. Ok([i \in 1..0 |-> 0], 0)
    OBVIOUS
  <2> QED
    BY <2>1
<1>2. ASSUME NEW m \in Nat, m \in T  PROVE m + 1 \in T
  <2>1. PICK f : Ok(f, m)
    BY <1>2
  <2> DEFINE g == [i \in 1..m + 1 |-> IF i = 1 THEN seqs[1]
                                      ELSE IF i = m + 1 THEN f[m] \o seqs[m + 1] ELSE f[i]]
  <2>2. Ok(g, m + 1)
    <3>1. ASSUME NEW i \in 1..m + 1  PROVE g[i] = IF i = 1 THEN seqs[i] ELSE g[i - 1] \o seqs[i]
      <4>1. CASE i = 1
        BY <4>1
      <4>2. CASE i # 1
        <5>1. i - 1 \in 1..m + 1 /\ i - 1 \in 1..m /\ i - 1 # m + 1
          BY <4>2
        <5>2. g[i - 1] = f[i - 1]
          <6>1. CASE i - 1 = 1
            <7>1. g[i - 1] = seqs[1]
              BY <5>1, <6>1
            <7>2. f[i - 1] = seqs[1]
              BY <2>1, <5>1, <6>1
            <7> QED
              BY <7>1, <7>2
          <6>2. CASE i - 1 # 1
            BY <5>1, <6>2
          <6> QED
            BY <6>1, <6>2
        <5>3. CASE i = m + 1
          <6>1. i - 1 = m
            BY <5>3
          <6>2. g[i] = f[m] \o seqs[m + 1]
            BY <4>2, <5>3
          <6> QED
            BY <4>2, <5>2, <5>3, <6>1, <6>2
        <5>4. CASE i # m + 1
          <6>1. i \in 1..m
            BY <5>4
          <6>2. g[i] = f[i]
            BY <4>2, <5>4
          <6>3. f[i] = f[i - 1] \o seqs[i]
            BY <2>1, <4>2, <6>1
          <6> QED
            BY <4>2, <5>2, <6>2, <6>3
        <5> QED
          BY <5>3, <5>4
      <4> QED
        BY <4>1, <4>2
    <3> QED
      BY <3>1
  <2> HIDE DEF g, Ok
  <2> QED
    BY <2>2
<1>3. Nat \subseteq T
  <2> HIDE DEF T
  <2> QED
    BY <1>1, <1>2, Induction
<1>4. \E f : Ok(f, n)
  BY <1>3
<1> DEFINE F == CHOOSE f : Ok(f, n)
<1>5. FlattenSeq(seqs) = F[n]
  BY DEF FlattenSeq
<1>6. Ok(F, n)
  <2> HIDE DEF Ok
  <2> QED
    BY <1>4
<1> HIDE DEF F
<1>7. F[1] = seqs[1]
  BY <1>6
<1>8. ASSUME NEW i \in 1..n - 1  PROVE F[i + 1] = F[i] \o seqs[i + 1]
  <2>1. i + 1 \in 1..n /\ i + 1 # 1 /\ (i + 1) - 1 = i
    OBVIOUS
  <2>2. F[i + 1] = IF i + 1 = 1 THEN seqs[i + 1] ELSE F[(i + 1) - 1] \o seqs[i + 1]
    BY <1>6, <2>1
  <2> QED
    BY <2>1, <2>2
<1> QED
  BY <1>5, <1>7, <1>8

(* Appending to d one sequence after the other, with an invariant W. *)
LEMMA FlattenInduction ==
  ASSUME NEW d \in Seq(Cells), NEW seqs \in Seq(Seq(Cells)), NEW W,
         <<0, d>> \in W,
         \A i \in 0..Len(seqs) - 1 : \A q \in Seq(Cells) :
           <<i, q>> \in W => <<i + 1, q \o seqs[i + 1]>> \in W
  PROVE  d \o FlattenSeq(seqs) \in Seq(Cells) /\ <<Len(seqs), d \o FlattenSeq(seqs)>> \in W
<1> DEFINE n == Len(seqs)
<1>1. n \in Nat /\ \A i \in 1..n : seqs[i] \in Seq(Cells)
  OBVIOUS
<1>2. CASE n = 0
  <2>1. FlattenSeq(seqs) = seqs
    BY <1>2 DEF FlattenSeq
  <2>2. d \o seqs = d
    BY <1>2
  <2> QED
    BY <1>2, <2>1, <2>2
<1>3. CASE n # 0
  <2> HIDE DEF n
  <2>1. PICK f : /\ f[1] = seqs[1] /\ FlattenSeq(seqs) = f[n]
                 /\ \A i \in 1..n - 1 : f[i + 1] = f[i] \o seqs[i + 1]
    BY <1>1, <1>3, FlattenDef DEF n
  <2> DEFINE Good(i) == f[i] \in Seq(Cells) /\ <<i, d \o f[i]>> \in W
             T == {i \in Nat : i + 1 <= n => Good(i + 1)}
  <2>2. 0 \in T
    <3>1. 0 \in 0..Len(seqs) - 1 /\ 1 \in 1..n
      BY <1>1, <1>3 DEF n
    <3>2. <<0 + 1, d \o seqs[0 + 1]>> \in W
      BY <3>1
    <3>3. f[1] \in Seq(Cells) /\ <<1, d \o f[1]>> \in W
      BY <1>1, <2>1, <3>1, <3>2
    <3>4. 0 + 1 = 1
      OBVIOUS
    <3> QED
      BY <3>3, <3>4
  <2>3. ASSUME NEW i \in Nat, i \in T  PROVE i + 1 \in T
    <3> SUFFICES ASSUME (i + 1) + 1 <= n  PROVE Good((i + 1) + 1)
      OBVIOUS
    <3> DEFINE j == i + 1
    <3>1. j \in 1..n - 1 /\ j \in 0..Len(seqs) - 1 /\ j + 1 \in 1..n
      BY <1>1 DEF n
    <3>2. Good(j)
      BY <2>3, <1>1
    <3> HIDE DEF j
    <3>3. f[j + 1] = f[j] \o seqs[j + 1] /\ seqs[j + 1] \in Seq(Cells)
      BY <1>1, <2>1, <3>1
    <3>4. f[j + 1] \in Seq(Cells)
      BY <3>2, <3>3
    <3>5. <<j + 1, (d \o f[j]) \o seqs[j + 1]>> \in W
      <4>1. d \o f[j] \in Seq(Cells)
        BY <3>2
      <4> QED
        BY <3>1, <3>2, <4>1
    <3>6. (d \o f[j]) \o seqs[j + 1] = d \o f[j + 1]
      <4> DEFINE x == f[j]
                 y == seqs[j + 1]
      <4>1. x \in Seq(Cells) /\ y \in Seq(Cells)
        BY <3>2, <3>3
      <4> HIDE DEF x, y
      <4>2. (d \o x) \o y = d \o (x \o y)
        BY SMTT(40), <4>1, ConcatAssociative
      <4> QED
        BY <3>3, <4>2 DEF x, y
    <3> QED
      BY <3>4, <3>5, <3>6 DEF j
  <2>4. Nat \subseteq T
    <3> HIDE DEF T
    <3> QED
      BY <2>2, <2>3, Induction
  <2>5. n - 1 \in Nat /\ (n - 1) + 1 = n
    BY <1>1, <1>3
  <2>6. Good((n - 1) + 1)
    <3>1. n - 1 \in T
      BY <2>4, <2>5
    <3>2. (n - 1) + 1 <= n
      BY <1>1, <2>5
    <3> QED
      BY <3>1, <3>2
  <2>7. Good(n)
    BY <2>5, <2>6
  <2> QED
    BY <2>1, <2>7 DEF n
<1> QED
  BY <1>2, <1>3

LEMMA OwnConcat ==
  ASSUME NEW d \in Seq(Cells), NEW s \in Seq(Cells), NEW b, OwnCells(d, b), OwnCells(s, b)
  PROVE  OwnCells(d \o s, b)
<1>1. d \o s \in Seq(Cells) /\ Len(d \o s) = Len(d) + Len(s) /\ Len(d) \in Nat
  OBVIOUS
<1>2. ASSUME NEW i \in DOMAIN (d \o s)  PROVE (d \o s)[i] = Hole \/ (d \o s)[i].build = b
  <2>1. CASE i <= Len(d)
    <3>1. i \in DOMAIN d /\ (d \o s)[i] = d[i]
      BY <1>1, <2>1
    <3> QED
      BY <3>1 DEF OwnCells
  <2>2. CASE i > Len(d)
    <3>1. i - Len(d) \in DOMAIN s /\ (d \o s)[i] = s[i - Len(d)]
      BY <1>1, <2>2
    <3> QED
      BY <3>1 DEF OwnCells
  <2>3. i <= Len(d) \/ i > Len(d)
    BY <1>1
  <2> QED
    BY <2>1, <2>2, <2>3
<1> QED
  BY <1>2 DEF OwnCells

LEMMA OwnRecord ==
  ASSUME NEW b \in Builds, NEW k \in Keys
  PROVE  OwnCells(Record(b, k), b)
<1>1. ASSUME NEW i \in 1..Size[k]  PROVE Record(b, k)[i].build = b
  <2>1. Record(b, k)[i] = [build |-> b, key |-> k, part |-> i]
    BY DEF Record
  <2> QED
    BY <2>1
<1>2. DOMAIN Record(b, k) = 1..Size[k]
  BY DEF Record
<1> QED
  BY <1>1, <1>2 DEF OwnCells

(* The records that Merge appends for the entries e of the keys ks. *)
Copied(ks, e) == [i \in DOMAIN ks |-> IF e[ks[i]] \in Builds THEN Record(e[ks[i]], ks[i]) ELSE <<>>]

LEMMA CopiedFacts ==
  ASSUME NEW S \in SUBSET Keys, NEW ks \in SetToSeqs(S), NEW e \in Entries
  PROVE  /\ ks \in Seq(S) /\ Len(ks) \in Nat
         /\ Copied(ks, e) \in Seq(Seq(Cells)) /\ Len(Copied(ks, e)) = Len(ks)
         /\ \A i \in 1..Len(ks) :
              /\ ks[i] \in S
              /\ e[ks[i]] \in Builds => Copied(ks, e)[i] = Record(e[ks[i]], ks[i])
              /\ e[ks[i]] \notin Builds => Copied(ks, e)[i] = <<>>
<1>1. Cardinality(S) \in Nat
  BY KeysAssumption, FS_Subset, FS_CardinalityType
<1>2. ks \in [1..Cardinality(S) -> S]
  BY DEF SetToSeqs
<1>3. ks \in Seq(S) /\ Len(ks) = Cardinality(S) /\ DOMAIN ks = 1..Len(ks)
  BY <1>1, <1>2, IsASeq
<1>4. \A i \in 1..Len(ks) : ks[i] \in S
  BY <1>3
<1>5. \A i \in 1..Len(ks) : (IF e[ks[i]] \in Builds THEN Record(e[ks[i]], ks[i]) ELSE <<>>) \in Seq(Cells)
  <2>1. <<>> \in Seq(Cells)
    OBVIOUS
  <2> QED
    BY <1>4, <2>1, RecordFacts
<1>6. Copied(ks, e) \in [1..Len(ks) -> Seq(Cells)]
  BY <1>3, <1>5 DEF Copied
<1>7. Copied(ks, e) \in Seq(Seq(Cells)) /\ Len(Copied(ks, e)) = Len(ks)
  BY <1>1, <1>3, <1>6, IsASeq
<1>8. \A i \in 1..Len(ks) : /\ e[ks[i]] \in Builds => Copied(ks, e)[i] = Record(e[ks[i]], ks[i])
                            /\ e[ks[i]] \notin Builds => Copied(ks, e)[i] = <<>>
  BY <1>3 DEF Copied
<1> QED
  BY <1>1, <1>3, <1>4, <1>7, <1>8

LEMMA MergeOwn ==
  ASSUME NEW S \in SUBSET Keys, NEW ks \in SetToSeqs(S), NEW e \in Entries,
         NEW d \in Seq(Cells), NEW b, OwnCells(d, b), \A k \in S : e[k] \in Builds => e[k] = b
  PROVE  OwnCells(d \o FlattenSeq(Copied(ks, e)), b)
<1> DEFINE rs == Copied(ks, e)
           W == {p \in Nat \X Seq(Cells) : OwnCells(p[2], b)}
<1>1. /\ rs \in Seq(Seq(Cells)) /\ Len(rs) = Len(ks) /\ Len(ks) \in Nat
      /\ \A i \in 1..Len(ks) : /\ ks[i] \in S
                               /\ e[ks[i]] \in Builds => rs[i] = Record(e[ks[i]], ks[i])
                               /\ e[ks[i]] \notin Builds => rs[i] = <<>>
  BY CopiedFacts
<1> HIDE DEF rs
<1>2. <<0, d>> \in W
  OBVIOUS
<1>3. ASSUME NEW i \in 0..Len(rs) - 1, NEW q \in Seq(Cells), <<i, q>> \in W
      PROVE  <<i + 1, q \o rs[i + 1]>> \in W
  <2>1. i + 1 \in 1..Len(ks) /\ i + 1 \in Nat
    BY <1>1
  <2>2. OwnCells(q, b) /\ rs[i + 1] \in Seq(Cells)
    BY <1>1, <1>3, <2>1
  <2>3. OwnCells(rs[i + 1], b)
    <3>1. CASE e[ks[i + 1]] \in Builds
      BY <1>1, <2>1, <3>1, OwnRecord
    <3>2. CASE e[ks[i + 1]] \notin Builds
      BY <1>1, <2>1, <3>2 DEF OwnCells
    <3> QED
      BY <3>1, <3>2
  <2>4. OwnCells(q \o rs[i + 1], b)
    BY <2>2, <2>3, OwnConcat
  <2>5. q \o rs[i + 1] \in Seq(Cells)
    BY <2>2
  <2> QED
    BY <2>1, <2>4, <2>5
<1> HIDE DEF W
<1>4. <<Len(rs), d \o FlattenSeq(rs)>> \in W
  BY <1>1, <1>2, <1>3, FlattenInduction
<1> QED
  BY <1>4 DEF W, rs

(* Each entry that has a record adds one to the whole records of d. *)
LEMMA MergeParsed ==
  ASSUME NEW S \in SUBSET Keys, NEW ks \in SetToSeqs(S), NEW e \in Entries,
         NEW d \in Seq(Cells), NEW n \in Nat, Parsed(d, n)
  PROVE  LET a == d \o FlattenSeq(Copied(ks, e)) IN
         /\ a \in Seq(Cells) /\ Len(d) <= Len(a)
         /\ \E m \in Nat : Parsed(a, m) /\ ((\A k \in S : e[k] \in Builds) => n + Len(ks) <= m)
<1> DEFINE rs == Copied(ks, e)
           All == \A k \in S : e[k] \in Builds
           W == {p \in Nat \X Seq(Cells) :
                   Len(d) <= Len(p[2]) /\ \E m \in Nat : Parsed(p[2], m) /\ (All => n + p[1] <= m)}
<1>1. /\ rs \in Seq(Seq(Cells)) /\ Len(rs) = Len(ks) /\ Len(ks) \in Nat
      /\ \A i \in 1..Len(ks) : /\ ks[i] \in S
                               /\ e[ks[i]] \in Builds => rs[i] = Record(e[ks[i]], ks[i])
                               /\ e[ks[i]] \notin Builds => rs[i] = <<>>
  BY CopiedFacts
<1> HIDE DEF rs
<1>2. <<0, d>> \in W
  OBVIOUS
<1>3. ASSUME NEW i \in 0..Len(rs) - 1, NEW q \in Seq(Cells), <<i, q>> \in W
      PROVE  <<i + 1, q \o rs[i + 1]>> \in W
  <2>1. i + 1 \in 1..Len(ks) /\ i + 1 \in Nat
    BY <1>1
  <2>2. Len(d) <= Len(q) /\ rs[i + 1] \in Seq(Cells)
    BY <1>1, <1>3, <2>1
  <2>3. PICK m \in Nat : Parsed(q, m) /\ (All => n + i <= m)
    BY <1>3
  <2>4. q \o rs[i + 1] \in Seq(Cells) /\ Len(d) <= Len(q \o rs[i + 1])
    BY <2>2
  <2>5. CASE e[ks[i + 1]] \in Builds
    <3>1. rs[i + 1] = Record(e[ks[i + 1]], ks[i + 1]) /\ ks[i + 1] \in Keys
      BY <1>1, <2>1, <2>5
    <3>2. Parsed(q \o rs[i + 1], m + 1)
      BY <2>3, <2>5, <3>1, ParsedAppend
    <3>3. All => n + (i + 1) <= m + 1
      BY <2>3
    <3>4. m + 1 \in Nat
      OBVIOUS
    <3>5. \E x \in Nat : Parsed(q \o rs[i + 1], x) /\ (All => n + (i + 1) <= x)
      BY <3>2, <3>3, <3>4
    <3> HIDE DEF All
    <3> QED
      BY <2>1, <2>4, <3>5
  <2>6. CASE e[ks[i + 1]] \notin Builds
    <3>1. ~All
      BY <1>1, <2>1, <2>6
    <3>2. q \o rs[i + 1] = q
      BY <1>1, <2>1, <2>6
    <3> QED
      BY <2>1, <2>3, <2>4, <3>1, <3>2
  <2> QED
    BY <2>5, <2>6
<1> HIDE DEF W
<1>4. <<Len(rs), d \o FlattenSeq(rs)>> \in W
  BY <1>1, <1>2, <1>3, FlattenInduction
<1>5. /\ d \o FlattenSeq(rs) \in Seq(Cells) /\ Len(d) <= Len(d \o FlattenSeq(rs))
      /\ \E m \in Nat : Parsed(d \o FlattenSeq(rs), m) /\ (All => n + Len(rs) <= m)
  BY <1>4 DEF W
<1> QED
  BY <1>1, <1>5 DEF rs

-----------------------------------------------------------------------------
(* Types *)

LEMMA EntryTypes ==
  /\ NoEntries \in [Keys -> Builds \cup {NoBuild}] /\ NoEntries \in Entries
  /\ [Keys -> Builds \cup {NoBuild}] \subseteq Entries
BY DEF NoEntries, Entries

LEMMA OffType == Off \in Members
BY EntryTypes DEF Off, Members, PCs, NoHeader, Headers, NoEntries

LEMMA ImageTypes ==
  /\ NoImage \in Images /\ Truncated \in Images
  /\ Truncated.exists /\ Truncated.short /\ Truncated.build = NoBuild /\ Truncated.count = 0
  /\ Truncated.end = 0 /\ Truncated.data = <<>>
<1>1. <<>> \in Seq(Cells)
  OBVIOUS
<1>2. NoImage \in Images
  BY <1>1 DEF NoImage, Images
<1>3. NoImage.short /\ NoImage.build = NoBuild /\ NoImage.count = 0 /\ NoImage.end = 0 /\ NoImage.data = <<>>
  BY DEF NoImage
<1>4. /\ Truncated \in Images
      /\ Truncated.exists /\ Truncated.short = NoImage.short /\ Truncated.build = NoImage.build
      /\ Truncated.count = NoImage.count /\ Truncated.end = NoImage.end /\ Truncated.data = NoImage.data
  BY <1>2 DEF Images, Truncated
<1> QED
  BY <1>2, <1>3, <1>4

LEMMA ResetType ==
  ASSUME NEW m \in Members
  PROVE  Reset(m) \in Members
<1> DEFINE z == <<>>
<1>1. z \in Seq(Cells) /\ NoEntries \in Entries /\ "run" \in PCs
  BY EntryTypes DEF PCs
<1> HIDE DEF z
<1>2. [m EXCEPT !.totalShaders = 0, !.shaderDataEnd = 0, !.alloc = z,
                !.entry = NoEntries, !.pc = "run"] \in Members
  BY <1>1 DEF Members
<1> QED
  BY <1>2 DEF Reset, NoEntries, z

LEMMA HeaderType ==
  ASSUME NEW img \in Images, NEW b \in Builds
  PROVE  WithHeader(img, b) \in Images
BY DEF WithHeader, Images

LEMMA AllocatedType ==
  ASSUME NEW m \in Members, m.build \in Builds, NEW k \in Keys
  PROVE  Allocated(m, k) \in Seq(Cells)
<1>1. m.alloc \in Seq(Cells) /\ Record(m.build, k) \in Seq(Cells)
  BY RecordFacts DEF Members
<1> QED
  BY <1>1 DEF Allocated

(* A part of a record. *)
LEMMA PartFacts ==
  ASSUME NEW b \in Builds, NEW k \in Keys, NEW n \in 0..Size[k] - 1
  PROVE  SubSeq(Record(b, k), 1, n) \in Seq(Cells) /\ OwnCells(SubSeq(Record(b, k), 1, n), b)
<1> DEFINE r == Record(b, k)
           s == SubSeq(r, 1, n)
<1>1. Size[k] \in Nat \ {0} /\ r \in Seq(Cells) /\ Len(r) = Size[k] /\ OwnCells(r, b)
  BY RecordFacts, OwnRecord
<1> HIDE DEF r
<1>2. s \in Seq(Cells) /\ Len(s) = n /\ \A i \in 1..n : s[i] = r[i] /\ i \in DOMAIN r
  BY <1>1
<1> HIDE DEF s
<1>3. OwnCells(s, b)
  BY <1>1, <1>2 DEF OwnCells
<1> QED
  BY <1>2, <1>3 DEF r, s

LEMMA TypeInit == Init => TypeInv
<1> SUFFICES ASSUME Init  PROVE TypeInv
  OBVIOUS
<1>1. file \in Images /\ blob \in Images
  BY ImageTypes DEF Init
<1>2. mem \in [Caches -> Members]
  BY OffType DEF Init
<1>3. stored \in [Keys -> Builds \cup {NoBuild}]
  BY DEF Init
<1>4. sessions \in 0..MaxSessions /\ faults \in 0..MaxFaults
  BY BoundsAssumption DEF Init
<1> QED
  BY <1>1, <1>2, <1>3, <1>4 DEF Init, TypeInv

(* A step that sets the members of c to x. *)
LEMMA SetMember ==
  ASSUME mem \in [Caches -> Members], NEW c \in Caches, NEW x, Set(c, x)
  PROVE  /\ mem' = [mem EXCEPT ![c] = x] /\ mem'[c] = x
         /\ \A e \in Caches : e # c => mem'[e] = mem[e]
         /\ x \in Members => mem' \in [Caches -> Members]
BY DEF Set

-----------------------------------------------------------------------------
(* What each action does to the members of its cache, field by field *)

Others(c) == \A e \in Caches : e # c => mem'[e] = mem[e]

SameCache(c) == mem'[c].mode = mem[c].mode /\ mem'[c].build = mem[c].build

SameShaders(c) ==
  /\ mem'[c].alloc = mem[c].alloc /\ mem'[c].entry = mem[c].entry
  /\ mem'[c].totalShaders = mem[c].totalShaders /\ mem'[c].shaderDataEnd = mem[c].shaderDataEnd

NoShaders(c) ==
  /\ mem'[c].alloc = <<>> /\ mem'[c].entry = NoEntries
  /\ mem'[c].totalShaders = 0 /\ mem'[c].shaderDataEnd = 0

SameData == file'.data = file.data /\ file'.build = file.build /\ file'.short = file.short
SameHeader == file'.count = file.count /\ file'.end = file.end

LEMMA OffFields ==
  /\ Off.pc = "off" /\ Off.mode = "Runtime" /\ Off.build = NoBuild /\ Off.open = "no" /\ ~Off.pending
  /\ Off.hdr = NoHeader /\ Off.totalShaders = 0 /\ Off.shaderDataEnd = 0 /\ Off.alloc = <<>>
  /\ Off.entry = NoEntries /\ Off.key = NoKey
BY DEF Off, NoEntries

LEMMA InitOnDiskEffect ==
  ASSUME TypeInv, NEW c \in Caches, NEW m \in DiskModes, NEW b \in Builds, InitOnDisk(c, m, b)
  PROVE  /\ TypeInv' /\ Others(c) /\ NoShaders(c)
         /\ mem[c].pc = "off" /\ onDisk /\ mem'[c].mode = m /\ mem'[c].build = b
         /\ mem'[c].pc = (IF file.exists THEN "readHeader" ELSE "resetFile")
         /\ mem'[c].open \in {"r", "rw"} /\ ~mem'[c].pending /\ mem'[c].hdr = NoHeader
         /\ mem'[c].open = "rw" \/ m = "OnDiskReadOnly"
         /\ file'.exists /\ SameData /\ SameHeader
<1> DEFINE x == [Off EXCEPT !.mode = m, !.build = b,
                        !.pc = IF file.exists THEN "readHeader" ELSE "resetFile",
                        !.open = IF m = "OnDiskReadOnly" /\ file.exists THEN "r" ELSE "rw"]
<1>1. Set(c, x) /\ mem[c].pc = "off" /\ onDisk
  BY DEF InitOnDisk
<1>2. x \in Members
  BY OffType DEF Members, PCs
<1>3. /\ x.alloc = Off.alloc /\ x.entry = Off.entry /\ x.totalShaders = Off.totalShaders
      /\ x.shaderDataEnd = Off.shaderDataEnd /\ x.mode = m /\ x.build = b
      /\ x.pc = (IF file.exists THEN "readHeader" ELSE "resetFile")
      /\ x.open \in {"r", "rw"} /\ x.pending = Off.pending /\ x.hdr = Off.hdr
      /\ x.open = "rw" \/ m = "OnDiskReadOnly"
  BY OffType DEF Members
<1> HIDE DEF x
<1>4. mem' \in [Caches -> Members] /\ mem'[c] = x /\ Others(c)
  BY <1>1, <1>2, SetMember DEF TypeInv, Others
<1>5. file' \in Images /\ file'.exists /\ SameData /\ SameHeader
  BY DEF InitOnDisk, TypeInv, Images, SameData, SameHeader
<1>6. TypeInv'
  BY <1>4, <1>5, BoundsAssumption DEF InitOnDisk, TypeInv, OnFile
<1> QED
  BY <1>1, <1>3, <1>4, <1>5, <1>6, OffFields DEF NoShaders

LEMMA InitOpenFailsEffect ==
  ASSUME TypeInv, NEW c \in Caches, NEW m \in DiskModes, NEW b \in Builds, InitOpenFails(c, m, b)
  PROVE  /\ TypeInv' /\ Others(c) /\ NoShaders(c)
         /\ mem[c].pc = "off" /\ onDisk /\ mem'[c].mode = m /\ mem'[c].build = b
         /\ mem'[c].pc = "run" /\ mem'[c].open = "no" /\ ~mem'[c].pending
<1> DEFINE x == [Off EXCEPT !.mode = m, !.build = b, !.pc = "run"]
<1>1. Set(c, x) /\ mem[c].pc = "off" /\ onDisk
  BY DEF InitOpenFails
<1>2. x \in Members
  BY OffType DEF Members, PCs
<1>3. /\ x.alloc = Off.alloc /\ x.entry = Off.entry /\ x.totalShaders = Off.totalShaders
      /\ x.shaderDataEnd = Off.shaderDataEnd /\ x.mode = m /\ x.build = b
      /\ x.pc = "run" /\ x.open = Off.open /\ x.pending = Off.pending
  BY OffType DEF Members
<1> HIDE DEF x
<1>4. mem' \in [Caches -> Members] /\ mem'[c] = x /\ Others(c)
  BY <1>1, <1>2, SetMember DEF TypeInv, Others
<1>5. TypeInv'
  BY <1>4, BoundsAssumption DEF InitOpenFails, TypeInv, Fault
<1> QED
  BY <1>1, <1>3, <1>4, <1>5, OffFields DEF NoShaders

LEMMA ResetFields ==
  ASSUME NEW m \in Members
  PROVE  LET x == Reset(m) IN
         /\ x \in Members
         /\ x.alloc = <<>> /\ x.entry = NoEntries /\ x.totalShaders = 0 /\ x.shaderDataEnd = 0
         /\ x.pc = "run" /\ x.mode = m.mode /\ x.build = m.build /\ x.open = m.open
         /\ x.pending = m.pending /\ x.hdr = m.hdr /\ x.key = m.key
<1>1. Reset(m) \in Members
  BY ResetType
<1> QED
  BY <1>1 DEF Reset, Members, NoEntries

LEMMA ReadHeaderEffect ==
  ASSUME TypeInv, NEW c \in Caches, ReadHeader(c)
  PROVE  /\ TypeInv' /\ Others(c) /\ SameCache(c)
         /\ mem[c].pc = "readHeader" /\ mem'[c].open = mem[c].open /\ mem'[c].pending = mem[c].pending
         /\ \/ file.short /\ mem'[c].pc = "run" /\ NoShaders(c)
            \/ /\ ~file.short /\ mem'[c].pc = "readData" /\ SameShaders(c)
               /\ mem'[c].hdr = [build |-> file.build, count |-> file.count, end |-> file.end]
<1> DEFINE h == [build |-> file.build, count |-> file.count, end |-> file.end]
           x == IF file.short THEN Reset(mem[c]) ELSE [mem[c] EXCEPT !.pc = "readData", !.hdr = h]
<1>1. Set(c, x) /\ mem[c].pc = "readHeader" /\ mem[c] \in Members
  BY DEF ReadHeader, TypeInv
<1>2. h \in Headers
  BY DEF TypeInv, Images, Headers
<1> HIDE DEF h
<1>3. CASE file.short
  <2>1. /\ x \in Members
        /\ x.alloc = <<>> /\ x.entry = NoEntries /\ x.totalShaders = 0 /\ x.shaderDataEnd = 0
        /\ x.pc = "run" /\ x.mode = mem[c].mode /\ x.build = mem[c].build /\ x.open = mem[c].open
        /\ x.pending = mem[c].pending
    BY <1>1, <1>3, ResetFields
  <2> HIDE DEF x
  <2>2. mem' \in [Caches -> Members] /\ mem'[c] = x /\ Others(c)
    BY <1>1, <2>1, SetMember DEF TypeInv, Others
  <2>3. TypeInv'
    BY <2>2 DEF ReadHeader, TypeInv
  <2> QED
    BY <1>1, <1>3, <2>1, <2>2, <2>3 DEF SameCache, NoShaders
<1>4. CASE ~file.short
  <2>1. /\ x \in Members
        /\ x.alloc = mem[c].alloc /\ x.entry = mem[c].entry /\ x.totalShaders = mem[c].totalShaders
        /\ x.shaderDataEnd = mem[c].shaderDataEnd /\ x.hdr = h
        /\ x.pc = "readData" /\ x.mode = mem[c].mode /\ x.build = mem[c].build /\ x.open = mem[c].open
        /\ x.pending = mem[c].pending
    BY <1>1, <1>2, <1>4 DEF Members, PCs
  <2> HIDE DEF x
  <2>2. mem' \in [Caches -> Members] /\ mem'[c] = x /\ Others(c)
    BY <1>1, <2>1, SetMember DEF TypeInv, Others
  <2>3. TypeInv'
    BY <2>2 DEF ReadHeader, TypeInv
  <2> QED
    BY <1>1, <1>4, <2>1, <2>2, <2>3 DEF SameCache, SameShaders, h
<1> QED
  BY <1>3, <1>4

LEMMA ReadDataEffect ==
  ASSUME TypeInv, NEW c \in Caches, ReadData(c)
  PROVE  /\ TypeInv' /\ Others(c) /\ SameCache(c)
         /\ mem[c].pc = "readData" /\ mem'[c].pc = "run" /\ Loads(mem[c], file.data)
         /\ mem'[c].totalShaders = mem[c].hdr.count /\ mem'[c].shaderDataEnd = mem[c].hdr.end
         /\ mem'[c].entry = IndexMap(file.data, mem[c].hdr.count) /\ mem'[c].alloc = mem[c].alloc
         /\ mem'[c].open = (IF mem[c].mode = "OnDiskReadOnly" THEN "no" ELSE mem[c].open)
         /\ mem'[c].pending = mem[c].pending
<1> DEFINE m == mem[c]
           i == IndexMap(file.data, m.hdr.count)
           x == [m EXCEPT !.pc = "run", !.hdr = NoHeader,
                      !.totalShaders = m.hdr.count, !.shaderDataEnd = m.hdr.end, !.entry = i,
                      !.open = IF m.mode = "OnDiskReadOnly" THEN "no" ELSE @]
<1>1. Set(c, x) /\ m.pc = "readData" /\ m \in Members /\ Loads(m, file.data)
  BY DEF ReadData, TypeInv
<1>2. m.hdr.count \in Nat /\ m.hdr.end \in Nat /\ NoHeader \in Headers
  BY <1>1 DEF Members, Headers, NoHeader
<1>3. i \in Entries
  <2>1. file.data \in Seq(Cells) /\ Populates(file.data, m.hdr.count)
    BY <1>1 DEF Loads, TypeInv, Images
  <2> QED
    BY <1>2, <2>1, IndexType, EntryTypes
<1> HIDE DEF i, m
<1>4. /\ x \in Members /\ x.pc = "run" /\ x.totalShaders = m.hdr.count /\ x.shaderDataEnd = m.hdr.end
      /\ x.entry = i /\ x.alloc = m.alloc /\ x.pending = m.pending /\ x.mode = m.mode
      /\ x.build = m.build /\ x.open = (IF m.mode = "OnDiskReadOnly" THEN "no" ELSE m.open)
  BY <1>1, <1>2, <1>3 DEF Members, PCs
<1> HIDE DEF x
<1>5. mem' \in [Caches -> Members] /\ mem'[c] = x /\ Others(c)
  BY <1>1, <1>4, SetMember DEF TypeInv, Others
<1>6. TypeInv'
  BY <1>5 DEF ReadData, TypeInv
<1> QED
  BY <1>1, <1>4, <1>5, <1>6 DEF SameCache, m, i

(* The same, of the file. *)
LEMMA ReadPastEffect ==
  ASSUME TypeInv, NEW c \in Caches, ReadPast(c)
  PROVE  /\ TypeInv' /\ Others(c) /\ mem[c].pc = "readData" /\ file' = file
         /\ HeaderValid(mem[c].hdr, mem[c].build, Len(file.data))
         /\ ~Populates(file.data, mem[c].hdr.count)
         /\ \/ mem'[c] = Off /\ past' = past
            \/ /\ SameCache(c) /\ mem'[c].pc = "run" /\ mem'[c].pending = mem[c].pending
               /\ mem'[c].open \in {mem[c].open, "no"} /\ past' = past \cup {c}
<1> DEFINE m == mem[c]
           x(e) == [m EXCEPT !.pc = "run", !.hdr = NoHeader,
                      !.totalShaders = m.hdr.count, !.shaderDataEnd = m.hdr.end, !.entry = e,
                      !.open = IF m.mode = "OnDiskReadOnly" THEN "no" ELSE @]
<1>1. /\ m.pc = "readData" /\ m \in Members /\ HeaderValid(m.hdr, m.build, Len(file.data))
      /\ ~Populates(file.data, m.hdr.count) /\ file' = file
  BY DEF ReadPast, TypeInv, Overruns
<1>2. CASE Set(c, Off) /\ past' = past
  <2>1. mem' \in [Caches -> Members] /\ mem'[c] = Off /\ Others(c)
    BY <1>2, OffType, SetMember DEF TypeInv, Others
  <2>2. TypeInv'
    BY <1>2, <2>1 DEF ReadPast, TypeInv
  <2> QED
    BY <1>1, <1>2, <2>1, <2>2
<1>3. CASE past' = past \cup {c} /\ \E e \in Guesses(file.data, m.hdr.count) : Set(c, x(e))
  <2>1. PICK e \in Entries : Set(c, x(e))
    BY <1>3, EntryTypes DEF Guesses
  <2>2. m.hdr.count \in Nat /\ m.hdr.end \in Nat /\ NoHeader \in Headers
    BY <1>1 DEF Members, Headers, NoHeader
  <2> HIDE DEF m
  <2> DEFINE y == x(e)
  <2>3. /\ y \in Members /\ y.pc = "run" /\ y.pending = m.pending /\ y.mode = m.mode
        /\ y.build = m.build /\ y.open \in {m.open, "no"}
    BY <1>1, <2>2 DEF Members, PCs
  <2> HIDE DEF y
  <2>4. mem' \in [Caches -> Members] /\ mem'[c] = y /\ Others(c)
    BY <2>1, <2>3, SetMember DEF TypeInv, Others, y
  <2>5. TypeInv'
    BY <1>3, <2>4 DEF ReadPast, TypeInv
  <2> QED
    BY <1>1, <1>3, <2>3, <2>4, <2>5 DEF SameCache, m
<1> QED
  BY <1>2, <1>3 DEF ReadPast

LEMMA ReadDataFailsEffect ==
  ASSUME TypeInv, NEW c \in Caches, ReadDataFails(c)
  PROVE  /\ TypeInv' /\ Others(c) /\ SameCache(c) /\ SameShaders(c)
         /\ mem[c].pc = "readData" /\ mem'[c].pc = "resetFile"
         /\ mem'[c].open = mem[c].open /\ mem'[c].pending = mem[c].pending
<1> DEFINE m == mem[c]
           x == [m EXCEPT !.pc = "resetFile", !.hdr = NoHeader]
<1>1. Set(c, x) /\ m.pc = "readData" /\ m \in Members
  BY DEF ReadDataFails, TypeInv
<1> HIDE DEF m
<1>2. NoHeader \in Headers
  BY DEF Headers, NoHeader
<1>3. /\ x \in Members /\ x.pc = "resetFile" /\ x.totalShaders = m.totalShaders
      /\ x.shaderDataEnd = m.shaderDataEnd
      /\ x.entry = m.entry /\ x.alloc = m.alloc /\ x.pending = m.pending /\ x.mode = m.mode
      /\ x.build = m.build /\ x.open = m.open
  BY <1>1, <1>2 DEF Members, PCs
<1> HIDE DEF x
<1>4. mem' \in [Caches -> Members] /\ mem'[c] = x /\ Others(c)
  BY <1>1, <1>3, SetMember DEF TypeInv, Others
<1>5. faults' \in 0..MaxFaults
  BY BoundsAssumption DEF ReadDataFails, TypeInv, Fault
<1>6. TypeInv'
  BY <1>4, <1>5 DEF ReadDataFails, TypeInv
<1> QED
  BY <1>1, <1>3, <1>4, <1>6 DEF SameCache, SameShaders, m

LEMMA ResetFileEffect ==
  ASSUME TypeInv, NEW c \in Caches, ResetFile(c)
  PROVE  /\ TypeInv' /\ Others(c) /\ SameCache(c) /\ NoShaders(c)
         /\ mem[c].pc = "resetFile" /\ mem'[c].pc = "run"
         /\ mem'[c].open = "rw" /\ mem'[c].pending /\ file' = Truncated /\ stored' = NoEntries
<1> DEFINE m == mem[c]
           y == Reset(m)
           x == [y EXCEPT !.open = "rw", !.pending = TRUE]
<1>1. Set(c, x) /\ m.pc = "resetFile" /\ m \in Members /\ file' = Truncated
  BY DEF ResetFile, TypeInv
<1> HIDE DEF m
<1>2. /\ y \in Members
      /\ y.alloc = <<>> /\ y.entry = NoEntries /\ y.totalShaders = 0 /\ y.shaderDataEnd = 0
      /\ y.pc = "run" /\ y.mode = m.mode /\ y.build = m.build
  BY <1>1, ResetFields
<1> HIDE DEF y
<1>3. /\ x \in Members /\ x.pc = y.pc /\ x.totalShaders = y.totalShaders
      /\ x.shaderDataEnd = y.shaderDataEnd
      /\ x.entry = y.entry /\ x.alloc = y.alloc /\ x.pending /\ x.mode = y.mode
      /\ x.build = y.build /\ x.open = "rw"
  BY <1>2 DEF Members
<1> HIDE DEF x
<1>4. mem' \in [Caches -> Members] /\ mem'[c] = x /\ Others(c)
  BY <1>1, <1>3, SetMember DEF TypeInv, Others
<1>5. stored' = NoEntries
  BY DEF ResetFile, NoEntries
<1>6. TypeInv'
  BY <1>1, <1>4, <1>5, ImageTypes, EntryTypes DEF ResetFile, TypeInv
<1> QED
  BY <1>1, <1>2, <1>3, <1>4, <1>5, <1>6 DEF SameCache, NoShaders, m

LEMMA InsertShaderEffect ==
  ASSUME TypeInv, NEW c \in Caches, PlaceInv(c), NEW k \in Keys, InsertShader(c, k)
  PROVE  /\ TypeInv' /\ Others(c) /\ SameCache(c)
         /\ mem[c].pc = "run" /\ mem[c].build \in Builds /\ mem[c].entry[k] \in {NoBuild, Failed}
         /\ mem'[c].totalShaders = mem[c].totalShaders + 1
         /\ mem'[c].shaderDataEnd = mem[c].shaderDataEnd
         /\ mem'[c].alloc = Allocated(mem[c], k) /\ mem'[c].entry = [mem[c].entry EXCEPT ![k] = mem[c].build]
         /\ mem'[c].open = mem[c].open
         /\ file'.exists = file.exists /\ file'.data = file.data
         /\ mem[c].open = "no" => mem'[c].pc = "run" /\ mem'[c].pending = mem[c].pending /\ file' = file
         /\ mem[c].open # "no" => mem'[c].pc = "writeCount" /\ mem'[c].key = k /\ ~mem'[c].pending
         /\ ~mem[c].pending => file' = file
         /\ mem[c].open # "no" /\ mem[c].pending =>
              ~file'.short /\ file'.build = mem[c].build /\ file'.count = 0 /\ file'.end = 0
<1> DEFINE m == mem[c]
           a == Allocated(m, k)
           e == [m.entry EXCEPT ![k] = m.build]
           n == [m EXCEPT !.totalShaders = @ + 1, !.alloc = a, !.entry[k] = m.build]
           p == [n EXCEPT !.pc = "writeCount", !.key = k, !.pending = FALSE]
<1>1. /\ m.pc = "run" /\ m \in Members /\ m.entry[k] \in {NoBuild, Failed}
      /\ m.open = "no" => Set(c, n) /\ file' = file
      /\ m.open # "no" => Set(c, p) /\ file' = IF m.pending THEN WithHeader(file, m.build) ELSE file
  BY DEF InsertShader, TypeInv
<1>2. m.build \in Builds
  BY <1>1 DEF PlaceInv
<1>3. a \in Seq(Cells)
  BY <1>1, <1>2, AllocatedType
<1> HIDE DEF m, a
<1>4. e \in Entries
  BY <1>1, <1>2 DEF Members, Entries
<1>5. /\ n \in Members /\ n.pc = m.pc /\ n.totalShaders = m.totalShaders + 1 /\ n.open = m.open
      /\ n.shaderDataEnd = m.shaderDataEnd /\ n.alloc = a /\ n.entry = e /\ n.mode = m.mode
      /\ n.build = m.build /\ n.pending = m.pending
  <2>1. /\ n.pc = m.pc /\ n.totalShaders = m.totalShaders + 1 /\ n.open = m.open
        /\ n.shaderDataEnd = m.shaderDataEnd /\ n.alloc = a /\ n.mode = m.mode
        /\ n.build = m.build /\ n.pending = m.pending
    BY <1>1 DEF Members
  <2>2. n.entry = e
    BY <1>1 DEF Members
  <2>3. n = [m EXCEPT !.totalShaders = m.totalShaders + 1, !.alloc = a, !.entry = e]
    BY <1>1 DEF Members
  <2>4. [m EXCEPT !.totalShaders = m.totalShaders + 1, !.alloc = a, !.entry = e] \in Members
    <3>1. m \in Members /\ m.totalShaders + 1 \in Nat
      BY <1>1 DEF Members
    <3> HIDE DEF e, n, p
    <3> QED
      BY <3>1, <1>3, <1>4 DEF Members
  <2> QED
    BY <2>1, <2>2, <2>3, <2>4
<1> HIDE DEF n, e
<1>6. /\ p \in Members /\ p.pc = "writeCount" /\ p.totalShaders = n.totalShaders /\ p.open = n.open
      /\ p.shaderDataEnd = n.shaderDataEnd /\ p.alloc = n.alloc /\ p.entry = n.entry /\ p.mode = n.mode
      /\ p.build = n.build /\ ~p.pending /\ p.key = k
  BY <1>5 DEF Members, PCs
<1> HIDE DEF p
<1>7. /\ WithHeader(file, m.build) \in Images
      /\ WithHeader(file, m.build).exists = file.exists /\ WithHeader(file, m.build).data = file.data
      /\ ~WithHeader(file, m.build).short /\ WithHeader(file, m.build).build = m.build
      /\ WithHeader(file, m.build).count = 0 /\ WithHeader(file, m.build).end = 0
  BY <1>2, HeaderType DEF TypeInv, WithHeader, Images
<1>8. CASE m.open = "no"
  <2>1. mem' \in [Caches -> Members] /\ mem'[c] = n /\ Others(c)
    BY <1>1, <1>5, <1>8, SetMember DEF TypeInv, Others
  <2>2. ~m.pending /\ file' = file
    BY <1>1, <1>8 DEF PlaceInv, m
  <2>3. TypeInv'
    BY <2>1, <2>2 DEF InsertShader, TypeInv
  <2> QED
    BY <1>1, <1>2, <1>5, <1>8, <2>1, <2>2, <2>3 DEF SameCache, m, a, e
<1>9. CASE m.open # "no"
  <2>1. mem' \in [Caches -> Members] /\ mem'[c] = p /\ Others(c)
    BY <1>1, <1>6, <1>9, SetMember DEF TypeInv, Others
  <2>2. file' = IF m.pending THEN WithHeader(file, m.build) ELSE file
    BY <1>1, <1>9
  <2>3. TypeInv'
    BY <1>7, <2>1, <2>2 DEF InsertShader, TypeInv
  <2> QED
    BY <1>1, <1>2, <1>5, <1>6, <1>7, <1>9, <2>1, <2>2, <2>3 DEF SameCache, m, a, e
<1> QED
  BY <1>8, <1>9

LEMMA WriteCountEffect ==
  ASSUME TypeInv, NEW c \in Caches, WriteCount(c)
  PROVE  /\ TypeInv' /\ Others(c) /\ SameCache(c) /\ SameShaders(c)
         /\ mem[c].pc = "writeCount" /\ mem[c].open = "rw" /\ mem'[c].pc = "writeData"
         /\ mem'[c].open = mem[c].open /\ mem'[c].pending = mem[c].pending /\ mem'[c].key = mem[c].key
         /\ file'.exists = file.exists /\ SameData /\ file'.end = file.end
         /\ file'.count = mem[c].totalShaders
<1> DEFINE m == mem[c]
           x == [m EXCEPT !.pc = "writeData"]
<1>1. Set(c, x) /\ m.pc = "writeCount" /\ m.open = "rw" /\ m \in Members
  BY DEF WriteCount, TypeInv
<1>2. /\ file' \in Images /\ file'.exists = file.exists /\ SameData /\ file'.end = file.end
      /\ file'.count = m.totalShaders
  <2>1. file' = [file EXCEPT !.count = m.totalShaders] /\ m.totalShaders \in Nat
    BY <1>1 DEF WriteCount, Members
  <2> QED
    BY <2>1 DEF TypeInv, Images, SameData
<1> HIDE DEF m
<1>3. /\ x \in Members /\ x.pc = "writeData" /\ x.totalShaders = m.totalShaders /\ x.key = m.key
      /\ x.shaderDataEnd = m.shaderDataEnd
      /\ x.entry = m.entry /\ x.alloc = m.alloc /\ x.pending = m.pending /\ x.mode = m.mode
      /\ x.build = m.build /\ x.open = m.open
  BY <1>1 DEF Members, PCs
<1> HIDE DEF x
<1>4. mem' \in [Caches -> Members] /\ mem'[c] = x /\ Others(c)
  BY <1>1, <1>3, SetMember DEF TypeInv, Others
<1>5. TypeInv'
  BY <1>2, <1>4 DEF WriteCount, TypeInv
<1> QED
  BY <1>1, <1>2, <1>3, <1>4, <1>5 DEF SameCache, SameShaders, m

LEMMA WriteDataEffect ==
  ASSUME TypeInv, NEW c \in Caches, PlaceInv(c), WriteData(c)
  PROVE  /\ TypeInv' /\ Others(c) /\ SameCache(c)
         /\ mem[c].pc = "writeData" /\ mem[c].key \in Keys /\ mem[c].build \in Builds
         /\ mem'[c].pc = "writeEnd" /\ mem'[c].open = mem[c].open /\ mem'[c].pending = mem[c].pending
         /\ mem'[c].key = mem[c].key /\ mem'[c].alloc = mem[c].alloc /\ mem'[c].entry = mem[c].entry
         /\ mem'[c].totalShaders = mem[c].totalShaders
         /\ mem'[c].shaderDataEnd = mem[c].shaderDataEnd + Size[mem[c].key]
         /\ file'.exists = file.exists /\ ~file'.short /\ SameHeader /\ file'.build = file.build
         /\ file'.data = Overwrite(file.data, mem[c].shaderDataEnd, Record(mem[c].build, mem[c].key))
<1> DEFINE m == mem[c]
           o == Overwrite(file.data, m.shaderDataEnd, Record(m.build, m.key))
           x == [m EXCEPT !.pc = "writeEnd", !.shaderDataEnd = @ + Size[m.key]]
<1>1. Set(c, x) /\ m.pc = "writeData" /\ m \in Members
  BY DEF WriteData, TypeInv
<1>2. m.key \in Keys /\ m.build \in Builds /\ Size[m.key] \in Nat
  BY <1>1, SizeAssumption DEF PlaceInv, Writing
<1>3. o \in Seq(Cells)
  <2>1. file.data \in Seq(Cells) /\ m.shaderDataEnd \in Nat /\ Record(m.build, m.key) \in Seq(Cells)
    BY <1>1, <1>2, RecordFacts DEF TypeInv, Images, Members
  <2> QED
    BY <2>1, OverwriteFacts
<1>4. /\ file' \in Images /\ file'.exists = file.exists /\ ~file'.short /\ SameHeader
      /\ file'.build = file.build /\ file'.data = o
  <2>1. file' = [file EXCEPT !.short = FALSE, !.data = o]
    BY DEF WriteData
  <2> HIDE DEF o
  <2> QED
    BY <1>3, <2>1 DEF TypeInv, Images, SameHeader
<1> HIDE DEF m
<1>5. /\ x \in Members /\ x.pc = "writeEnd" /\ x.totalShaders = m.totalShaders /\ x.key = m.key
      /\ x.shaderDataEnd = m.shaderDataEnd + Size[m.key]
      /\ x.entry = m.entry /\ x.alloc = m.alloc /\ x.pending = m.pending /\ x.mode = m.mode
      /\ x.build = m.build /\ x.open = m.open
  <2>1. m \in Members /\ m.shaderDataEnd + Size[m.key] \in Nat
    BY <1>1, <1>2 DEF Members
  <2> QED
    BY <2>1 DEF Members, PCs
<1> HIDE DEF x
<1>6. mem' \in [Caches -> Members] /\ mem'[c] = x /\ Others(c)
  BY <1>1, <1>5, SetMember DEF TypeInv, Others
<1>7. TypeInv'
  BY <1>4, <1>6 DEF WriteData, TypeInv
<1> QED
  BY <1>1, <1>2, <1>4, <1>5, <1>6, <1>7 DEF SameCache, m

LEMMA WriteEndEffect ==
  ASSUME TypeInv, NEW c \in Caches, PlaceInv(c), WriteEnd(c)
  PROVE  /\ TypeInv' /\ Others(c) /\ SameCache(c) /\ SameShaders(c)
         /\ mem[c].pc = "writeEnd" /\ mem'[c].pc = "run" /\ mem[c].key \in Keys /\ mem[c].build \in Builds
         /\ mem'[c].open = mem[c].open /\ mem'[c].pending = mem[c].pending
         /\ file'.exists = file.exists /\ ~file'.short /\ file'.build = file.build
         /\ file'.data = file.data /\ file'.count = file.count /\ file'.end = mem[c].shaderDataEnd
         /\ stored' = [stored EXCEPT ![mem[c].key] = mem[c].build]
<1> DEFINE m == mem[c]
           x == [m EXCEPT !.pc = "run", !.key = NoKey]
<1>1. Set(c, x) /\ m.pc = "writeEnd" /\ m \in Members /\ stored' = [stored EXCEPT ![m.key] = m.build]
  BY DEF WriteEnd, TypeInv
<1>2. m.key \in Keys /\ m.build \in Builds
  BY <1>1 DEF PlaceInv, Writing
<1>3. /\ file' \in Images /\ file'.exists = file.exists /\ ~file'.short /\ file'.build = file.build
      /\ file'.data = file.data /\ file'.count = file.count /\ file'.end = m.shaderDataEnd
  <2>1. file' = [file EXCEPT !.short = FALSE, !.end = m.shaderDataEnd] /\ m.shaderDataEnd \in Nat
    BY <1>1 DEF WriteEnd, Members
  <2> QED
    BY <2>1 DEF TypeInv, Images
<1> HIDE DEF m
<1>4. /\ x \in Members /\ x.pc = "run" /\ x.totalShaders = m.totalShaders
      /\ x.shaderDataEnd = m.shaderDataEnd
      /\ x.entry = m.entry /\ x.alloc = m.alloc /\ x.pending = m.pending /\ x.mode = m.mode
      /\ x.build = m.build /\ x.open = m.open
  BY <1>1 DEF Members, PCs
<1> HIDE DEF x
<1>5. mem' \in [Caches -> Members] /\ mem'[c] = x /\ Others(c)
  BY <1>1, <1>4, SetMember DEF TypeInv, Others
<1>6. stored' \in [Keys -> Builds \cup {NoBuild}]
  BY <1>1, <1>2 DEF TypeInv
<1>7. TypeInv'
  BY <1>3, <1>5, <1>6 DEF WriteEnd, TypeInv
<1> QED
  BY <1>1, <1>2, <1>3, <1>4, <1>5, <1>7 DEF SameCache, SameShaders, m

LEMMA WriteFailsEffect ==
  ASSUME TypeInv, NEW c \in Caches, PlaceInv(c), WriteFails(c)
  PROVE  /\ TypeInv' /\ Others(c) /\ SameCache(c) /\ disturbed'
         /\ mem[c].pc \in Writing /\ mem'[c].pc = "run" /\ mem[c].build \in Builds /\ mem[c].key \in Keys
         /\ mem'[c].open = mem[c].open /\ mem'[c].pending = mem[c].pending
         /\ mem'[c].alloc = mem[c].alloc /\ mem'[c].entry = [mem[c].entry EXCEPT ![mem[c].key] = NoBuild]
         /\ \/ file' = file
            \/ \E s \in Seq(Cells) :
                 /\ OwnCells(s, mem[c].build) /\ file'.data = Overwrite(file.data, mem[c].shaderDataEnd, s)
                 /\ file'.exists = file.exists /\ ~file'.short /\ file'.build = file.build
<1> DEFINE m == mem[c]
           e == [m.entry EXCEPT ![m.key] = NoBuild]
           x == [m EXCEPT !.pc = "run", !.entry[m.key] = NoBuild, !.key = NoKey]
<1>1. Set(c, x) /\ m.pc \in Writing /\ m \in Members /\ disturbed'
  BY DEF WriteFails, TypeInv, TakenBack, Writing
<1>2. m.key \in Keys /\ m.build \in Builds /\ Size[m.key] \in Nat \ {0}
  BY <1>1, SizeAssumption DEF PlaceInv, Writing
<1>3. \/ file' = file
      \/ \E n \in 0..Size[m.key] - 1 :
           file' = [file EXCEPT !.short = FALSE,
                       !.data = Overwrite(@, m.shaderDataEnd, SubSeq(Record(m.build, m.key), 1, n))]
  BY DEF WriteFails
<1>4. /\ file' \in Images
      /\ \/ file' = file
         \/ \E s \in Seq(Cells) :
              /\ OwnCells(s, m.build) /\ file'.data = Overwrite(file.data, m.shaderDataEnd, s)
              /\ file'.exists = file.exists /\ ~file'.short /\ file'.build = file.build
  <2>1. CASE file' = file
    BY <2>1 DEF TypeInv
  <2>2. ASSUME NEW n \in 0..Size[m.key] - 1,
               file' = [file EXCEPT !.short = FALSE,
                          !.data = Overwrite(@, m.shaderDataEnd, SubSeq(Record(m.build, m.key), 1, n))]
        PROVE  /\ file' \in Images
               /\ \E s \in Seq(Cells) :
                    /\ OwnCells(s, m.build) /\ file'.data = Overwrite(file.data, m.shaderDataEnd, s)
                    /\ file'.exists = file.exists /\ ~file'.short /\ file'.build = file.build
    <3> DEFINE s == SubSeq(Record(m.build, m.key), 1, n)
               o == Overwrite(file.data, m.shaderDataEnd, s)
    <3>1. s \in Seq(Cells) /\ OwnCells(s, m.build)
      BY <1>2, PartFacts
    <3>2. file.data \in Seq(Cells) /\ m.shaderDataEnd \in Nat
      BY <1>1 DEF TypeInv, Images, Members
    <3>3. file' = [file EXCEPT !.short = FALSE, !.data = o]
      BY <2>2
    <3> HIDE DEF s
    <3>4. o \in Seq(Cells)
      BY <3>1, <3>2, OverwriteFacts
    <3>5. /\ file' \in Images /\ file'.data = o
          /\ file'.exists = file.exists /\ ~file'.short /\ file'.build = file.build
      <4> HIDE DEF o
      <4> QED
        BY <3>3, <3>4 DEF TypeInv, Images
    <3> QED
      BY <3>1, <3>5
  <2> QED
    BY <1>3, <2>1, <2>2
<1> HIDE DEF m
<1>5. e \in Entries
  BY <1>1, <1>2 DEF Members, Entries
<1>6. x = [m EXCEPT !.pc = "run", !.entry = e, !.key = NoKey]
  BY <1>1 DEF Members
<1> HIDE DEF e, x
<1>7. /\ x \in Members /\ x.pc = "run" /\ x.entry = e /\ x.alloc = m.alloc /\ x.pending = m.pending
      /\ x.mode = m.mode /\ x.build = m.build /\ x.open = m.open
  <2>1. m \in Members
    BY <1>1
  <2> QED
    BY <1>5, <1>6, <2>1 DEF Members, PCs
<1>8. mem' \in [Caches -> Members] /\ mem'[c] = x /\ Others(c)
  BY <1>1, <1>7, SetMember DEF TypeInv, Others
<1>9. faults' \in 0..MaxFaults
  <2>1. faults' = faults \/ Fault
    BY DEF WriteFails
  <2> QED
    BY <2>1, BoundsAssumption DEF TypeInv, Fault
<1>10. TypeInv'
  BY <1>4, <1>8, <1>9 DEF WriteFails, TypeInv
<1> QED
  BY <1>1, <1>2, <1>4, <1>7, <1>8, <1>10 DEF SameCache, m, e

LEMMA WriteLostEffect ==
  ASSUME TypeInv, NEW c \in Caches, PlaceInv(c), WriteLost(c)
  PROVE  /\ TypeInv' /\ Others(c) /\ SameCache(c) /\ disturbed' /\ file' = file
         /\ mem[c].pc \in Writing /\ mem[c].open = "rw" /\ mem'[c].open = mem[c].open
         /\ mem'[c].pending = mem[c].pending
         /\ mem'[c].alloc = mem[c].alloc /\ mem'[c].entry = mem[c].entry
         /\ \/ mem'[c].pc \in {"writeData", "writeEnd"} /\ mem'[c].key = mem[c].key
            \/ mem'[c].pc = "run"
<1> DEFINE m == mem[c]
           x == [m EXCEPT !.pc = "writeData"]
           y == [m EXCEPT !.pc = "writeEnd", !.shaderDataEnd = @ + Size[m.key]]
           z == [m EXCEPT !.pc = "run", !.key = NoKey]
<1>1. m.pc \in Writing /\ m.open = "rw" /\ m \in Members /\ disturbed' /\ file' = file
  BY DEF WriteLost, TypeInv, Writing
<1>2. \/ m.pc = "writeCount" /\ Set(c, x)
      \/ m.pc = "writeData" /\ Set(c, y)
      \/ m.pc = "writeEnd" /\ Set(c, z)
  BY DEF WriteLost
<1>3. m.key \in Keys /\ Size[m.key] \in Nat
  BY <1>1, SizeAssumption DEF PlaceInv
<1>4. m.shaderDataEnd + Size[m.key] \in Nat
  BY <1>1, <1>3 DEF Members
<1> HIDE DEF m
<1>5. /\ x \in Members /\ x.pc = "writeData" /\ x.key = m.key /\ x.open = m.open /\ x.pending = m.pending
      /\ x.entry = m.entry /\ x.alloc = m.alloc /\ x.mode = m.mode /\ x.build = m.build
  BY <1>1 DEF Members, PCs
<1>6. /\ y \in Members /\ y.pc = "writeEnd" /\ y.key = m.key /\ y.open = m.open /\ y.pending = m.pending
      /\ y.entry = m.entry /\ y.alloc = m.alloc /\ y.mode = m.mode /\ y.build = m.build
  <2>1. m \in Members
    BY <1>1
  <2> QED
    BY <1>4, <2>1 DEF Members, PCs
<1>7. /\ z \in Members /\ z.pc = "run" /\ z.open = m.open /\ z.pending = m.pending
      /\ z.entry = m.entry /\ z.alloc = m.alloc /\ z.mode = m.mode /\ z.build = m.build
  BY <1>1 DEF Members, PCs
<1> HIDE DEF x, y, z
<1>8. mem' \in [Caches -> Members] /\ mem'[c] \in {x, y, z} /\ Others(c)
  BY <1>2, <1>5, <1>6, <1>7, SetMember DEF TypeInv, Others
<1>9. faults' \in 0..MaxFaults
  BY BoundsAssumption DEF WriteLost, TypeInv, Fault
<1>10. TypeInv'
  BY <1>1, <1>8, <1>9 DEF WriteLost, TypeInv
<1> QED
  BY <1>1, <1>5, <1>6, <1>7, <1>8, <1>10 DEF SameCache, m

LEMMA ExternalHitEffect ==
  ASSUME TypeInv, NEW c \in Caches, PlaceInv(c), NEW k \in Keys, ExternalHit(c, k)
  PROVE  /\ TypeInv' /\ Others(c) /\ SameCache(c) /\ ~onDisk /\ file' = file
         /\ mem[c].pc = "run" /\ mem'[c].pc = "run" /\ mem[c].build \in Builds /\ mem[c].entry[k] = NoBuild
         /\ mem'[c].open = mem[c].open /\ mem'[c].pending = mem[c].pending
         /\ mem'[c].alloc = Allocated(mem[c], k) /\ mem'[c].entry = [mem[c].entry EXCEPT ![k] = mem[c].build]
         /\ mem'[c].totalShaders = mem[c].totalShaders /\ mem'[c].shaderDataEnd = mem[c].shaderDataEnd
<1> DEFINE m == mem[c]
           a == Allocated(m, k)
           e == [m.entry EXCEPT ![k] = m.build]
           x == [m EXCEPT !.alloc = a, !.entry[k] = m.build]
<1>1. Set(c, x) /\ m.pc = "run" /\ ~onDisk /\ m \in Members /\ m.entry[k] = NoBuild /\ file' = file
  BY DEF ExternalHit, TypeInv
<1>2. m.build \in Builds
  BY <1>1 DEF PlaceInv
<1>3. a \in Seq(Cells)
  BY <1>1, <1>2, AllocatedType
<1> HIDE DEF m, a
<1>4. e \in Entries
  BY <1>1, <1>2 DEF Members, Entries
<1>5. x = [m EXCEPT !.alloc = a, !.entry = e]
  BY <1>1 DEF Members
<1> HIDE DEF e, x
<1>6. /\ x \in Members /\ x.pc = m.pc /\ x.entry = e /\ x.alloc = a /\ x.pending = m.pending
      /\ x.mode = m.mode /\ x.build = m.build /\ x.open = m.open
      /\ x.totalShaders = m.totalShaders /\ x.shaderDataEnd = m.shaderDataEnd
  <2>1. m \in Members
    BY <1>1
  <2> QED
    BY <1>3, <1>4, <1>5, <2>1 DEF Members
<1>7. mem' \in [Caches -> Members] /\ mem'[c] = x /\ Others(c)
  BY <1>1, <1>6, SetMember DEF TypeInv, Others
<1>8. TypeInv'
  BY <1>7 DEF ExternalHit, TypeInv
<1> QED
  BY <1>1, <1>2, <1>6, <1>7, <1>8 DEF SameCache, m, a, e

LEMMA ResetShaderEffect ==
  ASSUME TypeInv, NEW c \in Caches, NEW k \in Keys, ResetShader(c, k)
  PROVE  /\ TypeInv' /\ Others(c) /\ SameCache(c) /\ ~onDisk /\ file' = file
         /\ mem[c].pc = "run" /\ mem'[c].pc = "run"
         /\ mem'[c].open = mem[c].open /\ mem'[c].pending = mem[c].pending
         /\ mem'[c].alloc = mem[c].alloc /\ mem'[c].entry = [mem[c].entry EXCEPT ![k] = Failed]
         /\ mem'[c].totalShaders = mem[c].totalShaders /\ mem'[c].shaderDataEnd = mem[c].shaderDataEnd
<1> DEFINE m == mem[c]
           e == [m.entry EXCEPT ![k] = Failed]
           x == [m EXCEPT !.entry[k] = Failed]
<1>1. Set(c, x) /\ m.pc = "run" /\ ~onDisk /\ m \in Members /\ file' = file
  BY DEF ResetShader, TypeInv
<1> HIDE DEF m
<1>2. e \in Entries
  BY <1>1 DEF Members, Entries
<1>3. x = [m EXCEPT !.entry = e]
  BY <1>1 DEF Members
<1> HIDE DEF e, x
<1>4. /\ x \in Members /\ x.pc = m.pc /\ x.entry = e /\ x.alloc = m.alloc /\ x.pending = m.pending
      /\ x.mode = m.mode /\ x.build = m.build /\ x.open = m.open
      /\ x.totalShaders = m.totalShaders /\ x.shaderDataEnd = m.shaderDataEnd
  <2>1. m \in Members
    BY <1>1
  <2> QED
    BY <1>2, <1>3, <2>1 DEF Members
<1>5. mem' \in [Caches -> Members] /\ mem'[c] = x /\ Others(c)
  BY <1>1, <1>4, SetMember DEF TypeInv, Others
<1>6. TypeInv'
  BY <1>5 DEF ResetShader, TypeInv
<1> QED
  BY <1>1, <1>4, <1>5, <1>6 DEF SameCache, m, e

(* The entries that Merge copies from d to c. *)
Missing(c, d) == {k \in Keys : mem[c].entry[k] = NoBuild /\ mem[d].entry[k] # NoBuild}

MergedEntry(c, d) ==
  [k \in Keys |-> IF k \notin Missing(c, d) THEN mem[c].entry[k]
                  ELSE IF mem[d].entry[k] \in Builds THEN mem[d].entry[k] ELSE Empty]

LEMMA MergeEffect ==
  ASSUME TypeInv, NEW c \in Caches, NEW d \in Caches, Merge(c, d)
  PROVE  /\ TypeInv' /\ Others(c) /\ SameCache(c) /\ ~onDisk /\ file' = file /\ c # d
         /\ mem[c].pc = "run" /\ mem[d].pc = "run" /\ mem'[c].pc = "run"
         /\ mem'[c].open = mem[c].open /\ mem'[c].pending = mem[c].pending
         /\ mem'[c].shaderDataEnd = mem[c].shaderDataEnd /\ mem'[c].entry = MergedEntry(c, d)
         /\ Missing(c, d) \in SUBSET Keys
         /\ \E ks \in SetToSeqs(Missing(c, d)) :
              /\ mem'[c].totalShaders = mem[c].totalShaders + Len(ks)
              /\ mem'[c].alloc = mem[c].alloc \o FlattenSeq(Copied(ks, mem[d].entry))
<1> DEFINE m == mem[c]
           src == mem[d]
           S == Missing(c, d)
           e == MergedEntry(c, d)
           a(ks) == m.alloc \o FlattenSeq(Copied(ks, src.entry))
           x(ks) == [m EXCEPT !.totalShaders = m.totalShaders + Len(ks), !.alloc = a(ks), !.entry = e]
<1>1. /\ c # d /\ ~onDisk /\ m.pc = "run" /\ src.pc = "run" /\ file' = file
      /\ m \in Members /\ src \in Members /\ S \in SUBSET Keys
      /\ past' = (IF d \in past THEN past \cup {c} ELSE past)
  BY DEF Merge, TypeInv, Missing
<1>2. PICK ks \in SetToSeqs(S) : Set(c, x(ks))
  BY DEF Merge, Missing, MergedEntry, MergedCount, Copied
<1> HIDE DEF m, src, S, e
<1>3. a(ks) \in Seq(Cells) /\ Len(ks) \in Nat
  <2>1. m.alloc \in Seq(Cells) /\ src.entry \in Entries
    BY <1>1 DEF Members
  <2>2. Copied(ks, src.entry) \in Seq(Seq(Cells)) /\ Len(ks) \in Nat
    BY <1>1, <2>1, CopiedFacts
  <2> DEFINE W == Nat \X Seq(Cells)
             rs == Copied(ks, src.entry)
  <2> HIDE DEF rs
  <2>3. <<0, m.alloc>> \in W
    BY <2>1
  <2>4. \A i \in 0..Len(rs) - 1 : \A q \in Seq(Cells) :
          <<i, q>> \in W => <<i + 1, q \o rs[i + 1]>> \in W
    <3> SUFFICES ASSUME NEW i \in 0..Len(rs) - 1, NEW q \in Seq(Cells)
                 PROVE  <<i + 1, q \o rs[i + 1]>> \in W
      OBVIOUS
    <3>1. i + 1 \in 1..Len(rs) /\ rs[i + 1] \in Seq(Cells)
      BY <2>2 DEF rs
    <3>2. i + 1 \in Nat /\ q \o rs[i + 1] \in Seq(Cells)
      BY <3>1
    <3> QED
      BY <3>2
  <2> HIDE DEF W
  <2>5. m.alloc \o FlattenSeq(rs) \in Seq(Cells)
    BY <2>1, <2>2, <2>3, <2>4, FlattenInduction DEF rs
  <2> QED
    BY <2>2, <2>5 DEF rs
<1>4. e \in Entries
  <2>1. \A k \in Keys : e[k] \in Builds \cup {NoBuild, Failed, Empty}
    BY <1>1 DEF e, MergedEntry, Members, Entries, m, src
  <2>2. e = [k \in Keys |-> e[k]]
    BY DEF e, MergedEntry
  <2> QED
    BY <2>1, <2>2 DEF Entries
<1> DEFINE z == x(ks)
           b == a(ks)
<1>5. z = [m EXCEPT !.totalShaders = m.totalShaders + Len(ks), !.alloc = b, !.entry = e]
  OBVIOUS
<1>6. b \in Seq(Cells) /\ m \in Members /\ m.totalShaders + Len(ks) \in Nat
  BY <1>1, <1>3 DEF Members
<1> HIDE DEF x, a, z, b
<1>7. /\ z \in Members /\ z.pc = m.pc /\ z.entry = e /\ z.alloc = b /\ z.pending = m.pending
      /\ z.mode = m.mode /\ z.build = m.build /\ z.open = m.open
      /\ z.totalShaders = m.totalShaders + Len(ks) /\ z.shaderDataEnd = m.shaderDataEnd
  BY <1>4, <1>5, <1>6 DEF Members
<1>8. mem' \in [Caches -> Members] /\ mem'[c] = z /\ Others(c)
  BY <1>2, <1>7, SetMember DEF TypeInv, Others, z
<1>9. TypeInv'
  BY <1>1, <1>8 DEF Merge, TypeInv
<1>10. mem'[c].totalShaders = m.totalShaders + Len(ks) /\ mem'[c].alloc = a(ks)
  BY <1>7, <1>8 DEF b
<1> QED
  BY <1>1, <1>2, <1>7, <1>8, <1>9, <1>10 DEF SameCache, m, src, S, e, a

LEMMA SerializeEffect ==
  ASSUME TypeInv, NEW c \in Caches, Serialize(c)
  PROVE  /\ TypeInv' /\ mem' = mem /\ file' = file /\ mem[c].pc = "run" /\ mem[c].mode = "Runtime"
         /\ blob'.build = mem[c].build /\ blob'.data = mem[c].alloc /\ blob'.count = mem[c].totalShaders
         /\ blob'.end = mem[c].shaderDataEnd /\ blob'.hollow = Hollow(c)
<1>1. mem[c] \in Members /\ mem[c].pc = "run" /\ mem[c].mode = "Runtime" /\ mem' = mem /\ file' = file
  BY DEF Serialize, TypeInv
<1>2. blob' = [exists |-> TRUE, short |-> FALSE, build |-> mem[c].build,
               count |-> mem[c].totalShaders, end |-> mem[c].shaderDataEnd, data |-> mem[c].alloc,
               hollow |-> Hollow(c)]
  BY DEF Serialize, Hollow
<1>3. Hollow(c) \in BOOLEAN
  BY DEF Hollow
<1>4. /\ mem[c].build \in Builds \cup {NoBuild} /\ mem[c].totalShaders \in Nat
      /\ mem[c].shaderDataEnd \in Nat /\ mem[c].alloc \in Seq(Cells)
  BY <1>1 DEF Members
<1>5. blob' \in Images
  BY <1>2, <1>3, <1>4 DEF Images
<1>6. TypeInv'
  BY <1>5 DEF Serialize, TypeInv
<1> QED
  BY <1>1, <1>2, <1>6

LEMMA SeededFields ==
  ASSUME TypeInv, NEW b \in Builds, NEW e \in Entries
  PROVE  LET x == Seeded(b, e) IN
         /\ x \in Members /\ x.pc = "run" /\ x.mode = "Runtime" /\ x.build = b /\ x.open = "no"
         /\ ~x.pending /\ x.totalShaders = blob.count /\ x.shaderDataEnd = blob.end
         /\ x.alloc = blob.data /\ x.entry = e
<1>1. blob.data \in Seq(Cells) /\ blob.count \in Nat /\ blob.end \in Nat
  BY DEF TypeInv, Images
<1> DEFINE x == Seeded(b, e)
<1>2. /\ x \in Members /\ x.pc = "run" /\ x.mode = Off.mode /\ x.build = b /\ x.open = Off.open
      /\ x.pending = Off.pending /\ x.totalShaders = blob.count /\ x.shaderDataEnd = blob.end
      /\ x.alloc = blob.data /\ x.entry = e
  BY <1>1, OffType DEF Seeded, Members, PCs
<1> QED
  BY <1>2, OffFields

LEMMA InitRuntimeEffect ==
  ASSUME TypeInv, NEW c \in Caches, NEW b \in Builds, NEW s \in BOOLEAN, InitRuntime(c, b, s)
  PROVE  /\ TypeInv' /\ Others(c) /\ ~onDisk /\ file' = file
         /\ mem[c].pc = "off" /\ mem'[c].pc = "run" /\ mem'[c].mode = "Runtime" /\ mem'[c].build = b
         /\ mem'[c].open = "no" /\ ~mem'[c].pending
         /\ \/ NoShaders(c)
            \/ /\ blob.build = b /\ blob.end <= Len(blob.data) /\ Populates(blob.data, blob.count)
               /\ mem'[c].totalShaders = blob.count /\ mem'[c].shaderDataEnd = blob.end
               /\ mem'[c].alloc = blob.data /\ mem'[c].entry = IndexMap(blob.data, blob.count)
               /\ pastBlob => c \in past'
<1> DEFINE m == [Off EXCEPT !.build = b]
           i == IndexMap(blob.data, blob.count)
           y == Seeded(b, i)
           ok == s /\ HeaderValid(BlobHeader, b, Len(blob.data)) /\ Populates(blob.data, blob.count)
<1>1. mem[c].pc = "off" /\ ~onDisk /\ file' = file /\ (ok => Set(c, y)) /\ (~ok => Set(c, Reset(m)))
  BY DEF InitRuntime
<1>2. /\ m \in Members /\ m.pc = Off.pc /\ m.mode = Off.mode /\ m.build = b /\ m.open = Off.open
      /\ m.pending = Off.pending
  BY OffType DEF Members
<1>3. past' \in SUBSET Caches /\ (ok /\ pastBlob => c \in past')
  BY DEF InitRuntime, TypeInv
<1>4. blob.data \in Seq(Cells) /\ blob.count \in Nat /\ blob.end \in Nat
  BY DEF TypeInv, Images
<1> HIDE DEF m
<1>5. CASE ok
  <2>1. blob.build = b /\ blob.end <= Len(blob.data) /\ Populates(blob.data, blob.count)
    BY <1>5 DEF HeaderValid, BlobHeader
  <2>2. i \in Entries
    BY <1>4, <2>1, IndexType, EntryTypes
  <2> HIDE DEF i
  <2>3. /\ y \in Members /\ y.pc = "run" /\ y.mode = "Runtime" /\ y.build = b /\ y.open = "no"
        /\ ~y.pending /\ y.totalShaders = blob.count /\ y.shaderDataEnd = blob.end
        /\ y.alloc = blob.data /\ y.entry = i
    BY <2>2, SeededFields
  <2> HIDE DEF y, ok
  <2>5. mem' \in [Caches -> Members] /\ mem'[c] = y /\ Others(c)
    BY <1>1, <1>5, <2>3, SetMember DEF TypeInv, Others
  <2>6. TypeInv'
    BY <1>3, <2>5, BoundsAssumption DEF InitRuntime, TypeInv
  <2> QED
    BY <1>1, <1>3, <1>5, <2>1, <2>3, <2>5, <2>6 DEF i
<1>6. CASE ~ok
  <2> HIDE DEF ok, y, i
  <2> DEFINE x == Reset(m)
  <2>1. /\ x \in Members
        /\ x.alloc = <<>> /\ x.entry = NoEntries /\ x.totalShaders = 0 /\ x.shaderDataEnd = 0
        /\ x.pc = "run" /\ x.mode = m.mode /\ x.build = m.build /\ x.open = m.open
        /\ x.pending = m.pending
    BY <1>2, ResetFields
  <2> HIDE DEF x
  <2>2. mem' \in [Caches -> Members] /\ mem'[c] = x /\ Others(c)
    BY <1>1, <1>6, <2>1, SetMember DEF TypeInv, Others, x
  <2>3. TypeInv'
    BY <1>3, <2>2, BoundsAssumption DEF InitRuntime, TypeInv
  <2> QED
    BY <1>1, <1>2, <2>1, <2>2, <2>3, OffFields DEF NoShaders
<1> QED
  BY <1>5, <1>6

(* Seeded from a blob behind whose end it read, a cache is lost or suspect. *)
LEMMA InitPastEffect ==
  ASSUME TypeInv, NEW c \in Caches, NEW b \in Builds, InitPast(c, b)
  PROVE  /\ TypeInv' /\ Others(c) /\ ~onDisk /\ file' = file /\ mem[c].pc = "off"
         /\ \/ mem' = mem /\ past' = past
            \/ /\ mem'[c].pc = "run" /\ mem'[c].mode = "Runtime" /\ mem'[c].build = b
               /\ mem'[c].open = "no" /\ ~mem'[c].pending /\ past' = past \cup {c}
               /\ mem'[c].totalShaders = blob.count /\ mem'[c].shaderDataEnd = blob.end
               /\ mem'[c].alloc = blob.data
<1>1. mem[c].pc = "off" /\ ~onDisk /\ file' = file
  BY DEF InitPast
<1>2. CASE UNCHANGED <<mem, past>>
  <2>1. TypeInv'
    BY <1>2, BoundsAssumption DEF InitPast, TypeInv
  <2> QED
    BY <1>1, <1>2, <2>1 DEF Others
<1>3. CASE past' = past \cup {c} /\ \E e \in Guesses(blob.data, blob.count) : Set(c, Seeded(b, e))
  <2>1. PICK e \in Entries : Set(c, Seeded(b, e))
    BY <1>3, EntryTypes DEF Guesses
  <2> DEFINE y == Seeded(b, e)
  <2>2. /\ y \in Members /\ y.pc = "run" /\ y.mode = "Runtime" /\ y.build = b /\ y.open = "no"
        /\ ~y.pending /\ y.totalShaders = blob.count /\ y.shaderDataEnd = blob.end
        /\ y.alloc = blob.data
    BY SeededFields
  <2> HIDE DEF y
  <2>3. mem' \in [Caches -> Members] /\ mem'[c] = y /\ Others(c)
    BY <2>1, <2>2, SetMember DEF TypeInv, Others, y
  <2>4. TypeInv'
    BY <1>3, <2>3, BoundsAssumption DEF InitPast, TypeInv
  <2> QED
    BY <1>1, <1>3, <2>2, <2>3, <2>4
<1> QED
  BY <1>2, <1>3 DEF InitPast

LEMMA DestroyEffect ==
  ASSUME TypeInv, NEW c \in Caches, PlaceInv(c), Destroy(c)
  PROVE  /\ TypeInv' /\ Others(c) /\ mem[c].pc = "run" /\ mem'[c] = Off /\ mem[c].build \in Builds
         /\ file'.exists = file.exists /\ file'.data = file.data
         /\ ~mem[c].pending => file' = file
         /\ mem[c].pending => ~file'.short /\ file'.build = mem[c].build /\ file'.count = 0 /\ file'.end = 0
<1>1. mem[c].pc = "run" /\ Set(c, Off)
  BY DEF Destroy
<1>2. mem[c].build \in Builds
  BY <1>1 DEF PlaceInv
<1>3. mem' \in [Caches -> Members] /\ mem'[c] = Off /\ Others(c)
  BY <1>1, OffType, SetMember DEF TypeInv, Others
<1> DEFINE w == WithHeader(file, mem[c].build)
<1>4. /\ w \in Images /\ w.exists = file.exists /\ w.data = file.data
      /\ ~w.short /\ w.build = mem[c].build /\ w.count = 0 /\ w.end = 0
  BY <1>2, HeaderType DEF TypeInv, WithHeader, Images
<1>5. file' = IF mem[c].pending THEN w ELSE file
  BY DEF Destroy
<1> HIDE DEF w
<1>6. TypeInv'
  BY <1>3, <1>4, <1>5 DEF Destroy, TypeInv
<1> QED
  BY <1>1, <1>2, <1>3, <1>4, <1>5, <1>6

LEMMA CrashEffect ==
  ASSUME TypeInv, NEW c \in Caches, Crash(c)
  PROVE  /\ TypeInv' /\ Others(c) /\ mem[c].pc # "off" /\ mem'[c] = Off /\ file' = file
         /\ ~disturbed' => ~disturbed /\ ~mem[c].pending /\ mem[c].pc \in {"run", "readHeader", "readData"}
<1>1. mem[c].pc # "off" /\ Set(c, Off) /\ file' = file /\ Fault
  BY DEF Crash
<1>2. mem' \in [Caches -> Members] /\ mem'[c] = Off /\ Others(c)
  BY <1>1, OffType, SetMember DEF TypeInv, Others
<1>3. disturbed' = (disturbed \/ mem[c].pending \/ mem[c].pc \notin {"run", "readHeader", "readData"})
  BY DEF Crash
<1>4. TypeInv'
  BY <1>1, <1>2, <1>3, BoundsAssumption DEF Crash, TypeInv, Fault
<1> QED
  BY <1>1, <1>2, <1>3, <1>4

-----------------------------------------------------------------------------
(* TypeInv and PlaceInv *)

LEMMA PlaceOthers ==
  ASSUME BaseInv, NEW c \in Caches, Others(c), TypeInv', PlaceInv(c)',
         file.exists => file'.exists, onDisk' = onDisk
  PROVE  BaseInv'
<1>1. ASSUME NEW e \in Caches, e # c  PROVE PlaceInv(e)'
  <2>1. mem'[e] = mem[e] /\ PlaceInv(e)
    BY <1>1 DEF Others, BaseInv
  <2> QED
    BY <2>1 DEF PlaceInv
<1>2. \A e \in Caches : PlaceInv(e)'
  BY <1>1
<1> QED
  BY <1>2 DEF BaseInv

LEMMA BaseInit == Init => BaseInv
<1> SUFFICES ASSUME Init  PROVE BaseInv
  OBVIOUS
<1>1. \A c \in Caches : mem[c] = Off
  BY DEF Init
<1>2. \A c \in Caches : PlaceInv(c)
  BY <1>1, OffFields DEF PlaceInv, Writing
<1> QED
  BY <1>2, TypeInit DEF BaseInv

LEMMA BaseStart ==
  ASSUME BaseInv, NEW c \in Caches, NEW b \in Builds,
         \/ \E m \in DiskModes : InitOnDisk(c, m, b) \/ InitOpenFails(c, m, b)
         \/ \E s \in BOOLEAN : InitRuntime(c, b, s)
         \/ InitPast(c, b)
  PROVE  BaseInv'
<1>1. TypeInv /\ PlaceInv(c)
  BY DEF BaseInv
<1>2. ASSUME NEW m \in DiskModes, InitOnDisk(c, m, b)  PROVE BaseInv'
  <2>1. /\ TypeInv' /\ Others(c) /\ onDisk /\ mem'[c].mode = m /\ mem'[c].build = b
        /\ mem'[c].pc \in {"readHeader", "resetFile"}
        /\ mem'[c].open \in {"r", "rw"} /\ ~mem'[c].pending /\ file'.exists
    BY <1>1, <1>2, InitOnDiskEffect
  <2>2. onDisk' = onDisk /\ m # "Runtime"
    BY <1>2, DiskModesAssumption DEF InitOnDisk
  <2>3. PlaceInv(c)'
    BY <2>1, <2>2 DEF PlaceInv, Writing
  <2> QED
    BY <2>1, <2>2, <2>3, PlaceOthers
<1>3. ASSUME NEW m \in DiskModes, InitOpenFails(c, m, b)  PROVE BaseInv'
  <2>1. /\ TypeInv' /\ Others(c) /\ onDisk /\ mem'[c].mode = m /\ mem'[c].build = b
        /\ mem'[c].pc = "run" /\ mem'[c].open = "no" /\ ~mem'[c].pending
    BY <1>1, <1>3, InitOpenFailsEffect
  <2>2. onDisk' = onDisk /\ m # "Runtime" /\ file' = file
    BY <1>3, DiskModesAssumption DEF InitOpenFails
  <2>3. PlaceInv(c)'
    BY <2>1, <2>2 DEF PlaceInv, Writing
  <2> QED
    BY <2>1, <2>2, <2>3, PlaceOthers
<1>4. ASSUME NEW s \in BOOLEAN, InitRuntime(c, b, s)  PROVE BaseInv'
  <2>1. /\ TypeInv' /\ Others(c) /\ ~onDisk /\ mem'[c].mode = "Runtime" /\ mem'[c].build = b
        /\ mem'[c].pc = "run" /\ mem'[c].open = "no" /\ ~mem'[c].pending /\ file' = file
    BY <1>1, <1>4, InitRuntimeEffect
  <2>2. onDisk' = onDisk
    BY <1>4 DEF InitRuntime
  <2>3. PlaceInv(c)'
    BY <2>1, <2>2 DEF PlaceInv, Writing
  <2> QED
    BY <2>1, <2>2, <2>3, PlaceOthers
<1>5. CASE InitPast(c, b)
  <2>1. /\ TypeInv' /\ Others(c) /\ ~onDisk /\ file' = file
        /\ \/ mem' = mem
           \/ /\ mem'[c].mode = "Runtime" /\ mem'[c].build = b
              /\ mem'[c].pc = "run" /\ mem'[c].open = "no" /\ ~mem'[c].pending
    BY <1>1, <1>5, InitPastEffect
  <2>2. onDisk' = onDisk
    BY <1>5 DEF InitPast
  <2>3. PlaceInv(c)'
    BY <1>1, <2>1, <2>2 DEF PlaceInv, Writing
  <2> QED
    BY <2>1, <2>2, <2>3, PlaceOthers
<1> QED
  BY <1>2, <1>3, <1>4, <1>5

LEMMA BaseLoad ==
  ASSUME BaseInv, NEW c \in Caches, ReadHeader(c) \/ ReadData(c) \/ ReadPast(c) \/ ReadDataFails(c) \/ ResetFile(c)
  PROVE  BaseInv'
<1>1. TypeInv /\ PlaceInv(c)
  BY DEF BaseInv
<1>2. CASE ReadHeader(c)
  <2>1. /\ TypeInv' /\ Others(c) /\ SameCache(c) /\ mem[c].pc = "readHeader"
        /\ mem'[c].open = mem[c].open /\ mem'[c].pending = mem[c].pending
        /\ mem'[c].pc \in {"run", "readData"}
    BY <1>1, <1>2, ReadHeaderEffect
  <2>2. onDisk' = onDisk /\ file' = file
    BY <1>2 DEF ReadHeader
  <2>3. PlaceInv(c)'
    BY <1>1, <2>1, <2>2 DEF PlaceInv, Writing, SameCache
  <2> QED
    BY <2>1, <2>2, <2>3, PlaceOthers
<1>3. CASE ReadData(c)
  <2>1. /\ TypeInv' /\ Others(c) /\ SameCache(c) /\ mem[c].pc = "readData"
        /\ mem'[c].open \in {mem[c].open, "no"} /\ mem'[c].pending = mem[c].pending
        /\ mem'[c].pc = "run"
    BY <1>1, <1>3, ReadDataEffect
  <2>2. onDisk' = onDisk /\ file' = file
    BY <1>3 DEF ReadData
  <2>3. PlaceInv(c)'
    BY <1>1, <2>1, <2>2 DEF PlaceInv, Writing, SameCache
  <2> QED
    BY <2>1, <2>2, <2>3, PlaceOthers
<1>4. CASE ReadDataFails(c)
  <2>1. /\ TypeInv' /\ Others(c) /\ SameCache(c) /\ mem[c].pc = "readData"
        /\ mem'[c].open = mem[c].open /\ mem'[c].pending = mem[c].pending
        /\ mem'[c].pc = "resetFile"
    BY <1>1, <1>4, ReadDataFailsEffect
  <2>2. onDisk' = onDisk /\ file' = file
    BY <1>4 DEF ReadDataFails
  <2>3. PlaceInv(c)'
    BY <1>1, <2>1, <2>2 DEF PlaceInv, Writing, SameCache
  <2> QED
    BY <2>1, <2>2, <2>3, PlaceOthers
<1>5. CASE ResetFile(c)
  <2>1. /\ TypeInv' /\ Others(c) /\ SameCache(c) /\ mem[c].pc = "resetFile"
        /\ mem'[c].open = "rw" /\ mem'[c].pending /\ file'.exists
        /\ mem'[c].pc = "run"
    BY <1>1, <1>5, ResetFileEffect, ImageTypes
  <2>2. onDisk' = onDisk
    BY <1>5 DEF ResetFile
  <2>3. PlaceInv(c)'
    BY <1>1, <2>1, <2>2 DEF PlaceInv, Writing, SameCache
  <2> QED
    BY <2>1, <2>2, <2>3, PlaceOthers
<1>6. CASE ReadPast(c)
  <2>1. /\ TypeInv' /\ Others(c) /\ file' = file /\ mem[c].pc = "readData"
        /\ \/ mem'[c] = Off
           \/ /\ SameCache(c) /\ mem'[c].pc = "run" /\ mem'[c].pending = mem[c].pending
              /\ mem'[c].open \in {mem[c].open, "no"}
    BY <1>1, <1>6, ReadPastEffect
  <2>2. onDisk' = onDisk
    BY <1>6 DEF ReadPast
  <2>3. PlaceInv(c)'
    BY <1>1, <2>1, <2>2, OffFields DEF PlaceInv, Writing, SameCache
  <2> QED
    BY <2>1, <2>2, <2>3, PlaceOthers
<1> QED
  BY <1>2, <1>3, <1>4, <1>5, <1>6

LEMMA BaseWrite ==
  ASSUME BaseInv, NEW c \in Caches,
         WriteCount(c) \/ WriteData(c) \/ WriteEnd(c) \/ WriteFails(c) \/ WriteLost(c)
  PROVE  BaseInv'
<1>1. TypeInv /\ PlaceInv(c)
  BY DEF BaseInv
<1>2. CASE WriteCount(c)
  <2>1. /\ TypeInv' /\ Others(c) /\ SameCache(c) /\ mem[c].pc = "writeCount" /\ mem[c].open = "rw"
        /\ mem'[c].open = mem[c].open /\ mem'[c].pending = mem[c].pending
        /\ mem'[c].pc = "writeData" /\ mem'[c].key = mem[c].key /\ file'.exists = file.exists
    BY <1>1, <1>2, WriteCountEffect
  <2>2. onDisk' = onDisk
    BY <1>2 DEF WriteCount
  <2>3. PlaceInv(c)'
    BY <1>1, <2>1, <2>2 DEF PlaceInv, Writing, SameCache
  <2> QED
    BY <2>1, <2>2, <2>3, PlaceOthers
<1>3. CASE WriteData(c)
  <2>1. /\ TypeInv' /\ Others(c) /\ SameCache(c) /\ mem[c].pc = "writeData"
        /\ mem'[c].open = mem[c].open /\ mem'[c].pending = mem[c].pending
        /\ mem'[c].pc = "writeEnd" /\ mem'[c].key = mem[c].key /\ file'.exists = file.exists
    BY <1>1, <1>3, WriteDataEffect
  <2>2. onDisk' = onDisk
    BY <1>3 DEF WriteData
  <2>3. PlaceInv(c)'
    BY <1>1, <2>1, <2>2 DEF PlaceInv, Writing, SameCache
  <2> QED
    BY <2>1, <2>2, <2>3, PlaceOthers
<1>4. CASE WriteEnd(c)
  <2>1. /\ TypeInv' /\ Others(c) /\ SameCache(c) /\ mem[c].pc = "writeEnd"
        /\ mem'[c].open = mem[c].open /\ mem'[c].pending = mem[c].pending
        /\ mem'[c].pc = "run" /\ file'.exists = file.exists
    BY <1>1, <1>4, WriteEndEffect
  <2>2. onDisk' = onDisk
    BY <1>4 DEF WriteEnd
  <2>3. PlaceInv(c)'
    BY <1>1, <2>1, <2>2 DEF PlaceInv, Writing, SameCache
  <2> QED
    BY <2>1, <2>2, <2>3, PlaceOthers
<1>5. CASE WriteFails(c)
  <2>1. /\ TypeInv' /\ Others(c) /\ SameCache(c) /\ mem[c].pc \in Writing
        /\ mem'[c].open = mem[c].open /\ mem'[c].pending = mem[c].pending
        /\ mem'[c].pc = "run" /\ file'.exists = file.exists
    BY <1>1, <1>5, WriteFailsEffect
  <2>2. onDisk' = onDisk
    BY <1>5 DEF WriteFails
  <2>3. PlaceInv(c)'
    BY <1>1, <2>1, <2>2 DEF PlaceInv, Writing, SameCache
  <2> QED
    BY <2>1, <2>2, <2>3, PlaceOthers
<1>6. CASE WriteLost(c)
  <2>1. /\ TypeInv' /\ Others(c) /\ SameCache(c) /\ mem[c].pc \in Writing /\ mem[c].open = "rw"
        /\ mem'[c].open = mem[c].open /\ mem'[c].pending = mem[c].pending /\ file' = file
        /\ \/ mem'[c].pc \in {"writeData", "writeEnd"} /\ mem'[c].key = mem[c].key
           \/ mem'[c].pc = "run"
    BY <1>1, <1>6, WriteLostEffect
  <2>2. onDisk' = onDisk
    BY <1>6 DEF WriteLost
  <2>3. PlaceInv(c)'
    BY <1>1, <2>1, <2>2 DEF PlaceInv, Writing, SameCache
  <2> QED
    BY <2>1, <2>2, <2>3, PlaceOthers
<1> QED
  BY <1>2, <1>3, <1>4, <1>5, <1>6

LEMMA BaseUse ==
  ASSUME BaseInv, NEW c \in Caches,
         \/ \E k \in Keys : InsertShader(c, k) \/ ExternalHit(c, k) \/ ResetShader(c, k)
         \/ \E d \in Caches : Merge(c, d)
         \/ Serialize(c)
  PROVE  BaseInv'
<1>1. TypeInv /\ PlaceInv(c)
  BY DEF BaseInv
<1>2. ASSUME NEW k \in Keys, InsertShader(c, k)  PROVE BaseInv'
  <2>1. /\ TypeInv' /\ Others(c) /\ SameCache(c) /\ mem[c].pc = "run"
        /\ mem'[c].open = mem[c].open /\ file'.exists = file.exists
        /\ mem[c].open = "no" => mem'[c].pc = "run" /\ mem'[c].pending = mem[c].pending
        /\ mem[c].open # "no" => mem'[c].pc = "writeCount" /\ mem'[c].key = k /\ ~mem'[c].pending
    BY <1>1, <1>2, InsertShaderEffect
  <2>2. onDisk' = onDisk
    BY <1>2 DEF InsertShader
  <2>3. PlaceInv(c)'
    BY <1>1, <2>1, <2>2 DEF PlaceInv, Writing, SameCache
  <2> QED
    BY <2>1, <2>2, <2>3, PlaceOthers
<1>3. ASSUME NEW k \in Keys, ExternalHit(c, k)  PROVE BaseInv'
  <2>1. /\ TypeInv' /\ Others(c) /\ SameCache(c) /\ mem[c].pc = "run" /\ mem'[c].pc = "run"
        /\ mem'[c].open = mem[c].open /\ mem'[c].pending = mem[c].pending /\ file' = file
    BY <1>1, <1>3, ExternalHitEffect
  <2>2. onDisk' = onDisk
    BY <1>3 DEF ExternalHit
  <2>3. PlaceInv(c)'
    BY <1>1, <2>1, <2>2 DEF PlaceInv, Writing, SameCache
  <2> QED
    BY <2>1, <2>2, <2>3, PlaceOthers
<1>4. ASSUME NEW k \in Keys, ResetShader(c, k)  PROVE BaseInv'
  <2>1. /\ TypeInv' /\ Others(c) /\ SameCache(c) /\ mem[c].pc = "run" /\ mem'[c].pc = "run"
        /\ mem'[c].open = mem[c].open /\ mem'[c].pending = mem[c].pending /\ file' = file
    BY <1>1, <1>4, ResetShaderEffect
  <2>2. onDisk' = onDisk
    BY <1>4 DEF ResetShader
  <2>3. PlaceInv(c)'
    BY <1>1, <2>1, <2>2 DEF PlaceInv, Writing, SameCache
  <2> QED
    BY <2>1, <2>2, <2>3, PlaceOthers
<1>5. ASSUME NEW d \in Caches, Merge(c, d)  PROVE BaseInv'
  <2>1. /\ TypeInv' /\ Others(c) /\ SameCache(c) /\ mem[c].pc = "run" /\ mem'[c].pc = "run"
        /\ mem'[c].open = mem[c].open /\ mem'[c].pending = mem[c].pending /\ file' = file
    BY <1>1, <1>5, MergeEffect
  <2>2. onDisk' = onDisk
    BY <1>5 DEF Merge
  <2>3. PlaceInv(c)'
    BY <1>1, <2>1, <2>2 DEF PlaceInv, Writing, SameCache
  <2> QED
    BY <2>1, <2>2, <2>3, PlaceOthers
<1>6. CASE Serialize(c)
  <2>1. TypeInv' /\ mem' = mem /\ file' = file
    BY <1>1, <1>6, SerializeEffect
  <2>2. onDisk' = onDisk
    BY <1>6 DEF Serialize
  <2> QED
    BY <2>1, <2>2 DEF BaseInv, PlaceInv
<1> QED
  BY <1>2, <1>3, <1>4, <1>5, <1>6

LEMMA BaseEnd ==
  ASSUME BaseInv, NEW c \in Caches, Destroy(c) \/ Crash(c)
  PROVE  BaseInv'
<1>1. TypeInv /\ PlaceInv(c)
  BY DEF BaseInv
<1>2. /\ TypeInv' /\ Others(c) /\ mem'[c] = Off /\ file'.exists = file.exists
  BY <1>1, DestroyEffect, CrashEffect
<1>3. onDisk' = onDisk
  BY DEF Destroy, Crash
<1>4. PlaceInv(c)'
  BY <1>2, OffFields DEF PlaceInv, Writing
<1> QED
  BY <1>2, <1>3, <1>4, PlaceOthers

LEMMA BaseNext ==
  ASSUME BaseInv, [Next]_vars
  PROVE  BaseInv'
<1>1. CASE Next
  <2>1. PICK c \in Caches : Step(c)
    BY <1>1 DEF Next
  <2> QED
    BY <2>1, BaseStart, BaseLoad, BaseWrite, BaseUse, BaseEnd DEF Step
<1>2. CASE UNCHANGED vars
  BY <1>2 DEF vars, BaseInv, TypeInv, PlaceInv
<1> QED
  BY <1>1, <1>2

-----------------------------------------------------------------------------
(* OwnInv: shaders stay with their build *)

LEMMA OwnInit == Init => OwnInv
<1> SUFFICES ASSUME Init  PROVE OwnInv
  OBVIOUS
<1>1. \A c \in Caches : mem[c].pc = "off"
  BY OffFields DEF Init
<1>2. blob.data = <<>> /\ file.data = <<>> /\ file.build = NoBuild
  BY DEF Init, NoImage
<1>3. \A b : OwnCells(<<>>, b)
  BY DEF OwnCells
<1> QED
  BY <1>1, <1>2, <1>3 DEF OwnInv, OwnFile, Alive, Trusts, Writing

(* What is left to show of a step that sets the members of c. *)
LEMMA OwnOthers ==
  ASSUME BaseInv, OwnInv, NEW c \in Caches, Others(c), OwnFile', blob' = blob, pastBlob' = pastBlob,
         \A e \in Caches : e # c => (e \in past' <=> e \in past),
         mem'[c].pc # "off" => /\ \A d \in Alive : d # c => mem[d].build = mem'[c].build
                               /\ c \notin past' => OwnShaders(mem'[c])
  PROVE  OwnInv'
<1>1. \A e \in Caches : e # c => mem'[e] = mem[e]
  BY DEF Others
<1>2. ASSUME NEW e \in Caches, mem'[e].pc # "off", NEW f \in Caches, mem'[f].pc # "off"
      PROVE  mem'[e].build = mem'[f].build
  BY <1>1, <1>2 DEF OwnInv, Alive
<1>3. ASSUME NEW e \in Caches, mem'[e].pc # "off", e \notin past'  PROVE OwnShaders(mem'[e])
  BY <1>1, <1>3 DEF OwnInv, Alive
<1>4. \A e, f \in Alive' : mem'[e].build = mem'[f].build
  BY <1>2 DEF Alive
<1>5. \A e \in Alive' \ past' : OwnShaders(mem'[e])
  BY <1>3 DEF Alive
<1>6. pastBlob' \/ OwnCells(blob'.data, blob'.build)
  BY DEF OwnInv
<1> QED
  BY <1>4, <1>5, <1>6 DEF OwnInv, OwnShaders

(* A file that keeps its data. *)
LEMMA OwnSameFile ==
  ASSUME OwnInv, NEW c \in Caches, Others(c), SameData,
         Trusts(c)' => OwnCells(file.data, mem'[c].build) /\ file.build \in {NoBuild, mem'[c].build}
  PROVE  OwnFile'
<1>1. file'.build \in Builds => OwnCells(file'.data, file'.build)
  BY DEF OwnInv, OwnFile, SameData
<1>2. file'.short => file'.data = <<>> /\ file'.build = NoBuild
  BY DEF OwnInv, OwnFile, SameData
<1>3. ASSUME NEW e \in Caches, Trusts(e)'
      PROVE  OwnCells(file'.data, mem'[e].build) /\ file'.build \in {NoBuild, mem'[e].build}
  <2>1. CASE e = c
    BY <1>3, <2>1 DEF SameData
  <2>2. CASE e # c
    <3>1. mem'[e] = mem[e]
      BY <2>2 DEF Others
    <3>2. Trusts(e)
      BY <1>3, <3>1 DEF Trusts
    <3> QED
      BY <3>1, <3>2 DEF OwnInv, OwnFile, SameData
  <2> QED
    BY <2>1, <2>2
<1> QED
  BY <1>1, <1>2, <1>3 DEF OwnFile, OwnCells

(* A file that gets cells of the one build there is. *)
LEMMA OwnNewFile ==
  ASSUME BaseInv, OwnInv, NEW c \in Caches, Others(c), SameCache(c), mem[c].pc # "off", mem'[c].pc # "off",
         OwnCells(file'.data, mem[c].build), file'.build \in {NoBuild, mem[c].build},
         file'.short => file'.data = <<>> /\ file'.build = NoBuild
  PROVE  OwnFile'
<1>1. file'.build \in Builds => OwnCells(file'.data, file'.build)
  BY NoBuildAssumption
<1>2. ASSUME NEW e \in Caches, Trusts(e)'
      PROVE  OwnCells(file'.data, mem'[e].build) /\ file'.build \in {NoBuild, mem'[e].build}
  <2>1. mem'[e].pc # "off"
    BY <1>2 DEF Trusts, Writing
  <2>2. mem'[e].build = mem[c].build
    BY <2>1 DEF Others, SameCache, OwnInv, Alive
  <2> QED
    BY <2>2
<1> QED
  BY <1>1, <1>2 DEF OwnFile, OwnCells

LEMMA OwnNone ==
  ASSUME NEW m, m.alloc = <<>>, m.entry = NoEntries
  PROVE  OwnShaders(m)
BY NoBuildAssumption DEF OwnShaders, OwnCells, NoEntries

LEMMA OwnStart ==
  ASSUME BaseInv, OwnInv, ~MixedBuilds, NEW c \in Caches, NEW b \in Builds,
         \/ \E m \in DiskModes : InitOnDisk(c, m, b) \/ InitOpenFails(c, m, b)
         \/ \E s \in BOOLEAN : InitRuntime(c, b, s)
         \/ InitPast(c, b)
  PROVE  OwnInv'
<1>1. TypeInv
  BY DEF BaseInv
<1>2. \A d \in Alive : mem[d].build = b
  BY DEF InitOnDisk, InitOpenFails, InitRuntime, InitPast
<1>0. pastBlob' = pastBlob /\ blob' = blob /\ \A e \in Caches : e # c => (e \in past' <=> e \in past)
  BY DEF InitOnDisk, InitOpenFails, InitRuntime, InitPast
<1>3. ASSUME NEW m \in DiskModes, InitOnDisk(c, m, b)  PROVE OwnInv'
  <2>1. /\ Others(c) /\ NoShaders(c) /\ mem'[c].build = b /\ mem'[c].pc \in {"readHeader", "resetFile"}
        /\ SameData
    BY <1>1, <1>3, InitOnDiskEffect
  <2>2. OwnFile'
    <3>1. ~Trusts(c)'
      BY <2>1 DEF Trusts, Writing
    <3> QED
      BY <2>1, <3>1, OwnSameFile
  <2>3. OwnShaders(mem'[c]) /\ blob' = blob
    BY <1>3, <2>1, OwnNone DEF NoShaders, InitOnDisk
  <2> QED
    BY <1>0, <1>2, <2>1, <2>2, <2>3, OwnOthers
<1>4. ASSUME NEW m \in DiskModes, InitOpenFails(c, m, b)  PROVE OwnInv'
  <2>1. /\ Others(c) /\ NoShaders(c) /\ mem'[c].build = b /\ mem'[c].pc = "run" /\ mem'[c].open = "no"
    BY <1>1, <1>4, InitOpenFailsEffect
  <2>2. OwnFile'
    <3>1. ~Trusts(c)' /\ SameData
      BY <1>4, <2>1 DEF Trusts, Writing, InitOpenFails, SameData
    <3> QED
      BY <2>1, <3>1, OwnSameFile
  <2>3. OwnShaders(mem'[c]) /\ blob' = blob
    BY <1>4, <2>1, OwnNone DEF NoShaders, InitOpenFails
  <2> QED
    BY <1>0, <1>2, <2>1, <2>2, <2>3, OwnOthers
<1>5. ASSUME NEW s \in BOOLEAN, InitRuntime(c, b, s)  PROVE OwnInv'
  <2>1. /\ Others(c) /\ mem'[c].build = b /\ mem'[c].pc = "run" /\ mem'[c].open = "no" /\ file' = file
        /\ \/ NoShaders(c)
           \/ /\ blob.build = b /\ Populates(blob.data, blob.count)
              /\ mem'[c].alloc = blob.data /\ mem'[c].entry = IndexMap(blob.data, blob.count)
              /\ pastBlob => c \in past'
    BY <1>1, <1>5, InitRuntimeEffect
  <2>2. OwnFile'
    <3>1. ~Trusts(c)' /\ SameData
      BY <2>1 DEF Trusts, Writing, SameData
    <3> QED
      BY <2>1, <3>1, OwnSameFile
  <2>3. c \notin past' => OwnShaders(mem'[c])
    <3>1. CASE NoShaders(c)
      BY <3>1, OwnNone DEF NoShaders
    <3>2. CASE /\ blob.build = b /\ Populates(blob.data, blob.count)
               /\ mem'[c].alloc = blob.data /\ mem'[c].entry = IndexMap(blob.data, blob.count)
               /\ ~pastBlob
      <4>1. OwnCells(blob.data, b) /\ blob.data \in Seq(Cells) /\ blob.count \in Nat
        BY <1>1, <3>2 DEF OwnInv, TypeInv, Images
      <4>2. ASSUME NEW k \in Keys, mem'[c].entry[k] \in Builds  PROVE mem'[c].entry[k] = b
        BY <3>2, <4>1, <4>2, IndexOwn, NoBuildAssumption DEF OwnCells
      <4> QED
        BY <2>1, <3>2, <4>1, <4>2 DEF OwnShaders
    <3> QED
      BY <2>1, <3>1, <3>2
  <2>4. blob' = blob
    BY <1>5 DEF InitRuntime
  <2> QED
    BY <1>0, <1>2, <2>1, <2>2, <2>3, <2>4, OwnOthers
<1>6. CASE InitPast(c, b)
  <2>1. /\ Others(c) /\ file' = file
        /\ \/ mem' = mem /\ past' = past
           \/ /\ mem'[c].build = b /\ mem'[c].pc = "run" /\ mem'[c].open = "no" /\ c \in past'
    BY <1>1, <1>6, InitPastEffect
  <2>2. mem[c].pc = "off" /\ SameData
    BY <1>6, <2>1 DEF InitPast, SameData
  <2>3. OwnFile'
    <3>1. ~Trusts(c)'
      BY <2>1, <2>2 DEF Trusts, Writing
    <3> QED
      BY <2>1, <2>2, <3>1, OwnSameFile
  <2> QED
    BY <1>0, <1>2, <2>1, <2>2, <2>3, OwnOthers
<1> QED
  BY <1>3, <1>4, <1>5, <1>6

LEMMA OwnLoad ==
  ASSUME BaseInv, OwnInv, NEW c \in Caches, ReadHeader(c) \/ ReadData(c) \/ ReadPast(c) \/ ReadDataFails(c) \/ ResetFile(c)
  PROVE  OwnInv'
<1>1. TypeInv /\ PlaceInv(c)
  BY DEF BaseInv
<1>0. pastBlob' = pastBlob /\ (past' = past \/ ReadPast(c))
  BY DEF ReadHeader, ReadData, ReadPast, ReadDataFails, ResetFile
<1>2. mem[c].pc # "off" /\ blob' = blob
  BY DEF ReadHeader, ReadData, ReadPast, ReadDataFails, ResetFile
<1>3. mem[c].build \in Builds /\ (c \notin past => OwnShaders(mem[c])) /\ \A d \in Alive : mem[d].build = mem[c].build
  BY <1>1, <1>2 DEF PlaceInv, OwnInv, Alive
<1>4. CASE ReadHeader(c) /\ past' = past
  <2>1. /\ Others(c) /\ SameCache(c)
        /\ \/ file.short /\ mem'[c].pc = "run" /\ NoShaders(c)
           \/ /\ mem'[c].pc = "readData" /\ SameShaders(c)
              /\ mem'[c].hdr = [build |-> file.build, count |-> file.count, end |-> file.end]
    BY <1>1, <1>4, ReadHeaderEffect
  <2>2. SameData
    BY <1>4 DEF ReadHeader, SameData
  <2>3. OwnFile'
    <3>1. ASSUME Trusts(c)'
          PROVE  OwnCells(file.data, mem'[c].build) /\ file.build \in {NoBuild, mem'[c].build}
      <4>1. CASE file.short
        BY <4>1 DEF OwnInv, OwnFile, OwnCells
      <4>2. CASE mem'[c].pc = "readData" /\ mem'[c].hdr = [build |-> file.build, count |-> file.count, end |-> file.end]
        <5>1. file.build = mem[c].build
          BY <2>1, <3>1, <4>2 DEF Trusts, SameCache, Writing
        <5> QED
          BY <1>3, <2>1, <5>1 DEF OwnInv, OwnFile, SameCache
      <4> QED
        BY <2>1, <4>1, <4>2
    <3> QED
      BY <2>1, <2>2, <3>1, OwnSameFile
  <2>4. c \notin past => OwnShaders(mem'[c])
    BY <1>3, <2>1, OwnNone DEF OwnShaders, NoShaders, SameShaders, SameCache
  <2> QED
    BY <1>0, <1>4, <1>2, <1>3, <2>1, <2>3, <2>4, OwnOthers DEF SameCache
<1>5. CASE ReadData(c) /\ past' = past
  <2>1. /\ Others(c) /\ SameCache(c) /\ mem[c].pc = "readData" /\ Loads(mem[c], file.data)
        /\ mem'[c].entry = IndexMap(file.data, mem[c].hdr.count) /\ mem'[c].alloc = mem[c].alloc
    BY <1>1, <1>5, ReadDataEffect
  <2>2. mem[c].hdr.build = mem[c].build /\ Populates(file.data, mem[c].hdr.count)
    BY <2>1 DEF Loads, HeaderValid
  <2>3. OwnCells(file.data, mem[c].build) /\ file.build \in {NoBuild, mem[c].build}
    BY <2>1, <2>2 DEF Trusts, OwnInv, OwnFile
  <2>4. SameData
    BY <1>5 DEF ReadData, SameData
  <2>5. OwnFile'
    BY <2>1, <2>3, <2>4, OwnSameFile DEF SameCache
  <2>6. file.data \in Seq(Cells) /\ mem[c].hdr.count \in Nat
    BY <1>1 DEF TypeInv, Images, Members, Headers
  <2>7. ASSUME NEW k \in Keys, mem'[c].entry[k] \in Builds  PROVE mem'[c].entry[k] = mem[c].build
    BY <2>1, <2>2, <2>3, <2>6, <2>7, IndexOwn, NoBuildAssumption DEF OwnCells
  <2>8. c \notin past => OwnShaders(mem'[c])
    BY <1>3, <2>1, <2>7 DEF OwnShaders, SameCache
  <2> QED
    BY <1>0, <1>5, <1>2, <1>3, <2>1, <2>5, <2>8, OwnOthers DEF SameCache
<1>6. CASE ReadDataFails(c) /\ past' = past
  <2>1. Others(c) /\ SameCache(c) /\ SameShaders(c) /\ mem'[c].pc = "resetFile"
    BY <1>1, <1>6, ReadDataFailsEffect
  <2>2. SameData /\ ~Trusts(c)'
    BY <1>6, <2>1 DEF ReadDataFails, SameData, Trusts, Writing
  <2>3. OwnFile'
    BY <2>1, <2>2, OwnSameFile
  <2>4. c \notin past => OwnShaders(mem'[c])
    BY <1>3, <2>1 DEF OwnShaders, SameShaders, SameCache
  <2> QED
    BY <1>0, <1>6, <1>2, <1>3, <2>1, <2>3, <2>4, OwnOthers DEF SameCache
<1>7. CASE ResetFile(c) /\ past' = past
  <2>1. /\ Others(c) /\ SameCache(c) /\ NoShaders(c) /\ mem'[c].pc = "run"
        /\ file'.data = <<>> /\ file'.build = NoBuild
    BY <1>1, <1>7, ResetFileEffect, ImageTypes
  <2>2. OwnCells(file'.data, mem[c].build)
    BY <2>1 DEF OwnCells
  <2>3. OwnFile'
    BY <1>2, <2>1, <2>2, OwnNewFile
  <2>4. c \notin past => OwnShaders(mem'[c])
    BY <2>1, OwnNone DEF NoShaders
  <2> QED
    BY <1>0, <1>7, <1>2, <1>3, <2>1, <2>3, <2>4, OwnOthers DEF SameCache
<1>8. CASE ReadPast(c)
  <2>1. /\ Others(c) /\ mem[c].pc = "readData" /\ file' = file
        /\ HeaderValid(mem[c].hdr, mem[c].build, Len(file.data))
        /\ \/ mem'[c] = Off /\ past' = past
           \/ SameCache(c) /\ past' = past \cup {c}
    BY <1>1, <1>8, ReadPastEffect
  <2>2. OwnCells(file.data, mem[c].build) /\ file.build \in {NoBuild, mem[c].build}
    BY <2>1 DEF HeaderValid, Trusts, OwnInv, OwnFile
  <2>3. SameData /\ (mem'[c] = Off => ~Trusts(c)')
    BY <2>1, OffFields DEF SameData, Trusts, Writing
  <2>4. OwnFile'
    BY <2>1, <2>2, <2>3, OwnSameFile DEF SameCache
  <2>5. mem'[c].pc # "off" => c \in past' /\ mem'[c].build = mem[c].build
    BY <2>1, OffFields DEF SameCache
  <2> QED
    BY <1>0, <1>2, <1>3, <2>1, <2>4, <2>5, OwnOthers
<1> QED
  BY <1>0, <1>4, <1>5, <1>6, <1>7, <1>8

LEMMA OwnWrite ==
  ASSUME BaseInv, OwnInv, NEW c \in Caches,
         WriteCount(c) \/ WriteData(c) \/ WriteEnd(c) \/ WriteFails(c) \/ WriteLost(c)
  PROVE  OwnInv'
<1>1. TypeInv /\ PlaceInv(c)
  BY DEF BaseInv
<1>0. pastBlob' = pastBlob /\ past' = past
  BY DEF WriteCount, WriteData, WriteEnd, WriteFails, WriteLost
<1>2. mem[c].pc \in Writing /\ blob' = blob
  BY DEF WriteCount, WriteData, WriteEnd, WriteFails, WriteLost, Writing
<1>3. mem[c].pc # "off"
  BY <1>2 DEF Writing
<1>4. mem[c].build \in Builds /\ (c \notin past => OwnShaders(mem[c])) /\ \A d \in Alive : mem[d].build = mem[c].build
  BY <1>1, <1>3 DEF PlaceInv, OwnInv, Alive
<1>5. OwnCells(file.data, mem[c].build) /\ file.build \in {NoBuild, mem[c].build}
  <2>1. Trusts(c)
    BY <1>1, <1>2, <1>3 DEF Trusts, PlaceInv, Writing
  <2> QED
    BY <2>1 DEF OwnInv, OwnFile
<1>6. file.data \in Seq(Cells) /\ mem[c].shaderDataEnd \in Nat
  BY <1>1 DEF TypeInv, Images, Members
<1>7. ASSUME NEW s \in Seq(Cells), OwnCells(s, mem[c].build)
      PROVE  OwnCells(Overwrite(file.data, mem[c].shaderDataEnd, s), mem[c].build)
  BY <1>5, <1>6, <1>7, OverwriteFacts
<1>8. CASE WriteCount(c)
  <2>1. Others(c) /\ SameCache(c) /\ SameShaders(c) /\ SameData
    BY <1>1, <1>8, WriteCountEffect
  <2>2. OwnFile'
    BY <1>5, <2>1, OwnSameFile DEF SameCache
  <2>3. c \notin past => OwnShaders(mem'[c])
    BY <1>4, <2>1 DEF OwnShaders, SameShaders, SameCache
  <2> QED
    BY <1>0, <1>2, <1>4, <2>1, <2>2, <2>3, OwnOthers DEF SameCache
<1>9. CASE WriteData(c)
  <2>1. /\ Others(c) /\ SameCache(c) /\ mem[c].key \in Keys /\ mem'[c].pc = "writeEnd"
        /\ mem'[c].alloc = mem[c].alloc /\ mem'[c].entry = mem[c].entry
        /\ ~file'.short /\ file'.build = file.build
        /\ file'.data = Overwrite(file.data, mem[c].shaderDataEnd, Record(mem[c].build, mem[c].key))
    BY <1>1, <1>9, WriteDataEffect
  <2>2. OwnCells(file'.data, mem[c].build)
    BY <1>4, <1>7, <2>1, RecordFacts, OwnRecord
  <2>3. OwnFile'
    BY <1>3, <1>5, <2>1, <2>2, OwnNewFile
  <2>4. c \notin past => OwnShaders(mem'[c])
    BY <1>4, <2>1 DEF OwnShaders, SameCache
  <2> QED
    BY <1>0, <1>2, <1>4, <2>1, <2>3, <2>4, OwnOthers DEF SameCache
<1>10. CASE WriteEnd(c)
  <2>1. /\ Others(c) /\ SameCache(c) /\ SameShaders(c) /\ mem'[c].pc = "run"
        /\ ~file'.short /\ file'.build = file.build /\ file'.data = file.data
    BY <1>1, <1>10, WriteEndEffect
  <2>2. OwnFile'
    BY <1>3, <1>5, <2>1, OwnNewFile
  <2>3. c \notin past => OwnShaders(mem'[c])
    BY <1>4, <2>1 DEF OwnShaders, SameShaders, SameCache
  <2> QED
    BY <1>0, <1>2, <1>4, <2>1, <2>2, <2>3, OwnOthers DEF SameCache
<1>11. CASE WriteFails(c)
  <2>1. /\ Others(c) /\ SameCache(c) /\ mem'[c].pc = "run" /\ mem'[c].alloc = mem[c].alloc
        /\ mem'[c].entry = [mem[c].entry EXCEPT ![mem[c].key] = NoBuild]
        /\ \/ file' = file
           \/ \E s \in Seq(Cells) :
                /\ OwnCells(s, mem[c].build) /\ file'.data = Overwrite(file.data, mem[c].shaderDataEnd, s)
                /\ file'.exists = file.exists /\ ~file'.short /\ file'.build = file.build
    BY <1>1, <1>11, WriteFailsEffect
  <2>2. OwnFile'
    <3>1. CASE file' = file
      <4>1. SameData
        BY <3>1 DEF SameData
      <4> QED
        BY <1>5, <2>1, <4>1, OwnSameFile DEF SameCache
    <3>2. CASE file' # file
      <4>1. OwnCells(file'.data, mem[c].build) /\ ~file'.short /\ file'.build = file.build
        BY <1>7, <2>1, <3>2
      <4> QED
        BY <1>3, <1>5, <2>1, <4>1, OwnNewFile
    <3> QED
      BY <3>1, <3>2
  <2>3. c \notin past => OwnShaders(mem'[c])
    <3>1. mem[c].entry \in Entries
      BY <1>1 DEF TypeInv, Members
    <3> QED
      BY <1>4, <2>1, <3>1, NoBuildAssumption DEF OwnShaders, SameCache, Entries
  <2> QED
    BY <1>0, <1>2, <1>4, <2>1, <2>2, <2>3, OwnOthers DEF SameCache
<1>12. CASE WriteLost(c)
  <2>1. /\ Others(c) /\ SameCache(c) /\ file' = file
        /\ mem'[c].alloc = mem[c].alloc /\ mem'[c].entry = mem[c].entry
    BY <1>1, <1>12, WriteLostEffect
  <2>2. SameData
    BY <2>1 DEF SameData
  <2>3. OwnFile'
    BY <1>5, <2>1, <2>2, OwnSameFile DEF SameCache
  <2>4. c \notin past => OwnShaders(mem'[c])
    BY <1>4, <2>1 DEF OwnShaders, SameCache
  <2> QED
    BY <1>0, <1>2, <1>4, <2>1, <2>3, <2>4, OwnOthers DEF SameCache
<1> QED
  BY <1>8, <1>9, <1>10, <1>11, <1>12

LEMMA OwnAllocated ==
  ASSUME NEW m \in Members, m.build \in Builds, NEW k \in Keys, OwnShaders(m),
         NEW n, n.build = m.build, n.alloc = Allocated(m, k), n.entry = [m.entry EXCEPT ![k] = m.build]
  PROVE  OwnShaders(n)
<1>1. m.alloc \in Seq(Cells) /\ m.entry \in Entries
  BY DEF Members
<1>2. OwnCells(Allocated(m, k), m.build)
  BY <1>1, RecordFacts, OwnRecord, OwnConcat DEF Allocated, OwnShaders
<1>3. \A h \in Keys : n.entry[h] \in Builds => n.entry[h] = m.build
  BY <1>1 DEF OwnShaders, Entries
<1> QED
  BY <1>2, <1>3 DEF OwnShaders

LEMMA OwnUse ==
  ASSUME BaseInv, OwnInv, NEW c \in Caches,
         \/ \E k \in Keys : InsertShader(c, k) \/ ExternalHit(c, k) \/ ResetShader(c, k)
         \/ \E d \in Caches : Merge(c, d)
         \/ Serialize(c)
  PROVE  OwnInv'
<1>1. TypeInv /\ PlaceInv(c) /\ mem[c] \in Members
  BY DEF BaseInv, TypeInv
<1>2. mem[c].pc = "run"
  BY DEF InsertShader, ExternalHit, ResetShader, Merge, Serialize
<1>3. mem[c].build \in Builds /\ (c \notin past => OwnShaders(mem[c])) /\ \A d \in Alive : mem[d].build = mem[c].build
  BY <1>1, <1>2 DEF PlaceInv, OwnInv, Alive
<1>4. mem[c].open # "no" => OwnCells(file.data, mem[c].build) /\ file.build \in {NoBuild, mem[c].build}
  <2>1. mem[c].open # "no" => Trusts(c)
    BY <1>2 DEF Trusts
  <2> QED
    BY <2>1 DEF OwnInv, OwnFile
<1>5. ASSUME file' = file, Others(c), SameCache(c), mem'[c].open = mem[c].open, mem'[c].pc = "run"
      PROVE  OwnFile'
  <2>1. SameData
    BY <1>5 DEF SameData
  <2>2. Trusts(c)' => mem[c].open # "no"
    BY <1>5 DEF Trusts
  <2> QED
    BY <1>4, <1>5, <2>1, <2>2, OwnSameFile DEF SameCache
<1>6. ASSUME NEW k \in Keys, InsertShader(c, k)  PROVE OwnInv'
  <2>0. past' = past /\ pastBlob' = pastBlob
    BY <1>6 DEF InsertShader
  <2>1. /\ Others(c) /\ SameCache(c) /\ mem'[c].open = mem[c].open /\ file'.data = file.data
        /\ mem'[c].alloc = Allocated(mem[c], k) /\ mem'[c].entry = [mem[c].entry EXCEPT ![k] = mem[c].build]
        /\ mem[c].open = "no" => mem'[c].pc = "run" /\ file' = file
        /\ mem[c].open # "no" => mem'[c].pc = "writeCount"
        /\ ~mem[c].pending => file' = file
        /\ mem[c].open # "no" /\ mem[c].pending => ~file'.short /\ file'.build = mem[c].build
    BY <1>1, <1>6, InsertShaderEffect
  <2>2. OwnFile'
    <3>1. CASE mem[c].open = "no"
      BY <1>5, <2>1, <3>1
    <3>2. CASE mem[c].open # "no" /\ ~mem[c].pending
      <4>1. SameData
        BY <2>1, <3>2 DEF SameData
      <4> QED
        BY <1>4, <2>1, <3>2, <4>1, OwnSameFile DEF SameCache
    <3>3. CASE mem[c].open # "no" /\ mem[c].pending
      BY <1>2, <1>4, <2>1, <3>3, OwnNewFile
    <3> QED
      BY <3>1, <3>2, <3>3
  <2>3. (c \notin past => OwnShaders(mem'[c])) /\ blob' = blob
    BY <1>1, <1>3, <1>6, <2>1, OwnAllocated DEF SameCache, InsertShader
  <2> QED
    BY <2>0, <1>3, <2>1, <2>2, <2>3, OwnOthers DEF SameCache
<1>7. ASSUME NEW k \in Keys, ExternalHit(c, k)  PROVE OwnInv'
  <2>0. past' = past /\ pastBlob' = pastBlob
    BY <1>7 DEF ExternalHit
  <2>1. /\ Others(c) /\ SameCache(c) /\ file' = file /\ mem'[c].pc = "run" /\ mem'[c].open = mem[c].open
        /\ mem'[c].alloc = Allocated(mem[c], k) /\ mem'[c].entry = [mem[c].entry EXCEPT ![k] = mem[c].build]
    BY <1>1, <1>7, ExternalHitEffect
  <2>2. (c \notin past => OwnShaders(mem'[c])) /\ blob' = blob
    BY <1>1, <1>3, <1>7, <2>1, OwnAllocated DEF SameCache, ExternalHit
  <2>3. OwnFile'
    BY <1>5, <2>1
  <2> QED
    BY <2>0, <1>3, <2>1, <2>2, <2>3, OwnOthers DEF SameCache
<1>8. ASSUME NEW k \in Keys, ResetShader(c, k)  PROVE OwnInv'
  <2>0. past' = past /\ pastBlob' = pastBlob
    BY <1>8 DEF ResetShader
  <2>1. /\ Others(c) /\ SameCache(c) /\ file' = file /\ mem'[c].pc = "run" /\ mem'[c].open = mem[c].open
        /\ mem'[c].alloc = mem[c].alloc /\ mem'[c].entry = [mem[c].entry EXCEPT ![k] = Failed]
    BY <1>1, <1>8, ResetShaderEffect
  <2>2. (c \notin past => OwnShaders(mem'[c])) /\ blob' = blob
    <3>1. mem[c].entry \in Entries
      BY <1>1 DEF Members
    <3> QED
      BY <1>3, <1>8, <2>1, <3>1, NoBuildAssumption DEF OwnShaders, SameCache, Entries, ResetShader
  <2>3. OwnFile'
    BY <1>5, <2>1
  <2> QED
    BY <2>0, <1>3, <2>1, <2>2, <2>3, OwnOthers DEF SameCache
<1>9. ASSUME NEW d \in Caches, Merge(c, d)  PROVE OwnInv'
  <2>0. past' = (IF d \in past THEN past \cup {c} ELSE past)
    BY <1>9 DEF Merge
  <2>1. /\ Others(c) /\ SameCache(c) /\ file' = file /\ mem'[c].pc = "run" /\ mem'[c].open = mem[c].open
        /\ mem[d].pc = "run" /\ mem'[c].entry = MergedEntry(c, d) /\ Missing(c, d) \in SUBSET Keys
        /\ \E ks \in SetToSeqs(Missing(c, d)) :
             mem'[c].alloc = mem[c].alloc \o FlattenSeq(Copied(ks, mem[d].entry))
    BY <1>1, <1>9, MergeEffect
  <2>2. mem[d].build = mem[c].build /\ (d \notin past => OwnShaders(mem[d])) /\ mem[d].entry \in Entries
    BY <1>1, <1>3, <2>1 DEF OwnInv, Alive, TypeInv, Members
  <2>3. PICK ks \in SetToSeqs(Missing(c, d)) :
          mem'[c].alloc = mem[c].alloc \o FlattenSeq(Copied(ks, mem[d].entry))
    BY <2>1
  <2>4. ASSUME c \notin past'
        PROVE  /\ OwnCells(mem'[c].alloc, mem[c].build)
               /\ \A k \in Keys : mem'[c].entry[k] \in Builds => mem'[c].entry[k] = mem[c].build
    <3>0. OwnShaders(mem[c]) /\ OwnShaders(mem[d])
      BY <1>3, <2>0, <2>2, <2>4
    <3>1. mem[c].alloc \in Seq(Cells) /\ OwnCells(mem[c].alloc, mem[c].build)
      BY <1>1, <3>0 DEF Members, OwnShaders
    <3>2. \A k \in Missing(c, d) : mem[d].entry[k] \in Builds => mem[d].entry[k] = mem[c].build
      BY <2>1, <2>2, <3>0 DEF OwnShaders
    <3>3. OwnCells(mem'[c].alloc, mem[c].build)
      BY <2>1, <2>2, <2>3, <3>1, <3>2, MergeOwn
    <3>4. ASSUME NEW k \in Keys, mem'[c].entry[k] \in Builds  PROVE mem'[c].entry[k] = mem[c].build
      <4>1. mem'[c].entry[k] = IF k \notin Missing(c, d) THEN mem[c].entry[k]
                               ELSE IF mem[d].entry[k] \in Builds THEN mem[d].entry[k] ELSE Empty
        BY <2>1 DEF MergedEntry
      <4> QED
        BY <2>2, <3>0, <3>4, <4>1, NoBuildAssumption DEF OwnShaders
    <3> QED
      BY <3>3, <3>4
  <2>6. (c \notin past' => OwnShaders(mem'[c])) /\ blob' = blob /\ pastBlob' = pastBlob
    BY <1>9, <2>1, <2>4 DEF OwnShaders, SameCache, Merge
  <2>7. OwnFile'
    BY <1>5, <2>1
  <2> QED
    BY <1>3, <2>0, <2>1, <2>6, <2>7, OwnOthers DEF SameCache
<1>10. CASE Serialize(c)
  <2>1. mem' = mem /\ file' = file /\ blob'.build = mem[c].build /\ blob'.data = mem[c].alloc
    BY <1>1, <1>10, SerializeEffect
  <2>2. past' = past /\ (pastBlob' \/ OwnCells(blob'.data, blob'.build))
    BY <1>3, <1>10, <2>1 DEF OwnShaders, Serialize
  <2> QED
    BY <2>1, <2>2 DEF OwnInv, OwnFile, OwnShaders, OwnCells, Alive, Trusts
<1> QED
  BY <1>6, <1>7, <1>8, <1>9, <1>10

LEMMA OwnEnd ==
  ASSUME BaseInv, OwnInv, NEW c \in Caches, Destroy(c) \/ Crash(c)
  PROVE  OwnInv'
<1>1. TypeInv /\ PlaceInv(c)
  BY DEF BaseInv
<1>2. Others(c) /\ mem'[c] = Off /\ blob' = blob /\ ~Trusts(c)' /\ mem'[c].pc = "off"
  BY <1>1, DestroyEffect, CrashEffect, OffFields DEF Trusts, Writing, Destroy, Crash
<1>0. pastBlob' = pastBlob /\ past' = past \ {c}
  BY DEF Destroy, Crash
<1>3. CASE file' = file
  <2>1. SameData
    BY <1>3 DEF SameData
  <2>2. OwnFile'
    BY <1>2, <2>1, OwnSameFile
  <2> QED
    BY <1>0, <1>2, <2>2, OwnOthers
<1>4. CASE file' # file
  <2>1. /\ mem[c].pc = "run" /\ mem[c].pending /\ ~file'.short /\ file'.build = mem[c].build
        /\ file'.data = file.data
    BY <1>1, <1>4, DestroyEffect, CrashEffect
  <2>2. OwnCells(file'.data, mem[c].build)
    <3>1. Trusts(c)
      BY <1>1, <2>1 DEF Trusts, PlaceInv
    <3> QED
      BY <2>1, <3>1 DEF OwnInv, OwnFile
  <2>3. ASSUME NEW e \in Caches, Trusts(e)'
        PROVE  mem'[e].build = mem[c].build
    <3>1. e # c /\ mem'[e] = mem[e]
      BY <1>2, <2>3 DEF Others
    <3>2. mem[e].pc # "off"
      BY <2>3, <3>1 DEF Trusts, Writing
    <3> QED
      BY <2>1, <3>1, <3>2 DEF OwnInv, Alive
  <2>4. OwnFile'
    BY <2>1, <2>2, <2>3 DEF OwnFile, OwnCells
  <2> QED
    BY <1>0, <1>2, <2>4, OwnOthers
<1> QED
  BY <1>3, <1>4

LEMMA OwnNext ==
  ASSUME BaseInv, OwnInv, ~MixedBuilds, [Next]_vars
  PROVE  OwnInv'
<1>1. CASE Next
  <2>1. PICK c \in Caches : Step(c)
    BY <1>1 DEF Next
  <2> QED
    BY <2>1, OwnStart, OwnLoad, OwnWrite, OwnUse, OwnEnd DEF Step
<1>2. CASE UNCHANGED vars
  BY <1>2 DEF vars, OwnInv, OwnFile, OwnShaders, OwnCells, Alive, Trusts
<1> QED
  BY <1>1, <1>2

(* The members of every cache and the images of the file and of the blob have *)
(* their types, whatever crashes, failed writes and other caches do.          *)
THEOREM TypeCorrect == Spec => []TypeOK
<1>1. BaseInv => TypeOK
  <2> SUFFICES ASSUME BaseInv  PROVE TypeOK
    OBVIOUS
  <2>1. ASSUME NEW img \in {file, blob}
        PROVE  /\ {img.exists, img.short, img.hollow} \subseteq BOOLEAN
               /\ [build |-> img.build, count |-> img.count, end |-> img.end] \in Headers
               /\ img.data \in Seq(Cells)
    BY DEF BaseInv, TypeInv, Images, Headers
  <2>2. ASSUME NEW c \in Caches
        PROVE  /\ mem[c].pc \in PCs /\ mem[c].mode \in DiskModes \cup {"Runtime"}
               /\ mem[c].open \in {"no", "r", "rw"} /\ mem[c].pending \in BOOLEAN
               /\ mem[c].hdr \in Headers
               /\ mem[c].totalShaders \in Nat /\ mem[c].shaderDataEnd \in Nat
               /\ mem[c].alloc \in Seq(Cells)
               /\ mem[c].entry \in [Keys -> Builds \cup {NoBuild, Failed, Empty}]
               /\ mem[c].key \in Keys \cup {NoKey}
    <3>1. mem[c] \in Members
      BY DEF BaseInv, TypeInv
    <3> QED
      BY <3>1 DEF Members, Entries
  <2> QED
    BY <2>1, <2>2 DEF TypeOK, BaseInv, TypeInv
<1> QED
  BY <1>1, BaseInit, BaseNext, PTL DEF Spec

(* A cache only serves shaders of its own build id, whatever crashes, lost    *)
(* writes and other caches of the build have left in the file, and whatever   *)
(* build wrote it before, unless it took entries from behind the block that   *)
(* it read: init of caches of different builds at the same time is excluded,  *)
(* as nothing locks the file between them.                                    *)
THEOREM OwnBuildOnly == ~MixedBuilds => (Spec => []OnlyOwnBuild)
<1> SUFFICES ASSUME ~MixedBuilds  PROVE Spec => []OnlyOwnBuild
  OBVIOUS
<1>1. BaseInv /\ OwnInv => OnlyOwnBuild
  <2> SUFFICES ASSUME BaseInv, OwnInv, NEW c \in Caches \ past, NEW k \in Keys,
                      mem[c].entry[k] \in Builds
               PROVE  mem[c].entry[k] = mem[c].build
    BY DEF OnlyOwnBuild
  <2>1. mem[c].pc # "off"
    BY OffFields, NoBuildAssumption DEF BaseInv, PlaceInv, NoEntries
  <2> QED
    BY <2>1 DEF OwnInv, Alive, OwnShaders
<1>2. BaseInv /\ OwnInv /\ [Next]_vars => (BaseInv /\ OwnInv)'
  BY BaseNext, OwnNext
<1>3. Init => BaseInv /\ OwnInv
  BY BaseInit, OwnInit
<1> QED
  BY <1>1, <1>2, <1>3, PTL DEF Spec

-----------------------------------------------------------------------------
(* BlobInv: the allocations of a runtime cache are whole records *)

SerialMem(m, hollow) == Serial(m.alloc, m.totalShaders, m.shaderDataEnd, hollow)

LEMMA SerialNone ==
  ASSUME NEW m, NEW h, m.alloc = <<>>, m.totalShaders = 0, m.shaderDataEnd = 0
  PROVE  SerialMem(m, h)
BY ParsedEmpty DEF SerialMem, Serial

LEMMA SerialOff == \A h : SerialMem(Off, h)
BY OffFields, SerialNone

LEMMA BlobInit == Init => BlobInv
<1> SUFFICES ASSUME Init  PROVE BlobInv
  OBVIOUS
<1>1. \A c \in Caches : mem[c] = Off
  BY DEF Init
<1>2. blob.data = <<>> /\ blob.count = 0 /\ blob.end = 0
  BY DEF Init, NoImage
<1>3. Serial(blob.data, blob.count, blob.end, blob.hollow)
  BY <1>2, ParsedEmpty DEF Serial
<1> QED
  BY <1>1, <1>3, SerialOff DEF BlobInv, SerialMem

LEMMA BlobOthers ==
  ASSUME BlobInv, NEW c \in Caches, Others(c), blob' = blob,
         \A e \in Caches : e # c => (e \in past' <=> e \in past),
         mem'[c].mode = "Runtime" => SerialMem(mem'[c], Hollow(c)')
  PROVE  BlobInv'
<1>1. ASSUME NEW e \in Caches, mem'[e].mode = "Runtime"
      PROVE  Serial(mem'[e].alloc, mem'[e].totalShaders, mem'[e].shaderDataEnd, Hollow(e)')
  <2>1. CASE e = c
    BY <1>1, <2>1 DEF SerialMem
  <2>2. CASE e # c
    <3>1. mem'[e] = mem[e]
      BY <2>2 DEF Others
    <3>2. Hollow(e)' <=> Hollow(e)
      BY <2>2, <3>1 DEF Hollow
    <3> QED
      BY <1>1, <3>1, <3>2 DEF BlobInv, Serial
  <2> QED
    BY <2>1, <2>2
<1>2. Serial(blob'.data, blob'.count, blob'.end, blob'.hollow)
  BY DEF BlobInv
<1> QED
  BY <1>1, <1>2 DEF BlobInv, Serial, Parsed, Populates, Hollow

LEMMA BlobStart ==
  ASSUME BaseInv, BlobInv, NEW c \in Caches, NEW b \in Builds,
         \/ \E m \in DiskModes : InitOnDisk(c, m, b) \/ InitOpenFails(c, m, b)
         \/ \E s \in BOOLEAN : InitRuntime(c, b, s)
         \/ InitPast(c, b)
  PROVE  BlobInv'
<1>1. TypeInv
  BY DEF BaseInv
<1>0. blob' = blob /\ \A e \in Caches : e # c => (e \in past' <=> e \in past)
  BY DEF InitOnDisk, InitOpenFails, InitRuntime, InitPast
<1>2. ASSUME NEW m \in DiskModes, InitOnDisk(c, m, b) \/ InitOpenFails(c, m, b)  PROVE BlobInv'
  <2>1. Others(c) /\ mem'[c].mode = m
    BY <1>1, <1>2, InitOnDiskEffect, InitOpenFailsEffect
  <2>2. m # "Runtime"
    BY DiskModesAssumption
  <2> QED
    BY <1>0, <2>1, <2>2, BlobOthers
<1>3. ASSUME NEW s \in BOOLEAN, InitRuntime(c, b, s)  PROVE BlobInv'
  <2>1. /\ Others(c)
        /\ \/ NoShaders(c)
           \/ /\ Populates(blob.data, blob.count)
              /\ mem'[c].totalShaders = blob.count /\ mem'[c].shaderDataEnd = blob.end
              /\ mem'[c].alloc = blob.data
    BY <1>1, <1>3, InitRuntimeEffect
  <2>2. SerialMem(mem'[c], Hollow(c)')
    <3>1. CASE NoShaders(c)
      BY <3>1, SerialNone DEF NoShaders
    <3>2. CASE /\ Populates(blob.data, blob.count)
               /\ mem'[c].totalShaders = blob.count /\ mem'[c].shaderDataEnd = blob.end
               /\ mem'[c].alloc = blob.data
      <4>1. blob.data \in Seq(Cells) /\ blob.count \in Nat
        BY <1>1 DEF TypeInv, Images
      <4>2. PICK m \in Nat : Parsed(blob.data, m) /\ blob.end <= Len(blob.data)
        BY DEF BlobInv, Serial
      <4>3. blob.count <= m
        BY <3>2, <4>1, <4>2, ParsedBound
      <4> QED
        BY <3>2, <4>2, <4>3 DEF SerialMem, Serial
    <3> QED
      BY <2>1, <3>1, <3>2
  <2> QED
    BY <1>0, <2>1, <2>2, BlobOthers
<1>4. CASE InitPast(c, b)
  <2>1. /\ Others(c)
        /\ \/ mem' = mem /\ past' = past
           \/ /\ past' = past \cup {c} /\ mem'[c].totalShaders = blob.count
              /\ mem'[c].shaderDataEnd = blob.end /\ mem'[c].alloc = blob.data
    BY <1>1, <1>4, InitPastEffect
  <2>2. CASE mem' = mem /\ past' = past
    <3>1. mem[c].mode = "Runtime" => SerialMem(mem'[c], Hollow(c)')
      BY <2>2 DEF BlobInv, SerialMem, Hollow
    <3> QED
      BY <1>0, <2>1, <2>2, <3>1, BlobOthers
  <2>3. CASE /\ past' = past \cup {c} /\ mem'[c].totalShaders = blob.count
             /\ mem'[c].shaderDataEnd = blob.end /\ mem'[c].alloc = blob.data
    <3>1. SerialMem(mem'[c], Hollow(c)')
      BY <2>3 DEF BlobInv, Serial, SerialMem, Hollow
    <3> QED
      BY <1>0, <2>1, <3>1, BlobOthers
  <2> QED
    BY <2>1, <2>2, <2>3
<1> QED
  BY <1>2, <1>3, <1>4

(* The steps on the file are those of on-disk caches. *)
LEMMA BlobDisk ==
  ASSUME BaseInv, BlobInv, NEW c \in Caches,
         \/ ReadHeader(c) \/ ReadData(c) \/ ReadPast(c) \/ ReadDataFails(c) \/ ResetFile(c)
         \/ WriteCount(c) \/ WriteData(c) \/ WriteEnd(c) \/ WriteFails(c) \/ WriteLost(c)
  PROVE  BlobInv'
<1>1. TypeInv /\ PlaceInv(c)
  BY DEF BaseInv
<1>2. /\ blob' = blob /\ mem[c].pc \notin {"off", "run"}
      /\ \A e \in Caches : e # c => (e \in past' <=> e \in past)
  BY DEF ReadHeader, ReadData, ReadPast, ReadDataFails, ResetFile, WriteCount, WriteData, WriteEnd, WriteFails, WriteLost
<1>3. mem[c].mode # "Runtime"
  BY <1>1, <1>2 DEF PlaceInv
<1>4. CASE ~ReadPast(c)
  <2>1. Others(c) /\ SameCache(c)
    BY ZenonT(60), <1>1, <1>4, ReadHeaderEffect, ReadDataEffect, ReadDataFailsEffect, ResetFileEffect,
       WriteCountEffect, WriteDataEffect, WriteEndEffect, WriteFailsEffect, WriteLostEffect
  <2> QED
    BY <1>2, <1>3, <2>1, BlobOthers DEF SameCache
<1>5. CASE ReadPast(c)
  <2>1. Others(c) /\ (mem'[c] = Off \/ SameCache(c))
    BY <1>1, <1>5, ReadPastEffect
  <2> QED
    BY <1>2, <1>3, <2>1, SerialOff, BlobOthers DEF SameCache
<1> QED
  BY <1>4, <1>5

(* One more record; count: whether it is counted. *)
LEMMA SerialAllocated ==
  ASSUME NEW m \in Members, m.build \in Builds, m.mode = "Runtime", NEW k \in Keys, NEW n,
         n.alloc = Allocated(m, k), n.shaderDataEnd = m.shaderDataEnd,
         n.totalShaders \in {m.totalShaders, m.totalShaders + 1},
         NEW h \in BOOLEAN, NEW g \in BOOLEAN, h => g, SerialMem(m, h)
  PROVE  SerialMem(n, g)
<1>1. m.alloc \in Seq(Cells) /\ m.totalShaders \in Nat /\ m.shaderDataEnd \in Nat
  BY DEF Members
<1>2. PICK p \in Nat : Parsed(m.alloc, p) /\ (h \/ m.totalShaders <= p) /\ m.shaderDataEnd <= Len(m.alloc)
  BY DEF SerialMem, Serial
<1> DEFINE a == m.alloc \o Record(m.build, k)
<1>3. Parsed(a, p + 1)
  BY <1>1, <1>2, ParsedAppend
<1>4. n.alloc = a
  BY DEF Allocated
<1>5. Len(a) = Len(m.alloc) + Size[k] /\ Size[k] \in Nat
  <2> DEFINE r == Record(m.build, k)
  <2>1. r \in Seq(Cells) /\ Len(r) = Size[k] /\ Size[k] \in Nat
    BY RecordFacts
  <2> HIDE DEF r
  <2>2. Len(m.alloc \o r) = Len(m.alloc) + Len(r)
    BY <1>1, <2>1
  <2> QED
    BY <2>1, <2>2 DEF r
<1> HIDE DEF a
<1>6. n.shaderDataEnd <= Len(a) /\ (g \/ n.totalShaders <= p + 1) /\ p + 1 \in Nat
  <2>1. Len(m.alloc) \in Nat
    BY <1>1
  <2> QED
    BY <1>1, <1>2, <1>5, <2>1
<1> QED
  BY <1>3, <1>4, <1>6 DEF SerialMem, Serial

LEMMA BlobUse ==
  ASSUME BaseInv, BlobInv, NEW c \in Caches,
         \/ \E k \in Keys : InsertShader(c, k) \/ ExternalHit(c, k) \/ ResetShader(c, k)
         \/ \E d \in Caches : Merge(c, d)
         \/ Serialize(c)
  PROVE  BlobInv'
<1>1. TypeInv /\ PlaceInv(c) /\ mem[c] \in Members /\ mem[c].entry \in Entries
  BY DEF BaseInv, TypeInv, Members
<1>2. mem[c].pc = "run"
  BY DEF InsertShader, ExternalHit, ResetShader, Merge, Serialize
<1>3. mem[c].build \in Builds
  BY <1>1, <1>2 DEF PlaceInv
<1>4. mem[c].mode = "Runtime" => SerialMem(mem[c], Hollow(c))
  BY DEF BlobInv, SerialMem
<1>5. Hollow(c) \in BOOLEAN /\ Hollow(c)' \in BOOLEAN
  BY DEF Hollow
<1>0. \A e \in Caches : (e # c => (e \in past' <=> e \in past)) /\ (e \in past => e \in past')
  BY DEF InsertShader, ExternalHit, ResetShader, Merge, Serialize
<1>6. ASSUME NEW k \in Keys, mem[c].entry[k] \in {NoBuild, Failed}, NEW x,
             mem'[c].entry = [mem[c].entry EXCEPT ![k] = x]
      PROVE  Hollow(c) => Hollow(c)'
  <2>1. ASSUME NEW h \in Keys, mem[c].entry[h] = Empty  PROVE mem'[c].entry[h] = Empty
    <3>1. h # k
      BY <1>6, <2>1, NoBuildAssumption
    <3> QED
      BY <1>1, <1>6, <2>1, <3>1 DEF Entries
  <2> QED
    BY <1>0, <2>1 DEF Hollow
<1>7. ASSUME NEW k \in Keys, InsertShader(c, k)  PROVE BlobInv'
  <2>1. /\ Others(c) /\ SameCache(c) /\ mem'[c].totalShaders = mem[c].totalShaders + 1
        /\ mem'[c].shaderDataEnd = mem[c].shaderDataEnd /\ mem[c].entry[k] \in {NoBuild, Failed}
        /\ mem'[c].alloc = Allocated(mem[c], k) /\ mem'[c].entry = [mem[c].entry EXCEPT ![k] = mem[c].build]
    BY <1>1, <1>7, InsertShaderEffect
  <2>2. Hollow(c) => Hollow(c)'
    BY <1>6, <2>1
  <2>3. mem[c].mode = "Runtime" => SerialMem(mem'[c], Hollow(c)')
    BY <1>1, <1>3, <1>4, <1>5, <2>1, <2>2, SerialAllocated
  <2>4. blob' = blob
    BY <1>7 DEF InsertShader
  <2> QED
    BY <2>1, <2>3, <2>4, <1>0, BlobOthers DEF SameCache
<1>8. ASSUME NEW k \in Keys, ExternalHit(c, k)  PROVE BlobInv'
  <2>1. /\ Others(c) /\ SameCache(c) /\ mem'[c].totalShaders = mem[c].totalShaders
        /\ mem'[c].shaderDataEnd = mem[c].shaderDataEnd /\ mem[c].entry[k] \in {NoBuild, Failed}
        /\ mem'[c].alloc = Allocated(mem[c], k) /\ mem'[c].entry = [mem[c].entry EXCEPT ![k] = mem[c].build]
    BY <1>1, <1>8, ExternalHitEffect
  <2>2. Hollow(c) => Hollow(c)'
    BY <1>6, <2>1
  <2>3. mem[c].mode = "Runtime" => SerialMem(mem'[c], Hollow(c)')
    BY <1>1, <1>3, <1>4, <1>5, <2>1, <2>2, SerialAllocated
  <2>4. blob' = blob
    BY <1>8 DEF ExternalHit
  <2> QED
    BY <2>1, <2>3, <2>4, <1>0, BlobOthers DEF SameCache
<1>9. ASSUME NEW k \in Keys, ResetShader(c, k)  PROVE BlobInv'
  <2>1. /\ Others(c) /\ SameCache(c) /\ mem'[c].totalShaders = mem[c].totalShaders
        /\ mem'[c].shaderDataEnd = mem[c].shaderDataEnd /\ mem'[c].alloc = mem[c].alloc
        /\ mem'[c].entry = [mem[c].entry EXCEPT ![k] = Failed]
    BY <1>1, <1>9, ResetShaderEffect
  <2>2. Hollow(c) => Hollow(c)'
    <3>1. mem[c].entry[k] = NoBuild
      BY <1>9 DEF ResetShader
    <3> QED
      BY <1>6, <2>1, <3>1
  <2>3. mem[c].mode = "Runtime" => SerialMem(mem'[c], Hollow(c)')
    BY <1>4, <2>1, <2>2 DEF SerialMem, Serial
  <2>4. blob' = blob
    BY <1>9 DEF ResetShader
  <2> QED
    BY <2>1, <2>3, <2>4, <1>0, BlobOthers DEF SameCache
<1>10. ASSUME NEW d \in Caches, Merge(c, d)  PROVE BlobInv'
  <2>1. /\ Others(c) /\ SameCache(c) /\ Missing(c, d) \in SUBSET Keys
        /\ mem'[c].shaderDataEnd = mem[c].shaderDataEnd /\ mem'[c].entry = MergedEntry(c, d)
        /\ \E ks \in SetToSeqs(Missing(c, d)) :
             /\ mem'[c].totalShaders = mem[c].totalShaders + Len(ks)
             /\ mem'[c].alloc = mem[c].alloc \o FlattenSeq(Copied(ks, mem[d].entry))
    BY <1>1, <1>10, MergeEffect
  <2>2. PICK ks \in SetToSeqs(Missing(c, d)) :
             /\ mem'[c].totalShaders = mem[c].totalShaders + Len(ks)
             /\ mem'[c].alloc = mem[c].alloc \o FlattenSeq(Copied(ks, mem[d].entry))
    BY <2>1
  <2>3. mem[c].alloc \in Seq(Cells) /\ mem[d].entry \in Entries /\ mem[c].totalShaders \in Nat
    BY <1>1 DEF TypeInv, Members
  <2>4. Len(ks) \in Nat
    BY <2>1, <2>3, CopiedFacts
  <2>5. /\ Hollow(c) => Hollow(c)'
        /\ (\E k \in Missing(c, d) : mem[d].entry[k] \notin Builds) => Hollow(c)'
    <3>1. ASSUME NEW k \in Keys, mem[c].entry[k] = Empty  PROVE mem'[c].entry[k] = Empty
      BY <2>1, <3>1, NoBuildAssumption DEF MergedEntry, Missing
    <3>2. ASSUME NEW k \in Missing(c, d), mem[d].entry[k] \notin Builds  PROVE mem'[c].entry[k] = Empty
      BY <2>1, <3>2 DEF MergedEntry
    <3> QED
      BY <1>0, <2>1, <3>1, <3>2 DEF Hollow
  <2>6. ASSUME mem[c].mode = "Runtime"  PROVE SerialMem(mem'[c], Hollow(c)')
    <3>1. PICK p \in Nat : /\ Parsed(mem[c].alloc, p) /\ (Hollow(c) \/ mem[c].totalShaders <= p)
                           /\ mem[c].shaderDataEnd <= Len(mem[c].alloc)
      BY <1>4, <2>6 DEF SerialMem, Serial
    <3>2. /\ mem'[c].alloc \in Seq(Cells) /\ Len(mem[c].alloc) <= Len(mem'[c].alloc)
          /\ \E m \in Nat : /\ Parsed(mem'[c].alloc, m)
                            /\ (\A k \in Missing(c, d) : mem[d].entry[k] \in Builds) => p + Len(ks) <= m
      <4> DEFINE a == mem[c].alloc \o FlattenSeq(Copied(ks, mem[d].entry))
      <4>1. /\ a \in Seq(Cells) /\ Len(mem[c].alloc) <= Len(a)
            /\ \E m \in Nat : /\ Parsed(a, m)
                              /\ (\A k \in Missing(c, d) : mem[d].entry[k] \in Builds) => p + Len(ks) <= m
        BY <2>1, <2>3, <3>1, MergeParsed
      <4> HIDE DEF a
      <4>2. mem'[c].alloc = a
        BY <2>2 DEF a
      <4> QED
        BY <4>1, <4>2
    <3>3. PICK m \in Nat : /\ Parsed(mem'[c].alloc, m)
                           /\ (\A k \in Missing(c, d) : mem[d].entry[k] \in Builds) => p + Len(ks) <= m
      BY <3>2
    <3>4. Hollow(c)' \/ mem'[c].totalShaders <= m
      BY <2>2, <2>3, <2>4, <2>5, <3>1, <3>3
    <3>5. mem'[c].shaderDataEnd <= Len(mem'[c].alloc)
      <4> DEFINE x == Len(mem[c].alloc)
                 y == Len(mem'[c].alloc)
      <4>1. y \in Nat /\ x \in Nat /\ mem[c].shaderDataEnd \in Nat
        BY <1>1, <2>3, <3>2 DEF Members
      <4>2. mem[c].shaderDataEnd <= x /\ x <= y
        BY <3>1, <3>2
      <4> HIDE DEF x, y
      <4>3. mem[c].shaderDataEnd <= y
        BY <4>1, <4>2
      <4> QED
        BY <2>1, <4>3 DEF y
    <3> QED
      BY <3>3, <3>4, <3>5 DEF SerialMem, Serial
  <2>7. blob' = blob
    BY <1>10 DEF Merge
  <2> QED
    BY <2>1, <2>6, <2>7, <1>0, BlobOthers DEF SameCache
<1>11. CASE Serialize(c)
  <2>1. /\ mem' = mem /\ mem[c].mode = "Runtime" /\ blob'.data = mem[c].alloc
        /\ blob'.count = mem[c].totalShaders
        /\ blob'.end = mem[c].shaderDataEnd /\ blob'.hollow = Hollow(c)
    BY <1>1, <1>11, SerializeEffect
  <2>2. Serial(blob'.data, blob'.count, blob'.end, blob'.hollow)
    BY <1>4, <2>1 DEF SerialMem
  <2>3. \A e \in Caches : mem'[e] = mem[e] /\ (Hollow(e)' <=> Hollow(e))
    BY <1>11, <2>1 DEF Hollow, Serialize
  <2> QED
    BY <2>2, <2>3 DEF BlobInv, Serial, Parsed, Populates, Hollow
<1> QED
  BY <1>7, <1>8, <1>9, <1>10, <1>11

LEMMA BlobNext ==
  ASSUME BaseInv, BlobInv, [Next]_vars
  PROVE  BlobInv'
<1>1. CASE Next
  <2>1. PICK c \in Caches : Step(c)
    BY <1>1 DEF Next
  <2>2. CASE Destroy(c) \/ Crash(c)
    <3>1. /\ Others(c) /\ mem'[c] = Off /\ blob' = blob
          /\ \A e \in Caches : e # c => (e \in past' <=> e \in past)
      BY <2>2, DestroyEffect, CrashEffect DEF BaseInv, Destroy, Crash
    <3> QED
      BY <3>1, SerialOff, BlobOthers
  <2> QED
    BY <2>1, <2>2, BlobStart, BlobDisk, BlobUse DEF Step
<1>2. CASE UNCHANGED vars
  BY <1>2 DEF vars, BlobInv, Serial, Parsed, Populates, Hollow
<1> QED
  BY <1>1, <1>2

(* A blob that Serialize made loads again, also after merges and restarts,    *)
(* for any number of merges, external hits and sessions, unless entries       *)
(* without data were merged into it.                                          *)
THEOREM BlobsLoad == Spec => []BlobLoads
<1>1. BaseInv /\ BlobInv => BlobLoads
  <2> SUFFICES ASSUME BaseInv, BlobInv, ~blob.hollow
               PROVE  /\ HeaderValid(BlobHeader, blob.build, Len(blob.data))
                      /\ Populates(blob.data, blob.count)
    BY DEF BlobLoads
  <2>1. blob.data \in Seq(Cells) /\ blob.count \in Nat
    BY DEF BaseInv, TypeInv, Images
  <2>2. PICK m \in Nat : Parsed(blob.data, m) /\ blob.count <= m /\ blob.end <= Len(blob.data)
    BY DEF BlobInv, Serial
  <2>3. Populates(blob.data, blob.count)
    BY <2>1, <2>2, PopulatesFewer DEF Parsed
  <2> QED
    BY <2>2, <2>3 DEF HeaderValid, BlobHeader
<1>2. BaseInv /\ BlobInv /\ [Next]_vars => (BaseInv /\ BlobInv)'
  BY BaseNext, BlobNext
<1>3. Init => BaseInv /\ BlobInv
  BY BaseInit, BlobInit
<1> QED
  BY <1>1, <1>2, <1>3, PTL DEF Spec

-----------------------------------------------------------------------------
(* FileInv: what was added to the file is in it *)

LEMMA FileInit == Init => FileInv
<1> SUFFICES ASSUME Init  PROVE FileInv
  OBVIOUS
<1>1. \A c \in Caches : mem[c].open = "no"
  BY OffFields DEF Init
<1>2. ~file.exists
  BY DEF Init, NoImage
<1> QED
  BY <1>1, <1>2 DEF FileInv, OnFile

LEMMA CleanSame ==
  ASSUME Clean, SameData, SameHeader, stored' = stored
  PROVE  Clean'
BY DEF Clean, Holds, SameData, SameHeader, Parsed, Populates

(* A file with the header that resetCacheFile writes, and no shaders. *)
LEMMA CleanReset ==
  ASSUME ~file'.short, file'.count = 0, file'.end = 0, file'.data = <<>>, stored' = NoEntries
  PROVE  Clean'
BY ParsedEmpty DEF Clean, Holds, Parsed, Populates

(* A step of a cache that does not have the file open. *)
LEMMA FileAway ==
  ASSUME FileInv, NEW c \in Caches, mem[c].open = "no", mem'[c].open = "no", Others(c),
         file' = file, stored' = stored, disturbed' = disturbed
  PROVE  FileInv'
<1> SUFFICES ASSUME ~disturbed  PROVE FileInv'
  BY DEF FileInv
<1>1. \A e \in Caches : e # c => mem'[e] = mem[e]
  BY DEF Others
<1>2. OnFile' = OnFile /\ \A e \in OnFile : e # c /\ e \in Caches
  BY <1>1 DEF OnFile
<1>3. Clean' <=> Clean
  BY DEF Clean, Holds, Parsed, Populates
<1>4. ASSUME NEW e \in OnFile  PROVE DiskInv(e)'
  <2>1. mem'[e] = mem[e] /\ DiskInv(e)
    BY <1>1, <1>2, <1>4 DEF FileInv
  <2> QED
    BY <1>3, <2>1 DEF DiskInv, Holds, Parsed, Populates
<1>5. /\ \A e, f \in OnFile' : e = f
      /\ file'.exists /\ OnFile' = {} => Clean'
      /\ \A e \in OnFile' : DiskInv(e)'
  BY <1>2, <1>3, <1>4 DEF FileInv
<1> QED
  BY <1>5 DEF FileInv

(* A step after which no other cache has the file open. *)
LEMMA FileOnly ==
  ASSUME NEW c \in Caches,
         ~disturbed' => \A e \in OnFile' : e = c,
         ~disturbed' => IF mem'[c].open = "no" THEN Clean' ELSE DiskInv(c)'
  PROVE  FileInv'
<1> SUFFICES ASSUME ~disturbed'  PROVE FileInv'
  BY DEF FileInv
<1>1. \A e \in OnFile' : e = c /\ mem'[c].open # "no"
  BY DEF OnFile
<1>2. mem'[c].open # "no" => OnFile' # {}
  BY DEF OnFile
<1>3. /\ \A e, f \in OnFile' : e = f
      /\ file'.exists /\ OnFile' = {} => Clean'
      /\ \A e \in OnFile' : DiskInv(e)'
  BY <1>1, <1>2
<1> QED
  BY <1>3 DEF FileInv

(* A step of the cache that has the file open. *)
LEMMA FileAlone ==
  ASSUME FileInv, NEW c \in Caches, mem[c].open # "no", Others(c), ~disturbed' => ~disturbed,
         ~disturbed' /\ DiskInv(c) => IF mem'[c].open = "no" THEN Clean' ELSE DiskInv(c)'
  PROVE  FileInv'
<1>1. ASSUME ~disturbed'  PROVE DiskInv(c) /\ \A e \in OnFile' : e = c
  <2>1. c \in OnFile /\ ~disturbed
    BY <1>1 DEF OnFile
  <2>2. DiskInv(c) /\ \A e \in OnFile : e = c
    BY <2>1 DEF FileInv
  <2>3. ASSUME NEW e \in OnFile', e # c  PROVE FALSE
    <3>1. e \in Caches /\ mem'[e] = mem[e] /\ mem'[e].open # "no"
      BY <2>3 DEF OnFile, Others
    <3>2. e \in OnFile
      BY <3>1 DEF OnFile
    <3> QED
      BY <2>2, <2>3, <3>2
  <2> QED
    BY <2>2, <2>3
<1>2. /\ ~disturbed' => \A e \in OnFile' : e = c
      /\ ~disturbed' => IF mem'[c].open = "no" THEN Clean' ELSE DiskInv(c)'
  BY <1>1
<1> QED
  BY <1>2, FileOnly

LEMMA FileStart ==
  ASSUME BaseInv, FileInv, NEW c \in Caches, NEW b \in Builds,
         \/ \E m \in DiskModes : InitOnDisk(c, m, b) \/ InitOpenFails(c, m, b)
         \/ \E s \in BOOLEAN : InitRuntime(c, b, s)
         \/ InitPast(c, b)
  PROVE  FileInv'
<1>1. TypeInv /\ PlaceInv(c)
  BY DEF BaseInv
<1>2. mem[c].pc = "off"
  BY DEF InitOnDisk, InitOpenFails, InitRuntime, InitPast
<1>3. mem[c].open = "no"
  BY <1>1, <1>2, OffFields DEF PlaceInv
<1>4. ASSUME NEW m \in DiskModes, InitOnDisk(c, m, b)  PROVE FileInv'
  <2>1. /\ Others(c) /\ mem'[c].mode = m
        /\ mem'[c].pc = (IF file.exists THEN "readHeader" ELSE "resetFile")
        /\ mem'[c].open # "no" /\ (mem'[c].open = "rw" \/ m = "OnDiskReadOnly")
        /\ SameData /\ SameHeader
    BY <1>1, <1>4, InitOnDiskEffect
  <2>2. stored' = stored /\ (~disturbed' => ~disturbed /\ OnFile = {})
    BY <1>4 DEF InitOnDisk
  <2>3. ASSUME ~disturbed'  PROVE DiskInv(c)' /\ \A e \in OnFile' : e = c
    <3>1. ~disturbed /\ \A e \in Caches : mem[e].open = "no"
      BY <2>2, <2>3 DEF OnFile
    <3>2. \A e \in OnFile' : e = c
      BY <2>1, <3>1 DEF OnFile, Others
    <3>3. file.exists => Clean'
      <4>1. file.exists => Clean
        BY <2>2, <2>3 DEF FileInv
      <4> QED
        BY <2>1, <2>2, <4>1, CleanSame
    <3>4. DiskInv(c)'
      BY <2>1, <3>3 DEF DiskInv, Writing
    <3> QED
      BY <3>2, <3>4
  <2> QED
    BY <2>1, <2>3, FileOnly
<1>5. ASSUME NEW m \in DiskModes, InitOpenFails(c, m, b)  PROVE FileInv'
  <2>1. Others(c) /\ mem'[c].open = "no"
    BY <1>1, <1>5, InitOpenFailsEffect
  <2>2. file' = file /\ stored' = stored /\ disturbed' = disturbed
    BY <1>5 DEF InitOpenFails
  <2> QED
    BY <1>3, <2>1, <2>2, FileAway
<1>6. ASSUME NEW s \in BOOLEAN, InitRuntime(c, b, s)  PROVE FileInv'
  <2>1. Others(c) /\ mem'[c].open = "no"
    BY <1>1, <1>6, InitRuntimeEffect
  <2>2. file' = file /\ stored' = stored /\ disturbed' = disturbed
    BY <1>6 DEF InitRuntime
  <2> QED
    BY <1>3, <2>1, <2>2, FileAway
<1>7. CASE InitPast(c, b)
  <2>1. Others(c) /\ mem'[c].open = "no"
    BY <1>1, <1>3, <1>7, InitPastEffect
  <2>2. file' = file /\ stored' = stored /\ disturbed' = disturbed
    BY <1>7 DEF InitPast
  <2> QED
    BY <1>3, <2>1, <2>2, FileAway
<1> QED
  BY <1>4, <1>5, <1>6, <1>7

LEMMA FileLoad ==
  ASSUME BaseInv, FileInv, NEW c \in Caches,
         ReadHeader(c) \/ ReadData(c) \/ ReadPast(c) \/ ReadDataFails(c) \/ ResetFile(c)
  PROVE  FileInv'
<1>1. TypeInv /\ PlaceInv(c)
  BY DEF BaseInv
<1>2. mem[c].pc \in {"readHeader", "readData", "resetFile"}
  BY DEF ReadHeader, ReadData, ReadPast, ReadDataFails, ResetFile
<1>3. mem[c].open # "no" /\ ~mem[c].pending
  BY <1>1, <1>2 DEF PlaceInv
<1>4. CASE ReadHeader(c)
  <2>1. /\ Others(c) /\ SameCache(c) /\ mem[c].pc = "readHeader" /\ mem'[c].open = mem[c].open
        /\ \/ file.short
           \/ /\ mem'[c].pc = "readData"
              /\ mem'[c].hdr = [build |-> file.build, count |-> file.count, end |-> file.end]
    BY <1>1, <1>4, ReadHeaderEffect
  <2>2. file' = file /\ stored' = stored /\ disturbed' = disturbed
    BY <1>4 DEF ReadHeader
  <2>3. ASSUME DiskInv(c)  PROVE DiskInv(c)'
    <3>1. Clean /\ ~file.short /\ (mem[c].open = "rw" \/ mem[c].mode = "OnDiskReadOnly")
      BY <2>1, <2>3 DEF DiskInv, Clean, Holds
    <3>2. Clean'
      BY <2>2, <3>1, CleanSame DEF SameData, SameHeader
    <3> QED
      BY <2>1, <2>2, <3>1, <3>2 DEF DiskInv, Writing, SameCache
  <2> QED
    BY <1>3, <2>1, <2>2, <2>3, FileAlone
<1>5. CASE ReadData(c)
  <2>1. /\ Others(c) /\ SameCache(c) /\ mem[c].pc = "readData" /\ mem'[c].pc = "run"
        /\ mem'[c].totalShaders = mem[c].hdr.count /\ mem'[c].shaderDataEnd = mem[c].hdr.end
        /\ mem'[c].entry = IndexMap(file.data, mem[c].hdr.count)
        /\ mem'[c].open = (IF mem[c].mode = "OnDiskReadOnly" THEN "no" ELSE mem[c].open)
        /\ mem'[c].pending = mem[c].pending
    BY <1>1, <1>5, ReadDataEffect
  <2>2. file' = file /\ stored' = stored /\ disturbed' = disturbed
    BY <1>5 DEF ReadData
  <2>3. ASSUME DiskInv(c)  PROVE IF mem'[c].open = "no" THEN Clean' ELSE DiskInv(c)'
    <3>1. /\ Clean /\ (mem[c].open = "rw" \/ mem[c].mode = "OnDiskReadOnly")
          /\ mem[c].hdr = [build |-> file.build, count |-> file.count, end |-> file.end]
      BY <2>1, <2>3 DEF DiskInv
    <3>2. Clean'
      BY <2>2, <3>1, CleanSame DEF SameData, SameHeader
    <3>3. /\ mem'[c].totalShaders = file'.count /\ mem'[c].shaderDataEnd = file'.end
          /\ mem'[c].entry = stored'
      BY <2>1, <2>2, <3>1 DEF Clean, Holds
    <3>4. mem'[c].open # "no" => mem'[c].open = "rw"
      BY <2>1, <3>1
    <3>5. mem'[c].open # "no" => DiskInv(c)'
      BY <1>3, <2>1, <3>2, <3>3, <3>4 DEF DiskInv, Writing
    <3> QED
      BY <3>2, <3>5
  <2> QED
    BY <1>3, <2>1, <2>2, <2>3, FileAlone
<1>6. CASE ReadDataFails(c)
  <2>1. Others(c) /\ mem'[c].pc = "resetFile" /\ mem'[c].open = mem[c].open
    BY <1>1, <1>6, ReadDataFailsEffect
  <2>2. disturbed' = disturbed
    BY <1>6 DEF ReadDataFails
  <2>3. DiskInv(c)'
    BY <2>1 DEF DiskInv, Writing
  <2> QED
    BY <1>3, <2>1, <2>2, <2>3, FileAlone
<1>7. CASE ResetFile(c)
  <2>1. /\ Others(c) /\ NoShaders(c) /\ mem'[c].pc = "run" /\ mem'[c].open = "rw" /\ mem'[c].pending
        /\ file' = Truncated /\ stored' = NoEntries
    BY <1>1, <1>7, ResetFileEffect
  <2>2. disturbed' = (OnFile # {c})
    BY <1>7 DEF ResetFile
  <2>3. ~disturbed' => \A e \in OnFile' : e = c
    <3>1. ASSUME NEW e \in OnFile', e # c, OnFile = {c}  PROVE FALSE
      BY <2>1, <3>1 DEF OnFile, Others
    <3> QED
      BY <2>2, <3>1
  <2>4. DiskInv(c)'
    BY <2>1, ImageTypes DEF DiskInv, Writing, NoShaders
  <2> QED
    BY <2>1, <2>3, <2>4, FileOnly
<1>8. CASE ReadPast(c)
  <2>1. Others(c) /\ mem[c].pc = "readData" /\ ~Populates(file.data, mem[c].hdr.count)
    BY <1>1, <1>8, ReadPastEffect
  <2>2. disturbed' = disturbed
    BY <1>8 DEF ReadPast
  <2>3. ~DiskInv(c)
    BY <2>1 DEF DiskInv, Clean, Holds, Parsed
  <2> QED
    BY <1>3, <2>1, <2>2, <2>3, FileAlone
<1> QED
  BY <1>4, <1>5, <1>6, <1>7, <1>8

LEMMA FileWrite ==
  ASSUME BaseInv, FileInv, NEW c \in Caches,
         WriteCount(c) \/ WriteData(c) \/ WriteEnd(c) \/ WriteFails(c) \/ WriteLost(c)
  PROVE  FileInv'
<1>1. TypeInv /\ PlaceInv(c)
  BY DEF BaseInv
<1>2. mem[c].pc \in Writing
  BY DEF WriteCount, WriteData, WriteEnd, WriteFails, WriteLost, Writing
<1>3. mem[c].open # "no" /\ ~mem[c].pending /\ mem[c].key \in Keys
  BY <1>1, <1>2 DEF PlaceInv, Writing
<1>4. file.data \in Seq(Cells) /\ file.count \in Nat /\ stored \in [Keys -> Builds \cup {NoBuild}]
  BY <1>1 DEF TypeInv, Images
<1>5. CASE WriteCount(c)
  <2>1. /\ Others(c) /\ SameCache(c) /\ SameShaders(c) /\ mem[c].pc = "writeCount" /\ mem[c].open = "rw"
        /\ mem'[c].pc = "writeData" /\ mem'[c].open = mem[c].open /\ mem'[c].key = mem[c].key
        /\ SameData /\ file'.end = file.end /\ file'.count = mem[c].totalShaders
    BY <1>1, <1>5, WriteCountEffect
  <2>2. stored' = stored /\ disturbed' = disturbed
    BY <1>5 DEF WriteCount
  <2>3. ASSUME DiskInv(c)  PROVE DiskInv(c)'
    <3>1. /\ Clean /\ mem[c].totalShaders = file.count + 1 /\ mem[c].shaderDataEnd = file.end
          /\ mem[c].entry = [stored EXCEPT ![mem[c].key] = mem[c].build] /\ stored[mem[c].key] = NoBuild
      BY <2>1, <2>3 DEF DiskInv, Writing
    <3>2. file'.count \in Nat \ {0} /\ file'.count - 1 = file.count
      BY <1>4, <2>1, <3>1
    <3>3. file'.end = Len(file'.data) /\ Holds(file.count - 1, stored)'
      BY <2>1, <2>2, <3>1, <3>2 DEF Clean, Holds, SameData, Parsed, Populates
    <3>4. mem'[c].totalShaders = file'.count /\ mem'[c].shaderDataEnd = file'.end
      BY <2>1, <3>1 DEF SameShaders
    <3>5. /\ mem'[c].entry = [stored' EXCEPT ![mem'[c].key] = mem'[c].build]
          /\ stored'[mem'[c].key] = NoBuild
      BY <2>1, <2>2, <3>1 DEF SameShaders, SameCache
    <3> QED
      BY <2>1, <3>2, <3>3, <3>4, <3>5 DEF DiskInv
  <2> QED
    BY <1>3, <2>1, <2>2, <2>3, FileAlone
<1>6. CASE WriteData(c)
  <2>1. /\ Others(c) /\ SameCache(c) /\ mem[c].pc = "writeData" /\ mem[c].build \in Builds
        /\ mem'[c].pc = "writeEnd" /\ mem'[c].open = mem[c].open
        /\ mem'[c].key = mem[c].key /\ mem'[c].entry = mem[c].entry
        /\ mem'[c].totalShaders = mem[c].totalShaders
        /\ mem'[c].shaderDataEnd = mem[c].shaderDataEnd + Size[mem[c].key]
        /\ ~file'.short /\ SameHeader
        /\ file'.data = Overwrite(file.data, mem[c].shaderDataEnd, Record(mem[c].build, mem[c].key))
    BY <1>1, <1>6, WriteDataEffect
  <2>2. stored' = stored /\ disturbed' = disturbed
    BY <1>6 DEF WriteData
  <2>3. ASSUME DiskInv(c)  PROVE DiskInv(c)'
    <3>1. /\ file.end = Len(file.data) /\ file.count \in Nat \ {0} /\ Holds(file.count - 1, stored)
          /\ mem[c].totalShaders = file.count /\ mem[c].shaderDataEnd = file.end
          /\ mem[c].entry = [stored EXCEPT ![mem[c].key] = mem[c].build] /\ stored[mem[c].key] = NoBuild
      BY <2>1, <2>3 DEF DiskInv, Writing
    <3> DEFINE n == file.count - 1
               r == Record(mem[c].build, mem[c].key)
               e == file.data \o r
    <3>2. n \in Nat /\ n + 1 = file.count
      BY <3>1
    <3>3. Parsed(file.data, n) /\ IndexMap(file.data, n) = stored
      BY <3>1 DEF Holds
    <3>4. r \in Seq(Cells) /\ Len(r) = Size[mem[c].key] /\ Size[mem[c].key] \in Nat
      BY <1>3, <2>1, RecordFacts
    <3>5. file'.data = e
      <4>1. Overwrite(file.data, Len(file.data), r) = e
        <5> HIDE DEF r
        <5>1. Len(file.data) \in Nat
          BY <1>4
        <5> QED
          BY <1>4, <3>4, <5>1, OverwriteFacts
      <4> QED
        BY <2>1, <3>1, <4>1
    <3> HIDE DEF n
    <3>6. Parsed(e, n + 1) /\ IndexMap(e, n + 1) = [stored EXCEPT ![mem[c].key] = mem[c].build]
      <4> DEFINE d == file.data
                 b == mem[c].build
                 k == mem[c].key
      <4>1. d \in Seq(Cells) /\ b \in Builds /\ k \in Keys
        BY <1>3, <1>4, <2>1
      <4>2. Parsed(d, n) /\ IndexMap(d, n) = stored /\ IndexMap(d, n)[k] = NoBuild
        BY <3>1, <3>3
      <4> HIDE DEF d, b, k
      <4>3. IndexMap(d \o Record(b, k), n + 1) = [IndexMap(d, n) EXCEPT ![k] = b]
        BY <3>2, <4>1, <4>2, IndexAppend
      <4>4. Parsed(d \o Record(b, k), n + 1)
        BY <3>2, <4>1, <4>2, ParsedAppend
      <4> QED
        BY <4>2, <4>3, <4>4 DEF d, b, k
    <3>7. Len(e) = Len(file.data) + Size[mem[c].key]
      <4> HIDE DEF r
      <4> DEFINE d == file.data
      <4>1. d \in Seq(Cells) /\ r \in Seq(Cells)
        BY <1>4, <3>4
      <4> HIDE DEF d, e
      <4>2. Len(d \o r) = Len(d) + Len(r)
        BY <4>1, ConcatProperties
      <4> QED
        BY <3>4, <4>2 DEF d, e
    <3> HIDE DEF e, r
    <3>8. mem'[c].shaderDataEnd = Len(file'.data)
      BY <2>1, <3>1, <3>5, <3>7
    <3>9. Holds(file.count, mem[c].entry)'
      <4>1. file'.count = n + 1 /\ mem'[c].entry = IndexMap(e, n + 1)
        BY <2>1, <3>1, <3>2, <3>6 DEF SameHeader
      <4>2. Parsed(file'.data, file'.count) /\ IndexMap(file'.data, file'.count) = mem'[c].entry
        BY <3>5, <3>6, <4>1
      <4> QED
        BY <2>1, <4>2 DEF Holds, Parsed, Populates
    <3>10. mem'[c].totalShaders = file'.count
      BY <2>1, <3>1 DEF SameHeader
    <3>11. /\ mem'[c].entry = [stored' EXCEPT ![mem'[c].key] = mem'[c].build]
           /\ stored'[mem'[c].key] = NoBuild
      BY <2>1, <2>2, <3>1 DEF SameCache
    <3> QED
      BY <2>1, <3>8, <3>9, <3>10, <3>11 DEF DiskInv
  <2> QED
    BY <1>3, <2>1, <2>2, <2>3, FileAlone
<1>7. CASE WriteEnd(c)
  <2>1. /\ Others(c) /\ SameCache(c) /\ SameShaders(c) /\ mem[c].pc = "writeEnd" /\ mem'[c].pc = "run"
        /\ mem'[c].open = mem[c].open /\ mem'[c].pending = mem[c].pending
        /\ ~file'.short /\ file'.data = file.data /\ file'.count = file.count
        /\ file'.end = mem[c].shaderDataEnd
        /\ stored' = [stored EXCEPT ![mem[c].key] = mem[c].build]
    BY <1>1, <1>7, WriteEndEffect
  <2>2. disturbed' = disturbed /\ mem[c].open = "rw"
    BY <1>1, <1>7, <2>1 DEF WriteEnd, PlaceInv, Writing
  <2>3. ASSUME DiskInv(c)  PROVE DiskInv(c)'
    <3>1. /\ Holds(file.count, mem[c].entry) /\ mem[c].shaderDataEnd = Len(file.data)
          /\ mem[c].totalShaders = file.count
          /\ mem[c].entry = [stored EXCEPT ![mem[c].key] = mem[c].build]
      BY <2>1, <2>3 DEF DiskInv, Writing
    <3>2. mem'[c].entry = stored' /\ mem[c].entry = stored'
      BY <2>1, <3>1 DEF SameShaders
    <3>3. Clean'
      BY <2>1, <3>1, <3>2 DEF Clean, Holds, Parsed, Populates
    <3>4. mem'[c].totalShaders = file'.count /\ mem'[c].shaderDataEnd = file'.end
      BY <2>1, <3>1 DEF SameShaders
    <3> QED
      BY <1>3, <2>1, <2>2, <3>2, <3>3, <3>4 DEF DiskInv, Writing
  <2> QED
    BY <1>3, <2>1, <2>2, <2>3, FileAlone
<1>8. CASE WriteFails(c) \/ WriteLost(c)
  <2>1. disturbed'
    BY <1>8 DEF WriteFails, WriteLost
  <2> QED
    BY <2>1 DEF FileInv
<1> QED
  BY <1>5, <1>6, <1>7, <1>8

LEMMA FileUse ==
  ASSUME BaseInv, FileInv, NEW c \in Caches,
         \/ \E k \in Keys : InsertShader(c, k) \/ ExternalHit(c, k) \/ ResetShader(c, k)
         \/ \E d \in Caches : Merge(c, d)
         \/ Serialize(c)
  PROVE  FileInv'
<1>1. TypeInv /\ PlaceInv(c)
  BY DEF BaseInv
<1>2. stored' = stored /\ disturbed' = disturbed
  BY DEF InsertShader, ExternalHit, ResetShader, Merge, Serialize
<1>3. ASSUME NEW k \in Keys, InsertShader(c, k)  PROVE FileInv'
  <2>1. /\ Others(c) /\ SameCache(c) /\ mem[c].pc = "run" /\ mem'[c].open = mem[c].open
        /\ mem[c].entry[k] \in {NoBuild, Failed}
        /\ mem'[c].totalShaders = mem[c].totalShaders + 1
        /\ mem'[c].shaderDataEnd = mem[c].shaderDataEnd
        /\ mem'[c].entry = [mem[c].entry EXCEPT ![k] = mem[c].build]
        /\ file'.data = file.data
        /\ mem[c].open = "no" => file' = file
        /\ mem[c].open # "no" => mem'[c].pc = "writeCount" /\ mem'[c].key = k
        /\ ~mem[c].pending => file' = file
        /\ mem[c].open # "no" /\ mem[c].pending => ~file'.short /\ file'.count = 0 /\ file'.end = 0
    BY <1>1, <1>3, InsertShaderEffect
  <2>2. CASE mem[c].open = "no"
    BY <1>2, <2>1, <2>2, FileAway
  <2>3. CASE mem[c].open # "no"
    <3>1. ASSUME DiskInv(c)  PROVE DiskInv(c)'
      <4>1. mem[c].entry = stored /\ mem[c].open = "rw" /\ mem[c].shaderDataEnd = file.end
        BY <2>1, <3>1 DEF DiskInv
      <4>2. stored[k] = NoBuild
        <5>1. stored[k] \in Builds \cup {NoBuild}
          BY <1>1 DEF TypeInv
        <5> QED
          BY <2>1, <4>1, <5>1, NoBuildAssumption
      <4>3. Clean' /\ mem'[c].totalShaders = file'.count + 1 /\ mem'[c].shaderDataEnd = file'.end
        <5>1. CASE mem[c].pending
          <6>1. file = Truncated /\ mem[c].totalShaders = 0 /\ mem[c].shaderDataEnd = 0 /\ stored = NoEntries
            BY <2>1, <3>1, <5>1 DEF DiskInv
          <6>2. file'.data = <<>>
            BY <2>1, <6>1, ImageTypes
          <6>3. Clean'
            BY <1>2, <2>1, <2>3, <5>1, <6>1, <6>2, CleanReset
          <6> QED
            BY <2>1, <2>3, <5>1, <6>1, <6>3
        <5>2. CASE ~mem[c].pending
          <6>1. Clean /\ mem[c].totalShaders = file.count /\ file' = file
            BY <2>1, <3>1, <5>2 DEF DiskInv
          <6>2. Clean'
            BY <1>2, <6>1, CleanSame DEF SameData, SameHeader
          <6> QED
            BY <2>1, <4>1, <6>1, <6>2
        <5> QED
          BY <5>1, <5>2
      <4>4. /\ mem'[c].entry = [stored' EXCEPT ![mem'[c].key] = mem'[c].build]
            /\ stored'[mem'[c].key] = NoBuild
        BY <1>2, <2>1, <2>3, <4>1, <4>2 DEF SameCache
      <4> QED
        BY <2>1, <2>3, <4>1, <4>3, <4>4 DEF DiskInv
    <3> QED
      BY <1>2, <2>1, <2>3, <3>1, FileAlone
  <2> QED
    BY <2>2, <2>3
<1>4. ASSUME NEW k \in Keys, ExternalHit(c, k) \/ ResetShader(c, k)  PROVE FileInv'
  <2>1. Others(c) /\ ~onDisk /\ mem[c].pc = "run" /\ mem'[c].open = mem[c].open /\ file' = file
    BY <1>1, <1>4, ExternalHitEffect, ResetShaderEffect
  <2>2. mem[c].open = "no"
    BY <1>1, <2>1 DEF PlaceInv
  <2> QED
    BY <1>2, <2>1, <2>2, FileAway
<1>5. ASSUME NEW d \in Caches, Merge(c, d)  PROVE FileInv'
  <2>1. Others(c) /\ ~onDisk /\ mem[c].pc = "run" /\ mem'[c].open = mem[c].open /\ file' = file
    BY <1>1, <1>5, MergeEffect
  <2>2. mem[c].open = "no"
    BY <1>1, <2>1 DEF PlaceInv
  <2> QED
    BY <1>2, <2>1, <2>2, FileAway
<1>6. CASE Serialize(c)
  <2>1. mem' = mem /\ file' = file
    BY <1>1, <1>6, SerializeEffect
  <2> QED
    BY SMTT(40), <1>2, <2>1 DEF FileInv, DiskInv, OnFile, Clean, Holds, Parsed, Populates
<1> QED
  BY <1>3, <1>4, <1>5, <1>6

LEMMA FileEnd ==
  ASSUME BaseInv, FileInv, NEW c \in Caches, Destroy(c) \/ Crash(c)
  PROVE  FileInv'
<1>1. TypeInv /\ PlaceInv(c)
  BY DEF BaseInv
<1>2. Others(c) /\ mem'[c].open = "no" /\ stored' = stored
  BY <1>1, DestroyEffect, CrashEffect, OffFields DEF Destroy, Crash
<1>3. CASE Destroy(c)
  <2>1. /\ mem[c].pc = "run" /\ file'.data = file.data
        /\ ~mem[c].pending => file' = file
        /\ mem[c].pending => ~file'.short /\ file'.count = 0 /\ file'.end = 0
    BY <1>1, <1>3, DestroyEffect
  <2>2. disturbed' = disturbed
    BY <1>3 DEF Destroy
  <2>3. CASE mem[c].open = "no"
    <3>1. file' = file
      BY <1>1, <2>1, <2>3 DEF PlaceInv
    <3> QED
      BY <1>2, <2>2, <2>3, <3>1, FileAway
  <2>4. CASE mem[c].open # "no"
    <3>1. ASSUME DiskInv(c)  PROVE Clean'
      <4>1. CASE mem[c].pending
        <5>1. file = Truncated /\ stored = NoEntries
          BY <2>1, <3>1, <4>1 DEF DiskInv
        <5> QED
          BY <1>2, <2>1, <4>1, <5>1, ImageTypes, CleanReset
      <4>2. CASE ~mem[c].pending
        <5>1. Clean /\ file' = file
          BY <2>1, <3>1, <4>2 DEF DiskInv
        <5> QED
          BY <1>2, <5>1, CleanSame DEF SameData, SameHeader
      <4> QED
        BY <4>1, <4>2
    <3> QED
      BY <1>2, <2>2, <2>4, <3>1, FileAlone
  <2> QED
    BY <2>3, <2>4
<1>4. CASE Crash(c)
  <2>1. /\ file' = file /\ mem[c].pc # "off"
        /\ ~disturbed' => ~disturbed /\ ~mem[c].pending /\ mem[c].pc \in {"run", "readHeader", "readData"}
    BY <1>1, <1>4, CrashEffect
  <2>2. CASE mem[c].open = "no"
    <3>1. disturbed' = disturbed
      BY <1>1, <1>4, <2>1, <2>2 DEF Crash, PlaceInv, TypeInv
    <3> QED
      BY <1>2, <2>1, <2>2, <3>1, FileAway
  <2>3. CASE mem[c].open # "no"
    <3>1. ASSUME DiskInv(c), ~disturbed'  PROVE Clean'
      <4>1. Clean
        BY <2>1, <3>1 DEF DiskInv
      <4> QED
        BY <1>2, <2>1, <4>1, CleanSame DEF SameData, SameHeader
    <3> QED
      BY <1>2, <2>1, <2>3, <3>1, FileAlone
  <2> QED
    BY <2>2, <2>3
<1> QED
  BY <1>3, <1>4

LEMMA FileNext ==
  ASSUME BaseInv, FileInv, [Next]_vars
  PROVE  FileInv'
<1>1. CASE Next
  <2>1. PICK c \in Caches : Step(c)
    BY <1>1 DEF Next
  <2> QED
    BY <2>1, FileStart, FileLoad, FileWrite, FileUse, FileEnd DEF Step
<1>2. CASE UNCHANGED vars
  BY <1>2 DEF vars, FileInv, DiskInv, OnFile, Clean, Holds, Parsed, Populates
<1> QED
  BY <1>1, <1>2

(* What addShaderToFile added is what the next cache finds, no more and no    *)
(* less, for any number of insertions, restarts and crashes between them, as  *)
(* long as one cache at a time has the file open and no write goes wrong.     *)
THEOREM FileDurable == Spec => []Durable
<1>1. BaseInv /\ FileInv => Durable
  <2> SUFFICES ASSUME BaseInv, FileInv, file.exists, ~disturbed, Settled
               PROVE  /\ ~file.short /\ file.end = Len(file.data)
                      /\ Populates(file.data, file.count) /\ IndexMap(file.data, file.count) = stored
    BY DEF Durable
  <2>1. Clean
    <3>1. CASE OnFile = {}
      BY <3>1 DEF FileInv
    <3>2. ASSUME NEW c \in OnFile  PROVE Clean
      <4>1. DiskInv(c) /\ PlaceInv(c) /\ mem[c].open # "no" /\ c \in Caches
        BY <3>2 DEF FileInv, OnFile, BaseInv
      <4>2. ~mem[c].pending /\ mem[c].pc \in {"run", "readHeader", "readData"}
        BY <4>1 DEF Settled, PlaceInv
      <4> QED
        BY <4>1, <4>2 DEF DiskInv
    <3> QED
      BY <3>1, <3>2
  <2> QED
    BY <2>1 DEF Clean, Holds, Parsed
<1>2. BaseInv /\ FileInv /\ [Next]_vars => (BaseInv /\ FileInv)'
  BY BaseNext, FileNext
<1>3. Init => BaseInv /\ FileInv
  BY BaseInit, FileInit
<1> QED
  BY <1>1, <1>2, <1>3, PTL DEF Spec
==============================================================================
