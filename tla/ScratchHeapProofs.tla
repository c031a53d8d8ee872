------------------------- MODULE ScratchHeapProofs -------------------------
(***************************************************************************)
(* What the plugin's allocator promises, proved for any sizes, classes and *)
(* limits, any number of pointers, and memory that runs out or cannot be   *)
(* given back at any call.                                                 *)
(***************************************************************************)
EXTENDS ScratchHeap, FiniteSetTheorems, WellFoundedInduction, TLAPS

-----------------------------------------------------------------------------
(* Sizes and addresses.                                                    *)

\* What a division leaves is what the quotient does not account for.
LEMMA QuotientAndRest ==
  ASSUME NEW a \in Nat, NEW b \in Nat \ {0}
  PROVE  a \div b \in Nat /\ a = (a \div b) * b + (a % b) /\ a % b \in Nat /\ a % b < b
<1> DEFINE q == a \div b
<1>1. q \in Nat /\ a >= q * b /\ a < q * b + b
  OBVIOUS
<1> HIDE DEF q
<1> DEFINE r == a - q * b
<1>2. r \in Nat /\ r < b /\ a = q * b + r
  BY <1>1
<1> HIDE DEF r
<1>3. (q * b + r) % b = r
  BY <1>1, <1>2
<1>4. a % b = r
  BY <1>2, <1>3
<1> QED
  BY <1>1, <1>2, <1>4 DEF q

\* A multiple leaves nothing.
LEMMA Multiples ==
  ASSUME NEW k \in Nat, NEW b \in Nat \ {0}
  PROVE  (k * b) % b = 0 /\ (k * b) \div b = k
OBVIOUS

\* What divides a divisor divides.
LEMMA DividesOn ==
  ASSUME NEW a \in Nat, NEW b \in Nat \ {0}, NEW c \in Nat \ {0}, a % b = 0, b % c = 0
  PROVE  a % c = 0
<1> DEFINE p == a \div b
           q == b \div c
<1>1. p \in Nat /\ a = p * b /\ q \in Nat /\ b = q * c
  BY QuotientAndRest
<1> HIDE DEF p, q
<1>2. a = (p * q) * c
  BY <1>1
<1>3. p * q \in Nat
  BY <1>1
<1> QED
  BY <1>2, <1>3, Multiples

\* Rounding up reaches the next multiple, and keeps a multiple.
LEMMA RoundedUp ==
  ASSUME NEW n \in Nat, NEW to \in Nat \ {0}
  PROVE  /\ RoundUp(n, to) \in Nat /\ RoundUp(n, to) >= n /\ RoundUp(n, to) % to = 0
         /\ n % to = 0 => RoundUp(n, to) = n
<1> DEFINE a == n + to - 1
           q == a \div to
<1>1. a \in Nat /\ q \in Nat /\ a < q * to + to
  <2>1. a \in Nat
    OBVIOUS
  <2> HIDE DEF a
  <2> QED
    BY <2>1, QuotientAndRest
<1>2. RoundUp(n, to) = q * to
  BY DEF RoundUp
<1>3. q * to \in Nat /\ q * to >= n /\ (q * to) % to = 0
  <2> HIDE DEF q
  <2>1. (q * to) % to = 0
    BY <1>1, Multiples
  <2> QED
    BY <1>1, <2>1
<1>4. ASSUME n % to = 0
      PROVE  q * to = n
  <2> DEFINE k == n \div to
  <2>1. k \in Nat /\ n = k * to
    BY <1>4, QuotientAndRest
  <2> HIDE DEF k
  <2>2. to - 1 \in Nat /\ to - 1 < to
    OBVIOUS
  <2>3. (k * to + (to - 1)) \div to = k
    BY <2>1, <2>2
  <2>4. q = k
    BY <2>1, <2>3
  <2> HIDE DEF q
  <2> QED
    BY <2>1, <2>4
<1> QED
  BY <1>2, <1>3, <1>4

\* The numbers are well-ordered.
LEMMA LeastNumber ==
  ASSUME NEW T \in SUBSET Nat, T # {}
  PROVE  \E x \in T : \A y \in T : x <= y
<1>1. IsWellFoundedOn(OpToRel(<, Nat), Nat)
  BY NatLessThanWellFounded
<1>2. PICK x \in T : \A y \in T : ~(<<y, x>> \in OpToRel(<, Nat))
  BY <1>1, WFMin, Zenon
<1>3. \A y \in T : ~(y < x)
  BY <1>2 DEF OpToRel
<1> QED
  BY <1>3

\* A size that fits a class has a smallest class it fits.
LEMMA ClassOfIs ==
  ASSUME NEW n \in Sizes, InClass(n)
  PROVE  ClassOf(n) \in Classes /\ n <= ClassOf(n) /\ ClassOf(n) \in Nat \ {0}
<1> DEFINE fitting == {c \in Classes : n <= c}
<1>1. fitting \in SUBSET Nat /\ fitting # {}
  BY HeapAssumption DEF InClass
<1> HIDE DEF fitting
<1>2. PICK c \in fitting : \A d \in fitting : c <= d
  BY <1>1, LeastNumber
<1> USE DEF fitting
<1>3. \E x \in Classes : n <= x /\ \A d \in Classes : n <= d => x <= d
  BY <1>2
<1>4. ClassOf(n) \in Classes /\ n <= ClassOf(n)
  BY <1>3 DEF ClassOf
<1> QED
  BY <1>4, HeapAssumption

\* A page is aligned for every class.
LEMMA AlignmentIs ==
  ASSUME NEW c \in Classes
  PROVE  /\ Alignment(c) \in Nat \ {0}
         /\ \A a \in Nat : a % Page = 0 => a % Alignment(c) = 0
<1>1. c \in Nat \ {0} /\ Page \in Nat \ {0} /\ (c <= Page => Page % c = 0)
  BY HeapAssumption
<1>2. CASE c <= Page
  <2>1. Alignment(c) \in {c, Page} /\ (Alignment(c) = Page \/ Page % Alignment(c) = 0)
    BY <1>1, <1>2 DEF Alignment, Least
  <2> QED
    BY <1>1, <2>1, DividesOn
<1>3. CASE ~(c <= Page)
  BY <1>1, <1>3 DEF Alignment, Least
<1> QED
  BY <1>2, <1>3

\* A chunk has room for the block it is mapped for, and is as long as its mapping.
LEMMA ChunkSizeIs ==
  ASSUME NEW c \in Classes
  PROVE  ChunkSize(c) \in Nat \ {0} /\ c <= ChunkSize(c) /\ RoundUp(ChunkSize(c), Page) = ChunkSize(c)
<1>1. /\ c \in Nat \ {0} /\ Page \in Nat \ {0}
      /\ FirstChunk \in Nat \ {0} /\ Chunk \in Nat \ {0}
      /\ FirstChunk % Page = 0 /\ Chunk % Page = 0
  BY HeapAssumption
<1>2. RoundUp(c, Page) \in Nat /\ RoundUp(c, Page) >= c /\ RoundUp(c, Page) % Page = 0
  BY <1>1, RoundedUp
<1>3. /\ ChunkSize(c) \in {FirstChunk, Chunk, RoundUp(c, Page)}
      /\ ChunkSize(c) >= RoundUp(c, Page)
  BY <1>1, <1>2 DEF ChunkSize
<1>4. ChunkSize(c) \in Nat \ {0} /\ ChunkSize(c) % Page = 0
  BY <1>1, <1>2, <1>3
<1> QED
  BY <1>1, <1>2, <1>3, <1>4, RoundedUp

\* Every block takes up some memory, and at least what was asked for.
LEMMA SpanIs ==
  ASSUME NEW n \in Sizes
  PROVE  Span(n) \in Nat \ {0} /\ (~InClass(n) => Span(n) >= Page) /\ RoundUp(n, Page) \in Nat \ {0}
<1>1. n \in Nat \ {0} /\ Page \in Nat \ {0}
  BY HeapAssumption
<1>2. RoundUp(n, Page) \in Nat \ {0} /\ RoundUp(n, Page) % Page = 0
  BY <1>1, RoundedUp
<1>3. RoundUp(n, Page) >= Page
  <2> DEFINE r == RoundUp(n, Page)
             q == r \div Page
  <2>1. q \in Nat /\ r = q * Page /\ r # 0
    BY <1>1, <1>2, QuotientAndRest
  <2> HIDE DEF q
  <2>2. q # 0
    BY <1>1, <2>1
  <2>3. q * Page >= Page
    BY <1>1, <2>1, <2>2
  <2> QED
    BY <2>1, <2>3
<1> QED
  BY <1>2, <1>3, ClassOfIs DEF Span

-----------------------------------------------------------------------------
(* The inductive invariant.                                                *)

\* What a pointer points to, and what its realloc has still to free.
Tags == {"block", "old"} \X Handles
Held == [t \in Tags |-> IF t[1] = "block" THEN block[t[2]] ELSE old[t[2]]]

\* The table's mappings are pages of the region, and no two overlap.
SoundMappings(ms) ==
  /\ IsFiniteSet(ms) /\ Cardinality(ms) <= MaxMappings
  /\ \A m \in ms : /\ m.base \in Region /\ m.base % Page = 0 /\ m.size \in Nat \ {0}
                   /\ Units(m.base, m.size) \subseteq Region
  /\ \A m, n \in ms : m # n => Units(m.base, m.size) \cap Units(n.base, n.size) = {}

MappingsInv == SoundMappings(mappings)

\* Each chunk has a mapping, and no two the same.
ChunkMap(i) == [base |-> chunks[i].base, size |-> chunks[i].size]
ChunksInv ==
  /\ \A i \in Slots : Mapped(i) => ChunkMap(i) \in mappings
  /\ \A i, j \in Slots : Mapped(i) /\ Mapped(j) /\ i # j => chunks[i].base # chunks[j].base

\* n units at a lie in a chunk.
InAChunk(a, n) == \E i \in Slots : Mapped(i) /\ Units(a, n) \subseteq Units(chunks[i].base, chunks[i].size)

\* A block of a class lies in a chunk, another one has a mapping that is no chunk.
MapOf(b) == [base |-> b.at, size |-> RoundUp(b.size, Page)]
InsideAChunk(b) == InAChunk(b.at, ClassOf(b.size)) /\ b.at % Alignment(ClassOf(b.size)) = 0
OnItsOwn(b) == MapOf(b) \in mappings /\ \A i \in Slots : chunks[i].base # b.at
Backed(b) == IF InClass(b.size) THEN InsideAChunk(b) ELSE OnItsOwn(b)

HeldInv == \A t \in Tags : Held[t] # NoBlock /\ Held[t].at # 0 => Backed(Held[t])
FreeInv == \A c \in Classes : \A a \in free[c] : InAChunk(a, c) /\ a % Alignment(c) = 0

\* The unused part is the end of a chunk.
RestInv ==
  IF cursor = 0 THEN end = 0
  ELSE \E i \in Slots : Mapped(i) /\ chunks[i].base <= cursor /\ end = chunks[i].base + chunks[i].size

\* A chunk counts the blocks in it that somebody holds.
Lives(i, b) == b # NoBlock /\ InChunk(i, b.at)
Holders(i) == {t \in Tags : Lives(i, Held[t])}
LiveInv == \A i \in Slots : Mapped(i) => chunks[i].live = Cardinality(Holders(i))

\* What a thread is about to do goes with what it holds.
ControlInv ==
  \A h \in Handles :
    /\ pc[h] \in {"heap", "map", "move"} => block[h] = NoBlock /\ want[h] \in Sizes
    /\ pc[h] = "heap" => InClass(want[h])
    /\ pc[h] = "map" => ~InClass(want[h])
    /\ pc[h] = "idle" => old[h] = NoBlock
    /\ pc[h] \in {"move", "free"} => old[h] # NoBlock

Sound == TypeOK /\ MappingsInv /\ ChunksInv /\ HeldInv /\ FreeInv /\ RestInv /\ LiveInv /\ ControlInv

-----------------------------------------------------------------------------
(* Mappings and chunks.                                                    *)

\* What is asked of the constants, where it is needed.
LEMMA Constants ==
  /\ Page \in Nat \ {0} /\ Sizes \subseteq Nat \ {0} /\ Classes \subseteq Nat \ {0}
  /\ Region \subseteq Nat \ {0} /\ MaxChunks \in Nat /\ MaxMappings \in Nat
  /\ \A b \in Blocks : b # NoBlock /\ b.at \in Nat /\ b.size \in Nat
<1>1. /\ Page \in Nat \ {0} /\ Sizes \subseteq Nat \ {0} /\ Classes \subseteq Nat \ {0}
      /\ Region \subseteq Nat \ {0} /\ MaxChunks \in Nat /\ MaxMappings \in Nat
  BY HeapAssumption
<1>2. Blocks \subseteq [at : Nat, size : Nat]
  <2>1. Region \cup {0} \subseteq Nat /\ Sizes \subseteq Nat
    BY <1>1
  <2> QED
    BY <2>1, Zenon DEF Blocks
<1>3. \A b \in Blocks : b \in [at : Nat, size : Nat] /\ b # NoBlock
  BY <1>2, HeapAssumption
<1> QED
  BY <1>1, <1>3

\* Fewer mappings are still sound.
LEMMA FewerMappings ==
  ASSUME NEW ms, SoundMappings(ms), NEW some \in SUBSET ms
  PROVE  SoundMappings(some)
<1>1. IsFiniteSet(some) /\ Cardinality(some) <= Cardinality(ms) /\ Cardinality(some) \in Nat
      /\ Cardinality(ms) \in Nat
  BY FS_Subset, FS_CardinalityType DEF SoundMappings
<1> QED
  BY <1>1, Constants DEF SoundMappings

\* A new mapping touches none of the others.
LEMMA Mapping ==
  ASSUME MappingsInv, NEW a \in Region, NEW n \in Nat \ {0}, Map(a, n)
  PROVE  /\ RoundUp(n, Page) \in Nat \ {0} /\ a % Page = 0
         /\ mappings' = mappings \cup {[base |-> a, size |-> RoundUp(n, Page)]}
         /\ MappingsInv'
         /\ \A m \in mappings : Units(a, RoundUp(n, Page)) \cap Units(m.base, m.size) = {}
<1> DEFINE s == RoundUp(n, Page)
           new == [base |-> a, size |-> s]
<1>1. s \in Nat \ {0}
  BY Constants, RoundedUp
<1>2. /\ Cardinality(mappings) < MaxMappings
      /\ a % Page = 0 /\ mappings' = mappings \cup {new} /\ Units(a, RoundUp(s, Page)) \subseteq Region
      /\ \A m \in mappings : Units(a, RoundUp(s, Page)) \cap Units(m.base, m.size) = {}
  <2>1. RoundUp(s, Page) = s
    BY <1>1, Constants, RoundedUp
  <2> QED
    BY <2>1 DEF Map, Holes
<1>3. RoundUp(s, Page) = s
  BY Constants, RoundedUp
<1>4. IsFiniteSet(mappings') /\ Cardinality(mappings') <= MaxMappings
  <2>1. IsFiniteSet(mappings) /\ Cardinality(mappings) \in Nat
    BY FS_CardinalityType DEF MappingsInv, SoundMappings
  <2> HIDE DEF new
  <2>2. /\ IsFiniteSet(mappings \cup {new})
        /\ Cardinality(mappings \cup {new}) \in {Cardinality(mappings), Cardinality(mappings) + 1}
    BY <2>1, FS_AddElement
  <2> QED
    BY <1>2, <2>1, <2>2, Constants
<1> HIDE DEF s
<1>5. SoundMappings(mappings')
  BY <1>1, <1>2, <1>3, <1>4 DEF SoundMappings, MappingsInv
<1> QED
  BY <1>1, <1>2, <1>3, <1>5 DEF s, MappingsInv

\* No address lies in two chunks, and none in a chunk and in another mapping.
LEMMA ChunksApart ==
  ASSUME Sound, NEW i \in Slots, Mapped(i)
  PROVE  /\ chunks[i].base \in Region /\ chunks[i].size \in Nat \ {0} /\ ChunkMap(i) \in mappings
         /\ \A m \in mappings : m.base # chunks[i].base =>
              Units(m.base, m.size) \cap Units(chunks[i].base, chunks[i].size) = {}
<1>1. ChunkMap(i) \in mappings
  BY DEF Sound, ChunksInv
<1>2. chunks[i].base \in Region /\ chunks[i].size \in Nat \ {0}
  BY <1>1 DEF ChunkMap, Sound, MappingsInv, SoundMappings
<1>3. \A m \in mappings : m.base # chunks[i].base => m # ChunkMap(i)
  BY DEF ChunkMap
<1> QED
  BY <1>1, <1>2, <1>3 DEF ChunkMap, Sound, MappingsInv, SoundMappings

\* What lies in a chunk is not what has a mapping of its own.
LEMMA OwnIsNoChunk ==
  ASSUME Sound, NEW b \in Blocks, OnItsOwn(b)
  PROVE  /\ \A i \in Slots : ~InChunk(i, b.at)
         /\ b.at \in Region
<1>1. b.size \in Sizes /\ RoundUp(b.size, Page) \in Nat \ {0}
  BY SpanIs DEF Blocks
<1>2. MapOf(b) \in mappings /\ MapOf(b).base = b.at /\ MapOf(b).size = RoundUp(b.size, Page)
  BY DEF OnItsOwn, MapOf
<1>3. b.at \in Region /\ b.at \in Nat
  BY <1>2, Constants DEF Sound, MappingsInv, SoundMappings
<1>4. b.at \in Units(MapOf(b).base, MapOf(b).size)
  BY <1>1, <1>2, <1>3 DEF Units
<1>5. ASSUME NEW i \in Slots, InChunk(i, b.at)
      PROVE  FALSE
  <2>1. Mapped(i) /\ b.at \in Units(chunks[i].base, chunks[i].size)
    BY <1>5 DEF InChunk
  <2>2. chunks[i].base # b.at
    BY DEF OnItsOwn
  <2> QED
    BY <1>2, <1>4, <2>1, <2>2, ChunksApart
<1> QED
  BY <1>3, <1>5

\* No chunk has the address zero, nor that of a block outside.
LEMMA ZeroIsNoChunk ==
  ASSUME Sound, NEW i \in Slots
  PROVE  ~InChunk(i, 0)
<1> SUFFICES ASSUME InChunk(i, 0)
             PROVE  FALSE
  OBVIOUS
<1>1. Mapped(i) /\ 0 \in Units(chunks[i].base, chunks[i].size)
  BY DEF InChunk
<1>2. chunks[i].base \in Nat \ {0} /\ chunks[i].size \in Nat
  BY <1>1, ChunksApart, Constants
<1> QED
  BY <1>1, <1>2 DEF Units

\* A block in a chunk starts in one.
LEMMA StartsInAChunk ==
  ASSUME NEW a \in Nat, NEW n \in Nat \ {0}, InAChunk(a, n)
  PROVE  InHeap(a)
<1>1. a \in Units(a, n)
  BY DEF Units
<1> QED
  BY <1>1 DEF InAChunk, InHeap, InChunk

-----------------------------------------------------------------------------
(* What a step leaves as it was.                                           *)

\* No chunk comes, goes or moves; what it counts may change.
SameChunks ==
  \A i \in Slots : chunks'[i].base = chunks[i].base /\ chunks'[i].size = chunks[i].size

\* What lies in a chunk stays in it.
LEMMA SameChunksSame ==
  ASSUME SameChunks
  PROVE  /\ \A i \in Slots : Mapped(i)' <=> Mapped(i)
         /\ \A i \in Slots : \A a : InChunk(i, a)' <=> InChunk(i, a)
         /\ \A a, n : InAChunk(a, n)' <=> InAChunk(a, n)
<1>1. /\ \A i \in Slots : Mapped(i)' <=> Mapped(i)
      /\ \A i \in Slots : \A a : InChunk(i, a)' <=> InChunk(i, a)
  BY DEF SameChunks, Mapped, InChunk, Units
<1>2. \A a, n : InAChunk(a, n)' <=> InAChunk(a, n)
  BY <1>1 DEF SameChunks, InAChunk, Units
<1> QED
  BY <1>1, <1>2

\* With the chunks and at least the mappings there were, blocks stay backed.
LEMMA StaysBacked ==
  ASSUME SameChunks, ChunksInv, mappings \subseteq mappings'
  PROVE  ChunksInv' /\ \A b : Backed(b) => Backed(b)'
<1>1. ChunksInv'
  BY SameChunksSame DEF ChunksInv, ChunkMap, SameChunks
<1>2. ASSUME NEW b, Backed(b)
      PROVE  Backed(b)'
  <2>1. CASE InClass(b.size)
    <3>1. InAChunk(b.at, ClassOf(b.size))' /\ b.at % Alignment(ClassOf(b.size)) = 0
      BY <1>2, <2>1, SameChunksSame DEF Backed, InsideAChunk
    <3> QED
      BY <2>1, <3>1 DEF Backed, InsideAChunk
  <2>2. CASE ~InClass(b.size)
    BY <1>2, <2>2 DEF Backed, OnItsOwn, MapOf, SameChunks
  <2> QED
    BY <2>1, <2>2
<1> QED
  BY <1>1, <1>2

\* What handles hold, one tag at a time.
LEMMA HeldIs ==
  /\ \A h \in Handles : <<"block", h>> \in Tags /\ Held[<<"block", h>>] = block[h]
  /\ \A h \in Handles : <<"old", h>> \in Tags /\ Held[<<"old", h>>] = old[h]
  /\ \A t \in Tags : \E h \in Handles : t = <<"block", h>> \/ t = <<"old", h>>
  /\ \A h \in Handles : Held'[<<"block", h>>] = block'[h] /\ Held'[<<"old", h>>] = old'[h]
BY DEF Held, Tags

\* They are blocks or nothing.
LEMMA HeldType ==
  ASSUME TypeOK, NEW t \in Tags
  PROVE  Held[t] \in Blocks \cup {NoBlock}
BY DEF TypeOK, Held, Tags

\* The tags are finitely many, so are the blocks in a chunk.
LEMMA HoldersAreFinite ==
  ASSUME NEW some \in SUBSET Tags
  PROVE  IsFiniteSet(some)
<1>1. IsFiniteSet({"block", "old"})
  <2>1. IsFiniteSet({"block"})
    BY FS_Singleton
  <2>2. {"block"} \cup {"old"} = {"block", "old"}
    OBVIOUS
  <2> QED
    BY <2>1, <2>2, FS_AddElement
<1>2. IsFiniteSet(Handles)
  BY HeapAssumption
<1>3. IsFiniteSet(Tags)
  BY <1>1, <1>2, FS_Product DEF Tags
<1> QED
  BY <1>3, FS_Subset

\* The blocks in a chunk after a step that leaves the chunks.
LEMMA HoldersNext ==
  ASSUME SameChunks, NEW i \in Slots
  PROVE  Holders(i)' = {t \in Tags : Lives(i, Held'[t])}
<1>1. \A t \in Tags : Lives(i, Held[t])' <=> Lives(i, Held'[t])
  BY SameChunksSame DEF Lives
<1> QED
  BY <1>1 DEF Holders

\* A chunk's count stays true when the same tags hold blocks in it.
LEMMA LiveKept ==
  ASSUME LiveInv, SameChunks, \A i \in Slots : chunks'[i].live = chunks[i].live,
         \A i \in Slots, t \in Tags : Lives(i, Held'[t]) <=> Lives(i, Held[t])
  PROVE  LiveInv'
<1>1. ASSUME NEW i \in Slots, Mapped(i)'
      PROVE  chunks'[i].live = Cardinality(Holders(i)')
  <2>1. Holders(i)' = Holders(i)
    BY HoldersNext DEF Holders
  <2>2. Mapped(i)
    BY <1>1, SameChunksSame
  <2> QED
    BY <2>1, <2>2 DEF LiveInv
<1> QED
  BY <1>1 DEF LiveInv

\* It stays true when it counts a block that a tag has come to hold.
LEMMA LiveMore ==
  ASSUME LiveInv, SameChunks, NEW t \in Tags, NEW b, b # NoBlock,
         \A i \in Slots : ~Lives(i, Held[t]),
         \A s \in Tags : Held'[s] = IF s = t THEN b ELSE Held[s],
         \A i \in Slots : chunks'[i].live = IF InChunk(i, b.at) THEN chunks[i].live + 1 ELSE chunks[i].live
  PROVE  LiveInv'
<1>1. ASSUME NEW i \in Slots, Mapped(i)'
      PROVE  chunks'[i].live = Cardinality(Holders(i)')
  <2>1. Mapped(i) /\ chunks[i].live = Cardinality(Holders(i))
    BY <1>1, SameChunksSame DEF LiveInv
  <2>2. t \notin Holders(i) /\ IsFiniteSet(Holders(i))
    BY HoldersAreFinite DEF Holders
  <2>3. CASE InChunk(i, b.at)
    <3>1. Holders(i)' = Holders(i) \cup {t}
      BY <2>3, HoldersNext DEF Holders, Lives
    <3>2. Cardinality(Holders(i)') = Cardinality(Holders(i)) + 1
      BY <2>2, <3>1, FS_AddElement
    <3> QED
      BY <2>1, <2>3, <3>2
  <2>4. CASE ~InChunk(i, b.at)
    <3>1. Holders(i)' = Holders(i)
      BY <2>4, HoldersNext DEF Holders, Lives
    <3> QED
      BY <2>1, <2>4, <3>1
  <2> QED
    BY <2>3, <2>4
<1> QED
  BY <1>1 DEF LiveInv

\* And when it no longer counts one that a tag has given up.
LEMMA LiveLess ==
  ASSUME LiveInv, SameChunks, NEW t \in Tags, Held[t] # NoBlock,
         \A s \in Tags : Held'[s] = IF s = t THEN NoBlock ELSE Held[s],
         \A i \in Slots : chunks'[i].live =
           IF InChunk(i, Held[t].at) THEN chunks[i].live - 1 ELSE chunks[i].live
  PROVE  /\ LiveInv'
         /\ \A i \in Slots : Mapped(i) => chunks'[i].live \in Nat
<1>1. ASSUME NEW i \in Slots, Mapped(i)
      PROVE  chunks'[i].live = Cardinality(Holders(i)') /\ chunks'[i].live \in Nat
  <2>1. chunks[i].live = Cardinality(Holders(i))
    BY <1>1 DEF LiveInv
  <2>2. IsFiniteSet(Holders(i)) /\ IsFiniteSet(Holders(i)')
    BY HoldersAreFinite, HoldersNext DEF Holders
  <2>3. Cardinality(Holders(i)') \in Nat
    BY <2>2, FS_CardinalityType
  <2>4. CASE InChunk(i, Held[t].at)
    <3>1. Holders(i)' = Holders(i) \ {t} /\ t \in Holders(i)
      BY <2>4, HoldersNext DEF Holders, Lives
    <3> QED
      BY <2>1, <2>2, <2>3, <2>4, <3>1, FS_RemoveElement
  <2>5. CASE ~InChunk(i, Held[t].at)
    <3>1. Holders(i)' = Holders(i)
      BY <2>5, HoldersNext DEF Holders, Lives
    <3> QED
      BY <2>1, <2>3, <2>5, <3>1
  <2> QED
    BY <2>4, <2>5
<1>2. LiveInv'
  BY <1>1, SameChunksSame DEF LiveInv
<1> QED
  BY <1>1, <1>2

-----------------------------------------------------------------------------
(* Taking a block.                                                         *)

\* The types, in two parts: of the threads, and of the memory.
OwnersType ==
  /\ pc \in [Handles -> {"idle", "move", "heap", "map", "free"}]
  /\ want \in [Handles -> Sizes \cup {0}]
  /\ block \in [Handles -> Blocks \cup {NoBlock}] /\ old \in [Handles -> Blocks \cup {NoBlock}]

ChunksType == chunks \in [Slots -> [base : Region \cup {0}, size : Nat, live : Nat]]

MemoryType ==
  /\ mappings \subseteq [base : Region, size : Nat] /\ Cardinality(mappings) <= MaxMappings
  /\ free \in [Classes -> SUBSET Region]
  /\ cursor \in Nat /\ end \in Nat /\ cursor <= end

FlagsType ==
  /\ exhausted \in BOOLEAN /\ refused \in BOOLEAN /\ wild \in BOOLEAN
  /\ stage \in {"before", "merging", "after", "over"}

LEMMA TypesAre == TypeOK <=> OwnersType /\ ChunksType /\ MemoryType /\ FlagsType
BY DEF TypeOK, OwnersType, ChunksType, MemoryType, FlagsType

LEMMA TypesAreNext == TypeOK' <=> OwnersType' /\ ChunksType' /\ MemoryType' /\ FlagsType'
BY DEF TypeOK, OwnersType, ChunksType, MemoryType, FlagsType

\* A thread that asked for a block takes it, and frees the old one if it moves.
LEMMA Taking ==
  ASSUME Sound, NEW h \in Handles, pc[h] \in {"heap", "map"}, NEW a \in Region \cup {0},
         Take(h, a), old' = old
  PROVE  /\ OwnersType' /\ ControlInv'
         /\ want[h] \in Sizes /\ [at |-> a, size |-> want[h]] \in Blocks
         /\ Held[<<"block", h>>] = NoBlock
         /\ \A t \in Tags : Held'[t] = IF t = <<"block", h>> THEN [at |-> a, size |-> want[h]] ELSE Held[t]
<1>1. want[h] \in Sizes /\ block[h] = NoBlock
  BY DEF Sound, ControlInv
<1>2. [at |-> a, size |-> want[h]] \in Blocks
  BY <1>1 DEF Blocks
<1>3. /\ block' = [block EXCEPT ![h] = [at |-> a, size |-> want[h]]]
      /\ pc' = [pc EXCEPT ![h] = IF old[h] # NoBlock THEN "free" ELSE "idle"]
      /\ want' = [want EXCEPT ![h] = 0]
  BY DEF Take, Got
<1>4. OwnersType
  BY TypesAre DEF Sound
<1>5. OwnersType'
  BY <1>2, <1>3, <1>4 DEF OwnersType
<1>6. ControlInv'
  <2>1. ASSUME NEW g \in Handles
        PROVE  (/\ pc[g] \in {"heap", "map", "move"} => block[g] = NoBlock /\ want[g] \in Sizes
                /\ pc[g] = "heap" => InClass(want[g])
                /\ pc[g] = "map" => ~InClass(want[g])
                /\ pc[g] = "idle" => old[g] = NoBlock
                /\ pc[g] \in {"move", "free"} => old[g] # NoBlock)'
    <3>1. CASE g = h
      <4>1. pc'[g] = IF old[h] # NoBlock THEN "free" ELSE "idle"
        BY <1>3, <1>4, <3>1 DEF OwnersType
      <4> QED
        BY <3>1, <4>1
    <3>2. CASE g # h
      <4>1. pc'[g] = pc[g] /\ want'[g] = want[g] /\ block'[g] = block[g] /\ old'[g] = old[g]
        BY <1>3, <1>4, <3>2 DEF OwnersType
      <4> QED
        BY <4>1 DEF Sound, ControlInv
    <3> QED
      BY <3>1, <3>2
  <2> QED
    BY <2>1 DEF ControlInv
<1>7. \A t \in Tags : Held'[t] = IF t = <<"block", h>> THEN [at |-> a, size |-> want[h]] ELSE Held[t]
  BY <1>3, <1>4 DEF Held, Tags, OwnersType
<1> QED
  BY <1>1, <1>2, <1>5, <1>6, <1>7, HeldIs

\* Blocks stay backed when one more is.
LEMMA HeldNext ==
  ASSUME HeldInv, \A b : Backed(b) => Backed(b)',
         NEW t \in Tags, NEW x, x = NoBlock \/ x.at = 0 \/ Backed(x)',
         \A s \in Tags : Held'[s] = IF s = t THEN x ELSE Held[s]
  PROVE  HeldInv'
<1>1. ASSUME NEW s \in Tags, NEW b, b = Held'[s], b # NoBlock, b.at # 0
      PROVE  Backed(b)'
  BY <1>1 DEF HeldInv
<1> QED
  BY <1>1 DEF HeldInv, Backed, InsideAChunk, OnItsOwn, MapOf, InAChunk, Mapped

\* What Counted changes is what the chunk of the block counts.
LEMMA CountedIs ==
  ASSUME ChunksType, NEW a, chunks' = Counted(chunks, a)
  PROVE  /\ SameChunks /\ ChunksType'
         /\ \A i \in Slots : chunks'[i].live = IF InChunk(i, a) THEN chunks[i].live + 1 ELSE chunks[i].live
<1>1. \A i \in Slots : /\ chunks[i] \in [base : Region \cup {0}, size : Nat, live : Nat]
                       /\ chunks'[i] = IF InChunk(i, a) THEN [chunks[i] EXCEPT !.live = @ + 1] ELSE chunks[i]
  BY DEF Counted, ChunksType
<1>2. chunks' = [i \in Slots |-> chunks'[i]]
  BY DEF Counted
<1>3. \A i \in Slots : /\ chunks'[i] \in [base : Region \cup {0}, size : Nat, live : Nat]
                       /\ chunks'[i].base = chunks[i].base /\ chunks'[i].size = chunks[i].size
                       /\ chunks'[i].live = IF InChunk(i, a) THEN chunks[i].live + 1 ELSE chunks[i].live
  <2>1. ASSUME NEW i \in Slots
        PROVE  /\ chunks'[i] \in [base : Region \cup {0}, size : Nat, live : Nat]
               /\ chunks'[i].base = chunks[i].base /\ chunks'[i].size = chunks[i].size
               /\ chunks'[i].live = IF InChunk(i, a) THEN chunks[i].live + 1 ELSE chunks[i].live
    <3>1. chunks[i].live \in Nat /\ chunks[i].live + 1 \in Nat
      BY DEF ChunksType
    <3>2. CASE InChunk(i, a)
      <4>1. chunks'[i] = [chunks[i] EXCEPT !.live = chunks[i].live + 1]
        BY <1>1, <3>2
      <4> QED
        BY <1>1, <3>1, <3>2, <4>1
    <3>3. CASE ~InChunk(i, a)
      BY <1>1, <3>3
    <3> QED
      BY <3>2, <3>3
  <2> QED
    BY <2>1
<1>4. chunks' \in [Slots -> [base : Region \cup {0}, size : Nat, live : Nat]]
  BY <1>2, <1>3
<1> QED
  BY <1>3, <1>4 DEF SameChunks, ChunksType

\* A free block is taken.
LEMMA TakeFreeStep ==
  ASSUME Sound, NEW h \in Handles, TakeFree(h)
  PROVE  Sound'
<1> DEFINE c == ClassOf(want[h])
<1>1. PICK a \in free[c] :
        /\ pc[h] = "heap"
        /\ free' = [free EXCEPT ![c] = @ \ {a}]
        /\ chunks' = Counted(chunks, a)
        /\ Take(h, a)
        /\ UNCHANGED <<mappings, cursor, end, exhausted, stage, old, refused, wild>>
  BY DEF TakeFree
<1>2. want[h] \in Sizes /\ InClass(want[h])
  BY <1>1 DEF Sound, ControlInv
<1>3. c \in Classes
  BY <1>2, ClassOfIs
<1> HIDE DEF c
<1>4. OwnersType /\ ChunksType /\ MemoryType /\ FlagsType
  BY TypesAre DEF Sound
<1>5. a \in Region /\ InAChunk(a, c) /\ a % Alignment(c) = 0
  BY <1>1, <1>3, <1>4 DEF MemoryType, Sound, FreeInv
<1>6. /\ SameChunks /\ ChunksType'
      /\ \A i \in Slots : chunks'[i].live = IF InChunk(i, a) THEN chunks[i].live + 1 ELSE chunks[i].live
  BY <1>1, <1>4, CountedIs
<1> DEFINE b == [at |-> a, size |-> want[h]]
<1>7. /\ OwnersType' /\ ControlInv' /\ b \in Blocks /\ Held[<<"block", h>>] = NoBlock
      /\ \A t \in Tags : Held'[t] = IF t = <<"block", h>> THEN b ELSE Held[t]
  BY <1>1, <1>5, Taking
<1>8. MemoryType' /\ FlagsType' /\ TypeOK'
  <2>1. MemoryType' /\ FlagsType'
    BY <1>1, <1>3, <1>4 DEF MemoryType, FlagsType
  <2> QED
    BY <1>6, <1>7, <2>1, TypesAreNext
<1>9. ChunksInv' /\ MappingsInv' /\ \A x : Backed(x) => Backed(x)'
  BY <1>1, <1>6, StaysBacked DEF Sound, MappingsInv
<1>10. Backed(b)
  BY <1>2, <1>5 DEF Backed, InsideAChunk, c
<1>11. b.at = a /\ b # NoBlock
  BY <1>7, Constants
<1> HIDE DEF b
<1>12. HeldInv'
  BY <1>7, <1>9, <1>10, HeldNext, HeldIs DEF Sound
<1>13. LiveInv'
  <2>1. \A i \in Slots : ~Lives(i, Held[<<"block", h>>])
    BY <1>7 DEF Lives
  <2> QED
    BY <1>6, <1>7, <1>11, <2>1, LiveMore, HeldIs DEF Sound
<1>14. FreeInv'
  <2>1. \A d \in Classes : free'[d] \subseteq free[d]
    BY <1>1, <1>4 DEF MemoryType
  <2> QED
    BY <1>6, <2>1, SameChunksSame DEF Sound, FreeInv
<1>15. RestInv'
  BY <1>1, <1>6, SameChunksSame DEF Sound, RestInv, SameChunks
<1> QED
  BY <1>7, <1>8, <1>9, <1>12, <1>13, <1>14, <1>15 DEF Sound

\* The next block of the newest chunk is taken.
LEMMA BumpStep ==
  ASSUME Sound, NEW h \in Handles, Bump(h)
  PROVE  Sound'
<1> DEFINE c == ClassOf(want[h])
           a == Start(c)
           b == [at |-> a, size |-> want[h]]
<1>1. /\ pc[h] = "heap" /\ Fits(c)
      /\ cursor' = a + c /\ chunks' = Counted(chunks, a) /\ Take(h, a)
      /\ UNCHANGED <<mappings, free, end, exhausted, stage, old, refused, wild>>
  BY DEF Bump, After
<1>2. want[h] \in Sizes /\ InClass(want[h])
  BY <1>1 DEF Sound, ControlInv
<1>3. c \in Classes /\ c \in Nat \ {0}
  BY <1>2, ClassOfIs
<1> HIDE DEF c
<1>4. OwnersType /\ ChunksType /\ MemoryType /\ FlagsType
  BY TypesAre DEF Sound
<1>5. cursor # 0 /\ a + c <= end /\ cursor \in Nat /\ end \in Nat
  BY <1>1, <1>4 DEF Fits, MemoryType
<1>6. a \in Nat /\ a >= cursor /\ a % Alignment(c) = 0
  BY <1>3, <1>5, AlignmentIs, RoundedUp DEF Start
<1> HIDE DEF a
<1>7. PICK i \in Slots : Mapped(i) /\ chunks[i].base <= cursor /\ end = chunks[i].base + chunks[i].size
  BY <1>5 DEF Sound, RestInv
<1>8. chunks[i].base \in Nat /\ chunks[i].size \in Nat /\ Units(chunks[i].base, chunks[i].size) \subseteq Region
  BY <1>7, ChunksApart, Constants DEF ChunkMap, Sound, MappingsInv, SoundMappings
<1>9. Units(a, c) \subseteq Units(chunks[i].base, chunks[i].size) /\ a \in Units(a, c)
  BY <1>3, <1>5, <1>6, <1>7, <1>8 DEF Units
<1>10. InAChunk(a, c) /\ a \in Region
  BY <1>7, <1>8, <1>9 DEF InAChunk
<1>11. /\ SameChunks /\ ChunksType'
       /\ \A j \in Slots : chunks'[j].live = IF InChunk(j, a) THEN chunks[j].live + 1 ELSE chunks[j].live
  BY <1>1, <1>4, CountedIs
<1>12. /\ OwnersType' /\ ControlInv' /\ b \in Blocks /\ Held[<<"block", h>>] = NoBlock
       /\ \A t \in Tags : Held'[t] = IF t = <<"block", h>> THEN b ELSE Held[t]
  BY <1>1, <1>10, Taking
<1>13. MemoryType' /\ FlagsType' /\ TypeOK'
  <2>1. MemoryType' /\ FlagsType'
    BY <1>1, <1>3, <1>4, <1>5, <1>6 DEF MemoryType, FlagsType
  <2> QED
    BY <1>11, <1>12, <2>1, TypesAreNext
<1>14. ChunksInv' /\ MappingsInv' /\ \A x : Backed(x) => Backed(x)'
  BY <1>1, <1>11, StaysBacked DEF Sound, MappingsInv
<1>15. Backed(b)
  BY <1>2, <1>6, <1>10 DEF Backed, InsideAChunk, c
<1>16. b.at = a /\ b # NoBlock
  BY <1>12, Constants
<1> HIDE DEF b
<1>17. HeldInv'
  BY <1>12, <1>14, <1>15, HeldNext, HeldIs DEF Sound
<1>18. LiveInv'
  <2>1. \A j \in Slots : ~Lives(j, Held[<<"block", h>>])
    BY <1>12 DEF Lives
  <2> QED
    BY <1>11, <1>12, <1>16, <2>1, LiveMore, HeldIs DEF Sound
<1>19. FreeInv'
  BY <1>1, <1>11, SameChunksSame DEF Sound, FreeInv
<1>20. RestInv'
  <2>1. cursor' # 0 /\ end' = end /\ chunks[i].base <= cursor'
    BY <1>1, <1>3, <1>5, <1>6, <1>7, <1>8
  <2>2. Mapped(i)' /\ chunks'[i].base = chunks[i].base /\ chunks'[i].size = chunks[i].size
    BY <1>7, <1>11, SameChunksSame DEF SameChunks
  <2> QED
    BY <1>7, <2>1, <2>2 DEF RestInv
<1> QED
  BY <1>12, <1>13, <1>14, <1>17, <1>18, <1>19, <1>20 DEF Sound

\* A block that is backed lies in a mapping.
LEMMA BackedIsMapped ==
  ASSUME Sound, NEW b \in Blocks, Backed(b)
  PROVE  /\ \E m \in mappings : Units(b.at, Span(b.size)) \subseteq Units(m.base, m.size)
         /\ b.at \in Units(b.at, Span(b.size))
<1>1. b.size \in Sizes /\ b.at \in Nat /\ Span(b.size) \in Nat \ {0}
  BY SpanIs, Constants DEF Blocks
<1>2. CASE InClass(b.size)
  <2>1. Span(b.size) = ClassOf(b.size) /\ InAChunk(b.at, Span(b.size))
    BY <1>2 DEF Backed, InsideAChunk, Span
  <2>2. PICK i \in Slots : Mapped(i) /\ Units(b.at, Span(b.size)) \subseteq Units(chunks[i].base, chunks[i].size)
    BY <2>1 DEF InAChunk
  <2>3. ChunkMap(i) \in mappings
    BY <2>2, ChunksApart
  <2> QED
    BY <1>1, <2>2, <2>3 DEF ChunkMap, Units
<1>3. CASE ~InClass(b.size)
  <2>1. MapOf(b) \in mappings /\ Span(b.size) = MapOf(b).size /\ MapOf(b).base = b.at
    BY <1>3 DEF Backed, OnItsOwn, MapOf, Span
  <2> QED
    BY <1>1, <2>1 DEF Units
<1> QED
  BY <1>2, <1>3

\* What touches no mapping touches no chunk and no block.
LEMMA Away ==
  ASSUME Sound, NEW a \in Region, NEW s \in Nat \ {0},
         \A m \in mappings : Units(a, s) \cap Units(m.base, m.size) = {}
  PROVE  /\ a \in Units(a, s) /\ 0 \notin Units(a, s)
         /\ \A m \in mappings : m.base # a
         /\ \A i \in Slots : chunks[i].base # a /\ ~InChunk(i, a)
         /\ \A b \in Blocks : Backed(b) => Units(a, s) \cap Units(b.at, Span(b.size)) = {} /\ b.at \notin Units(a, s)
<1>1. a \in Units(a, s) /\ a \in Nat \ {0} /\ 0 \notin Units(a, s)
  BY Constants DEF Units
<1>2. \A m \in mappings : m.base # a
  <2>1. ASSUME NEW m \in mappings
        PROVE  m.base \in Units(m.base, m.size)
    <3>1. m.base \in Nat /\ m.size \in Nat \ {0}
      BY Constants DEF Sound, MappingsInv, SoundMappings
    <3> QED
      BY <3>1 DEF Units
  <2> QED
    BY <1>1, <2>1
<1>3. \A i \in Slots : chunks[i].base # a /\ ~InChunk(i, a)
  <2>1. ASSUME NEW i \in Slots, Mapped(i)
        PROVE  chunks[i].base # a /\ ~InChunk(i, a)
    <3>1. ChunkMap(i) \in mappings
      BY <2>1, ChunksApart
    <3> QED
      BY <1>1, <1>2, <3>1 DEF ChunkMap, InChunk
  <2> QED
    BY <1>1, <2>1 DEF Mapped, InChunk
<1>4. ASSUME NEW b \in Blocks, Backed(b)
      PROVE  Units(a, s) \cap Units(b.at, Span(b.size)) = {} /\ b.at \notin Units(a, s)
  BY <1>4, BackedIsMapped
<1> QED
  BY <1>1, <1>2, <1>3, <1>4

\* A chunk is mapped, and its first block taken.
LEMMA GrowStep ==
  ASSUME Sound, NEW h \in Handles, Grow(h)
  PROVE  Sound'
<1> SUFFICES ASSUME NEW n, n = want[h], NEW c, c = ClassOf(n), NEW s, s = ChunkSize(c),
                    NEW i \in Slots, NEW a \in Region, NEW b, b = [at |-> a, size |-> n],
                    pc[h] = "heap", ~Mapped(i), Map(a, s),
                    chunks' = [chunks EXCEPT ![i] = [base |-> a, size |-> s, live |-> 1]],
                    cursor' = a + c, end' = a + s, Take(h, a),
                    UNCHANGED <<free, exhausted, stage, old, refused, wild>>
             PROVE  Sound'
  BY DEF Grow, After
<1>2. n \in Sizes /\ InClass(n)
  BY DEF Sound, ControlInv
<1>3. c \in Classes /\ c \in Nat \ {0}
  BY <1>2, ClassOfIs
<1>4. s \in Nat \ {0} /\ c <= s /\ RoundUp(s, Page) = s
  BY <1>3, ChunkSizeIs
<1>5. OwnersType /\ ChunksType /\ MemoryType /\ FlagsType
  BY TypesAre DEF Sound
<1> DEFINE new == [base |-> a, size |-> s]
<1>6. /\ a % Page = 0 /\ mappings' = mappings \cup {new} /\ MappingsInv'
      /\ \A m \in mappings : Units(a, s) \cap Units(m.base, m.size) = {}
  BY <1>4, Mapping DEF Sound
<1>7. a \in Nat \ {0} /\ a % Alignment(c) = 0 /\ a \in Units(a, s)
  BY <1>3, <1>4, <1>6, AlignmentIs, Constants DEF Units
<1>8. /\ chunks'[i].base = a /\ chunks'[i].size = s /\ chunks'[i].live = 1
      /\ \A j \in Slots : j # i => chunks'[j] = chunks[j]
      /\ ChunksType'
  <2>1. [base |-> a, size |-> s, live |-> 1] \in [base : Region \cup {0}, size : Nat, live : Nat]
    BY <1>4
  <2> QED
    BY <1>5, <2>1 DEF ChunksType
<1>9. /\ Mapped(i)' /\ ~Mapped(i)
      /\ \A j \in Slots : j # i => (Mapped(j)' <=> Mapped(j))
      /\ \A j \in Slots : \A x : j # i => (InChunk(j, x)' <=> InChunk(j, x))
      /\ \A x : InChunk(i, x)' <=> x \in Units(a, s)
  BY <1>7, <1>8 DEF Mapped, InChunk, Units
<1>10. /\ OwnersType' /\ ControlInv' /\ b \in Blocks /\ Held[<<"block", h>>] = NoBlock
       /\ \A t \in Tags : Held'[t] = IF t = <<"block", h>> THEN b ELSE Held[t]
  BY Taking
<1>11. TypeOK'
  <2>1. new \in [base : Region, size : Nat]
    BY <1>4
  <2>2. mappings' \subseteq [base : Region, size : Nat]
    BY <1>5, <1>6, <2>1 DEF MemoryType
  <2>3. cursor' \in Nat /\ end' \in Nat /\ cursor' <= end'
    BY <1>3, <1>4, <1>7
  <2>4. Cardinality(mappings') <= MaxMappings
    BY <1>6 DEF MappingsInv, SoundMappings
  <2>5. MemoryType' /\ FlagsType'
    BY <1>5, <2>2, <2>3, <2>4 DEF MemoryType, FlagsType
  <2> QED
    BY <1>8, <1>10, <2>5, TypesAreNext
<1>12. /\ \A m \in mappings : m.base # a
       /\ \A j \in Slots : chunks[j].base # a /\ ~InChunk(j, a)
       /\ \A x \in Blocks : Backed(x) => x.at \notin Units(a, s)
       /\ 0 \notin Units(a, s)
  BY <1>4, <1>6, Away
<1>13. ChunksInv'
  <2>1. \A j \in Slots : Mapped(j)' => [base |-> chunks'[j].base, size |-> chunks'[j].size] \in mappings'
    BY <1>6, <1>8, <1>9 DEF Sound, ChunksInv, ChunkMap
  <2>2. \A j, k \in Slots : Mapped(j)' /\ Mapped(k)' /\ j # k => chunks'[j].base # chunks'[k].base
    BY <1>8, <1>9, <1>12 DEF Sound, ChunksInv
  <2> QED
    BY <2>1, <2>2 DEF ChunksInv, ChunkMap
<1>14. \A x, k : InAChunk(x, k) => InAChunk(x, k)'
  <2>1. ASSUME NEW x, NEW k, InAChunk(x, k)
        PROVE  InAChunk(x, k)'
    <3>1. PICK j \in Slots : Mapped(j) /\ Units(x, k) \subseteq Units(chunks[j].base, chunks[j].size)
      BY <2>1 DEF InAChunk
    <3>2. j # i /\ Mapped(j)' /\ chunks'[j] = chunks[j]
      BY <1>8, <1>9, <3>1
    <3> QED
      BY <3>1, <3>2 DEF InAChunk, Units
  <2> QED
    BY <2>1
<1>15. \A x : Backed(x) => Backed(x)'
  <2>1. ASSUME NEW x, Backed(x)
        PROVE  Backed(x)'
    <3>1. CASE InClass(x.size)
      <4>1. InAChunk(x.at, ClassOf(x.size))' /\ x.at % Alignment(ClassOf(x.size)) = 0
        BY <1>14, <2>1, <3>1 DEF Backed, InsideAChunk
      <4> QED
        BY <3>1, <4>1 DEF Backed, InsideAChunk
    <3>2. CASE ~InClass(x.size)
      <4>1. MapOf(x) \in mappings /\ MapOf(x).base = x.at /\ \A j \in Slots : chunks[j].base # x.at
        BY <2>1, <3>2 DEF Backed, OnItsOwn, MapOf
      <4>2. MapOf(x) \in mappings' /\ \A j \in Slots : chunks'[j].base # x.at
        BY <1>6, <1>8, <1>12, <4>1
      <4> QED
        BY <3>2, <4>2 DEF Backed, OnItsOwn, MapOf
    <3> QED
      BY <3>1, <3>2
  <2> QED
    BY <2>1
<1>16. Backed(b)'
  <2>1. Units(a, c) \subseteq Units(a, s)
    BY <1>3, <1>4, <1>7 DEF Units
  <2>2. Mapped(i)' /\ Units(a, c) \subseteq Units(chunks'[i].base, chunks'[i].size)
    BY <1>8, <1>9, <2>1
  <2>3. InAChunk(a, c)'
    BY <2>2 DEF InAChunk, Units
  <2> QED
    BY <1>2, <1>7, <2>3 DEF Backed, InsideAChunk
<1>17. b.at = a /\ b # NoBlock
  BY <1>10, Constants
<1>18. HeldInv'
  BY <1>10, <1>15, <1>16, HeldNext, HeldIs DEF Sound
<1> DEFINE LivesNext(j, x) == x # NoBlock /\ chunks'[j].base # 0 /\ x.at \in Units(chunks'[j].base, chunks'[j].size)
<1>19. LiveInv'
  <2>1. ASSUME NEW t \in Tags
        PROVE  /\ LivesNext(i, Held'[t]) <=> t = <<"block", h>>
               /\ \A j \in Slots : j # i => (LivesNext(j, Held'[t]) <=> Lives(j, Held[t]))
    <3>1. CASE t = <<"block", h>>
      <4>1. Held'[t] = b /\ Held[t] = NoBlock
        BY <1>10, <3>1
      <4>2. LivesNext(i, b)
        BY <1>7, <1>8, <1>17
      <4>3. \A j \in Slots : j # i => ~LivesNext(j, b)
        BY <1>8, <1>12, <1>17 DEF InChunk, Mapped
      <4> QED
        BY <3>1, <4>1, <4>2, <4>3 DEF Lives
    <3>2. CASE t # <<"block", h>>
      <4>1. Held'[t] = Held[t]
        BY <1>10, <3>2
      <4>2. Held[t] \in Blocks \cup {NoBlock}
        BY HeldType DEF Sound
      <4>3. Held[t] # NoBlock => Held[t].at \notin Units(a, s)
        BY <1>12, <4>2 DEF Sound, HeldInv
      <4>4. ~LivesNext(i, Held[t])
        BY <1>8, <4>3
      <4>5. \A j \in Slots : j # i => (LivesNext(j, Held[t]) <=> Lives(j, Held[t]))
        BY <1>8 DEF Lives, InChunk, Mapped
      <4> QED
        BY <3>2, <4>1, <4>4, <4>5
    <3> QED
      BY <3>1, <3>2
  <2>2. \A j \in Slots : Holders(j)' = {t \in Tags : LivesNext(j, Held'[t])}
    BY DEF Holders, Lives, InChunk, Mapped, Units
  <2>3. ASSUME NEW j \in Slots, Mapped(j)'
        PROVE  chunks'[j].live = Cardinality(Holders(j)')
    <3>1. CASE j = i
      <4>1. Holders(j)' = {<<"block", h>>}
        BY <2>1, <2>2, <3>1, HeldIs
      <4> QED
        BY <1>8, <3>1, <4>1, FS_Singleton
    <3>2. CASE j # i
      <4>1. Mapped(j) /\ chunks'[j].live = Cardinality(Holders(j))
        BY <1>8, <1>9, <2>3, <3>2 DEF Sound, LiveInv
      <4>2. Holders(j)' = Holders(j)
        BY <2>1, <2>2, <3>2 DEF Holders
      <4> QED
        BY <4>1, <4>2
    <3> QED
      BY <3>1, <3>2
  <2> QED
    BY <2>3 DEF LiveInv
<1>20. FreeInv'
  BY <1>14 DEF Sound, FreeInv
<1>21. RestInv'
  <2>1. cursor' # 0 /\ a <= cursor' /\ end' = a + s
    BY <1>3, <1>7
  <2> QED
    BY <1>8, <1>9, <2>1 DEF RestInv
<1> QED
  BY <1>6, <1>10, <1>11, <1>13, <1>18, <1>19, <1>20, <1>21 DEF Sound

\* While the heap is left alone, what is in it stays sound.
LEMMA HeapStays ==
  ASSUME Sound, UNCHANGED <<free, chunks, cursor, end>>,
         mappings \subseteq mappings', mappings' \subseteq [base : Region, size : Nat], MappingsInv'
  PROVE  /\ SameChunks /\ ChunksType' /\ MemoryType'
         /\ ChunksInv' /\ FreeInv' /\ RestInv'
         /\ \A b : Backed(b) => Backed(b)'
<1>1. OwnersType /\ ChunksType /\ MemoryType /\ FlagsType
  BY TypesAre DEF Sound
<1>2. SameChunks
  BY DEF SameChunks
<1>3. ChunksInv' /\ \A b : Backed(b) => Backed(b)'
  BY <1>2, StaysBacked DEF Sound
<1>4. FreeInv' /\ RestInv'
  BY <1>2, SameChunksSame DEF Sound, FreeInv, RestInv, SameChunks
<1>5. ChunksType' /\ MemoryType'
  BY <1>1 DEF ChunksType, MemoryType, MappingsInv, SoundMappings
<1> QED
  BY <1>2, <1>3, <1>4, <1>5

\* A block outside the chunks is taken: the game's, or a mapping.
LEMMA TakeOutside ==
  ASSUME Sound, NEW h \in Handles, pc[h] \in {"heap", "map"}, NEW a \in Region \cup {0},
         Take(h, a), old' = old, FlagsType',
         UNCHANGED <<free, chunks, cursor, end>>,
         mappings \subseteq mappings', mappings' \subseteq [base : Region, size : Nat], MappingsInv',
         NEW b, b = [at |-> a, size |-> want[h]],
         b.at = 0 \/ Backed(b)', \A i \in Slots : ~InChunk(i, a)
  PROVE  Sound'
<1>1. /\ SameChunks /\ ChunksType' /\ MemoryType'
      /\ ChunksInv' /\ FreeInv' /\ RestInv'
      /\ \A x : Backed(x) => Backed(x)'
  BY HeapStays
<1>2. /\ OwnersType' /\ ControlInv' /\ b \in Blocks /\ Held[<<"block", h>>] = NoBlock
      /\ \A t \in Tags : Held'[t] = IF t = <<"block", h>> THEN b ELSE Held[t]
  BY Taking
<1>3. HeldInv'
  BY <1>1, <1>2, HeldNext, HeldIs DEF Sound
<1>4. LiveInv'
  <2>1. b.at = a
    OBVIOUS
  <2>2. \A i \in Slots, t \in Tags : Lives(i, Held'[t]) <=> Lives(i, Held[t])
    BY <1>2, <2>1 DEF Lives
  <2> QED
    BY <1>1, <2>2, LiveKept DEF Sound
<1> QED
  BY <1>1, <1>2, <1>3, <1>4, TypesAreNext DEF Sound

\* No chunk can be mapped: the block is the game's.
LEMMA GrowFailsStep ==
  ASSUME Sound, NEW h \in Handles, GrowFails(h)
  PROVE  Sound'
<1>1. OwnersType /\ ChunksType /\ MemoryType /\ FlagsType
  BY TypesAre DEF Sound
<1>2. /\ pc[h] = "heap" /\ Take(h, 0) /\ exhausted' = TRUE
      /\ UNCHANGED <<mappings, free, chunks, cursor, end, stage, old, refused, wild>>
  BY DEF GrowFails
<1>3. FlagsType'
  BY <1>1, <1>2 DEF FlagsType
<1>4. mappings' \subseteq [base : Region, size : Nat] /\ MappingsInv'
  BY <1>1, <1>2 DEF MemoryType, Sound, MappingsInv
<1>5. \A i \in Slots : ~InChunk(i, 0)
  BY ZeroIsNoChunk
<1>6. ASSUME NEW b, b = [at |-> 0, size |-> want[h]]
      PROVE  Sound'
  <2>1. b.at = 0
    BY <1>6
  <2> QED
    BY <1>2, <1>3, <1>4, <1>5, <1>6, <2>1, TakeOutside
<1> QED
  BY <1>6

\* A big block gets a mapping, or the game's memory.
LEMMA MapBlockStep ==
  ASSUME Sound, NEW h \in Handles, MapBlock(h)
  PROVE  Sound'
<1>1. OwnersType /\ ChunksType /\ MemoryType /\ FlagsType
  BY TypesAre DEF Sound
<1>2. pc[h] = "map" /\ UNCHANGED <<heap, stage, old, refused, wild>>
  BY DEF MapBlock
<1>3. UNCHANGED <<free, chunks, cursor, end, exhausted>>
  BY <1>2 DEF heap
<1>4. FlagsType'
  BY <1>1, <1>2, <1>3 DEF FlagsType
<1>5. want[h] \in Sizes /\ want[h] \in Nat \ {0} /\ ~InClass(want[h])
  BY <1>2, Constants DEF Sound, ControlInv
<1>6. CASE Take(h, 0) /\ UNCHANGED mappings
  <2>1. mappings' \subseteq [base : Region, size : Nat] /\ MappingsInv'
    BY <1>1, <1>6 DEF MemoryType, Sound, MappingsInv
  <2>2. \A i \in Slots : ~InChunk(i, 0)
    BY ZeroIsNoChunk
  <2>3. ASSUME NEW b, b = [at |-> 0, size |-> want[h]]
        PROVE  Sound'
    <3>1. b.at = 0
      BY <2>3
    <3> QED
      BY <1>2, <1>3, <1>4, <1>6, <2>1, <2>2, <2>3, <3>1, TakeOutside
  <2> QED
    BY <2>3
<1>7. ASSUME NEW a \in Region, Map(a, want[h]), Take(h, a)
      PROVE  Sound'
  <2> SUFFICES ASSUME NEW b, b = [at |-> a, size |-> want[h]],
                      NEW new, new = [base |-> a, size |-> RoundUp(b.size, Page)]
               PROVE  Sound'
    OBVIOUS
  <2>1. /\ RoundUp(b.size, Page) \in Nat \ {0}
        /\ mappings' = mappings \cup {new} /\ MappingsInv'
        /\ \A m \in mappings : Units(a, RoundUp(b.size, Page)) \cap Units(m.base, m.size) = {}
    BY <1>5, <1>7, Mapping DEF Sound
  <2>2. mappings' \subseteq [base : Region, size : Nat]
    BY <1>1, <2>1 DEF MemoryType
  <2>3. \A i \in Slots : chunks[i].base # a /\ ~InChunk(i, a)
    BY <2>1, Away
  <2>4. Backed(b)'
    <3>1. MapOf(b) = new /\ b.at = a /\ ~InClass(b.size)
      BY <1>5 DEF MapOf
    <3>2. MapOf(b) \in mappings' /\ \A i \in Slots : chunks'[i].base # b.at
      BY <1>3, <2>1, <2>3, <3>1
    <3> QED
      BY <3>1, <3>2 DEF Backed, OnItsOwn, MapOf
  <2>5. mappings \subseteq mappings'
    BY <2>1
  <2> QED
    BY <1>2, <1>3, <1>4, <1>7, <2>1, <2>2, <2>3, <2>4, <2>5, TakeOutside
<1> QED
  BY <1>6, <1>7 DEF MapBlock

-----------------------------------------------------------------------------
(* Steps that leave the memory as it is.                                   *)

\* What threads hold may change as long as it is backed and counted.
LEMMA OnlyHolds ==
  ASSUME Sound, UNCHANGED <<mappings, free, chunks, cursor, end>>, OwnersType', ControlInv', FlagsType',
         \A t \in Tags : Held'[t] # NoBlock /\ Held'[t].at # 0 => Backed(Held'[t]),
         LiveInv'
  PROVE  Sound'
<1>1. OwnersType /\ ChunksType /\ MemoryType /\ FlagsType
  BY TypesAre DEF Sound
<1>2. mappings' \subseteq [base : Region, size : Nat] /\ MappingsInv'
  BY <1>1 DEF MemoryType, Sound, MappingsInv
<1>3. /\ SameChunks /\ ChunksType' /\ MemoryType'
      /\ ChunksInv' /\ FreeInv' /\ RestInv'
      /\ \A x : Backed(x) => Backed(x)'
  BY <1>2, HeapStays
<1>4. HeldInv'
  <2>1. ASSUME NEW t \in Tags, NEW b, b = Held'[t], b # NoBlock, b.at # 0
        PROVE  Backed(b)'
    BY <1>3, <2>1
  <2> QED
    BY <2>1 DEF HeldInv, Backed, InsideAChunk, OnItsOwn, MapOf, InAChunk, Mapped
<1> QED
  BY <1>2, <1>3, <1>4, TypesAreNext DEF Sound

\* alloc decides where to ask.
LEMMA RequestStep ==
  ASSUME Sound, NEW h \in Handles, NEW n \in Sizes, NEW moving \in BOOLEAN, Request(h, n, moving),
         block[h] = NoBlock, moving <=> old[h] # NoBlock,
         UNCHANGED <<mappings, heap, stage, old, refused, wild>>
  PROVE  Sound'
<1>1. OwnersType /\ ChunksType /\ MemoryType /\ FlagsType
  BY TypesAre DEF Sound
<1>2. UNCHANGED <<free, chunks, cursor, end, exhausted>>
  BY DEF heap
<1>3. FlagsType'
  BY <1>1, <1>2 DEF FlagsType
<1>4. PICK b \in {NoBlock, [at |-> 0, size |-> n]}, p \in {"free", "idle", "heap", "map"}, w \in {0, n} :
        /\ block' = [block EXCEPT ![h] = b] /\ pc' = [pc EXCEPT ![h] = p] /\ want' = [want EXCEPT ![h] = w]
        /\ p = "free" => moving
        /\ p = "idle" => ~moving
        /\ p \in {"heap", "map"} => b = NoBlock /\ w = n
        /\ p = "heap" => InClass(n)
        /\ p = "map" => ~InClass(n)
  <2>1. CASE Got(h, 0, n, moving)
    BY <2>1 DEF Got
  <2>2. CASE /\ pc' = [pc EXCEPT ![h] = IF InClass(n) THEN "heap" ELSE "map"]
             /\ want' = [want EXCEPT ![h] = n] /\ block' = [block EXCEPT ![h] = NoBlock]
    BY <2>2
  <2> QED
    BY <2>1, <2>2 DEF Request
<1>5. b \in Blocks \cup {NoBlock} /\ w \in Sizes \cup {0} /\ (b # NoBlock => b.at = 0)
  BY <1>4 DEF Blocks
<1>6. OwnersType'
  BY <1>1, <1>4, <1>5 DEF OwnersType
<1>7. ControlInv'
  <2>1. ASSUME NEW g \in Handles
        PROVE  (/\ pc[g] \in {"heap", "map", "move"} => block[g] = NoBlock /\ want[g] \in Sizes
                /\ pc[g] = "heap" => InClass(want[g])
                /\ pc[g] = "map" => ~InClass(want[g])
                /\ pc[g] = "idle" => old[g] = NoBlock
                /\ pc[g] \in {"move", "free"} => old[g] # NoBlock)'
    <3>1. CASE g = h
      <4>1. pc'[h] = p /\ want'[h] = w /\ block'[h] = b /\ old'[h] = old[h]
        BY <1>1, <1>4 DEF OwnersType
      <4> QED
        BY <1>4, <3>1, <4>1
    <3>2. CASE g # h
      <4>1. pc'[g] = pc[g] /\ want'[g] = want[g] /\ block'[g] = block[g] /\ old'[g] = old[g]
        BY <1>1, <1>4, <3>2 DEF OwnersType
      <4> QED
        BY <4>1 DEF Sound, ControlInv
    <3> QED
      BY <3>1, <3>2
  <2> QED
    BY <2>1 DEF ControlInv
<1>8. \A t \in Tags : Held'[t] = IF t = <<"block", h>> THEN b ELSE Held[t]
  BY <1>1, <1>4 DEF Held, Tags, OwnersType
<1>9. \A i \in Slots : ~InChunk(i, 0)
  BY ZeroIsNoChunk
<1>10. \A i \in Slots, t \in Tags : Lives(i, Held'[t]) <=> Lives(i, Held[t])
  BY <1>5, <1>8, <1>9, HeldIs DEF Lives
<1>11. LiveInv'
  BY <1>2, <1>10, LiveKept DEF SameChunks, Sound
<1>12. \A t \in Tags : Held'[t] # NoBlock /\ Held'[t].at # 0 => Backed(Held'[t])
  BY <1>5, <1>8 DEF Sound, HeldInv
<1> QED
  BY <1>2, <1>3, <1>6, <1>7, <1>11, <1>12, OnlyHolds

\* A pointer asks for a block.
LEMMA AllocStep ==
  ASSUME Sound, NEW h \in Handles, NEW n \in Sizes, Alloc(h, n)
  PROVE  Sound'
<1>1. /\ Request(h, n, FALSE) /\ block[h] = NoBlock /\ pc[h] = "idle"
      /\ UNCHANGED <<mappings, heap, stage, old, refused, wild>>
  BY DEF Alloc
<1>2. old[h] = NoBlock
  BY <1>1 DEF Sound, ControlInv
<1> QED
  BY <1>1, <1>2, RequestStep

\* realloc asks for the block to copy to.
LEMMA MoveStep ==
  ASSUME Sound, NEW h \in Handles, Move(h)
  PROVE  Sound'
<1>1. /\ Request(h, want[h], TRUE) /\ pc[h] = "move"
      /\ UNCHANGED <<mappings, heap, stage, old, refused, wild>>
  BY DEF Move
<1>2. old[h] # NoBlock /\ block[h] = NoBlock /\ want[h] \in Sizes
  BY <1>1 DEF Sound, ControlInv
<1> QED
  BY <1>1, <1>2, RequestStep

\* Scratch memory is turned on or off.
LEMMA UseScratchStep ==
  ASSUME Sound, UseScratch
  PROVE  Sound'
<1>1. OwnersType /\ ChunksType /\ MemoryType /\ FlagsType
  BY TypesAre DEF Sound
<1>2. UNCHANGED <<mappings, free, chunks, cursor, end, exhausted, pc, want, block, old, refused, wild>>
  BY DEF UseScratch, heap, owners
<1>3. FlagsType' /\ OwnersType' /\ ControlInv'
  BY <1>1, <1>2 DEF UseScratch, FlagsType, OwnersType, Sound, ControlInv
<1>4. Held' = Held
  BY <1>2 DEF Held
<1>5. LiveInv'
  BY <1>2, <1>4, LiveKept DEF SameChunks, Sound
<1> QED
  BY <1>2, <1>3, <1>4, <1>5, OnlyHolds DEF Sound, HeldInv

\* When an idle thread's block is resized where it is, the same chunk counts it.
LEMMA Resized ==
  ASSUME Sound, NEW h \in Handles, pc[h] = "idle", NEW b \in Blocks,
         block' = [block EXCEPT ![h] = b], UNCHANGED <<mappings, heap, stage, pc, want, old, refused>>,
         wild' \in BOOLEAN, b.at # 0 => Backed(b),
         \A i \in Slots : Lives(i, b) <=> Lives(i, block[h])
  PROVE  Sound'
<1>1. OwnersType /\ ChunksType /\ MemoryType /\ FlagsType
  BY TypesAre DEF Sound
<1>2. UNCHANGED <<free, chunks, cursor, end, exhausted>>
  BY DEF heap
<1>3. FlagsType'
  BY <1>1, <1>2 DEF FlagsType
<1>4. OwnersType'
  BY <1>1 DEF OwnersType
<1>5. ControlInv'
  <2>1. \A g \in Handles : pc[g] \in {"heap", "map", "move"} => block'[g] = block[g]
    BY <1>1 DEF OwnersType
  <2> QED
    BY <2>1 DEF Sound, ControlInv
<1>6. \A t \in Tags : Held'[t] = IF t = <<"block", h>> THEN b ELSE Held[t]
  BY <1>1 DEF Held, Tags, OwnersType
<1>7. \A i \in Slots, t \in Tags : Lives(i, Held'[t]) <=> Lives(i, Held[t])
  BY <1>6, HeldIs
<1>8. LiveInv'
  BY <1>2, <1>7, LiveKept DEF SameChunks, Sound
<1>9. \A t \in Tags : Held'[t] # NoBlock /\ Held'[t].at # 0 => Backed(Held'[t])
  BY <1>6 DEF Sound, HeldInv
<1> QED
  BY <1>2, <1>3, <1>4, <1>5, <1>8, <1>9, OnlyHolds

\* When it has to move, the old block is counted until it is freed.
LEMMA Moving ==
  ASSUME Sound, NEW h \in Handles, pc[h] = "idle", block[h] # NoBlock, NEW n \in Sizes,
         old' = [old EXCEPT ![h] = block[h]], block' = [block EXCEPT ![h] = NoBlock],
         pc' = [pc EXCEPT ![h] = "move"], want' = [want EXCEPT ![h] = n],
         UNCHANGED <<mappings, heap, stage, refused, wild>>
  PROVE  Sound'
<1>1. OwnersType /\ ChunksType /\ MemoryType /\ FlagsType
  BY TypesAre DEF Sound
<1>2. UNCHANGED <<free, chunks, cursor, end, exhausted>>
  BY DEF heap
<1>3. FlagsType'
  BY <1>1, <1>2 DEF FlagsType
<1>4. OwnersType'
  BY <1>1 DEF OwnersType
<1>5. ControlInv'
  <2>1. \A g \in Handles :
          IF g = h THEN pc'[g] = "move" /\ block'[g] = NoBlock /\ want'[g] = n /\ old'[g] = block[h]
          ELSE pc'[g] = pc[g] /\ block'[g] = block[g] /\ want'[g] = want[g] /\ old'[g] = old[g]
    BY <1>1 DEF OwnersType
  <2>2. ASSUME NEW g \in Handles
        PROVE  (/\ pc[g] \in {"heap", "map", "move"} => block[g] = NoBlock /\ want[g] \in Sizes
                /\ pc[g] = "heap" => InClass(want[g])
                /\ pc[g] = "map" => ~InClass(want[g])
                /\ pc[g] = "idle" => old[g] = NoBlock
                /\ pc[g] \in {"move", "free"} => old[g] # NoBlock)'
    <3>1. CASE g = h
      BY <2>1, <3>1
    <3>2. CASE g # h
      BY <2>1, <3>2 DEF Sound, ControlInv
    <3> QED
      BY <3>1, <3>2
  <2> QED
    BY <2>2 DEF ControlInv
<1> DEFINE tb == <<"block", h>>
           to == <<"old", h>>
<1>6. tb \in Tags /\ to \in Tags /\ tb # to /\ Held[tb] = block[h] /\ Held[to] = NoBlock
  BY HeldIs DEF Sound, ControlInv
<1>7. \A t \in Tags : Held'[t] = IF t = to THEN block[h] ELSE IF t = tb THEN NoBlock ELSE Held[t]
  BY <1>1 DEF Held, Tags, OwnersType
<1> HIDE DEF tb, to
<1>8. \A t \in Tags : Held'[t] # NoBlock /\ Held'[t].at # 0 => Backed(Held'[t])
  BY <1>6, <1>7 DEF Sound, HeldInv
<1>9. ASSUME NEW i \in Slots, Mapped(i)'
      PROVE  chunks'[i].live = Cardinality(Holders(i)')
  <2>1. SameChunks
    BY <1>2 DEF SameChunks
  <2>2. Mapped(i) /\ chunks'[i].live = Cardinality(Holders(i))
    BY <1>2, <1>9, <2>1, SameChunksSame DEF Sound, LiveInv
  <2>3. Holders(i)' = {t \in Tags : Lives(i, Held'[t])}
    BY <2>1, HoldersNext
  <2>4. CASE Lives(i, block[h])
    <3>1. tb \in Holders(i) /\ to \notin Holders(i)
      BY <1>6, <2>4 DEF Holders, Lives
    <3>2. Holders(i)' = (Holders(i) \ {tb}) \cup {to}
      BY <1>6, <1>7, <2>3, <2>4 DEF Holders, Lives
    <3>3. /\ IsFiniteSet(Holders(i)) /\ IsFiniteSet(Holders(i) \ {tb})
          /\ Cardinality(Holders(i) \ {tb}) = Cardinality(Holders(i)) - 1
      BY <3>1, HoldersAreFinite, FS_RemoveElement DEF Holders
    <3>4. Cardinality(Holders(i)') = Cardinality(Holders(i) \ {tb}) + 1
      BY <3>1, <3>2, <3>3, FS_AddElement
    <3>5. Cardinality(Holders(i)) \in Nat
      BY <3>3, FS_CardinalityType
    <3> QED
      BY <2>2, <3>3, <3>4, <3>5
  <2>5. CASE ~Lives(i, block[h])
    <3>1. Holders(i)' = Holders(i)
      BY <1>6, <1>7, <2>3, <2>5 DEF Holders, Lives
    <3> QED
      BY <2>2, <3>1
  <2> QED
    BY <2>4, <2>5
<1>10. LiveInv'
  BY <1>9 DEF LiveInv
<1> QED
  BY <1>2, <1>3, <1>4, <1>5, <1>8, <1>10, OnlyHolds

\* realloc, up to where it asks for another block.
LEMMA ReallocStep ==
  ASSUME Sound, NEW h \in Handles, NEW n \in Sizes, Realloc(h, n)
  PROVE  Sound'
<1>1. pc[h] = "idle" /\ block[h] # NoBlock /\ UNCHANGED <<mappings, heap, stage, refused>>
  BY DEF Realloc
<1>2. block[h] \in Blocks /\ wild \in BOOLEAN
  BY <1>1 DEF Sound, TypeOK
<1>3. block[h].at \in Nat /\ block[h].at \in Region \cup {0}
  BY <1>2, Constants DEF Blocks
<1>4. CASE /\ StaysWithTheGame(block[h], n)
           /\ block' = [block EXCEPT ![h] = [at |-> 0, size |-> n]]
           /\ wild' = (wild \/ block[h].at # 0) /\ UNCHANGED <<pc, want, old>>
  <2> DEFINE b == [at |-> 0, size |-> n]
  <2>1. b \in Blocks /\ b.at = 0
    BY DEF Blocks
  <2>2. \A i \in Slots : ~InChunk(i, 0) /\ ~InChunk(i, block[h].at)
    BY <1>4, ZeroIsNoChunk DEF StaysWithTheGame, InHeap
  <2>3. \A i \in Slots : ~Lives(i, b) /\ ~Lives(i, block[h])
    BY <2>1, <2>2 DEF Lives
  <2>4. wild' \in BOOLEAN
    BY <1>4
  <2> HIDE DEF b
  <2>5. block' = [block EXCEPT ![h] = b]
    BY <1>4 DEF b
  <2> QED
    BY <1>1, <1>4, <2>1, <2>3, <2>4, <2>5, Resized
<1>5. CASE /\ HasTheRoom(block[h], n)
           /\ block' = [block EXCEPT ![h].size = n]
           /\ UNCHANGED <<pc, want, old, wild>>
  <2> DEFINE b == [at |-> block[h].at, size |-> n]
  <2>1. b \in Blocks /\ b.at = block[h].at /\ b.size = n /\ b # NoBlock
    BY <1>3, Constants DEF Blocks
  <2>2. block' = [block EXCEPT ![h] = b]
    <3>1. [block[h] EXCEPT !.size = n] = b
      BY <1>2 DEF Blocks
    <3> QED
      BY <1>5, <3>1
  <2>3. \A i \in Slots : Lives(i, b) <=> Lives(i, block[h])
    BY <1>1, <2>1 DEF Lives
  <2>4. b.at # 0 => Backed(b)
    <3> HIDE DEF b
    <3>1. b.at # 0 => Backed(block[h])
      <4>1. <<"block", h>> \in Tags /\ Held[<<"block", h>>] = block[h]
        BY HeldIs
      <4>2. block[h].at # 0 => Backed(block[h])
        BY <1>1, <4>1 DEF Sound, HeldInv
      <4> QED
        BY <2>1, <4>2
    <3> QED
      BY <1>5, <2>1, <3>1 DEF HasTheRoom, Backed, InsideAChunk
  <2> HIDE DEF b
  <2>5. wild' \in BOOLEAN
    BY <1>2, <1>5
  <2> QED
    BY <1>1, <1>5, <2>1, <2>2, <2>3, <2>4, <2>5, Resized
<1>6. CASE /\ old' = [old EXCEPT ![h] = block[h]] /\ block' = [block EXCEPT ![h] = NoBlock]
           /\ pc' = [pc EXCEPT ![h] = "move"] /\ want' = [want EXCEPT ![h] = n]
           /\ UNCHANGED wild
  BY <1>1, <1>6, Moving
<1> QED
  BY <1>4, <1>5, <1>6 DEF Realloc

-----------------------------------------------------------------------------
(* Giving a block back.                                                    *)

\* A thread gives up what it points to, or what its realloc has copied.
LEMMA GivingUp ==
  ASSUME Sound, NEW h \in Handles, NEW b \in {block[h], old[h]}, GivesUp(h, b)
  PROVE  /\ b \in Blocks /\ OwnersType' /\ ControlInv'
         /\ \E t \in Tags : /\ Held[t] = b
                            /\ \A s \in Tags : Held'[s] = IF s = t THEN NoBlock ELSE Held[s]
<1>1. OwnersType
  BY TypesAre DEF Sound
<1>2. b \in Blocks
  BY <1>1 DEF GivesUp, OwnersType
<1>3. CASE /\ pc[h] = "free" /\ b = old[h]
           /\ old' = [old EXCEPT ![h] = NoBlock] /\ pc' = [pc EXCEPT ![h] = "idle"]
           /\ UNCHANGED <<block, want>>
  <2>1. OwnersType'
    BY <1>1, <1>3 DEF OwnersType
  <2>2. \A g \in Handles :
          IF g = h THEN pc'[g] = "idle" /\ old'[g] = NoBlock
          ELSE pc'[g] = pc[g] /\ block'[g] = block[g] /\ want'[g] = want[g] /\ old'[g] = old[g]
    BY <1>1, <1>3 DEF OwnersType
  <2>3. ASSUME NEW g \in Handles
        PROVE  (/\ pc[g] \in {"heap", "map", "move"} => block[g] = NoBlock /\ want[g] \in Sizes
                /\ pc[g] = "heap" => InClass(want[g])
                /\ pc[g] = "map" => ~InClass(want[g])
                /\ pc[g] = "idle" => old[g] = NoBlock
                /\ pc[g] \in {"move", "free"} => old[g] # NoBlock)'
    <3>1. CASE g = h
      BY <2>2, <3>1
    <3>2. CASE g # h
      BY <2>2, <3>2 DEF Sound, ControlInv
    <3> QED
      BY <3>1, <3>2
  <2>4. ControlInv'
    BY <2>3 DEF ControlInv
  <2>5. \A s \in Tags : Held'[s] = IF s = <<"old", h>> THEN NoBlock ELSE Held[s]
    BY <1>1, <1>3 DEF Held, Tags, OwnersType
  <2>6. <<"old", h>> \in Tags /\ Held[<<"old", h>>] = b
    BY <1>3, HeldIs
  <2> QED
    BY <1>2, <2>1, <2>4, <2>5, <2>6
<1>4. CASE /\ pc[h] = "idle" /\ b = block[h]
           /\ block' = [block EXCEPT ![h] = NoBlock]
           /\ UNCHANGED <<pc, want, old>>
  <2>1. OwnersType'
    BY <1>1, <1>4 DEF OwnersType
  <2>2. \A g \in Handles : block'[g] = block[g] \/ block'[g] = NoBlock
    BY <1>1, <1>4 DEF OwnersType
  <2>3. ControlInv'
    BY <1>4, <2>2 DEF Sound, ControlInv
  <2>4. \A s \in Tags : Held'[s] = IF s = <<"block", h>> THEN NoBlock ELSE Held[s]
    BY <1>1, <1>4 DEF Held, Tags, OwnersType
  <2>5. <<"block", h>> \in Tags /\ Held[<<"block", h>>] = b
    BY <1>4, HeldIs
  <2> QED
    BY <1>2, <2>1, <2>3, <2>4, <2>5
<1> QED
  BY <1>3, <1>4 DEF GivesUp

\* A block of a chunk goes back on its list.
LEMMA ReleaseStep ==
  ASSUME Sound, NEW h \in Handles, Release(h)
  PROVE  Sound'
<1>1. PICK b \in {block[h], old[h]} :
        /\ GivesUp(h, b) /\ InClass(b.size) /\ InHeap(b.at)
        /\ free' = [free EXCEPT ![ClassOf(b.size)] = @ \cup {b.at}]
        /\ chunks' = [i \in Slots |-> IF InChunk(i, b.at) THEN [chunks[i] EXCEPT !.live = @ - 1] ELSE chunks[i]]
        /\ UNCHANGED <<mappings, cursor, end, exhausted, stage, refused, wild>>
  BY DEF Release
<1>2. b \in Blocks /\ OwnersType' /\ ControlInv'
  BY <1>1, GivingUp
<1>3. PICK t \in Tags : Held[t] = b /\ \A s \in Tags : Held'[s] = IF s = t THEN NoBlock ELSE Held[s]
  BY <1>1, GivingUp
<1>4. OwnersType /\ ChunksType /\ MemoryType /\ FlagsType
  BY TypesAre DEF Sound
<1> DEFINE c == ClassOf(b.size)
<1>5. b # NoBlock /\ b.at # 0 /\ b.size \in Sizes /\ c \in Classes /\ c \in Nat \ {0} /\ b.at \in Region
  <2>1. b.at # 0
    BY <1>1, ZeroIsNoChunk DEF InHeap
  <2>2. b.at \in Region \cup {0} /\ b.size \in Sizes /\ b # NoBlock
    BY <1>2, Constants DEF Blocks
  <2> QED
    BY <1>1, <2>1, <2>2, ClassOfIs
<1>6. InAChunk(b.at, c) /\ b.at % Alignment(c) = 0
  BY <1>1, <1>3, <1>5 DEF Sound, HeldInv, Backed, InsideAChunk
<1> HIDE DEF c
<1>7. \A i \in Slots :
        /\ chunks[i] \in [base : Region \cup {0}, size : Nat, live : Nat]
        /\ chunks'[i] = IF InChunk(i, b.at) THEN [chunks[i] EXCEPT !.live = @ - 1] ELSE chunks[i]
  BY <1>1, <1>4 DEF ChunksType
<1>8. \A i \in Slots :
        /\ chunks'[i].base = chunks[i].base /\ chunks'[i].size = chunks[i].size
        /\ chunks'[i].live = IF InChunk(i, b.at) THEN chunks[i].live - 1 ELSE chunks[i].live
  BY <1>7
<1>9. SameChunks
  BY <1>8 DEF SameChunks
<1>10. LiveInv' /\ \A i \in Slots : Mapped(i) => chunks'[i].live \in Nat
  <2>1. \A i \in Slots :
          chunks'[i].live = IF InChunk(i, Held[t].at) THEN chunks[i].live - 1 ELSE chunks[i].live
    BY <1>3, <1>8
  <2>2. Held[t] # NoBlock
    BY <1>3, <1>5
  <2> QED
    BY <1>3, <1>9, <2>1, <2>2, LiveLess DEF Sound
<1>11. ChunksType'
  <2>1. ASSUME NEW i \in Slots
        PROVE  chunks'[i] \in [base : Region \cup {0}, size : Nat, live : Nat]
    <3>1. CASE InChunk(i, b.at)
      <4>1. chunks[i].live - 1 \in Nat
        BY <1>8, <1>10, <3>1 DEF InChunk
      <4>2. chunks'[i] = [chunks[i] EXCEPT !.live = chunks[i].live - 1]
        BY <1>7, <3>1
      <4> QED
        BY <1>7, <4>1, <4>2
    <3>2. CASE ~InChunk(i, b.at)
      BY <1>7, <3>2
    <3> QED
      BY <3>1, <3>2
  <2>2. chunks' = [i \in Slots |-> chunks'[i]]
    BY <1>1
  <2>3. chunks' \in [Slots -> [base : Region \cup {0}, size : Nat, live : Nat]]
    BY <2>1, <2>2
  <2> QED
    BY <2>3 DEF ChunksType
<1>12. \A d \in Classes : free'[d] = IF d = c THEN free[d] \cup {b.at} ELSE free[d]
  BY <1>1, <1>4 DEF MemoryType, c
<1>13. MemoryType' /\ FlagsType' /\ TypeOK'
  <2>1. free' \in [Classes -> SUBSET Region]
    BY <1>1, <1>4, <1>5 DEF MemoryType, c
  <2>2. MemoryType' /\ FlagsType'
    BY <1>1, <1>4, <2>1 DEF MemoryType, FlagsType
  <2> QED
    BY <1>2, <1>11, <2>2, TypesAreNext
<1>14. ChunksInv' /\ MappingsInv' /\ \A x : Backed(x) => Backed(x)'
  BY <1>1, <1>9, StaysBacked DEF Sound, MappingsInv
<1>15. HeldInv'
  BY <1>3, <1>14, HeldNext DEF Sound
<1>16. FreeInv'
  BY <1>5, <1>6, <1>9, <1>12, SameChunksSame DEF Sound, FreeInv
<1>17. RestInv'
  BY <1>1, <1>9, SameChunksSame DEF Sound, RestInv, SameChunks
<1> QED
  BY <1>2, <1>10, <1>13, <1>14, <1>15, <1>16, <1>17 DEF Sound

\* What lies in no chunk is given up: no chunk counted it.
LEMMA NobodyCounts ==
  ASSUME Sound, UNCHANGED chunks, NEW t \in Tags, Held[t] # NoBlock, \A i \in Slots : ~InChunk(i, Held[t].at),
         \A s \in Tags : Held'[s] = IF s = t THEN NoBlock ELSE Held[s]
  PROVE  LiveInv'
<1>1. \A i \in Slots, s \in Tags : Lives(i, Held'[s]) <=> Lives(i, Held[s])
  BY DEF Lives
<1> QED
  BY <1>1, LiveKept DEF SameChunks, Sound

\* The game's allocator gets back what is in no chunk, whether it is its own or not.
LEMMA GivenOut ==
  ASSUME Sound, NEW h \in Handles, NEW b \in {block[h], old[h]}, GivesUp(h, b),
         \A i \in Slots : ~InChunk(i, b.at),
         UNCHANGED <<mappings, heap, stage>>, refused' \in BOOLEAN, wild' \in BOOLEAN
  PROVE  Sound'
<1>1. b \in Blocks /\ OwnersType' /\ ControlInv'
  BY GivingUp
<1>2. PICK t \in Tags : Held[t] = b /\ \A s \in Tags : Held'[s] = IF s = t THEN NoBlock ELSE Held[s]
  BY GivingUp
<1>3. UNCHANGED <<mappings, free, chunks, cursor, end, exhausted>> /\ b # NoBlock
  BY <1>1, Constants DEF heap
<1>4. FlagsType'
  BY <1>3, TypesAre DEF FlagsType, Sound
<1>5. LiveInv'
  BY <1>2, <1>3, NobodyCounts
<1>6. \A s \in Tags : Held'[s] # NoBlock /\ Held'[s].at # 0 => Backed(Held'[s])
  BY <1>2 DEF Sound, HeldInv
<1> QED
  BY <1>1, <1>3, <1>4, <1>5, <1>6, OnlyHolds

\* A mapping the kernel keeps is lost.
LEMMA UnmapRefusedStep ==
  ASSUME Sound, NEW h \in Handles, UnmapRefused(h)
  PROVE  Sound'
<1>1. PICK b \in {block[h], old[h]} :
        /\ GivesUp(h, b) /\ ~InClass(b.size) /\ Known(b.at, b.size)
        /\ refused' = TRUE /\ wild' = TRUE /\ UNCHANGED <<mappings, heap, stage>>
  BY DEF UnmapRefused
<1>2. b \in Blocks
  BY <1>1, GivingUp
<1>3. PICK t \in Tags : Held[t] = b
  BY <1>1, GivingUp
<1>4. MapOf(b) \in mappings /\ MapOf(b).base = b.at
  BY <1>1 DEF Known, MapOf
<1>5. b.at # 0 /\ b # NoBlock
  BY <1>2, <1>4, Constants DEF Sound, MappingsInv, SoundMappings
<1>6. OnItsOwn(b)
  BY <1>1, <1>3, <1>5 DEF Sound, HeldInv, Backed
<1>7. \A i \in Slots : ~InChunk(i, b.at)
  BY <1>2, <1>6, OwnIsNoChunk
<1> QED
  BY <1>1, <1>7, GivenOut

\* What is neither in a chunk nor in the table is the game's: it has the address
\* zero here.
LEMMA StrangersAreTheGames ==
  ASSUME Sound, NEW h \in Handles, NEW b \in {block[h], old[h]}, GivesUp(h, b),
         IF InClass(b.size) THEN ~InHeap(b.at) ELSE ~Known(b.at, b.size)
  PROVE  b.at = 0
<1>1. b \in Blocks /\ b # NoBlock
  BY GivingUp, Constants
<1>2. PICK t \in Tags : Held[t] = b
  BY GivingUp
<1>3. SUFFICES ASSUME b.at # 0
               PROVE  FALSE
  OBVIOUS
<1>4. Backed(b)
  BY <1>1, <1>2, <1>3 DEF Sound, HeldInv
<1>5. CASE InClass(b.size)
  <2>1. b.size \in Sizes /\ b.at \in Nat /\ ClassOf(b.size) \in Nat \ {0}
    BY <1>1, <1>5, ClassOfIs, Constants DEF Blocks
  <2>2. InAChunk(b.at, ClassOf(b.size))
    BY <1>4, <1>5 DEF Backed, InsideAChunk
  <2> QED
    BY <1>5, <2>1, <2>2, StartsInAChunk
<1>6. CASE ~InClass(b.size)
  BY <1>4, <1>6 DEF Backed, OnItsOwn, MapOf, Known
<1> QED
  BY <1>5, <1>6

\* The game's block goes back to the game.
LEMMA ToTheGameStep ==
  ASSUME Sound, NEW h \in Handles, ToTheGame(h)
  PROVE  Sound'
<1>1. PICK b \in {block[h], old[h]} :
        /\ GivesUp(h, b)
        /\ IF InClass(b.size) THEN ~InHeap(b.at) ELSE ~Known(b.at, b.size)
        /\ wild' = (wild \/ b.at # 0)
        /\ UNCHANGED <<mappings, heap, stage, refused>>
  BY DEF ToTheGame
<1>2. \A i \in Slots : ~InChunk(i, b.at)
  BY <1>1, StrangersAreTheGames, ZeroIsNoChunk
<1>3. refused' \in BOOLEAN
  BY <1>1 DEF Sound, TypeOK
<1>4. wild' \in BOOLEAN
  BY <1>1
<1> QED
  BY <1>1, <1>2, <1>3, <1>4, GivenOut

-----------------------------------------------------------------------------
(* What is in use, one use at a time.                                      *)

\* No two of the uses in a set overlap.
Apart(uses) == \A u, v \in uses : u # v => Units(u.at, u.span) \cap Units(v.at, v.span) = {}

\* The use of a tag, of a free block, and of the unused part.
UseAs(t, b) == [who |-> t, at |-> b.at, span |-> Span(b.size)]
UseFree(c, a) == [who |-> <<"free", c>>, at |-> a, span |-> c]
UseRest(from, to) == [who |-> <<"rest">>, at |-> from, span |-> to - from]

\* The uses of given blocks and lists, one kind after another, and one tag at a time.
UsesOf(blocks, olds, lists, from, to) ==
  {UseAs(<<"block", h>>, blocks[h]) : h \in {g \in Handles : blocks[g] # NoBlock /\ blocks[g].at # 0}}
  \cup {UseAs(<<"old", h>>, olds[h]) : h \in {g \in Handles : olds[g] # NoBlock /\ olds[g].at # 0}}
  \cup (UNION {{UseFree(c, a) : a \in lists[c]} : c \in Classes})
  \cup {UseRest(from, to)}
HeldOf(blocks, olds) == [t \in Tags |-> IF t[1] = "block" THEN blocks[t[2]] ELSE olds[t[2]]]

LEMMA UsesOfAre ==
  ASSUME NEW blocks, NEW olds, NEW lists, NEW from, NEW to, NEW u, NEW held, held = HeldOf(blocks, olds)
  PROVE  u \in UsesOf(blocks, olds, lists, from, to) <=>
           \/ \E t \in Tags : held[t] # NoBlock /\ held[t].at # 0 /\ u = UseAs(t, held[t])
           \/ \E c \in Classes : \E a \in lists[c] : u = UseFree(c, a)
           \/ u = UseRest(from, to)
<1> DEFINE OfBlocks == \E h \in Handles : blocks[h] # NoBlock /\ blocks[h].at # 0 /\ u = UseAs(<<"block", h>>, blocks[h])
           OfOlds == \E h \in Handles : olds[h] # NoBlock /\ olds[h].at # 0 /\ u = UseAs(<<"old", h>>, olds[h])
           OfLists == \E c \in Classes : \E a \in lists[c] : u = UseFree(c, a)
<1>1. u \in UsesOf(blocks, olds, lists, from, to) <=> OfBlocks \/ OfOlds \/ OfLists \/ u = UseRest(from, to)
  <2> DEFINE free1 == {{UseFree(c, a) : a \in lists[c]} : c \in Classes}
             blocks1 == {UseAs(<<"block", h>>, blocks[h]) : h \in {g \in Handles : blocks[g] # NoBlock /\ blocks[g].at # 0}}
             olds1 == {UseAs(<<"old", h>>, olds[h]) : h \in {g \in Handles : olds[g] # NoBlock /\ olds[g].at # 0}}
  <2>1. UsesOf(blocks, olds, lists, from, to) = blocks1 \cup olds1 \cup (UNION free1) \cup {UseRest(from, to)}
    BY DEF UsesOf
  <2>2. u \in UNION free1 <=> OfLists
    <3>1. u \in UNION free1 <=> \E l \in free1 : u \in l
      OBVIOUS
    <3> QED
      BY <3>1
  <2>3. (u \in blocks1 <=> OfBlocks) /\ (u \in olds1 <=> OfOlds)
    OBVIOUS
  <2> HIDE DEF free1, blocks1, olds1
  <2> QED
    BY <2>1, <2>2, <2>3
<1>2. (\E t \in Tags : held[t] # NoBlock /\ held[t].at # 0 /\ u = UseAs(t, held[t])) <=> OfBlocks \/ OfOlds
  <2>1. /\ \A h \in Handles : <<"block", h>> \in Tags /\ held[<<"block", h>>] = blocks[h]
        /\ \A h \in Handles : <<"old", h>> \in Tags /\ held[<<"old", h>>] = olds[h]
        /\ \A t \in Tags : \E h \in Handles : t = <<"block", h>> \/ t = <<"old", h>>
    BY DEF HeldOf, Tags
  <2>2. ASSUME NEW t \in Tags, held[t] # NoBlock, held[t].at # 0, u = UseAs(t, held[t])
        PROVE  OfBlocks \/ OfOlds
    <3>1. PICK h \in Handles : t = <<"block", h>> \/ t = <<"old", h>>
      BY <2>1
    <3>2. CASE t = <<"block", h>>
      <4>1. held[t] = blocks[h]
        BY <2>1, <3>2
      <4> QED
        BY <2>2, <3>2, <4>1
    <3>3. CASE t = <<"old", h>>
      <4>1. held[t] = olds[h]
        BY <2>1, <3>3
      <4> QED
        BY <2>2, <3>3, <4>1
    <3> QED
      BY <3>1, <3>2, <3>3
  <2>3. ASSUME NEW b, NEW t \in Tags, held[t] = b, b # NoBlock, b.at # 0, u = UseAs(t, b)
        PROVE  \E s \in Tags : held[s] # NoBlock /\ held[s].at # 0 /\ u = UseAs(s, held[s])
    BY <2>3
  <2> QED
    BY <2>1, <2>2, <2>3
<1> QED
  BY <1>1, <1>2

\* There are no others, before a step or after it.
LEMMA UsesAre ==
  ASSUME NEW u
  PROVE  /\ u \in Uses <=> \/ \E t \in Tags : Held[t] # NoBlock /\ Held[t].at # 0 /\ u = UseAs(t, Held[t])
                           \/ \E c \in Classes : \E a \in free[c] : u = UseFree(c, a)
                           \/ u = UseRest(cursor, end)
         /\ u \in Uses' <=> \/ \E t \in Tags : Held'[t] # NoBlock /\ Held'[t].at # 0 /\ u = UseAs(t, Held'[t])
                            \/ \E c \in Classes : \E a \in free'[c] : u = UseFree(c, a)
                            \/ u = UseRest(cursor', end')
<1>1. Held = HeldOf(block, old) /\ Held' = HeldOf(block', old')
  BY DEF Held, HeldOf
<1>2. Uses = UsesOf(block, old, free, cursor, end)
  BY DEF Uses, UsesOf, UseAs, UseFree, UseRest
<1>3. Uses' = UsesOf(block', old', free', cursor', end')
  BY DEF Uses, UsesOf, UseAs, UseFree, UseRest, Span, InClass, ClassOf, RoundUp
<1> QED
  BY <1>1, <1>2, <1>3, UsesOfAre

\* Different tags, free blocks and the unused part are different uses.
LEMMA UsesDiffer ==
  ASSUME NEW t \in Tags, NEW b
  PROVE  /\ \A s, x : UseAs(s, x) = UseAs(t, b) => s = t
         /\ \A c, a : UseFree(c, a) # UseAs(t, b)
         /\ \A from, to : UseRest(from, to) # UseAs(t, b)
         /\ \A c, a, from, to : UseFree(c, a) # UseRest(from, to)
         /\ \A c, d, a, e : UseFree(c, a) = UseFree(d, e) => c = d /\ a = e
<1>1. t[1] \in {"block", "old"}
  BY DEF Tags
<1>2. \A s, x : UseAs(s, x).who = s
  BY DEF UseAs
<1>3. /\ \A c, a : UseFree(c, a).who = <<"free", c>> /\ UseFree(c, a).at = a
      /\ \A from, to : UseRest(from, to).who = <<"rest">>
  BY DEF UseFree, UseRest
<1>4. \A c : <<"free", c>>[1] = "free" /\ <<"free", c>>[2] = c /\ <<"rest">>[1] = "rest"
  OBVIOUS
<1> QED
  BY <1>1, <1>2, <1>3, <1>4

\* Fewer uses, or one made no larger, stay apart; so does one that touches none.
LEMMA ApartIn ==
  ASSUME NEW uses, Apart(uses), NEW u \in uses, NEW v, Units(v.at, v.span) \subseteq Units(u.at, u.span),
         NEW others \in SUBSET ((uses \ {u}) \cup {v})
  PROVE  Apart(others)
BY Zenon DEF Apart

LEMMA ApartMore ==
  ASSUME NEW uses, Apart(uses), NEW v, \A u \in uses : Units(v.at, v.span) \cap Units(u.at, u.span) = {},
         NEW others \in SUBSET (uses \cup {v})
  PROVE  Apart(others)
<1> SUFFICES ASSUME NEW x \in others, NEW y \in others, x # y
             PROVE  Units(x.at, x.span) \cap Units(y.at, y.span) = {}
  BY DEF Apart
<1>1. x \in uses \/ x = v
  OBVIOUS
<1>2. y \in uses \/ y = v
  OBVIOUS
<1> QED
  BY <1>1, <1>2 DEF Apart

\* A mapping is given back to the kernel: nobody else has a block in it.
LEMMA UnmapStep ==
  ASSUME Sound, BlocksAreApart, NEW h \in Handles, Unmap(h)
  PROVE  Sound'
<1>1. PICK b \in {block[h], old[h]} :
        /\ GivesUp(h, b) /\ ~InClass(b.size) /\ Known(b.at, b.size)
        /\ mappings' = Unmapped(b.at, b.size) /\ UNCHANGED <<heap, stage, refused, wild>>
  BY DEF Unmap
<1>2. b \in Blocks /\ OwnersType' /\ ControlInv'
  BY <1>1, GivingUp
<1>3. PICK t \in Tags : Held[t] = b /\ \A s \in Tags : Held'[s] = IF s = t THEN NoBlock ELSE Held[s]
  BY <1>1, GivingUp
<1>4. MapOf(b) \in mappings /\ MapOf(b).base = b.at /\ mappings' = mappings \ {MapOf(b)}
  BY <1>1 DEF Known, Unmapped, MapOf
<1>5. b.at # 0 /\ b # NoBlock
  BY <1>2, <1>4, Constants DEF Sound, MappingsInv, SoundMappings
<1>6. OnItsOwn(b)
  BY <1>1, <1>3, <1>5 DEF Sound, HeldInv, Backed
<1>7. \A i \in Slots : ~InChunk(i, b.at) /\ chunks[i].base # b.at
  BY <1>2, <1>6, OwnIsNoChunk DEF OnItsOwn
<1>8. OwnersType /\ ChunksType /\ MemoryType /\ FlagsType
  BY TypesAre DEF Sound
<1>9. UNCHANGED <<free, chunks, cursor, end, exhausted, stage, refused, wild>> /\ SameChunks
  BY <1>1 DEF heap, SameChunks
<1>10. MappingsInv'
  <2>1. mappings' \in SUBSET mappings
    BY <1>4
  <2> QED
    BY <2>1, FewerMappings DEF Sound, MappingsInv
<1>11. TypeOK'
  <2>1. mappings' \subseteq [base : Region, size : Nat] /\ Cardinality(mappings') <= MaxMappings
    BY <1>4, <1>8, <1>10 DEF MemoryType, MappingsInv, SoundMappings
  <2>2. ChunksType' /\ MemoryType' /\ FlagsType'
    BY <1>8, <1>9, <2>1 DEF ChunksType, MemoryType, FlagsType
  <2> QED
    BY <1>2, <2>2, TypesAreNext
<1>12. ChunksInv'
  <2>1. \A i \in Slots : Mapped(i) => ChunkMap(i) \in mappings'
    BY <1>4, <1>7 DEF Sound, ChunksInv, ChunkMap
  <2> QED
    BY <1>9, <2>1, SameChunksSame DEF Sound, ChunksInv, ChunkMap, SameChunks
<1>13. HeldInv'
  <2>1. ASSUME NEW s \in Tags, NEW x, x = Held'[s], x # NoBlock, x.at # 0
        PROVE  Backed(x)'
    <3>1. s # t /\ x = Held[s] /\ Backed(x)
      BY <1>3, <2>1 DEF Sound, HeldInv
    <3>2. x \in Blocks
      BY <2>1, <3>1, HeldType DEF Sound
    <3>3. CASE InClass(x.size)
      <4>1. InAChunk(x.at, ClassOf(x.size))' /\ x.at % Alignment(ClassOf(x.size)) = 0
        BY <1>9, <3>1, <3>3, SameChunksSame DEF Backed, InsideAChunk
      <4> QED
        BY <3>3, <4>1 DEF Backed, InsideAChunk
    <3>4. CASE ~InClass(x.size)
      <4>1. MapOf(x) \in mappings /\ MapOf(x).base = x.at /\ \A i \in Slots : chunks[i].base # x.at
        BY <3>1, <3>4 DEF Backed, OnItsOwn, MapOf
      <4>2. UseAs(s, x) \in Uses /\ UseAs(t, b) \in Uses /\ UseAs(s, x) # UseAs(t, b)
        BY <1>3, <1>5, <2>1, <3>1, UsesAre, UsesDiffer
      <4>3. Units(x.at, Span(x.size)) \cap Units(b.at, Span(b.size)) = {}
        BY <4>2 DEF BlocksAreApart, UseAs
      <4>4. x.at \in Units(x.at, Span(x.size)) /\ b.at \in Units(b.at, Span(b.size))
        BY <1>1, <1>2, <1>6, <3>1, <3>2, BackedIsMapped DEF Backed
      <4>5. x.at # b.at
        BY <4>3, <4>4
      <4>6. MapOf(x) \in mappings' /\ \A i \in Slots : chunks'[i].base # x.at
        BY <1>4, <1>9, <4>1, <4>5
      <4> QED
        BY <3>4, <4>6 DEF Backed, OnItsOwn, MapOf
    <3> QED
      BY <3>3, <3>4
  <2> QED
    BY <2>1 DEF HeldInv, Backed, InsideAChunk, OnItsOwn, MapOf, InAChunk, Mapped
<1>14. LiveInv'
  BY <1>3, <1>5, <1>7, <1>9, NobodyCounts
<1>15. FreeInv' /\ RestInv'
  BY <1>9, SameChunksSame DEF Sound, FreeInv, RestInv, SameChunks
<1> QED
  BY <1>2, <1>10, <1>11, <1>12, <1>13, <1>14, <1>15 DEF Sound

\* The unused chunks go, all or some of them: nobody holds a block in one.
LEMMA TrimStep ==
  ASSUME Sound, Trim
  PROVE  Sound'
<1>1. PICK stay \in SUBSET Empty :
        /\ mappings' = mappings \ {[base |-> chunks[i].base, size |-> chunks[i].size] : i \in Empty \ stay}
        /\ chunks' = [i \in Slots |-> IF i \in Empty \ stay THEN [chunks[i] EXCEPT !.base = 0] ELSE chunks[i]]
        /\ refused' = (refused \/ stay # {})
  BY DEF Trim
<1>2. /\ stage' = "over" /\ UNCHANGED <<pc, want, block, old, wild>>
      /\ IF Empty = {}
         THEN UNCHANGED <<free, cursor, end, exhausted>>
         ELSE /\ free' = [c \in Classes |-> Kept(free[c])]
              /\ exhausted' = FALSE
              /\ IF \E i \in Empty : cursor \in chunks[i].base .. (chunks[i].base + chunks[i].size)
                 THEN cursor' = 0 /\ end' = 0
                 ELSE UNCHANGED <<cursor, end>>
  BY DEF Trim, owners
<1>3. OwnersType /\ ChunksType /\ MemoryType /\ FlagsType
  BY TypesAre DEF Sound
<1> DEFINE gone == Empty \ stay
<1>4. /\ \A i \in Slots : chunks[i] \in [base : Region \cup {0}, size : Nat, live : Nat]
      /\ gone \subseteq Empty /\ Empty \subseteq Slots
      /\ mappings' = mappings \ {ChunkMap(i) : i \in gone}
      /\ \A i \in Slots : chunks'[i] = IF i \in gone THEN [chunks[i] EXCEPT !.base = 0] ELSE chunks[i]
  BY <1>1, <1>3 DEF ChunksType, Empty, ChunkMap
<1>5. \A i \in Slots : /\ chunks'[i] \in [base : Region \cup {0}, size : Nat, live : Nat]
                       /\ chunks'[i].base = IF i \in gone THEN 0 ELSE chunks[i].base
                       /\ chunks'[i].size = chunks[i].size /\ chunks'[i].live = chunks[i].live
  BY <1>4
<1>6. ChunksType'
  <2>1. chunks' = [i \in Slots |-> chunks'[i]]
    BY <1>1
  <2>2. chunks' \in [Slots -> [base : Region \cup {0}, size : Nat, live : Nat]]
    BY <1>5, <2>1
  <2> QED
    BY <2>2 DEF ChunksType
<1> HIDE DEF gone
<1>7. /\ \A i \in Slots : Mapped(i)' <=> Mapped(i) /\ i \notin gone
      /\ \A i \in Slots : \A a : InChunk(i, a)' <=> InChunk(i, a) /\ i \notin gone
  BY <1>5 DEF Mapped, InChunk, Units
<1>8. \A i \in Empty, t \in Tags : ~Lives(i, Held[t])
  <2>1. ASSUME NEW i \in Empty
        PROVE  Holders(i) = {}
    <3>1. i \in Slots /\ Cardinality(Holders(i)) = 0
      BY DEF Sound, LiveInv, Empty
    <3>2. IsFiniteSet(Holders(i))
      BY HoldersAreFinite DEF Holders
    <3> QED
      BY <3>1, <3>2, FS_EmptySet
  <2> QED
    BY <2>1 DEF Holders
<1>9. \A a, n : (InAChunk(a, n) /\ \A i \in Empty : ~(Units(a, n) \subseteq Units(chunks[i].base, chunks[i].size)))
                  => InAChunk(a, n)'
  <2>1. ASSUME NEW a, NEW n, NEW i \in Slots, Mapped(i), i \notin Empty,
               Units(a, n) \subseteq Units(chunks[i].base, chunks[i].size)
        PROVE  InAChunk(a, n)'
    <3>1. i \notin gone /\ Mapped(i)' /\ chunks'[i].base = chunks[i].base /\ chunks'[i].size = chunks[i].size
      BY <1>4, <1>5, <1>7, <2>1
    <3> QED
      BY <2>1, <3>1 DEF InAChunk, Units
  <2> QED
    BY <2>1 DEF InAChunk
<1>10. MappingsInv'
  <2>1. mappings' \in SUBSET mappings
    BY <1>4
  <2> QED
    BY <2>1, FewerMappings DEF Sound, MappingsInv
<1>11. ChunksInv'
  <2>1. ASSUME NEW i \in Slots, Mapped(i)'
        PROVE  ChunkMap(i) \in mappings' /\ Mapped(i) /\ i \notin gone
    <3>1. Mapped(i) /\ i \notin gone
      BY <1>7, <2>1
    <3>2. \A j \in gone : ChunkMap(j) # ChunkMap(i)
      BY <1>4, <3>1 DEF Sound, ChunksInv, ChunkMap, Empty
    <3> QED
      BY <1>4, <3>1, <3>2, ChunksApart
  <2>2. \A i \in Slots : Mapped(i)' => [base |-> chunks'[i].base, size |-> chunks'[i].size] \in mappings'
    BY <1>5, <2>1 DEF ChunkMap
  <2>3. \A i, j \in Slots : Mapped(i)' /\ Mapped(j)' /\ i # j => chunks'[i].base # chunks'[j].base
    BY <1>5, <2>1 DEF Sound, ChunksInv
  <2> QED
    BY <2>2, <2>3 DEF ChunksInv, ChunkMap
<1>12. Held' = Held
  BY <1>2 DEF Held
<1>13. HeldInv'
  <2>1. ASSUME NEW t \in Tags, NEW x, x = Held[t], x # NoBlock, x.at # 0
        PROVE  Backed(x)'
    <3>1. Backed(x) /\ x \in Blocks
      BY <2>1, HeldType DEF Sound, HeldInv
    <3>2. CASE InClass(x.size)
      <4>1. ClassOf(x.size) \in Nat \ {0} /\ x.at \in Nat
        BY <3>1, <3>2, ClassOfIs, Constants DEF Blocks
      <4>2. InAChunk(x.at, ClassOf(x.size)) /\ x.at % Alignment(ClassOf(x.size)) = 0
        BY <3>1, <3>2 DEF Backed, InsideAChunk
      <4>3. x.at \in Units(x.at, ClassOf(x.size))
        BY <4>1 DEF Units
      <4>4. ASSUME NEW i \in Empty, Units(x.at, ClassOf(x.size)) \subseteq Units(chunks[i].base, chunks[i].size)
            PROVE  FALSE
        <5>1. Lives(i, x)
          BY <2>1, <4>3, <4>4 DEF Lives, InChunk, Empty
        <5> QED
          BY <1>8, <2>1, <5>1
      <4>5. InAChunk(x.at, ClassOf(x.size))'
        BY <1>9, <4>2, <4>4
      <4> QED
        BY <3>2, <4>2, <4>5 DEF Backed, InsideAChunk
    <3>3. CASE ~InClass(x.size)
      <4>1. MapOf(x) \in mappings /\ MapOf(x).base = x.at /\ \A i \in Slots : chunks[i].base # x.at
        BY <3>1, <3>3 DEF Backed, OnItsOwn, MapOf
      <4>2. \A i \in gone : ChunkMap(i) # MapOf(x)
        BY <1>4, <4>1 DEF ChunkMap
      <4>3. MapOf(x) \in mappings' /\ \A i \in Slots : chunks'[i].base # x.at
        BY <1>4, <1>5, <2>1, <4>1, <4>2
      <4> QED
        BY <3>3, <4>3 DEF Backed, OnItsOwn, MapOf
    <3> QED
      BY <3>2, <3>3
  <2> QED
    BY <1>12, <2>1 DEF HeldInv, Backed, InsideAChunk, OnItsOwn, MapOf, InAChunk, Mapped
<1>14. \A c \in Classes : \A a \in free'[c] : a \in free[c] /\ \A i \in Empty : ~InChunk(i, a)
  BY <1>2 DEF Kept
<1>15. FreeInv'
  <2>1. ASSUME NEW c \in Classes, NEW a \in free'[c]
        PROVE  InAChunk(a, c)' /\ a % Alignment(c) = 0
    <3>1. a \in free[c] /\ InAChunk(a, c) /\ a % Alignment(c) = 0
      BY <1>14 DEF Sound, FreeInv
    <3>2. a \in Nat /\ c \in Nat \ {0}
      BY <1>3, <3>1, Constants DEF MemoryType
    <3>3. a \in Units(a, c)
      BY <3>2 DEF Units
    <3>4. \A i \in Empty : ~(Units(a, c) \subseteq Units(chunks[i].base, chunks[i].size))
      BY <1>14, <3>3 DEF InChunk, Empty
    <3> QED
      BY <1>9, <3>1, <3>4
  <2> QED
    BY <2>1 DEF FreeInv
<1>16. (cursor' = 0 /\ end' = 0) \/ (cursor' = cursor /\ end' = end)
  BY <1>2
<1>17. RestInv'
  <2>1. CASE cursor' = 0
    <3>1. end' = 0
      BY <1>16, <2>1 DEF Sound, RestInv
    <3> QED
      BY <2>1, <3>1 DEF RestInv
  <2>2. CASE cursor' # 0
    <3>1. cursor' = cursor /\ end' = end /\ cursor # 0
      BY <1>16, <2>2
    <3>2. PICK i \in Slots : Mapped(i) /\ chunks[i].base <= cursor /\ end = chunks[i].base + chunks[i].size
      BY <3>1 DEF Sound, RestInv
    <3>3. cursor \in chunks[i].base .. (chunks[i].base + chunks[i].size)
      <4>1. chunks[i].base \in Nat /\ chunks[i].size \in Nat /\ cursor \in Nat /\ cursor <= end
        BY <1>3, <3>2, ChunksApart, Constants DEF MemoryType
      <4> QED
        BY <3>2, <4>1
    <3>4. i \notin Empty
      BY <1>2, <2>2, <3>3
    <3>5. Mapped(i)' /\ chunks'[i].base = chunks[i].base /\ chunks'[i].size = chunks[i].size
      BY <1>4, <1>5, <1>7, <3>2, <3>4
    <3> QED
      BY <3>1, <3>2, <3>5 DEF RestInv
  <2> QED
    BY <2>1, <2>2
<1>18. LiveInv'
  <2>1. ASSUME NEW i \in Slots, Mapped(i)'
        PROVE  chunks'[i].live = Cardinality(Holders(i)')
    <3>1. Mapped(i) /\ i \notin gone /\ \A a : InChunk(i, a)' <=> InChunk(i, a)
      BY <1>7, <2>1
    <3>2. \A t \in Tags : Lives(i, Held[t])' <=> Lives(i, Held[t])
      BY <1>12, <3>1 DEF Lives
    <3>3. Holders(i)' = Holders(i)
      BY <3>2 DEF Holders
    <3> QED
      BY <1>5, <3>1, <3>3 DEF Sound, LiveInv
  <2> QED
    BY <2>1 DEF LiveInv
<1>19. TypeOK' /\ ControlInv'
  <2>1. free' \in [Classes -> SUBSET Region]
    BY <1>2, <1>3 DEF MemoryType, Kept
  <2>2. cursor' \in Nat /\ end' \in Nat /\ cursor' <= end'
    BY <1>3, <1>16 DEF MemoryType
  <2>3. mappings' \subseteq [base : Region, size : Nat] /\ Cardinality(mappings') <= MaxMappings
    BY <1>3, <1>4, <1>10 DEF MemoryType, MappingsInv, SoundMappings
  <2>4. MemoryType'
    BY <2>1, <2>2, <2>3 DEF MemoryType
  <2>5. refused' \in BOOLEAN
    BY <1>1
  <2>6. FlagsType'
    BY <1>2, <1>3, <2>5 DEF FlagsType
  <2>7. OwnersType' /\ ControlInv'
    BY <1>2, <1>3 DEF OwnersType, Sound, ControlInv
  <2> QED
    BY <1>6, <2>4, <2>6, <2>7, TypesAreNext
<1> QED
  BY <1>10, <1>11, <1>13, <1>15, <1>17, <1>18, <1>19 DEF Sound

-----------------------------------------------------------------------------
(* No step makes two uses overlap.                                         *)

\* Uses after a step are apart when each of them is one of those that are.
LEMMA ApartNext ==
  ASSUME NEW uses, Apart(uses),
         \A t \in Tags : Held'[t] = NoBlock \/ Held'[t].at = 0 \/ UseAs(t, Held'[t]) \in uses,
         \A c \in Classes : \A a \in free'[c] : UseFree(c, a) \in uses,
         UseRest(cursor', end') \in uses
  PROVE  BlocksAreApart'
<1>1. \A u \in Uses' : u \in uses
  BY UsesAre
<1>2. Apart(Uses')
  BY <1>1 DEF Apart
<1> QED
  BY <1>2 DEF BlocksAreApart, Apart, Units

\* What is in use now.
LEMMA InUse ==
  /\ \A t \in Tags : Held[t] # NoBlock /\ Held[t].at # 0 => UseAs(t, Held[t]) \in Uses
  /\ \A c \in Classes : \A a \in free[c] : UseFree(c, a) \in Uses
  /\ UseRest(cursor, end) \in Uses
  /\ BlocksAreApart => Apart(Uses)
BY UsesAre DEF BlocksAreApart, Apart

\* A step that only gives up what tags hold.
LEMMA ApartWithLess ==
  ASSUME BlocksAreApart, UNCHANGED <<free, cursor, end>>,
         \A t \in Tags : Held'[t] = NoBlock \/ Held'[t].at = 0 \/ Held'[t] = Held[t]
  PROVE  BlocksAreApart'
<1>1. \A t \in Tags : Held'[t] = NoBlock \/ Held'[t].at = 0 \/ UseAs(t, Held'[t]) \in Uses
  BY InUse
<1> QED
  BY <1>1, InUse, ApartNext

\* A block from a free list.
LEMMA TakeFreeApart ==
  ASSUME Sound, BlocksAreApart, NEW h \in Handles, TakeFree(h)
  PROVE  BlocksAreApart'
<1> DEFINE c == ClassOf(want[h])
           tag == <<"block", h>>
<1>1. PICK a \in free[c] :
        /\ pc[h] = "heap" /\ free' = [free EXCEPT ![c] = @ \ {a}] /\ Take(h, a)
        /\ UNCHANGED <<cursor, end, old>>
  BY DEF TakeFree
<1>2. want[h] \in Sizes /\ InClass(want[h])
  BY <1>1 DEF Sound, ControlInv
<1>3. c \in Classes /\ c = Span(want[h])
  BY <1>2, ClassOfIs DEF Span
<1> HIDE DEF c
<1>4. free \in [Classes -> SUBSET Region] /\ a \in Region
  BY <1>1, <1>3 DEF Sound, TypeOK
<1> DEFINE b == [at |-> a, size |-> want[h]]
<1>5. \A t \in Tags : Held'[t] = IF t = tag THEN b ELSE Held[t]
  BY <1>1, <1>4, Taking
<1>6. b.at = a /\ b.size = want[h]
  OBVIOUS
<1> HIDE DEF b
<1> DEFINE was == UseFree(c, a)
           is == UseAs(tag, b)
<1>7. was \in Uses /\ was.at = is.at /\ was.span = is.span
  BY <1>1, <1>3, <1>6, InUse DEF UseFree, UseAs
<1> DEFINE uses == (Uses \ {was}) \cup {is}
<1>8. Apart(uses)
  <2> HIDE DEF was, is
  <2> QED
    BY <1>7, InUse, ApartIn
<1>9. \A t \in Tags : Held'[t] = NoBlock \/ Held'[t].at = 0 \/ UseAs(t, Held'[t]) \in uses
  BY <1>5, InUse, UsesDiffer
<1>10. \A d \in Classes : \A e \in free'[d] : UseFree(d, e) \in uses
  <2>1. ASSUME NEW d \in Classes, NEW e \in free'[d]
        PROVE  UseFree(d, e) \in Uses /\ UseFree(d, e) # was
    <3>1. e \in free[d] /\ (d # c \/ e # a)
      BY <1>1, <1>3, <1>4, <2>1
    <3>2. tag \in Tags
      BY HeldIs
    <3> QED
      BY <3>1, <3>2, InUse, UsesDiffer
  <2> QED
    BY <2>1
<1>11. UseRest(cursor', end') \in uses
  <2>1. UseRest(cursor, end) # was
    BY UsesDiffer, HeldIs
  <2> QED
    BY <1>1, <2>1, InUse
<1> HIDE DEF uses
<1> QED
  BY <1>8, <1>9, <1>10, <1>11, ApartNext

\* A block from the unused part.
LEMMA BumpApart ==
  ASSUME Sound, BlocksAreApart, NEW h \in Handles, Bump(h)
  PROVE  BlocksAreApart'
<1> DEFINE c == ClassOf(want[h])
           a == Start(c)
           tag == <<"block", h>>
           b == [at |-> a, size |-> want[h]]
<1>1. /\ pc[h] = "heap" /\ Fits(c) /\ cursor' = a + c /\ Take(h, a)
      /\ UNCHANGED <<free, end, old>>
  BY DEF Bump, After
<1>2. want[h] \in Sizes /\ InClass(want[h])
  BY <1>1 DEF Sound, ControlInv
<1>3. c \in Classes /\ c \in Nat \ {0} /\ c = Span(want[h])
  BY <1>2, ClassOfIs DEF Span
<1> HIDE DEF c
<1>4. cursor # 0 /\ a + c <= end /\ cursor \in Nat /\ end \in Nat
  BY <1>1 DEF Fits, Sound, TypeOK
<1>5. a \in Nat /\ a >= cursor
  BY <1>3, <1>4, AlignmentIs, RoundedUp DEF Start
<1> HIDE DEF a
<1>6. a \in Region
  <2>1. PICK i \in Slots : Mapped(i) /\ chunks[i].base <= cursor /\ end = chunks[i].base + chunks[i].size
    BY <1>4 DEF Sound, RestInv
  <2>2. /\ chunks[i].base \in Nat /\ chunks[i].size \in Nat
        /\ Units(chunks[i].base, chunks[i].size) \subseteq Region
    BY <2>1, ChunksApart, Constants DEF ChunkMap, Sound, MappingsInv, SoundMappings
  <2>3. a \in Units(chunks[i].base, chunks[i].size)
    BY <1>3, <1>4, <1>5, <2>1, <2>2 DEF Units
  <2> QED
    BY <2>2, <2>3
<1>7. \A t \in Tags : Held'[t] = IF t = tag THEN b ELSE Held[t]
  BY <1>1, <1>6, Taking
<1>8. b.at = a /\ b.size = want[h]
  OBVIOUS
<1> HIDE DEF b
<1> DEFINE was == UseRest(cursor, end)
           is == UseAs(tag, b)
           left == UseRest(cursor', end')
<1>9. /\ Units(is.at, is.span) \subseteq Units(was.at, was.span)
      /\ Units(left.at, left.span) \subseteq Units(was.at, was.span)
      /\ Units(left.at, left.span) \cap Units(is.at, is.span) = {}
  <2>1. is.at = a /\ is.span = c /\ was.at = cursor /\ was.span = end - cursor
        /\ left.at = a + c /\ left.span = end - (a + c)
    BY <1>1, <1>3, <1>8 DEF UseRest, UseAs
  <2> QED
    BY <1>3, <1>4, <1>5, <2>1 DEF Units
<1> DEFINE kept == (Uses \ {was}) \cup {is}
           uses == kept \cup {left}
<1>10. was \in Uses /\ Apart(Uses)
  BY InUse
<1>11. Apart(uses)
  <2> HIDE DEF was, is, left
  <2>1. kept \in SUBSET ((Uses \ {was}) \cup {is}) /\ uses \in SUBSET (kept \cup {left})
    OBVIOUS
  <2>2. Apart(kept)
    BY <1>9, <1>10, <2>1, ApartIn
  <2>3. \A u \in kept : Units(left.at, left.span) \cap Units(u.at, u.span) = {}
    BY <1>9, <1>10 DEF Apart
  <2> HIDE DEF kept, uses
  <2> QED
    BY <2>1, <2>2, <2>3, ApartMore
<1>12. \A t \in Tags : Held'[t] = NoBlock \/ Held'[t].at = 0 \/ UseAs(t, Held'[t]) \in uses
  BY <1>7, InUse, UsesDiffer
<1>13. \A d \in Classes : \A e \in free'[d] : UseFree(d, e) \in uses
  BY <1>1, InUse, UsesDiffer, HeldIs
<1>14. UseRest(cursor', end') \in uses
  OBVIOUS
<1> HIDE DEF uses
<1> QED
  BY <1>11, <1>12, <1>13, <1>14, ApartNext

\* What is in a chunk is in a mapping.
LEMMA ChunkIsMapped ==
  ASSUME Sound, NEW a, NEW n, InAChunk(a, n)
  PROVE  \E m \in mappings : Units(a, n) \subseteq Units(m.base, m.size)
<1>1. PICK i \in Slots : Mapped(i) /\ Units(a, n) \subseteq Units(chunks[i].base, chunks[i].size)
  BY DEF InAChunk
<1>2. ChunkMap(i) \in mappings
  BY <1>1, ChunksApart
<1> QED
  BY <1>1, <1>2 DEF ChunkMap

\* Whatever is in use is in a mapping, and aligned.
LEMMA UsesFit ==
  ASSUME Sound
  PROVE  BlocksFit
<1> SUFFICES ASSUME NEW u \in Uses, u.span # 0
             PROVE  /\ \E m \in mappings : Units(u.at, u.span) \subseteq Units(m.base, m.size)
                    /\ u.who[1] # "rest" => u.at % Least(u.span, Page) = 0
  BY DEF BlocksFit
<1>1. ASSUME NEW t \in Tags, NEW b, b = Held[t], b # NoBlock, b.at # 0, u = UseAs(t, b)
      PROVE  /\ \E m \in mappings : Units(u.at, u.span) \subseteq Units(m.base, m.size)
             /\ u.at % Least(u.span, Page) = 0
  <2>1. b \in Blocks /\ Backed(b) /\ b.size \in Sizes
    BY <1>1, HeldType DEF Sound, HeldInv, Blocks
  <2>2. u.at = b.at /\ u.span = Span(b.size)
    BY <1>1 DEF UseAs
  <2>3. CASE InClass(b.size)
    <3>1. Span(b.size) = ClassOf(b.size) /\ b.at % Alignment(ClassOf(b.size)) = 0
      BY <2>1, <2>3 DEF Backed, InsideAChunk, Span
    <3> QED
      BY <2>1, <2>2, <3>1, BackedIsMapped DEF Alignment
  <2>4. CASE ~InClass(b.size)
    <3>1. b.at % Page = 0
      <4>1. MapOf(b) \in mappings /\ MapOf(b).base = b.at
        BY <2>1, <2>4 DEF Backed, OnItsOwn, MapOf
      <4> QED
        BY <4>1 DEF Sound, MappingsInv, SoundMappings
    <3>2. Span(b.size) \in Nat /\ Span(b.size) >= Page /\ Page \in Nat
      BY <2>1, <2>4, SpanIs, Constants
    <3>3. Least(Span(b.size), Page) = Page
      BY <3>2 DEF Least
    <3> QED
      BY <2>1, <2>2, <3>1, <3>3, BackedIsMapped
  <2> QED
    BY <2>3, <2>4
<1>2. ASSUME NEW c \in Classes, NEW a \in free[c], u = UseFree(c, a)
      PROVE  /\ \E m \in mappings : Units(u.at, u.span) \subseteq Units(m.base, m.size)
             /\ u.at % Least(u.span, Page) = 0
  <2>1. u.at = a /\ u.span = c /\ InAChunk(a, c) /\ a % Alignment(c) = 0
    BY <1>2 DEF UseFree, Sound, FreeInv
  <2> QED
    BY <2>1, ChunkIsMapped DEF Alignment
<1>3. ASSUME u = UseRest(cursor, end)
      PROVE  /\ \E m \in mappings : Units(u.at, u.span) \subseteq Units(m.base, m.size)
             /\ u.who[1] = "rest"
  <2>1. u.at = cursor /\ u.span = end - cursor /\ u.who[1] = "rest"
    BY <1>3 DEF UseRest
  <2>2. cursor # 0 /\ cursor \in Nat /\ end \in Nat
    BY <2>1 DEF Sound, RestInv, TypeOK
  <2>3. PICK i \in Slots : Mapped(i) /\ chunks[i].base <= cursor /\ end = chunks[i].base + chunks[i].size
    BY <2>2 DEF Sound, RestInv
  <2>4. chunks[i].base \in Nat /\ chunks[i].size \in Nat
    BY <2>3, ChunksApart, Constants
  <2>5. InAChunk(u.at, u.span)
    BY <2>1, <2>2, <2>3, <2>4 DEF InAChunk, Units
  <2> QED
    BY <2>1, <2>5, ChunkIsMapped
<1> QED
  BY <1>1, <1>2, <1>3, UsesAre

\* What touches no mapping touches nothing in use.
LEMMA TouchesNothing ==
  ASSUME Sound, NEW a, NEW s, \A m \in mappings : Units(a, s) \cap Units(m.base, m.size) = {}, NEW u \in Uses
  PROVE  Units(a, s) \cap Units(u.at, u.span) = {}
<1>1. CASE u.span # 0
  BY <1>1, UsesFit DEF BlocksFit
<1>2. CASE u.span = 0
  <2>1. u.at \in Nat
    <3>1. \A t \in Tags : Held[t] # NoBlock => UseAs(t, Held[t]).at \in Nat
      BY HeldType, Constants DEF Sound, UseAs
    <3>2. \A c \in Classes : \A e \in free[c] : UseFree(c, e).at \in Nat
      BY Constants DEF Sound, TypeOK, UseFree
    <3>3. UseRest(cursor, end).at \in Nat
      BY DEF Sound, TypeOK, UseRest
    <3> QED
      BY <3>1, <3>2, <3>3, UsesAre
  <2> QED
    BY <1>2, <2>1 DEF Units
<1> QED
  BY <1>1, <1>2

\* The first block of a new chunk, and what the chunk has left.
LEMMA GrowApart ==
  ASSUME Sound, BlocksAreApart, NEW h \in Handles, Grow(h)
  PROVE  BlocksAreApart'
<1> DEFINE tag == <<"block", h>>
<1> SUFFICES ASSUME NEW n, n = want[h], NEW c, c = ClassOf(n), NEW s, s = ChunkSize(c),
                    NEW a \in Region, NEW b, b = [at |-> a, size |-> n],
                    pc[h] = "heap", Map(a, s),
                    cursor' = a + c, end' = a + s, Take(h, a), UNCHANGED <<free, old>>
             PROVE  BlocksAreApart'
  BY DEF Grow, After
<1>1. n \in Sizes /\ InClass(n)
  BY DEF Sound, ControlInv
<1>2. c \in Classes /\ c \in Nat \ {0} /\ c = Span(n)
  BY <1>1, ClassOfIs DEF Span
<1>3. s \in Nat \ {0} /\ c <= s /\ RoundUp(s, Page) = s
  BY <1>2, ChunkSizeIs
<1>4. \A m \in mappings : Units(a, s) \cap Units(m.base, m.size) = {}
  BY <1>3, Mapping DEF Sound
<1>5. \A t \in Tags : Held'[t] = IF t = tag THEN b ELSE Held[t]
  BY Taking
<1> DEFINE is == UseAs(tag, b)
           left == UseRest(cursor', end')
<1>6. /\ Units(is.at, is.span) \subseteq Units(a, s) /\ Units(left.at, left.span) \subseteq Units(a, s)
      /\ Units(left.at, left.span) \cap Units(is.at, is.span) = {}
  <2>1. is.at = a /\ is.span = c /\ left.at = a + c /\ left.span = (a + s) - (a + c)
    BY <1>2 DEF UseRest, UseAs
  <2>2. a \in Nat
    BY Constants
  <2> QED
    BY <1>2, <1>3, <2>1, <2>2 DEF Units
<1>7. \A u \in Uses : Units(a, s) \cap Units(u.at, u.span) = {}
  BY <1>4, TouchesNothing
<1> DEFINE more == Uses \cup {is}
           uses == more \cup {left}
<1>8. Apart(uses)
  <2> HIDE DEF is, left
  <2>1. more \in SUBSET (Uses \cup {is}) /\ uses \in SUBSET (more \cup {left})
    OBVIOUS
  <2>2. Apart(more)
    <3>1. \A u \in Uses : Units(is.at, is.span) \cap Units(u.at, u.span) = {}
      BY <1>6, <1>7
    <3> HIDE DEF more
    <3> QED
      BY <2>1, <3>1, InUse, ApartMore
  <2>3. \A u \in more : Units(left.at, left.span) \cap Units(u.at, u.span) = {}
    BY <1>6, <1>7
  <2> HIDE DEF more, uses
  <2> QED
    BY <2>1, <2>2, <2>3, ApartMore
<1>9. \A t \in Tags : Held'[t] = NoBlock \/ Held'[t].at = 0 \/ UseAs(t, Held'[t]) \in uses
  BY <1>5, InUse
<1>10. \A d \in Classes : \A e \in free'[d] : UseFree(d, e) \in uses
  BY InUse
<1>11. UseRest(cursor', end') \in uses
  OBVIOUS
<1> HIDE DEF uses
<1> QED
  BY <1>8, <1>9, <1>10, <1>11, ApartNext

\* A mapping of its own, or the game's memory.
LEMMA MapBlockApart ==
  ASSUME Sound, BlocksAreApart, NEW h \in Handles, MapBlock(h)
  PROVE  BlocksAreApart'
<1> DEFINE tag == <<"block", h>>
<1>1. pc[h] = "map" /\ UNCHANGED <<free, cursor, end, old>>
  BY DEF MapBlock, heap
<1>2. CASE Take(h, 0)
  <2>1. \A t \in Tags : Held'[t] = IF t = tag THEN [at |-> 0, size |-> want[h]] ELSE Held[t]
    BY <1>1, <1>2, Taking
  <2>2. \A t \in Tags : Held'[t].at = 0 \/ Held'[t] = Held[t]
    BY <2>1
  <2> QED
    BY <1>1, <2>2, ApartWithLess
<1>3. ASSUME NEW a \in Region, Map(a, want[h]), Take(h, a)
      PROVE  BlocksAreApart'
  <2> SUFFICES ASSUME NEW b, b = [at |-> a, size |-> want[h]]
               PROVE  BlocksAreApart'
    OBVIOUS
  <2>1. want[h] \in Sizes /\ want[h] \in Nat \ {0} /\ ~InClass(want[h])
    BY <1>1, Constants DEF Sound, ControlInv
  <2>2. \A m \in mappings : Units(a, RoundUp(want[h], Page)) \cap Units(m.base, m.size) = {}
    BY <1>3, <2>1, Mapping DEF Sound
  <2>3. \A t \in Tags : Held'[t] = IF t = tag THEN b ELSE Held[t]
    BY <1>1, <1>3, Taking
  <2> DEFINE is == UseAs(tag, b)
             uses == Uses \cup {is}
  <2>4. is.at = a /\ is.span = RoundUp(want[h], Page)
    BY <2>1 DEF UseAs, Span
  <2>5. Apart(uses)
    <3>1. \A u \in Uses : Units(is.at, is.span) \cap Units(u.at, u.span) = {}
      BY <2>2, <2>4, TouchesNothing
    <3> HIDE DEF is
    <3>2. uses \in SUBSET (Uses \cup {is})
      OBVIOUS
    <3> HIDE DEF uses
    <3> QED
      BY <3>1, <3>2, InUse, ApartMore
  <2>6. \A t \in Tags : Held'[t] = NoBlock \/ Held'[t].at = 0 \/ UseAs(t, Held'[t]) \in uses
    BY <2>3, InUse
  <2>7. /\ \A d \in Classes : \A e \in free'[d] : UseFree(d, e) \in uses
        /\ UseRest(cursor', end') \in uses
    BY <1>1, InUse
  <2> HIDE DEF uses
  <2> QED
    BY <2>5, <2>6, <2>7, ApartNext
<1> QED
  BY <1>2, <1>3 DEF MapBlock

\* alloc and realloc asking, and the game answering, give nobody memory of ours.
LEMMA RequestApart ==
  ASSUME Sound, BlocksAreApart, NEW h \in Handles, NEW n, NEW moving, Request(h, n, moving),
         UNCHANGED <<heap, old>>
  PROVE  BlocksAreApart'
<1>1. block' = [block EXCEPT ![h] = [at |-> 0, size |-> n]] \/ block' = [block EXCEPT ![h] = NoBlock]
  BY DEF Request, Got
<1>2. block \in [Handles -> Blocks \cup {NoBlock}] /\ UNCHANGED <<free, cursor, end>>
  BY DEF Sound, TypeOK, heap
<1>3. \A t \in Tags : Held'[t] = NoBlock \/ Held'[t].at = 0 \/ Held'[t] = Held[t]
  BY <1>1, <1>2 DEF Held, Tags
<1> QED
  BY <1>2, <1>3, ApartWithLess

LEMMA GrowFailsApart ==
  ASSUME Sound, BlocksAreApart, NEW h \in Handles, GrowFails(h)
  PROVE  BlocksAreApart'
<1>1. pc[h] = "heap" /\ Take(h, 0) /\ UNCHANGED <<free, cursor, end, old>>
  BY DEF GrowFails
<1>2. \A t \in Tags : Held'[t] = IF t = <<"block", h>> THEN [at |-> 0, size |-> want[h]] ELSE Held[t]
  BY <1>1, Taking
<1>3. \A t \in Tags : Held'[t].at = 0 \/ Held'[t] = Held[t]
  BY <1>2
<1> QED
  BY <1>1, <1>3, ApartWithLess

\* realloc in place keeps the block, realloc by moving keeps the old one.
LEMMA ReallocApart ==
  ASSUME Sound, BlocksAreApart, NEW h \in Handles, NEW n \in Sizes, Realloc(h, n)
  PROVE  BlocksAreApart'
<1>1. pc[h] = "idle" /\ block[h] # NoBlock /\ UNCHANGED <<free, cursor, end>>
  BY DEF Realloc, heap
<1>2. /\ block \in [Handles -> Blocks \cup {NoBlock}] /\ old \in [Handles -> Blocks \cup {NoBlock}]
      /\ block[h] \in Blocks
  BY <1>1 DEF Sound, TypeOK
<1> DEFINE tag == <<"block", h>>
           to == <<"old", h>>
<1>3. tag \in Tags /\ to \in Tags /\ tag # to /\ Held[tag] = block[h] /\ Held[to] = NoBlock
  BY <1>1, HeldIs DEF Sound, ControlInv
<1>4. /\ \A c \in Classes : \A a \in free'[c] : UseFree(c, a) \in Uses
      /\ UseRest(cursor', end') \in Uses /\ Apart(Uses)
  BY <1>1, InUse
<1>5. CASE block' = [block EXCEPT ![h] = [at |-> 0, size |-> n]] /\ UNCHANGED old
  <2>1. \A t \in Tags : Held'[t].at = 0 \/ Held'[t] = Held[t]
    BY <1>2, <1>5 DEF Held, Tags
  <2> QED
    BY <1>1, <2>1, ApartWithLess
<1>6. CASE HasTheRoom(block[h], n) /\ block' = [block EXCEPT ![h].size = n] /\ UNCHANGED old
  <2>1. \A t \in Tags : Held'[t] = IF t = tag THEN [block[h] EXCEPT !.size = n] ELSE Held[t]
    BY <1>2, <1>6 DEF Held, Tags
  <2> SUFFICES ASSUME NEW b, b = [block[h] EXCEPT !.size = n]
               PROVE  BlocksAreApart'
    OBVIOUS
  <2>2. b.at = block[h].at /\ b.size = n
    BY <1>2 DEF Blocks
  <2>3. Span(b.size) = Span(block[h].size)
    BY <1>6, <2>2 DEF HasTheRoom, Span
  <2>4. UseAs(tag, b) = UseAs(tag, block[h])
    BY <2>2, <2>3 DEF UseAs
  <2>5. \A t \in Tags : Held'[t] = NoBlock \/ Held'[t].at = 0 \/ UseAs(t, Held'[t]) \in Uses
    <3>1. ASSUME NEW t \in Tags, Held'[t] # NoBlock, Held'[t].at # 0
          PROVE  UseAs(t, Held'[t]) \in Uses
      <4>1. CASE t = tag
        <5>1. Held'[t] = b /\ Held[t] = block[h] /\ block[h].at # 0
          BY <1>3, <2>1, <2>2, <3>1, <4>1
        <5>2. UseAs(t, Held[t]) \in Uses
          BY <1>1, <5>1, InUse
        <5> QED
          BY <2>4, <4>1, <5>1, <5>2
      <4>2. CASE t # tag
        <5>1. Held'[t] = Held[t]
          BY <2>1, <4>2
        <5> QED
          BY <3>1, <5>1, InUse
      <4> QED
        BY <4>1, <4>2
    <3> QED
      BY <3>1
  <2> QED
    BY <1>4, <2>5, ApartNext
<1>7. CASE old' = [old EXCEPT ![h] = block[h]] /\ block' = [block EXCEPT ![h] = NoBlock]
  <2>1. \A t \in Tags : Held'[t] = IF t = to THEN block[h] ELSE IF t = tag THEN NoBlock ELSE Held[t]
    BY <1>2, <1>7 DEF Held, Tags
  <2>2. CASE block[h].at = 0
    <3>1. \A t \in Tags : Held'[t] = NoBlock \/ Held'[t].at = 0 \/ Held'[t] = Held[t]
      BY <2>1, <2>2
    <3> QED
      BY <1>1, <3>1, ApartWithLess
  <2>3. CASE block[h].at # 0
    <3> DEFINE was == UseAs(tag, block[h])
               is == UseAs(to, block[h])
               uses == (Uses \ {was}) \cup {is}
    <3>1. was \in Uses /\ was.at = is.at /\ was.span = is.span
      <4>1. was \in Uses
        BY <1>1, <1>3, <2>3, InUse
      <4> QED
        BY <4>1 DEF UseAs
    <3>2. Apart(uses)
      <4> HIDE DEF was, is
      <4> QED
        BY <1>4, <3>1, ApartIn
    <3>3. \A t \in Tags : Held'[t] = NoBlock \/ Held'[t].at = 0 \/ UseAs(t, Held'[t]) \in uses
      <4>1. ASSUME NEW t \in Tags, Held'[t] # NoBlock, Held'[t].at # 0
            PROVE  UseAs(t, Held'[t]) \in uses
        <5>1. CASE t = to
          BY <2>1, <5>1
        <5>2. CASE t # to
          <6>1. t # tag /\ Held'[t] = Held[t]
            BY <1>3, <2>1, <4>1, <5>2
          <6>2. UseAs(t, Held[t]) \in Uses /\ UseAs(t, Held[t]) # was
            BY <1>3, <4>1, <6>1, InUse, UsesDiffer
          <6> QED
            BY <6>1, <6>2
        <5> QED
          BY <5>1, <5>2
      <4> QED
        BY <4>1
    <3>4. /\ \A c \in Classes : \A a \in free'[c] : UseFree(c, a) \in uses
          /\ UseRest(cursor', end') \in uses
      BY <1>3, <1>4, UsesDiffer
    <3> HIDE DEF uses
    <3> QED
      BY <3>2, <3>3, <3>4, ApartNext
  <2> QED
    BY <2>2, <2>3
<1> QED
  BY <1>5, <1>6, <1>7 DEF Realloc

\* A block goes on the list of its class: it takes up there what it did.
LEMMA ReleaseApart ==
  ASSUME Sound, BlocksAreApart, NEW h \in Handles, Release(h)
  PROVE  BlocksAreApart'
<1>1. PICK b \in {block[h], old[h]} :
        /\ GivesUp(h, b) /\ InClass(b.size) /\ InHeap(b.at)
        /\ free' = [free EXCEPT ![ClassOf(b.size)] = @ \cup {b.at}]
        /\ UNCHANGED <<cursor, end>>
  BY DEF Release
<1>2. PICK t \in Tags : Held[t] = b /\ \A s \in Tags : Held'[s] = IF s = t THEN NoBlock ELSE Held[s]
  BY <1>1, GivingUp
<1>3. b \in Blocks /\ b # NoBlock /\ b.size \in Sizes /\ b.at # 0
  BY <1>1, GivingUp, Constants, ZeroIsNoChunk DEF Blocks, InHeap
<1> DEFINE c == ClassOf(b.size)
<1>4. c \in Classes /\ Span(b.size) = c
  BY <1>1, <1>3, ClassOfIs DEF Span
<1>5. \A d \in Classes : free'[d] = IF d = c THEN free[d] \cup {b.at} ELSE free[d]
  BY <1>1 DEF Sound, TypeOK
<1> HIDE DEF c
<1> DEFINE was == UseAs(t, b)
           is == UseFree(c, b.at)
           uses == (Uses \ {was}) \cup {is}
<1>6. was \in Uses /\ was.at = is.at /\ was.span = is.span
  <2>1. was \in Uses
    BY <1>2, <1>3, InUse
  <2> QED
    BY <1>4, <2>1 DEF UseAs, UseFree
<1>7. Apart(uses)
  <2> HIDE DEF was, is
  <2> QED
    BY <1>6, InUse, ApartIn
<1>8. \A s \in Tags : Held'[s] = NoBlock \/ Held'[s].at = 0 \/ UseAs(s, Held'[s]) \in uses
  <2>1. ASSUME NEW s \in Tags, Held'[s] # NoBlock, Held'[s].at # 0
        PROVE  UseAs(s, Held'[s]) \in uses
    <3>1. s # t /\ Held'[s] = Held[s]
      BY <1>2, <2>1
    <3>2. UseAs(s, Held[s]) \in Uses /\ UseAs(s, Held[s]) # was
      BY <2>1, <3>1, InUse, UsesDiffer
    <3> QED
      BY <3>1, <3>2
  <2> QED
    BY <2>1
<1>9. \A d \in Classes : \A e \in free'[d] : UseFree(d, e) \in uses
  BY <1>5, InUse, UsesDiffer
<1>10. UseRest(cursor', end') \in uses
  BY <1>1, InUse, UsesDiffer
<1> HIDE DEF uses
<1> QED
  BY <1>7, <1>8, <1>9, <1>10, ApartNext

\* A block that is given to the kernel or to the game is in use no more.
LEMMA GivenUpApart ==
  ASSUME Sound, BlocksAreApart, NEW h \in Handles, Unmap(h) \/ UnmapRefused(h) \/ ToTheGame(h)
  PROVE  BlocksAreApart'
<1>1. PICK b \in {block[h], old[h]} : GivesUp(h, b)
  BY DEF Unmap, UnmapRefused, ToTheGame
<1>2. UNCHANGED <<free, cursor, end>>
  BY DEF Unmap, UnmapRefused, ToTheGame, heap
<1>3. \A t \in Tags : Held'[t] = NoBlock \/ Held'[t] = Held[t]
  BY <1>1, GivingUp
<1> QED
  BY <1>2, <1>3, ApartWithLess

\* trim takes blocks off the lists, and the unused part with its chunk.
LEMMA TrimApart ==
  ASSUME Sound, BlocksAreApart, Trim
  PROVE  BlocksAreApart'
<1>1. UNCHANGED <<block, old>>
  BY DEF Trim, owners
<1>2. Held' = Held
  BY <1>1 DEF Held
<1>3. /\ \A c \in Classes : free'[c] \subseteq free[c]
      /\ (cursor' = 0 /\ end' = 0) \/ (cursor' = cursor /\ end' = end)
  BY DEF Trim, Kept
<1> DEFINE none == UseRest(0, 0)
           uses == Uses \cup {none}
<1>4. Units(none.at, none.span) = {}
  BY DEF UseRest, Units
<1>5. Apart(uses)
  <2> HIDE DEF none
  <2> QED
    BY <1>4, InUse, ApartMore
<1>6. /\ \A t \in Tags : Held'[t] = NoBlock \/ Held'[t].at = 0 \/ UseAs(t, Held'[t]) \in uses
      /\ \A c \in Classes : \A a \in free'[c] : UseFree(c, a) \in uses
      /\ UseRest(cursor', end') \in uses
  BY <1>2, <1>3, InUse
<1> HIDE DEF uses
<1> QED
  BY <1>5, <1>6, ApartNext

-----------------------------------------------------------------------------
(* The allocator's promises.                                               *)

\* Before anything is asked for, nothing is mapped.
LEMMA StartsSound ==
  ASSUME Init
  PROVE  Sound /\ BlocksAreApart /\ SystemFreesItsOwn
<1>1. /\ mappings = {} /\ free = [c \in Classes |-> {}] /\ chunks = [i \in Slots |-> NoChunk]
      /\ cursor = 0 /\ end = 0 /\ exhausted = FALSE /\ stage = "before" /\ refused = FALSE /\ wild = FALSE
      /\ pc = [h \in Handles |-> "idle"] /\ want = [h \in Handles |-> 0]
      /\ block = [h \in Handles |-> NoBlock] /\ old = [h \in Handles |-> NoBlock]
  BY DEF Init
<1>2. OwnersType /\ ChunksType /\ FlagsType
  <2>1. NoChunk \in [base : Region \cup {0}, size : Nat, live : Nat]
    BY DEF NoChunk
  <2> QED
    BY <1>1, <2>1 DEF OwnersType, ChunksType, FlagsType
<1>3. MappingsInv
  <2>1. IsFiniteSet({}) /\ Cardinality({}) = 0
    BY FS_EmptySet
  <2> QED
    BY <1>1, <2>1, Constants DEF MappingsInv, SoundMappings
<1>4. MemoryType
  <2>1. free \in [Classes -> SUBSET Region]
    BY <1>1
  <2> QED
    BY <1>1, <1>3, <2>1 DEF MemoryType, MappingsInv, SoundMappings
<1>5. \A i \in Slots : ~Mapped(i)
  BY <1>1 DEF Mapped, NoChunk
<1>6. \A t \in Tags : Held[t] = NoBlock
  BY <1>1 DEF Held, Tags
<1>7. ChunksInv /\ LiveInv /\ HeldInv
  BY <1>5, <1>6 DEF ChunksInv, LiveInv, HeldInv
<1>8. \A c \in Classes : free[c] = {}
  BY <1>1
<1>9. FreeInv /\ RestInv
  BY <1>1, <1>8 DEF FreeInv, RestInv
<1>10. ControlInv
  BY <1>1 DEF ControlInv
<1>11. BlocksAreApart
  <2>1. \A u \in Uses : u = UseRest(cursor, end)
    BY <1>6, <1>8, UsesAre
  <2> QED
    BY <2>1 DEF BlocksAreApart
<1> QED
  BY <1>1, <1>2, <1>3, <1>4, <1>7, <1>9, <1>10, <1>11, TypesAre DEF Sound, SystemFreesItsOwn

\* Every step keeps the heap sound and its blocks apart.
LEMMA StaysSound ==
  ASSUME Sound, BlocksAreApart, [Next]_vars
  PROVE  Sound' /\ BlocksAreApart'
<1>1. ASSUME NEW h \in Handles, NEW n \in Sizes, Alloc(h, n)
      PROVE  Sound' /\ BlocksAreApart'
  BY <1>1, AllocStep, RequestApart DEF Alloc
<1>2. ASSUME NEW h \in Handles, NEW n \in Sizes, Realloc(h, n)
      PROVE  Sound' /\ BlocksAreApart'
  BY <1>2, ReallocStep, ReallocApart
<1>3. ASSUME NEW h \in Handles, Move(h)
      PROVE  Sound' /\ BlocksAreApart'
  BY <1>3, MoveStep, RequestApart DEF Move
<1>4. ASSUME NEW h \in Handles, TakeFree(h)
      PROVE  Sound' /\ BlocksAreApart'
  BY <1>4, TakeFreeStep, TakeFreeApart
<1>5. ASSUME NEW h \in Handles, Bump(h)
      PROVE  Sound' /\ BlocksAreApart'
  BY <1>5, BumpStep, BumpApart
<1>6. ASSUME NEW h \in Handles, Grow(h)
      PROVE  Sound' /\ BlocksAreApart'
  BY <1>6, GrowStep, GrowApart
<1>7. ASSUME NEW h \in Handles, GrowFails(h)
      PROVE  Sound' /\ BlocksAreApart'
  BY <1>7, GrowFailsStep, GrowFailsApart
<1>8. ASSUME NEW h \in Handles, MapBlock(h)
      PROVE  Sound' /\ BlocksAreApart'
  BY <1>8, MapBlockStep, MapBlockApart
<1>9. ASSUME NEW h \in Handles, Release(h)
      PROVE  Sound' /\ BlocksAreApart'
  BY <1>9, ReleaseStep, ReleaseApart
<1>10. ASSUME NEW h \in Handles, Unmap(h) \/ UnmapRefused(h) \/ ToTheGame(h)
       PROVE  Sound' /\ BlocksAreApart'
  <2>1. Sound'
    BY <1>10, UnmapStep, UnmapRefusedStep, ToTheGameStep
  <2> QED
    BY <1>10, <2>1, GivenUpApart
<1>11. CASE UseScratch
  <2>1. UNCHANGED <<free, cursor, end, block, old>>
    BY <1>11 DEF UseScratch, heap, owners
  <2>2. Held' = Held
    BY <2>1 DEF Held
  <2> QED
    BY <1>11, <2>1, <2>2, UseScratchStep, ApartWithLess
<1>12. CASE Trim
  BY <1>12, TrimStep, TrimApart
<1>13. CASE UNCHANGED vars
  <2>1. UNCHANGED <<mappings, free, chunks, cursor, end, exhausted, stage, pc, want, block, old, refused, wild>>
    BY <1>13 DEF vars, heap, owners
  <2>2. OwnersType' /\ ControlInv' /\ FlagsType'
    BY <2>1, TypesAre DEF OwnersType, FlagsType, Sound, ControlInv
  <2>3. Held' = Held
    BY <2>1 DEF Held
  <2>4. LiveInv'
    BY <2>1, <2>3, LiveKept DEF SameChunks, Sound
  <2>5. Sound'
    BY <2>1, <2>2, <2>3, <2>4, OnlyHolds DEF Sound, HeldInv
  <2> QED
    BY <2>1, <2>3, <2>5, ApartWithLess
<1> QED
  BY <1>1, <1>2, <1>3, <1>4, <1>5, <1>6, <1>7, <1>8, <1>9, <1>10, <1>11, <1>12, <1>13 DEF Next

\* The game's allocator is only handed its own, unless a mapping could not go back.
LEMMA SystemStep ==
  ASSUME Sound, SystemFreesItsOwn, [Next]_vars
  PROVE  SystemFreesItsOwn'
<1>1. ASSUME UNCHANGED wild, refused => refused'
      PROVE  SystemFreesItsOwn'
  BY <1>1 DEF SystemFreesItsOwn
<1>2. ASSUME refused' = TRUE
      PROVE  SystemFreesItsOwn'
  BY <1>2 DEF SystemFreesItsOwn
<1>3. wild \in BOOLEAN /\ refused \in BOOLEAN
  BY DEF Sound, TypeOK
<1>4. ASSUME NEW h \in Handles, NEW n \in Sizes, Realloc(h, n)
      PROVE  SystemFreesItsOwn'
  <2>1. block[h] # NoBlock /\ UNCHANGED refused
    BY <1>4 DEF Realloc
  <2>2. CASE StaysWithTheGame(block[h], n) /\ wild' = (wild \/ block[h].at # 0)
    <3>1. block[h] \in Blocks /\ InClass(block[h].size) /\ ~InHeap(block[h].at)
      BY <2>1, <2>2 DEF StaysWithTheGame, Sound, TypeOK
    <3>2. ASSUME block[h].at # 0
          PROVE  FALSE
      <4>1. Backed(block[h])
        <5>1. <<"block", h>> \in Tags /\ Held[<<"block", h>>] = block[h]
          BY HeldIs
        <5> QED
          BY <2>1, <3>2, <5>1 DEF Sound, HeldInv
      <4>2. InAChunk(block[h].at, ClassOf(block[h].size))
        BY <3>1, <4>1 DEF Backed, InsideAChunk
      <4>3. block[h].at \in Nat /\ ClassOf(block[h].size) \in Nat \ {0}
        BY <3>1, Constants, ClassOfIs DEF Blocks
      <4> QED
        BY <3>1, <4>2, <4>3, StartsInAChunk
    <3>3. wild' = wild
      BY <1>3, <2>2, <3>2
    <3> QED
      BY <1>1, <2>1, <3>3
  <2>3. CASE UNCHANGED wild
    BY <1>1, <2>1, <2>3
  <2> QED
    BY <1>4, <2>2, <2>3 DEF Realloc
<1>5. ASSUME NEW h \in Handles, ToTheGame(h)
      PROVE  SystemFreesItsOwn'
  <2>1. PICK b \in {block[h], old[h]} :
          /\ GivesUp(h, b)
          /\ IF InClass(b.size) THEN ~InHeap(b.at) ELSE ~Known(b.at, b.size)
          /\ wild' = (wild \/ b.at # 0) /\ UNCHANGED refused
    BY <1>5 DEF ToTheGame
  <2>2. b.at = 0
    BY <2>1, StrangersAreTheGames
  <2>3. wild' = wild
    BY <1>3, <2>1, <2>2
  <2> QED
    BY <1>1, <2>1, <2>3
<1>6. ASSUME NEW h \in Handles, UnmapRefused(h)
      PROVE  SystemFreesItsOwn'
  <2>1. refused' = TRUE
    BY <1>6 DEF UnmapRefused
  <2> QED
    BY <1>2, <2>1
<1>7. CASE Trim
  <2>1. UNCHANGED wild /\ \E stay : refused' = (refused \/ stay # {})
    BY <1>7 DEF Trim
  <2> QED
    BY <1>1, <2>1
<1>8. ASSUME NEW h \in Handles,
             Move(h) \/ TakeFree(h) \/ Bump(h) \/ Grow(h) \/ GrowFails(h) \/ MapBlock(h) \/ Release(h) \/ Unmap(h)
      PROVE  SystemFreesItsOwn'
  <2>1. UNCHANGED <<refused, wild>>
    BY <1>8 DEF Move, TakeFree, Bump, Grow, GrowFails, MapBlock, Release, Unmap
  <2> QED
    BY <1>1, <2>1
<1>9. ASSUME NEW h \in Handles, NEW n \in Sizes, Alloc(h, n)
      PROVE  SystemFreesItsOwn'
  BY <1>1, <1>9 DEF Alloc
<1>10. CASE UseScratch \/ UNCHANGED vars
  <2>1. UNCHANGED <<refused, wild>>
    BY <1>10 DEF UseScratch, vars
  <2> QED
    BY <1>1, <2>1
<1> QED
  BY <1>4, <1>5, <1>6, <1>7, <1>8, <1>9, <1>10 DEF Next

\* The inductive invariant: mappings, chunks, blocks, lists and counts agree, and
\* no two uses overlap (alloc.rs, every call that holds the heap's lock or not).
LEMMA AlwaysSound == Spec => [](Sound /\ BlocksAreApart)
<1>1. Init => Sound /\ BlocksAreApart
  BY StartsSound
<1>2. Sound /\ BlocksAreApart /\ [Next]_vars => (Sound /\ BlocksAreApart)'
  BY StaysSound
<1> QED
  BY <1>1, <1>2, PTL DEF Spec

\* The variables hold what the code's do; in particular no chunk ever counts below
\* zero, whatever is given back in whatever order (alloc.rs release, `live -= 1`).
THEOREM TypeCorrect == Spec => []TypeOK
<1>1. Sound => TypeOK
  BY DEF Sound
<1> QED
  BY <1>1, AlwaysSound, PTL

\* No two threads ever have memory that overlaps, and no block is on a free list and
\* in use, or on two lists: for any classes, sizes, chunks and mappings (alloc.rs
\* alloc, realloc, dealloc and trim).
THEOREM BlocksStayApart == Spec => []BlocksAreApart
  BY AlwaysSound, PTL

\* Memory in use or on a free list lies in a mapping that is still there, as aligned
\* as its class promises: neither unmap nor trim takes what somebody has (alloc.rs).
THEOREM BlocksAlwaysFit == Spec => []BlocksFit
<1>1. Sound => BlocksFit
  BY UsesFit
<1> QED
  BY <1>1, AlwaysSound, PTL

\* As long as the kernel gives every mapping back, the game's allocator is only asked
\* to free or resize what it allocated, however SCRATCH_ON changes between the calls
\* (alloc.rs dealloc, realloc).
THEOREM SystemIsGivenItsOwn == Spec => []SystemFreesItsOwn
<1>1. Init => SystemFreesItsOwn
  BY StartsSound
<1>2. Sound /\ SystemFreesItsOwn /\ [Next]_vars => SystemFreesItsOwn'
  BY SystemStep
<1> QED
  BY <1>1, <1>2, AlwaysSound, PTL DEF Spec
=============================================================================
