---------------------------- MODULE ScratchHeap ----------------------------
(***************************************************************************)
(* The plugin's allocator (totk-mod-merger-plugin/src/alloc.rs) on the     *)
(* memory skyline-totk maps for it (source/totk/scratch_memory.cpp).       *)
(*                                                                         *)
(* A handle is a pointer the program owns: what is done with one pointer   *)
(* is done by one thread at a time, and two handles stand for two threads. *)
(* A section under the heap's lock is one action; SCRATCH_ON is read       *)
(* before the lock is taken.  Addresses count units of the smallest block. *)
(* The order of a free list is left open: a list is the set of its blocks. *)
(***************************************************************************)
EXTENDS Integers, FiniteSets

CONSTANTS
  Handles,      \* the pointers the program may own
  Sizes,        \* bound: the sizes it asks for
  Classes,      \* the sizes of blocks that come from chunks
  Page, FirstChunk, Chunk, MaxChunks,
  MaxMappings,  \* length of skyline-totk's table
  Region,       \* bound: the addresses of the alias region nobody else maps
  NoBlock       \* a handle that points to nothing

ASSUME HeapAssumption ==
  /\ IsFiniteSet(Handles) /\ NoBlock \notin [at : Nat, size : Nat]
  /\ Sizes \subseteq Nat \ {0} /\ Classes \subseteq Nat \ {0}
  /\ {Page, FirstChunk, Chunk, MaxChunks, MaxMappings} \subseteq Nat \ {0}
  /\ FirstChunk % Page = 0 /\ Chunk % Page = 0
  /\ \A c \in Classes : c <= Page => Page % c = 0
  /\ Region \subseteq Nat \ {0}

VARIABLES
  mappings,     \* g_Mappings: [base, size]
  free,         \* free[c]: the blocks of class c that were given back
  chunks,       \* chunks[i]: [base, size, live]; base 0 when it is not mapped
  cursor, end,  \* the unused part of the newest chunk
  exhausted,    \* EXHAUSTED
  stage,        \* where merge_and_serve is: it sets SCRATCH_ON, and trims once
  pc,           \* pc[h]: what the thread that uses h is about to do
  want,         \* want[h]: the size it asked for, 0 when it asked for none
  block,        \* block[h]: what h points to; at = 0 is in the game's heap
  old,          \* old[h]: the block realloc has copied and not freed yet
  refused,      \* whether the kernel has refused to unmap
  wild          \* whether the game's allocator was given what is not its own

heap == <<free, chunks, cursor, end, exhausted>>
owners == <<pc, want, block, old>>
vars == <<mappings, heap, stage, owners, refused, wild>>

Slots == 1..MaxChunks
NoChunk == [base |-> 0, size |-> 0, live |-> 0]
Blocks == [at : Region \cup {0}, size : Sizes]
ScratchOn == stage = "merging"

Units(a, n) == a .. (a + n - 1)
RoundUp(n, to) == ((n + to - 1) \div to) * to
Least(a, b) == IF a < b THEN a ELSE b

\* class_of: whether blocks of n come from chunks, and the size they then have.
InClass(n) == \E c \in Classes : n <= c
ClassOf(n) == CHOOSE c \in Classes : n <= c /\ \A d \in Classes : n <= d => c <= d
Alignment(c) == Least(c, Page)

\* The memory a block of that size takes up.
Span(n) == IF InClass(n) THEN ClassOf(n) ELSE RoundUp(n, Page)

Mapped(i) == chunks[i].base # 0
InChunk(i, a) == Mapped(i) /\ a \in Units(chunks[i].base, chunks[i].size)
InHeap(a) == \E i \in Slots : InChunk(i, a)

Init ==
  /\ mappings = {} /\ free = [c \in Classes |-> {}]
  /\ chunks = [i \in Slots |-> NoChunk] /\ cursor = 0 /\ end = 0
  /\ exhausted = FALSE /\ stage = "before"
  /\ pc = [h \in Handles |-> "idle"] /\ want = [h \in Handles |-> 0]
  /\ block = [h \in Handles |-> NoBlock] /\ old = [h \in Handles |-> NoBlock]
  /\ refused = FALSE /\ wild = FALSE

-----------------------------------------------------------------------------
(* skyline-totk: totk_map_memory and totk_unmap_memory.                    *)

\* findAliasHole: where n units fit; what others have mapped is not in Region.
Holes(n) ==
  {a \in Region : /\ a % Page = 0 /\ Units(a, n) \subseteq Region
                  /\ \A m \in mappings : Units(a, n) \cap Units(m.base, m.size) = {}}

Map(a, n) ==
  /\ Cardinality(mappings) < MaxMappings
  /\ a \in Holes(RoundUp(n, Page)) /\ \A b \in Holes(RoundUp(n, Page)) : a <= b
  /\ mappings' = mappings \cup {[base |-> a, size |-> RoundUp(n, Page)]}

\* A pointer and a size that are not in the table are refused, nothing happens.
Known(a, n) == [base |-> a, size |-> RoundUp(n, Page)] \in mappings
Unmapped(a, n) == mappings \ {[base |-> a, size |-> RoundUp(n, Page)]}

-----------------------------------------------------------------------------
(* alloc and realloc.                                                      *)

\* The program gets a block; a realloc has the old one to free.
Got(h, a, n, moving) ==
  /\ block' = [block EXCEPT ![h] = [at |-> a, size |-> n]]
  /\ pc' = [pc EXCEPT ![h] = IF moving THEN "free" ELSE "idle"]
  /\ want' = [want EXCEPT ![h] = 0]

\* alloc up to the lock: SCRATCH_ON decides, except for the biggest blocks.
Request(h, n, moving) ==
  \/ /\ InClass(n) /\ ~ScratchOn
     /\ Got(h, 0, n, moving)
  \/ /\ InClass(n) => ScratchOn
     /\ pc' = [pc EXCEPT ![h] = IF InClass(n) THEN "heap" ELSE "map"]
     /\ want' = [want EXCEPT ![h] = n]
     /\ block' = [block EXCEPT ![h] = NoBlock]

Alloc(h, n) ==
  /\ pc[h] = "idle" /\ block[h] = NoBlock
  /\ Request(h, n, FALSE)
  /\ UNCHANGED <<mappings, heap, stage, old, refused, wild>>

\* Mutant of StaysWithTheGame: where the block is is not looked at.
ResizedByTheGame(b, n) == ~ScratchOn /\ InClass(b.size) /\ InClass(n)

\* realloc: the game's allocator is asked to resize what is not in a chunk.
StaysWithTheGame(b, n) == ~ScratchOn /\ InClass(b.size) /\ InClass(n) /\ ~InHeap(b.at)

\* realloc: a block that has the room stays where it is.
HasTheRoom(b, n) ==
  InClass(b.size) /\ InClass(n) /\ ClassOf(b.size) = ClassOf(n) /\ InHeap(b.at)

Realloc(h, n) ==
  /\ pc[h] = "idle" /\ block[h] # NoBlock /\ n # block[h].size
  /\ \/ /\ StaysWithTheGame(block[h], n)
        /\ block' = [block EXCEPT ![h] = [at |-> 0, size |-> n]]
        /\ wild' = (wild \/ block[h].at # 0)
        /\ UNCHANGED <<pc, want, old>>
     \/ /\ ~StaysWithTheGame(block[h], n) /\ HasTheRoom(block[h], n)
        /\ block' = [block EXCEPT ![h].size = n]
        /\ UNCHANGED <<pc, want, old, wild>>
     \/ /\ ~StaysWithTheGame(block[h], n) /\ ~HasTheRoom(block[h], n)
        /\ old' = [old EXCEPT ![h] = block[h]] /\ block' = [block EXCEPT ![h] = NoBlock]
        /\ pc' = [pc EXCEPT ![h] = "move"] /\ want' = [want EXCEPT ![h] = n]
        /\ UNCHANGED wild
  /\ UNCHANGED <<mappings, heap, stage, refused>>

\* realloc calls alloc, which reads SCRATCH_ON again.
Move(h) ==
  /\ pc[h] = "move"
  /\ Request(h, want[h], TRUE)
  /\ UNCHANGED <<mappings, heap, stage, old, refused, wild>>

Take(h, a) == Got(h, a, want[h], old[h] # NoBlock)

\* The chunk a block handed out lies in counts it.
Counted(chs, a) ==
  [i \in Slots |-> IF InChunk(i, a) THEN [chs[i] EXCEPT !.live = @ + 1] ELSE chs[i]]

\* allocate: a block of the class that was given back.
TakeFree(h) ==
  /\ pc[h] = "heap"
  /\ \E a \in free[ClassOf(want[h])] :
       /\ free' = [free EXCEPT ![ClassOf(want[h])] = @ \ {a}]
       /\ chunks' = Counted(chunks, a)
       /\ Take(h, a)
  /\ UNCHANGED <<mappings, cursor, end, exhausted, stage, old, refused, wild>>

Start(c) == RoundUp(cursor, Alignment(c))
Fits(c) == cursor # 0 /\ Start(c) + c <= end

\* Mutant of After: what was asked for is skipped, not what the class takes up.
AfterWhatWasAsked(a, n) == a + n

\* Where the unused part begins once a block of n has been carved out at a.
After(a, n) == a + ClassOf(n)

\* allocate: the next block of the newest chunk.
Bump(h) ==
  LET c == ClassOf(want[h]) IN
  /\ pc[h] = "heap" /\ free[c] = {} /\ Fits(c)
  /\ cursor' = After(Start(c), want[h])
  /\ chunks' = Counted(chunks, Start(c))
  /\ Take(h, Start(c))
  /\ UNCHANGED <<mappings, free, end, exhausted, stage, old, refused, wild>>

ChunkSize(c) ==
  LET wanted == IF \E i \in Slots : Mapped(i) THEN Chunk ELSE FirstChunk
  IN IF wanted < RoundUp(c, Page) THEN RoundUp(c, Page) ELSE wanted

\* grow, then the first block of the new chunk; what the last one had left is lost.
Grow(h) ==
  LET c == ClassOf(want[h]) IN
  /\ pc[h] = "heap" /\ free[c] = {} /\ ~Fits(c) /\ ~exhausted
  /\ \E i \in Slots, a \in Region :
       /\ ~Mapped(i) /\ \A j \in 1..(i - 1) : Mapped(j)
       /\ Map(a, ChunkSize(c))
       /\ chunks' = [chunks EXCEPT ![i] = [base |-> a, size |-> ChunkSize(c), live |-> 1]]
       /\ cursor' = After(a, want[h]) /\ end' = a + ChunkSize(c)
       /\ Take(h, a)
  /\ UNCHANGED <<free, exhausted, stage, old, refused, wild>>

\* grow fails, for want of a slot, of a mapping or of memory: the game's heap.
GrowFails(h) ==
  LET c == ClassOf(want[h]) IN
  /\ pc[h] = "heap" /\ free[c] = {} /\ ~Fits(c)
  /\ exhausted' = TRUE
  /\ Take(h, 0)
  /\ UNCHANGED <<mappings, free, chunks, cursor, end, stage, old, refused, wild>>

\* A block too big for a class has a mapping of its own, if there is one.
MapBlock(h) ==
  /\ pc[h] = "map"
  /\ \/ \E a \in Region : Map(a, want[h]) /\ Take(h, a)
     \/ Take(h, 0) /\ UNCHANGED mappings
  /\ UNCHANGED <<heap, stage, old, refused, wild>>

-----------------------------------------------------------------------------
(* dealloc.                                                                *)

\* The block h gives up: what it points to, or what realloc has copied.
GivesUp(h, b) ==
  /\ b # NoBlock
  /\ \/ /\ pc[h] = "free" /\ b = old[h]
        /\ old' = [old EXCEPT ![h] = NoBlock] /\ pc' = [pc EXCEPT ![h] = "idle"]
        /\ UNCHANGED <<block, want>>
     \/ /\ pc[h] = "idle" /\ b = block[h]
        /\ block' = [block EXCEPT ![h] = NoBlock]
        /\ UNCHANGED <<pc, want, old>>

\* release: back on the free list of its class.
Release(h) ==
  \E b \in {block[h], old[h]} :
    /\ GivesUp(h, b)
    /\ InClass(b.size) /\ InHeap(b.at)
    /\ free' = [free EXCEPT ![ClassOf(b.size)] = @ \cup {b.at}]
    /\ chunks' = [i \in Slots |-> IF InChunk(i, b.at) THEN [chunks[i] EXCEPT !.live = @ - 1] ELSE chunks[i]]
    /\ UNCHANGED <<mappings, cursor, end, exhausted, stage, refused, wild>>

Unmap(h) ==
  \E b \in {block[h], old[h]} :
    /\ GivesUp(h, b)
    /\ ~InClass(b.size) /\ Known(b.at, b.size)
    /\ mappings' = Unmapped(b.at, b.size)
    /\ UNCHANGED <<heap, stage, refused, wild>>

\* The kernel keeps the mapping: the table answers as for a stranger's pointer,
\* and dealloc hands it to the game's allocator.
UnmapRefused(h) ==
  \E b \in {block[h], old[h]} :
    /\ GivesUp(h, b)
    /\ ~InClass(b.size) /\ Known(b.at, b.size)
    /\ refused' = TRUE /\ wild' = TRUE
    /\ UNCHANGED <<mappings, heap, stage>>

\* System.dealloc: whatever is neither in a chunk nor in the table.
ToTheGame(h) ==
  \E b \in {block[h], old[h]} :
    /\ GivesUp(h, b)
    /\ IF InClass(b.size) THEN ~InHeap(b.at) ELSE ~Known(b.at, b.size)
    /\ wild' = (wild \/ b.at # 0)
    /\ UNCHANGED <<mappings, heap, stage, refused>>

-----------------------------------------------------------------------------
(* merge_and_serve: scratch memory while merging, then what is unused back. *)

UseScratch ==
  /\ \/ stage = "before" /\ stage' = "merging"
     \/ stage = "merging" /\ stage' = "after"
  /\ UNCHANGED <<mappings, heap, owners, refused, wild>>

Empty == {i \in Slots : Mapped(i) /\ chunks[i].live = 0}

\* Mutant of Kept: the free lists stay as they are.
KeptAll(addresses) == addresses

\* trim: the free blocks of the chunks that go leave their lists.
Kept(addresses) == {a \in addresses : \A i \in Empty : ~InChunk(i, a)}

Trim ==
  /\ stage = "after" /\ stage' = "over"
  /\ \E stay \in SUBSET Empty :
       /\ mappings' = mappings \ {[base |-> chunks[i].base, size |-> chunks[i].size] : i \in Empty \ stay}
       /\ chunks' = [i \in Slots |-> IF i \in Empty \ stay THEN [chunks[i] EXCEPT !.base = 0] ELSE chunks[i]]
       /\ refused' = (refused \/ stay # {})
  /\ IF Empty = {}
     THEN UNCHANGED <<free, cursor, end, exhausted>>
     ELSE /\ free' = [c \in Classes |-> Kept(free[c])]
          /\ exhausted' = FALSE
          /\ IF \E i \in Empty : cursor \in chunks[i].base .. (chunks[i].base + chunks[i].size)
             THEN cursor' = 0 /\ end' = 0
             ELSE UNCHANGED <<cursor, end>>
  /\ UNCHANGED <<owners, wild>>

Next ==
  \/ \E h \in Handles, n \in Sizes : Alloc(h, n) \/ Realloc(h, n)
  \/ \E h \in Handles : \/ Move(h) \/ TakeFree(h) \/ Bump(h) \/ Grow(h) \/ GrowFails(h)
                        \/ MapBlock(h) \/ Release(h) \/ Unmap(h) \/ UnmapRefused(h)
                        \/ ToTheGame(h)
  \/ UseScratch \/ Trim

Spec == Init /\ [][Next]_vars

-----------------------------------------------------------------------------
(* Properties.                                                             *)

\* The variables hold what the code's do; a chunk never counts below zero.
TypeOK ==
  /\ mappings \subseteq [base : Region, size : Nat] /\ Cardinality(mappings) <= MaxMappings
  /\ free \in [Classes -> SUBSET Region]
  /\ chunks \in [Slots -> [base : Region \cup {0}, size : Nat, live : Nat]]
  /\ cursor \in Nat /\ end \in Nat /\ cursor <= end /\ exhausted \in BOOLEAN
  /\ stage \in {"before", "merging", "after", "over"}
  /\ pc \in [Handles -> {"idle", "move", "heap", "map", "free"}]
  /\ want \in [Handles -> Sizes \cup {0}]
  /\ block \in [Handles -> Blocks \cup {NoBlock}] /\ old \in [Handles -> Blocks \cup {NoBlock}]
  /\ refused \in BOOLEAN /\ wild \in BOOLEAN

\* What is in use, by whom: the blocks of handles, the free ones, and the rest of
\* the newest chunk.
Uses ==
  {[who |-> <<"block", h>>, at |-> block[h].at, span |-> Span(block[h].size)] :
     h \in {g \in Handles : block[g] # NoBlock /\ block[g].at # 0}}
  \cup {[who |-> <<"old", h>>, at |-> old[h].at, span |-> Span(old[h].size)] :
     h \in {g \in Handles : old[g] # NoBlock /\ old[g].at # 0}}
  \cup (UNION {{[who |-> <<"free", c>>, at |-> a, span |-> c] : a \in free[c]} : c \in Classes})
  \cup {[who |-> <<"rest">>, at |-> cursor, span |-> end - cursor]}

\* alloc.rs: no two threads are ever given memory that overlaps, and no block is
\* both on a free list (whose links are written into it) and in use, or on two.
BlocksAreApart ==
  \A u, v \in Uses : u # v => Units(u.at, u.span) \cap Units(v.at, v.span) = {}

\* alloc.rs: a block, in use or free, lies in one mapping that is still there, and
\* is aligned as its class promises: trim never takes memory somebody has.
BlocksFit ==
  \A u \in Uses :
    u.span # 0 =>
      /\ \E m \in mappings : Units(u.at, u.span) \subseteq Units(m.base, m.size)
      /\ u.who[1] # "rest" => u.at % Least(u.span, Page) = 0

\* alloc.rs dealloc/realloc: the game's allocator is only handed what came from it,
\* as long as the kernel gives back every mapping it is asked to.
SystemFreesItsOwn == ~refused => ~wild
=============================================================================
