----------------------------- MODULE GuestHeap -----------------------------
(***************************************************************************)
(* src/pw_guest_heap.c: a first-fit allocator over a table of blocks kept  *)
(* outside the guest's memory, and the CRT and kernel32 calls that reach   *)
(* it.  The table has few entries, so a block may have to keep more than   *)
(* was asked for.  Addresses are relative to the base of the heap.         *)
(***************************************************************************)
EXTENDS Integers, Sequences, FiniteSets, SequencesExt

CONSTANTS
    HeapBytes,     \* PwGuestHeap.bytes
    Granule,       \* 16 in the code
    HeapSlots,     \* PwGuestHeap.capacity, entries of the block table
    MaxWord,       \* UINT32_MAX
    Requests,      \* the sizes asked for
    HeapTags       \* what a byte may hold, 0 among them

ASSUME HeapAssumption ==
    /\ Granule \in Nat \ {0} /\ HeapBytes \in Nat \ {0} /\ HeapBytes % Granule = 0
    /\ HeapSlots \in Nat \ {0} /\ 0 \in HeapTags
    /\ MaxWord \in Nat /\ HeapBytes <= MaxWord /\ Requests \subseteq 0..MaxWord

VARIABLES blocks,    \* PwGuestHeap.blocks[0 .. count-1]
          mem        \* the bytes of the heap

heapVars == <<blocks, mem>>

Block(offset, size, requested, used) ==
    [offset |-> offset, size |-> size, requested |-> requested, used |-> used]

HeapInit ==
    /\ blocks = <<Block(0, HeapBytes, 0, FALSE)>>
    /\ mem = [i \in 0..(HeapBytes - 1) |-> 0]

-----------------------------------------------------------------------------
\* A size that does not fit in a word after rounding is a limit.
Rounds(n) == n <= MaxWord - (Granule - 1)
Rounded(n) == IF n = 0 THEN Granule ELSE ((n + Granule - 1) \div Granule) * Granule

\* Mutant: the next block is taken, whether it is free or not.
MMergeNext(bs, i) ==
    IF i < Len(bs) THEN RemoveAt([bs EXCEPT ![i].size = @ + bs[i + 1].size], i + 1) ELSE bs

\* merge_next: block i takes the free block behind it.
MergeNext(bs, i) ==
    IF i < Len(bs) /\ ~bs[i + 1].used
    THEN RemoveAt([bs EXCEPT ![i].size = @ + bs[i + 1].size], i + 1) ELSE bs

\* Mutant: the free block behind keeps its offset.
MShrink(bs, i, size) ==
    LET tail == bs[i].size - size
    IN  IF tail = 0 THEN bs
        ELSE IF i < Len(bs) /\ ~bs[i + 1].used
        THEN [bs EXCEPT ![i].size = size, ![i + 1].size = @ + tail]
        ELSE IF Len(bs) < HeapSlots
        THEN InsertAt([bs EXCEPT ![i].size = size], i + 1, Block(bs[i].offset + size, tail, 0, FALSE))
        ELSE bs

\* shrink: what block i has beyond size goes to the free block behind it, or
\* to a block of its own if the table has an entry left, or stays.
Shrink(bs, i, size) ==
    LET tail == bs[i].size - size
    IN  IF tail = 0 THEN bs
        ELSE IF i < Len(bs) /\ ~bs[i + 1].used
        THEN [bs EXCEPT ![i].size = size, ![i + 1].offset = @ - tail, ![i + 1].size = @ + tail]
        ELSE IF Len(bs) < HeapSlots
        THEN InsertAt([bs EXCEPT ![i].size = size], i + 1, Block(bs[i].offset + size, tail, 0, FALSE))
        ELSE bs

\* find: the used block that starts at an address, 0 if there is none.
FindBlock(bs, a) == SelectInSeq(bs, LAMBDA b : b.offset = a /\ b.used)

\* alloc: first fit.  The table and the address, or the table alone.
FirstFit(bs, n) == SelectInSeq(bs, LAMBDA b : ~b.used /\ b.size >= Rounded(n))
Allocs(n) == Rounds(n) /\ FirstFit(blocks, n) # 0
HeapAllocated(bs, n) ==
    LET i == FirstFit(bs, n)
    IN  Shrink([bs EXCEPT ![i].used = TRUE, ![i].requested = n], i, Rounded(n))

\* free: the block joins the free blocks on both sides of it.
Freed(bs, i) ==
    LET m == MergeNext([bs EXCEPT ![i].used = FALSE, ![i].requested = 0], i)
    IN  IF i > 1 /\ ~m[i - 1].used THEN MergeNext(m, i - 1) ELSE m

-----------------------------------------------------------------------------
(* The guest's calls.  A call that returns an error leaves everything as   *)
(* it was; each of these reaches its end.                                  *)

\* malloc, operator new, LocalAlloc and GlobalAlloc without zeroing.
AllocCall(n) ==
    /\ Allocs(n)
    /\ blocks' = HeapAllocated(blocks, n)
    /\ UNCHANGED mem

\* calloc and the zeroing flags: the requested bytes, not the rounded ones.
CallocCall(n) ==
    /\ Allocs(n)
    /\ blocks' = HeapAllocated(blocks, n)
    /\ LET a == blocks[FirstFit(blocks, n)].offset
       IN  mem' = [i \in DOMAIN mem |-> IF i \in a..(a + n - 1) THEN 0 ELSE mem[i]]

FreeCall(a) ==
    /\ FindBlock(blocks, a) # 0
    /\ blocks' = Freed(blocks, FindBlock(blocks, a))
    /\ UNCHANGED mem

\* realloc to nothing frees.  Otherwise it grows into the free block behind
\* if that is enough, or else copies to a new block and frees the old one.
ReallocCall(a, n) ==
    /\ FindBlock(blocks, a) # 0
    /\ LET i == FindBlock(blocks, a)
           size == Rounded(n)
           grown == IF size > blocks[i].size /\ i < Len(blocks) /\ ~blocks[i + 1].used
                        /\ blocks[i].size + blocks[i + 1].size >= size
                    THEN MergeNext(blocks, i) ELSE blocks
       IN  \/ /\ n = 0
              /\ blocks' = Freed(blocks, i)
              /\ UNCHANGED mem
           \/ /\ n # 0 /\ Rounds(n)
              /\ size <= grown[i].size
              /\ blocks' = Shrink([grown EXCEPT ![i].requested = n], i, size)
              /\ UNCHANGED mem
           \/ /\ n # 0 /\ Allocs(n)
              /\ size > grown[i].size
              /\ LET p == blocks[FirstFit(blocks, n)].offset
                     old == blocks[i].requested
                     bs == HeapAllocated(blocks, n)
                 IN  /\ mem' = [b \in DOMAIN mem |->
                                  IF b - p \in 0..((IF old < n THEN old ELSE n) - 1)
                                  THEN mem[a + b - p] ELSE mem[b]]
                     /\ blocks' = Freed(bs, FindBlock(bs, a))

\* The guest fills an allocation.
GuestWrite(a) ==
    /\ FindBlock(blocks, a) # 0
    /\ \E t \in HeapTags :
         mem' = [i \in DOMAIN mem |->
                   IF i - a \in 0..(blocks[FindBlock(blocks, a)].requested - 1) THEN t ELSE mem[i]]
    /\ UNCHANGED blocks

HeapNext ==
    \/ \E n \in Requests : AllocCall(n) \/ CallocCall(n)
    \/ \E a \in DOMAIN mem : FreeCall(a) \/ GuestWrite(a)
    \/ \E a \in DOMAIN mem, n \in Requests : ReallocCall(a, n)

HeapSpec == HeapInit /\ [][HeapNext]_heapVars

-----------------------------------------------------------------------------
HeapTypeOK ==
    /\ blocks \in Seq([offset : 0..(HeapBytes - 1), size : 1..HeapBytes, requested : Requests \cup {0}, used : BOOLEAN])
    /\ mem \in [0..(HeapBytes - 1) -> HeapTags]

\* pw_guest_heap_validate, the code's own check before every call: the blocks
\* tile the heap, no two free blocks touch, none holds more than its size.
\* Were it ever false, every later call would fail with PW_ERR_STATE.
HeapValid ==
    /\ Len(blocks) \in 1..HeapSlots
    /\ blocks[1].offset = 0
    /\ \A i \in DOMAIN blocks :
         LET b == blocks[i]
         IN  /\ b.offset + b.size = IF i = Len(blocks) THEN HeapBytes ELSE blocks[i + 1].offset
             /\ b.size > 0 /\ b.size % Granule = 0
             /\ b.requested <= b.size
             /\ ~b.used => b.requested = 0
             /\ ~b.used /\ i > 1 => blocks[i - 1].used

\* What the guest sees of its allocations.
Contents ==
    LET live == {b \in ToSet(blocks) : b.used}
    IN  [a \in {b.offset : b \in live} |->
           LET b == CHOOSE x \in live : x.offset = a
           IN  [i \in 1..b.requested |-> mem[a + i - 1]]]

Service == INSTANCE HeapService WITH Bytes <- HeapBytes, allocs <- Contents

\* The allocator implements the abstract heap: no call harms another
\* allocation, and a realloc keeps what it must (pw_guest_heap.h's contract).
HeapContract == Service!ServiceSpec
=============================================================================
