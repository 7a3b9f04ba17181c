---------------------------- MODULE BFCAllocator ----------------------------
(***************************************************************************)
(* BFCAllocator (common_runtime/bfc_allocator.cc): best fit with           *)
(* coalescing.  Memory comes from the sub-allocator in regions; a region   *)
(* is cut into chunks, doubly linked in the order of their addresses; the  *)
(* free ones are kept in bins by size.                                     *)
(*                                                                         *)
(* Every call works under lock_: the operators here map the heap before    *)
(* it to the heap after it.  Sizes and addresses are counted in units of   *)
(* kMinAllocationSize.  allocation_id, of which the allocator itself uses  *)
(* only whether it is -1, is a flag, and requested_size and the statistics *)
(* other than bytes_in_use are left out.                                   *)
(***************************************************************************)
EXTENDS Integers, Sequences, FiniteSets

CONSTANTS MinAllocationSize,  \* kMinAllocationSize
          NumBins             \* kNumBins

ASSUME AllocatorAssumption ==
    MinAllocationSize \in Nat \ {0} /\ NumBins \in Nat \ {0}

Invalid == 0   \* kInvalidChunkHandle
NoBin == -1    \* kInvalidBinNum
Least(S) == CHOOSE x \in S : \A y \in S : x <= y
\* Op of the value, which is evaluated once.
With(value, Op(_)) == CHOOSE r \in {Op(v) : v \in {value}} : TRUE

\* In units.
RoundedBytes(bytes) == (bytes + MinAllocationSize - 1) \div MinAllocationSize

Log2Floor(n) == CHOOSE k \in 0..n : 2^k <= n /\ n < 2^(k + 1)
BinNumForSize(n) == Least({NumBins - 1, Log2Floor(IF n = 0 THEN 1 ELSE n)})

\* limit is memory_limit_, in bytes, region curr_region_allocation_bytes_, in
\* units.  The sub-allocator, given as spare, always has what it is asked for
\* (Plenty) or may fail; it then may have the sizes in spare instead.
Plenty == {0}
NewHeap(limit, region, spare) ==
    [limit |-> limit, spare |-> spare, chunks |-> <<>>, freeChunks |-> Invalid, bins |-> [b \in 0..NumBins - 1 |-> {}],
     handles |-> <<>>, regions |-> {}, currRegion |-> region, total |-> 0,
     startedBackpedal |-> FALSE, bytesInUse |-> 0, obtained |-> {}]

\* The region manager: set_handle and erase; where there is none, get_handle
\* gives kInvalidChunkHandle.
SetHandle(heap, ptr, h) ==
    [heap EXCEPT !.handles = [p \in DOMAIN @ \union {ptr} |-> IF p = ptr THEN h ELSE @[p]]]
Erase(heap, ptr) == [heap EXCEPT !.handles = [p \in DOMAIN @ \ {ptr} |-> @[p]]]

Chunk0 == [size |-> 0, inUse |-> FALSE, ptr |-> 0, prev |-> Invalid, next |-> Invalid,
           bin |-> NoBin]
NextHandle(heap) ==
    IF heap.freeChunks # Invalid THEN heap.freeChunks ELSE Len(heap.chunks) + 1
AllocateChunk(heap) ==
    IF heap.freeChunks # Invalid
    THEN [heap EXCEPT !.freeChunks = heap.chunks[@].next]
    ELSE [heap EXCEPT !.chunks = Append(@, Chunk0)]

\* A recycled chunk keeps its bin_num; the rest of it will be set again.
DeallocateChunk(heap, h) ==
    [heap EXCEPT !.chunks[h] = [Chunk0 EXCEPT !.next = heap.freeChunks,
                                         !.bin = heap.chunks[h].bin],
                 !.freeChunks = h]

InsertFreeChunkIntoBin(heap, h) ==
    LET b == BinNumForSize(heap.chunks[h].size)
    IN  [heap EXCEPT !.chunks[h].bin = b, !.bins[b] = @ \union {h}]

RemoveFreeChunkFromBin(heap, h) ==
    [heap EXCEPT !.chunks[h].bin = NoBin, !.bins[heap.chunks[h].bin] = @ \ {h}]

\* Mutant: the chunk after h2 goes on pointing back to it.
MergeForgetsPrev(heap, h1, h2) ==
    LET h3 == heap.chunks[h2].next
        merged == [heap.chunks EXCEPT ![h1].next = h3,
                                      ![h1].size = @ + heap.chunks[h2].size]
    IN  With(Erase([heap EXCEPT !.chunks = merged], heap.chunks[h2].ptr),
             LAMBDA erased : DeallocateChunk(erased, h2))

\* Merges h2 into h1, its predecessor.
Merge(heap, h1, h2) ==
    LET h3 == heap.chunks[h2].next
        merged == [c \in DOMAIN heap.chunks |->
                     CASE c = h1 -> [heap.chunks[c] EXCEPT !.next = h3,
                                                           !.size = @ + heap.chunks[h2].size]
                       [] c = h3 -> [heap.chunks[c] EXCEPT !.prev = h1]
                       [] OTHER -> heap.chunks[c]]
    IN  With(Erase([heap EXCEPT !.chunks = merged], heap.chunks[h2].ptr),
             LAMBDA erased : DeallocateChunk(erased, h2))

\* c becomes c <-> new, and new takes what is left over.
SplitChunk(heap, h, n) ==
    LET new == NextHandle(heap)
        old == heap.chunks[h]
        Cut(grown) ==
          [grown EXCEPT !.chunks = [c \in DOMAIN grown.chunks |->
             CASE c = h -> [old EXCEPT !.size = n, !.next = new]
               [] c = new -> [grown.chunks[c] EXCEPT !.ptr = old.ptr + n, !.size = old.size - n,
                                                     !.inUse = FALSE, !.prev = h,
                                                     !.next = old.next]
               [] c = old.next -> [grown.chunks[c] EXCEPT !.prev = new]
               [] OTHER -> grown.chunks[c]]]
        Binned(cut) ==
          With(SetHandle(cut, old.ptr + n, new), LAMBDA g : InsertFreeChunkIntoBin(g, new))
    IN  With(With(AllocateChunk(heap), Cut), Binned)

\* Mutant: a bin is ordered by address.
BeforeByAddress(heap, g, h) == heap.chunks[g].ptr < heap.chunks[h].ptr

\* The order of a bin: by size, then by address.
Before(heap, g, h) ==
    \/ heap.chunks[g].size < heap.chunks[h].size
    \/ heap.chunks[g].size = heap.chunks[h].size /\ heap.chunks[g].ptr < heap.chunks[h].ptr

Fitting(heap, b, n) == {h \in heap.bins[b] : heap.chunks[h].size >= n}
FittingBins(heap, n) == {b \in BinNumForSize(n)..NumBins - 1 : Fitting(heap, b, n) # {}}

\* FindChunkPtr: whether a chunk fits, which one, and the heap without it.
Fits(heap, n) == FittingBins(heap, n) # {}
Found(heap, n) ==
    CHOOSE h \in Fitting(heap, Least(FittingBins(heap, n)), n) :
      \A g \in Fitting(heap, Least(FittingBins(heap, n)), n) \ {h} : Before(heap, h, g)
\* Mutant: a chunk that is not split stays in its bin.
TakenStaysInBin(heap, h, n) ==
    LET Used(split) ==
          [split EXCEPT !.chunks[h].inUse = TRUE, !.bytesInUse = @ + split.chunks[h].size]
    IN  IF heap.chunks[h].size >= n * 2
        THEN With(With(RemoveFreeChunkFromBin(heap, h),
                       LAMBDA removed : SplitChunk(removed, h, n)), Used)
        ELSE Used(heap)
Taken(heap, h, n) ==
    LET Split(removed) ==
          IF heap.chunks[h].size >= n * 2 THEN SplitChunk(removed, h, n) ELSE removed
        Used(split) ==
          [split EXCEPT !.chunks[h].inUse = TRUE, !.bytesInUse = @ + split.chunks[h].size]
    IN  With(With(RemoveFreeChunkFromBin(heap, h), Split), Used)

\* RoundedBytes(bytes * kBackpedalFactor)
Backpedal(n) == (n * 9 + 9) \div 10
\* The sizes that are tried in turn, down to n.
Backpedals(first, n) ==
    LET size[i \in 0..first] == IF i = 0 THEN first ELSE Backpedal(size[i - 1])
    IN  {size[i] : i \in 1..first} \cap (n + 1)..first

Available(heap) == heap.limit \div MinAllocationSize - heap.total

\* curr_region_allocation_bytes_, doubled until it is enough.
Doubled(curr, n) ==
    curr * 2^(CHOOSE k \in 0..n : curr * 2^k >= n /\ \A j \in 0..k - 1 : curr * 2^j < n)

\* The sub-allocator has given memory at ptr, of which size units are used.
AddRegion(heap, ptr, got, size, doubled) ==
    LET h == NextHandle(heap)
        Added(grown) ==
          [grown EXCEPT !.chunks[h] = [@ EXCEPT !.ptr = ptr, !.size = size, !.inUse = FALSE,
                                                !.prev = Invalid, !.next = Invalid],
                        !.total = @ + size,
                        !.regions = @ \union {[ptr |-> ptr, size |-> size]},
                        !.obtained = @ \union {[ptr |-> ptr, size |-> got]},
                        !.currRegion = IF doubled THEN @ ELSE @ * 2]
    IN  With(With(AllocateChunk(heap), Added), LAMBDA added :
          With(SetHandle(added, ptr, h), LAMBDA set : InsertFreeChunkIntoBin(set, h)))

\* The sub-allocator places memory anywhere; here next to what it gave before,
\* where a region could be taken for the continuation of another.
Place(heap) ==
    IF heap.obtained = {} THEN 0
    ELSE LET last == CHOOSE r \in heap.obtained : \A q \in heap.obtained : q.ptr <= r.ptr
         IN  last.ptr + last.size

Outcome(heap, result) == [heap |-> heap, result |-> result]

\* Extend: the sub-allocator may fail at each size.  After a success the size
\* is reduced once more; and below ten units it is not reduced at all, so that
\* the loop does not end when the sub-allocator goes on failing.
Extend(heap, n) ==
    LET enough == Doubled(heap.currRegion, n)
        first == Least({enough, Available(heap)})
        tries == Backpedals(first, n)
        Grown(backpedal) ==
          [heap EXCEPT !.currRegion = enough, !.startedBackpedal = @ \/ backpedal]
        Region(backpedal, got, size) ==
          Outcome(AddRegion(Grown(backpedal), Place(heap), got, size,
                            enough # heap.currRegion), "extended")
        Failures ==
          IF heap.startedBackpedal THEN {Outcome(Grown(FALSE), "failed")}
          ELSE {Region(TRUE, b, Backpedal(b)) : b \in tries \cap heap.spare} \union
               {Outcome(Grown(TRUE), IF \E b \in tries : Backpedal(b) = b
                                     THEN "loops" ELSE "failed")}
    IN  IF n > Available(heap) THEN {Outcome(heap, "failed")}
        ELSE {Region(FALSE, first, first)} \union
             (IF heap.spare = Plenty THEN {} ELSE Failures)

\* AllocateRawInternal: the heap, the result and the address.
Allocated(heap, n) ==
    LET h == Found(heap, n)
    IN  [heap |-> Taken(heap, h, n), result |-> "ok", ptr |-> heap.chunks[h].ptr]
AllocateRawInternal(heap, bytes) ==
    LET n == RoundedBytes(bytes) IN
    IF bytes = 0 THEN {[heap |-> heap, result |-> "null", ptr |-> 0]}
    ELSE IF Fits(heap, n) THEN {Allocated(heap, n)}
    ELSE {IF e.result = "loops" THEN [heap |-> heap, result |-> "loops", ptr |-> 0]
          ELSE IF e.result = "extended" /\ Fits(e.heap, n) THEN Allocated(e.heap, n)
          ELSE [heap |-> e.heap, result |-> "null", ptr |-> 0] : e \in Extend(heap, n)}

\* FreeAndMaybeCoalesce: with the chunk after h, and then with the one before.
IsFree(heap, h) == h # Invalid /\ ~heap.chunks[h].inUse
Freed(heap, h) ==
    [heap EXCEPT !.chunks[h].inUse = FALSE, !.bytesInUse = @ - heap.chunks[h].size]
\* Mutant: the free neighbour stays in its bin.
AbsorbStaysInBin(heap, h1, h2, free) == Merge(heap, h1, h2)
Absorb(heap, h1, h2, free) ==
    With(RemoveFreeChunkFromBin(heap, free), LAMBDA removed : Merge(removed, h1, h2))
MergedNext(heap, h) ==
    LET next == heap.chunks[h].next
    IN  IF IsFree(heap, next) THEN Absorb(heap, h, next, next) ELSE heap
MergedPrev(heap, h) ==
    LET prev == heap.chunks[h].prev
    IN  IF IsFree(heap, prev)
        THEN With(Absorb(heap, prev, h, prev), LAMBDA m : InsertFreeChunkIntoBin(m, prev))
        ELSE InsertFreeChunkIntoBin(heap, h)
FreeAndMaybeCoalesce(heap, h) ==
    With(With(Freed(heap, h), LAMBDA freed : MergedNext(freed, h)),
         LAMBDA merged : MergedPrev(merged, h))

DeallocateRawInternal(heap, ptr) == FreeAndMaybeCoalesce(heap, heap.handles[ptr])
=============================================================================
