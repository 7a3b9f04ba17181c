--------------------------- MODULE AllocatorRetry ---------------------------
(***************************************************************************)
(* Threads that share a BFCAllocator: AllocateRaw and DeallocateRaw with   *)
(* the retries of AllocatorRetry (common_runtime/allocator_retry.cc).  A   *)
(* thread that gets no memory waits until some is returned, or until its   *)
(* deadline.                                                               *)
(***************************************************************************)
EXTENDS BFCAllocator, FiniteSetsExt

CONSTANTS Threads,
          Works   \* allocators (limit, region and spare, see NewHeap) with the threads
                  \* that share them, the sizes these ask for, and a bound on the
                  \* allocations they hold together

VARIABLES work,     \* one of the above
          heap,
          pc,       \* where each thread is
          call,     \* the size it asks for, and its deadline, if it has to wait
          held,     \* the addresses it has been given, with the sizes asked for
          looping   \* a thread is in Extend for good, and holds lock_

vars == <<work, heap, pc, call, held, looping>>

Allocations == UNION {{[thread |-> t, ptr |-> a.ptr, bytes |-> a.bytes] : a \in held[t]} :
                        t \in Threads}

NoCall == [bytes |-> 0, deadline |-> "unset"]

Init ==
    /\ work \in Works
    /\ heap = NewHeap(work.limit, work.region, work.spare)
    /\ pc = [t \in Threads |-> "idle"]
    /\ call = [t \in Threads |-> NoCall]
    /\ held = [t \in Threads |-> {}]
    /\ looping = FALSE

\* The outcome a of alloc_func in thread t, which goes on at next if it is null.
AllocFunc(t, a, request, next) ==
    LET to == CASE a.result = "ok" -> "idle"
                [] a.result = "null" -> next
                [] a.result = "loops" -> "looping"
    IN  /\ heap' = a.heap
        /\ looping' = (a.result = "loops")
        /\ pc' = [pc EXCEPT ![t] = to]
        /\ call' = [call EXCEPT ![t] = IF to = "idle" THEN NoCall ELSE request]
        /\ held' = IF a.result = "ok"
                   THEN [held EXCEPT ![t] = @ \union {[ptr |-> a.ptr, bytes |-> request.bytes]}]
                   ELSE held
        /\ UNCHANGED work

\* BFCAllocator::AllocateRaw tries once, and then, unless the caller can do
\* without (no_retry_on_failure), with the retry helper.
AllocateRaw(t) ==
    /\ pc[t] = "idle" /\ ~looping /\ Cardinality(Allocations) < work.maxHeld
    /\ \E bytes \in work.requests, no_retry_on_failure \in BOOLEAN :
       \E a \in AllocateRawInternal(heap, bytes) :
         AllocFunc(t, a, [NoCall EXCEPT !.bytes = bytes],
                   IF no_retry_on_failure \/ bytes = 0 THEN "idle" ELSE "retry")

\* Mutant: every failure sets the deadline.
RetryResetsDeadline(t) ==
    /\ pc[t] = "retry" /\ ~looping
    /\ \E a \in AllocateRawInternal(heap, call[t].bytes) :
         AllocFunc(t, a, [call[t] EXCEPT !.deadline = "ahead"], "block")

\* A round of the loop.  The first failure sets the deadline.
Retry(t) ==
    /\ pc[t] = "retry" /\ ~looping
    /\ \E a \in AllocateRawInternal(heap, call[t].bytes) :
         AllocFunc(t, a, [call[t] EXCEPT !.deadline = IF @ = "unset" THEN "ahead" ELSE @],
                   IF call[t].deadline = "passed" THEN "last" ELSE "block")

\* mu_ is taken only now: a return of memory before this is not noticed.
Block(t) ==
    /\ pc[t] = "block" /\ pc' = [pc EXCEPT ![t] = "waiting"]
    /\ UNCHANGED <<work, heap, call, held, looping>>

DeadlinePasses(t) ==
    /\ call[t].deadline = "ahead"
    /\ call' = [call EXCEPT ![t].deadline = "passed"]
    /\ UNCHANGED <<work, heap, pc, held, looping>>

\* WaitForMilliseconds returns because the time is over.
TimedOut(t) ==
    /\ pc[t] = "waiting" /\ call[t].deadline = "passed"
    /\ pc' = [pc EXCEPT ![t] = "retry"]
    /\ UNCHANGED <<work, heap, call, held, looping>>

\* Mutant: without the last try.
NoLastTry(t) ==
    /\ pc[t] = "last" /\ ~looping
    /\ AllocFunc(t, [heap |-> heap, result |-> "null", ptr |-> 0], call[t], "idle")

LastTry(t) ==
    /\ pc[t] = "last" /\ ~looping
    /\ \E a \in AllocateRawInternal(heap, call[t].bytes) : AllocFunc(t, a, call[t], "idle")

DeallocateRaw(t) ==
    /\ pc[t] = "idle" /\ ~looping
    /\ \E a \in held[t] :
         /\ heap' = DeallocateRawInternal(heap, a.ptr)
         /\ held' = [held EXCEPT ![t] = @ \ {a}]
    /\ pc' = [pc EXCEPT ![t] = "notify"]
    /\ UNCHANGED <<work, call, looping>>

NotifyDealloc(t) ==
    /\ pc[t] = "notify"
    /\ pc' = [s \in Threads |-> CASE s = t -> "idle"
                                  [] s # t /\ pc[s] = "waiting" -> "retry"
                                  [] OTHER -> pc[s]]
    /\ UNCHANGED <<work, heap, call, held, looping>>

InCall(t) == Retry(t) \/ Block(t) \/ TimedOut(t) \/ LastTry(t) \/ NotifyDealloc(t)

Next == \E t \in work.threads :
          AllocateRaw(t) \/ DeallocateRaw(t) \/ InCall(t) \/ DeadlinePasses(t)

\* A call that has begun goes on, and time passes.
Fairness == \A t \in Threads : WF_vars(InCall(t)) /\ WF_vars(DeadlinePasses(t))

Spec == Init /\ [][Next]_vars /\ Fairness

-----------------------------------------------------------------------------
\* The handles on the free list, and the others.
Recycled ==
    LET at[i \in 1..Len(heap.chunks)] ==
          IF i = 1 THEN heap.freeChunks
          ELSE IF at[i - 1] = Invalid THEN Invalid ELSE heap.chunks[at[i - 1]].next
    IN  {at[i] : i \in DOMAIN heap.chunks} \ {Invalid}
Live == DOMAIN heap.chunks \ Recycled
FreeChunks == {h \in Live : ~heap.chunks[h].inUse}
TotalSize(handles) == MapThenSumSet(LAMBDA h : heap.chunks[h].size, handles)

\* Types.
TypeOK ==
    /\ pc \in [Threads -> {"idle", "retry", "block", "waiting", "last", "notify", "looping"}]
    /\ \A t \in Threads : call[t].deadline \in {"unset", "ahead", "passed"}
    /\ heap.bytesInUse \in Nat /\ heap.freeChunks \in 0..Len(heap.chunks)
    /\ \A h \in Live : heap.chunks[h].size \in Nat \ {0}

\* "Their prev/next pointers form a doubly-linked list of addresses sorted by
\* base address that must be contiguous" (bfc_allocator.h): after any splits and
\* merges the chunks of a region cover it, and an address leads to its chunk.
\* Regions are within memory_limit_, and are all that was obtained unless Extend
\* had to backpedal: it then uses, and counts, less than it was given.
ChunksTileRegions ==
    /\ TypeOK
    /\ heap.total * MinAllocationSize <= heap.limit
    /\ ~heap.startedBackpedal => heap.obtained = heap.regions
    /\ \A h \in Live :
         LET c == heap.chunks[h] IN
         /\ heap.handles[c.ptr] = h
         /\ IF c.next = Invalid
            THEN \E r \in heap.regions : c.ptr + c.size = r.ptr + r.size
            ELSE /\ c.next \in Live /\ heap.chunks[c.next].prev = h
                 /\ heap.chunks[c.next].ptr = c.ptr + c.size
         /\ IF c.prev = Invalid THEN \E r \in heap.regions : c.ptr = r.ptr
            ELSE c.prev \in Live /\ heap.chunks[c.prev].next = h
    /\ TotalSize(Live) = heap.total
    /\ \A p \in DOMAIN heap.handles : heap.handles[p] \in Live

\* Memory is given to one thread at a time: two allocations are different
\* chunks, each in use and large enough, and bytes_in_use is the size of all.
AllocationsExclusive ==
    /\ \A a \in Allocations :
         LET c == heap.chunks[heap.handles[a.ptr]] IN
         c.inUse /\ c.ptr = a.ptr /\ c.size >= RoundedBytes(a.bytes)
    /\ Cardinality({a.ptr : a \in Allocations}) = Cardinality(Allocations)
    /\ {h \in Live : heap.chunks[h].inUse} = {heap.handles[a.ptr] : a \in Allocations}
    /\ heap.bytesInUse = TotalSize(Live \ FreeChunks)

\* What is free can be found: every free chunk is in the bin of its size and
\* nothing else is in a bin, not even a recycled handle, as
\* InsertFreeChunkIntoBin requires; and it is coalesced: two free chunks are
\* never neighbours, whatever the order in which threads allocate and return.
FreeChunksIndexed ==
    /\ \A h \in FreeChunks :
         /\ heap.chunks[h].bin = BinNumForSize(heap.chunks[h].size)
         /\ heap.chunks[h].next \notin FreeChunks
    /\ \A h \in DOMAIN heap.chunks \ FreeChunks : heap.chunks[h].bin = NoBin
    /\ \A b \in DOMAIN heap.bins : heap.bins[b] = {h \in FreeChunks : heap.chunks[h].bin = b}

\* "The BFC allocator tries to find the best fit first": what is allocated out of
\* the existing chunks comes from a smallest free chunk that is large enough.
BestFit ==
    [][\A t \in Threads : \A a \in held'[t] \ held[t] :
         LET enough == {h \in FreeChunks : heap.chunks[h].size >= RoundedBytes(a.bytes)}
         IN  enough # {} =>
               /\ heap.handles[a.ptr] \in enough
               /\ \A h \in enough :
                    heap.chunks[heap.handles[a.ptr]].size <= heap.chunks[h].size]_vars

\* AllocateRaw with retries returns nullptr only after the deadline, and only if
\* nothing that is free is large enough at that time.
GivesUpOnlyWhenFull ==
    [][\A t \in Threads :
         pc[t] \notin {"idle", "notify"} /\ pc'[t] = "idle" /\ held'[t] = held[t] =>
           /\ call[t].deadline = "passed"
           /\ \A h \in FreeChunks : heap.chunks[h].size < RoundedBytes(call[t].bytes)]_vars

\* Every AllocateRaw returns, also one that misses the notification that memory
\* was returned; unless a thread loops in Extend.
AllocateReturns == \A t \in Threads : pc[t] # "idle" ~> pc[t] = "idle" \/ looping
=============================================================================
