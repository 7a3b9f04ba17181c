----------------------------- MODULE QueueBase -----------------------------
(***************************************************************************)
(* The queues of core/kernels: QueueBase (queue_base.cc) with the run      *)
(* callbacks of FIFOQueue, PaddingFIFOQueue, RandomShuffleQueue and        *)
(* PriorityQueue, and the cancellation managers of the steps whose         *)
(* operations use the queue.                                               *)
(*                                                                         *)
(* An operation appends an attempt to enqueue_attempts_ or                 *)
(* dequeue_attempts_ and calls FlushUnlocked, which runs the attempts at   *)
(* the two fronts, whoever owns them, until nothing changes, releases the  *)
(* lock and then deregisters and calls back every operation that is        *)
(* complete.  A thread is an operation (the executor thread that calls it) *)
(* or a step (the thread in StartCancel).                                  *)
(*                                                                         *)
(* The holder of mu_ moves through TryAttemptLocked one element at a time, *)
(* and until it releases mu_ no other thread moves: what the others do     *)
(* without the lock (call back, register, deregister, start or end a       *)
(* cancellation) touches nothing the holder reads or writes, so every      *)
(* interleaving has the same outcome as one in which the flush is not      *)
(* interrupted.                                                            *)
(***************************************************************************)
EXTENDS Integers, Sequences, CancellationManager

CONSTANTS Capacity,          \* capacity_
          MinAfterDequeue    \* min_after_dequeue_ of the shuffle queue

Ops == Tokens
Steps == Managers
Threads == Ops \union Steps
Free == "free"

ASSUME QueueConstants ==
    /\ Capacity \in Nat \ {0}
    /\ MinAfterDequeue \in Nat /\ MinAfterDequeue < Capacity
    /\ Tokens \cap Managers = {} /\ Free \notin Threads

VARIABLES flavor,      \* which of the queue classes; fixed
          work,        \* the operations: kind, batch size, step; fixed
          closed,      \* closed_
          queue,       \* queues_, as one sequence of elements
          attempts,    \* enqueue_attempts_ and dequeue_attempts_
          att,         \* the Attempt of each operation
          status,      \* context->status() of each operation
          calls,       \* how often its done callback has been called
          mu,          \* the holder of mu_
          action,      \* TryAttemptLocked's action, of the holder of mu_
          result,      \* "start" of a run_callback, or "progress" in its loop
          changed,     \* FlushUnlocked's changed
          pc,          \* where each thread is
          todo,        \* callbacks a thread has to call before it flushes
          clean,       \* clean_up: the complete operations of a flush
          entered,     \* history: the elements in the order they entered
          delivered    \* history: the elements in the order they left for good

config == <<flavor, work>>
attVars == <<closed, queue, attempts, att, status, entered, delivered>>
flushVars == <<mu, action, result, changed>>
threadVars == <<pc, todo, clean>>
vars == <<config, attVars, calls, flushVars, threadVars, cmVars>>

Flavors == {"fifo", "shuffle", "priority"}
EnqueueKinds == {"enqueue"}
DequeueKinds == {"dequeue", "many", "upto"}
CloseKinds == {"close", "closeCancel"}
Kinds == EnqueueKinds \union DequeueKinds \union CloseKinds
Kind(o) == work[o].kind
StepOf(o) == work[o].step
\* The i-th element of the batch of operation o.
Element(o, i) == <<o, i>>

EmptyAttempt == [left |-> 0, tuple |-> <<>>, cancelled |-> FALSE]

Init ==
    /\ CMInit
    /\ flavor \in Flavors
    /\ work \in [Ops -> [kind : Kinds, n : Nat, step : Steps]]
    /\ \A o \in Ops : Kind(o) = "dequeue" => work[o].n = 1
    /\ closed = FALSE /\ queue = <<>>
    /\ attempts = [a \in {"enqueue", "dequeue"} |-> <<>>]
    /\ att = [o \in Ops |-> EmptyAttempt]
    /\ status = [o \in Ops |-> "none"]
    /\ calls = [o \in Ops |-> 0]
    /\ mu = Free /\ action = "enqueue" /\ result = "start" /\ changed = FALSE
    /\ pc = [t \in Threads |-> "idle"]
    /\ todo = [t \in Threads |-> {}]
    /\ clean = [t \in Threads |-> <<>>]
    /\ entered = <<>> /\ delivered = <<>>

Goto(t, label) == pc' = [pc EXCEPT ![t] = label]
SeqSet(s) == {s[i] : i \in DOMAIN s}

-----------------------------------------------------------------------------
(* TryEnqueue, TryEnqueueMany, TryDequeue, TryDequeueMany and Close up to  *)
(* FlushUnlocked.                                                          *)

ActionOf(o) == IF Kind(o) \in DequeueKinds THEN "dequeue" ELSE "enqueue"

Emplace(o) ==
    /\ attempts' = [attempts EXCEPT ![ActionOf(o)] = Append(@, o)]
    /\ att' = [att EXCEPT ![o].left = work[o].n]
    /\ Goto(o, "flush")

\* The callback is registered and the attempt emplaced under one lock.
TryAttempt(o) ==
    /\ pc[o] = "idle" /\ mu = Free
    /\ Kind(o) \in EnqueueKinds \union DequeueKinds /\ work[o].n > 0
    /\ RegisterCallback(StepOf(o), o)
    /\ Emplace(o)
    /\ UNCHANGED <<config, closed, queue, status, entered, delivered,
                   calls, flushVars, todo, clean>>

\* The step is cancelled already: the operation calls back by itself.
AlreadyCancelled(o) ==
    /\ pc[o] = "idle" /\ mu = Free
    /\ Kind(o) \in EnqueueKinds \union DequeueKinds /\ work[o].n > 0
    /\ ~CanRegister(StepOf(o))
    /\ status' = [status EXCEPT ![o] = "Cancelled"]
    /\ calls' = [calls EXCEPT ![o] = @ + 1]
    /\ Goto(o, "end")
    /\ UNCHANGED <<config, closed, queue, attempts, att, entered,
                   delivered, flushVars, todo, clean, cmVars>>

\* A batch of no elements needs no lock and no attempt.
EmptyBatch(o) ==
    /\ pc[o] = "idle" /\ mu = Free /\ work[o].n = 0
    /\ Kind(o) \in {"enqueue", "many", "upto"}
    /\ status' = [status EXCEPT ![o] = "OK"]
    /\ calls' = [calls EXCEPT ![o] = @ + 1]
    /\ Goto(o, "end")
    /\ UNCHANGED <<config, closed, queue, attempts, att, entered,
                   delivered, flushVars, todo, clean, cmVars>>

\* Close without cancel_pending_enqueues queues behind the enqueues.
Close(o) ==
    /\ pc[o] = "idle" /\ mu = Free /\ Kind(o) = "close"
    /\ Emplace(o)
    /\ UNCHANGED <<config, closed, queue, status, entered, delivered,
                   calls, flushVars, todo, clean, cmVars>>

\* Mutant of CloseAndCancel: the attempts left are not flushed.
CloseWithoutFlush(o) ==
    /\ pc[o] = "idle" /\ mu = Free /\ Kind(o) = "closeCancel"
    /\ closed' = TRUE
    /\ Goto(o, "done")
    /\ UNCHANGED <<config, queue, attempts, att, status, entered, delivered,
                   calls, todo, flushVars, clean, cmVars>>

\* CloseAndCancel: the pending enqueues, and closes, are cancelled in place.
CloseAndCancel(o) ==
    /\ pc[o] = "idle" /\ mu = Free /\ Kind(o) = "closeCancel"
    /\ closed' = TRUE
    /\ LET pending == {p \in SeqSet(attempts["enqueue"]) : ~att[p].cancelled}
       IN  /\ att' = [p \in Ops |-> IF p \in pending
                                    THEN [att[p] EXCEPT !.cancelled = TRUE]
                                    ELSE att[p]]
           /\ status' = [p \in Ops |-> IF p \in pending
                                       THEN "Cancelled" ELSE status[p]]
           /\ todo' = [todo EXCEPT ![o] = pending]
           /\ Goto(o, IF pending = {} THEN "flush" ELSE "call")
    /\ UNCHANGED <<config, queue, attempts, entered, delivered, calls,
                   flushVars, clean, cmVars>>

-----------------------------------------------------------------------------
(* FlushUnlocked under the lock.                                           *)

Front == Head(attempts[action])

BeginFlush(t) ==
    /\ pc[t] = "flush" /\ mu = Free
    /\ mu' = t /\ action' = "enqueue" /\ result' = "start" /\ changed' = FALSE
    /\ UNCHANGED <<config, attVars, calls, threadVars, cmVars>>

\* The holder t of mu_ is about to run, or runs, the attempt at the front.
Runs(t, act) ==
    /\ mu = t /\ action = act
    /\ attempts[act] # <<>> /\ ~att[Front].cancelled

\* run_callback returns kComplete for the attempt at the front.
Complete(t, s) ==
    /\ attempts' = [attempts EXCEPT ![action] = Tail(@)]
    /\ clean' = [clean EXCEPT ![t] = Append(@, Front)]
    /\ status' = [status EXCEPT ![Front] = s]
    /\ changed' = TRUE /\ result' = "start"
    /\ UNCHANGED <<mu, action>>

SkipCancelled(t) ==
    /\ mu = t /\ attempts[action] # <<>> /\ att[Front].cancelled
    /\ attempts' = [attempts EXCEPT ![action] = Tail(@)]
    /\ UNCHANGED <<config, closed, queue, att, status, entered,
                   delivered, calls, flushVars, threadVars, cmVars>>

\* The run callback of Close.
RunClose(t) ==
    /\ Runs(t, "enqueue") /\ Kind(Front) = "close"
    /\ Complete(t, IF closed THEN "Cancelled" ELSE "OK")
    /\ closed' = TRUE
    /\ UNCHANGED <<config, queue, att, entered, delivered, calls, pc,
                   todo, cmVars>>

EnqueueClosed(t) ==
    /\ Runs(t, "enqueue") /\ Kind(Front) = "enqueue"
    /\ closed
    /\ Complete(t, "Cancelled")
    /\ UNCHANGED <<config, closed, queue, att, entered, delivered, calls,
                   pc, todo, cmVars>>

\* Mutant of EnqueueElement: one element more than fits.
EnqueueOneMore(t) ==
    /\ Runs(t, "enqueue") /\ Kind(Front) = "enqueue"
    /\ ~closed /\ Len(queue) <= Capacity
    /\ LET left == att[Front].left
           e == Element(Front, work[Front].n - left + 1)
       IN  /\ queue' = Append(queue, e)
           /\ entered' = Append(entered, e)
           /\ att' = [att EXCEPT ![Front].left = left - 1]
           /\ IF left = 1
              THEN Complete(t, "OK")
              ELSE /\ result' = "progress"
                   /\ UNCHANGED <<attempts, clean, status, mu, action,
                                  changed>>
    /\ UNCHANGED <<config, closed, delivered, calls, pc, todo, cmVars>>

\* One turn of the loop of TryEnqueueMany, or the one turn of TryEnqueue.
EnqueueElement(t) ==
    /\ Runs(t, "enqueue") /\ Kind(Front) = "enqueue"
    /\ ~closed /\ Len(queue) < Capacity
    /\ LET left == att[Front].left
           e == Element(Front, work[Front].n - left + 1)
       IN  /\ queue' = Append(queue, e)
           /\ entered' = Append(entered, e)
           /\ att' = [att EXCEPT ![Front].left = left - 1]
           /\ IF left = 1
              THEN Complete(t, "OK")
              ELSE /\ result' = "progress"
                   /\ UNCHANGED <<attempts, clean, status, mu, action,
                                  changed>>
    /\ UNCHANGED <<config, closed, delivered, calls, pc, todo, cmVars>>

EnqueueFull(t) ==
    /\ Runs(t, "enqueue") /\ Kind(Front) = "enqueue"
    /\ ~closed /\ Len(queue) >= Capacity

\* The number of elements a dequeue may take now.
Available ==
    IF flavor = "shuffle" /\ ~closed
    THEN IF Len(queue) > MinAfterDequeue THEN Len(queue) - MinAfterDequeue
                                         ELSE 0
    ELSE Len(queue)

\* DequeueLocked: the positions of queues_ it may take its element from.
Choices ==
    CASE flavor = "fifo"     -> {1}
      [] flavor = "shuffle"  -> DOMAIN queue
      [] flavor = "priority" -> {i \in DOMAIN queue :
                                   \A j \in DOMAIN queue :
                                      queue[i][2] <= queue[j][2]}

\* RandomShuffleQueue moves the last element into the gap.
Without(q, i) ==
    IF flavor = "shuffle"
    THEN SubSeq([q EXCEPT ![i] = q[Len(q)]], 1, Len(q) - 1)
    ELSE SubSeq(q, 1, i - 1) \o SubSeq(q, i + 1, Len(q))

OutOfRange(t) ==
    /\ Complete(t, "OutOfRange")
    /\ UNCHANGED <<config, closed, entered, delivered, calls, pc, todo,
                   cmVars>>

Batch(o) == Kind(o) \in {"many", "upto"}

\* The conditions on which a run callback gives up with OutOfRange or waits.
DequeueExhausted ==
    LET need == att[Front].left
        small == Kind(Front) = "upto"
    IN  result = "start" /\ closed /\
        IF flavor = "priority" /\ Batch(Front)
        THEN Len(queue) = 0 \/ (~small /\ Len(queue) < need)
        ELSE Len(queue) < need

DequeueWaits ==
    LET need == att[Front].left
        small == Kind(Front) = "upto"
    IN  \/ Available = 0
        \/ /\ flavor = "priority" /\ Batch(Front) /\ result = "start"
           /\ Len(queue) < need /\ ~(closed /\ small)

\* Mutant of Restored: push_front from the first element on.
RestoredReversed ==
    [i \in 1..Len(att[Front].tuple) |->
       att[Front].tuple[Len(att[Front].tuple) + 1 - i]] \o queue

\* Elements taken for a batch that cannot be filled go back to the queue.
Restored ==
    IF flavor = "fifo" THEN att[Front].tuple \o queue
    ELSE queue \o [i \in 1..Len(att[Front].tuple) |->
                     att[Front].tuple[Len(att[Front].tuple) + 1 - i]]

\* Mutant of DequeueTooFew: the batch is given up with what it holds.
DequeueTooFewDrops(t) ==
    /\ Runs(t, "dequeue") /\ DequeueExhausted
    /\ queue' = queue
    /\ att' = [att EXCEPT ![Front].tuple = <<>>]
    /\ Kind(Front) = "upto" /\ flavor # "priority"
         => Restored = <<>> /\ attempts["enqueue"] = <<>>
    /\ OutOfRange(t)

\* With allow_small_batch the code yields to the enqueue attempts that are left:
\* there are none, since a flush of a closed queue has completed them before it
\* comes to the dequeues.
DequeueTooFew(t) ==
    /\ Runs(t, "dequeue") /\ DequeueExhausted
    /\ IF flavor = "priority" \/ ~Batch(Front)
       THEN queue' = queue /\ att' = att
       ELSE /\ queue' = Restored
            /\ att' = [att EXCEPT ![Front].tuple = <<>>]
    /\ Kind(Front) = "upto" /\ flavor # "priority"
         => Restored = <<>> /\ attempts["enqueue"] = <<>>
    /\ OutOfRange(t)

\* allow_small_batch: the attempt now asks for what is left.
DequeueSmallBatch(t) ==
    /\ Runs(t, "dequeue") /\ DequeueExhausted
    /\ Kind(Front) = "upto" /\ flavor # "priority" /\ Restored # <<>>
    /\ queue' = Restored
    /\ att' = [att EXCEPT ![Front].tuple = <<>>, ![Front].left = Len(Restored)]
    /\ UNCHANGED <<config, closed, attempts, status, entered, delivered,
                   calls, flushVars, threadVars, cmVars>>

\* One turn of the loop of TryDequeueMany, or the one turn of TryDequeue.
DequeueElement(t) ==
    /\ Runs(t, "dequeue") /\ ~DequeueExhausted /\ ~DequeueWaits
    /\ \E i \in Choices :
         LET left == att[Front].left
             tuple == Append(att[Front].tuple, queue[i])
         IN  /\ queue' = Without(queue, i)
             /\ IF left = 1
                THEN /\ Complete(t, "OK")
                     /\ delivered' = delivered \o tuple
                     /\ att' = [att EXCEPT ![Front].left = 0,
                                           ![Front].tuple = <<>>]
                ELSE /\ result' = "progress"
                     /\ att' = [att EXCEPT ![Front].left = left - 1,
                                           ![Front].tuple = tuple]
                     /\ UNCHANGED <<attempts, clean, status, mu, action,
                                    changed, delivered>>
    /\ UNCHANGED <<config, closed, entered, calls, pc, todo, cmVars>>

\* Mutant of AfterFlush: StartCancel stops at the first attempt it cancels.
AfterFirstFlush(t, cs) == IF cs # <<>> THEN "clean" ELSE "end"

\* What is left of FlushUnlocked when the operations cs are to be cleaned up,
\* and where its callers go on: StartCancel's loop, CloseAndCancel's callback.
AfterFlush(t, cs) ==
    CASE cs # <<>>                                         -> "clean"
      [] cs = <<>> /\ t \in Steps                          -> "cancel"
      [] cs = <<>> /\ t \in Ops /\ Kind(t) = "closeCancel" -> "done"
      [] OTHER                                             -> "end"

\* Mutant of NextAction: FlushUnlocked goes through the attempts once.
NextActionOnce(t, progress) ==
    /\ result' = "start" /\ changed' = FALSE
    /\ IF action = "enqueue"
       THEN action' = "dequeue" /\ UNCHANGED <<mu, pc>>
       ELSE /\ action' = "enqueue" /\ mu' = Free
            /\ Goto(t, AfterFlush(t, clean[t]))
    /\ UNCHANGED <<config, attVars, calls, todo, clean, cmVars>>

\* TryAttemptLocked is done with this action; after both, FlushUnlocked goes
\* round again if anything changed, and else releases the lock.
NextAction(t, progress) ==
    LET chg == changed \/ progress IN
    /\ result' = "start"
    /\ IF action = "enqueue"
       THEN action' = "dequeue" /\ changed' = chg /\ UNCHANGED <<mu, pc>>
       ELSE /\ action' = "enqueue" /\ changed' = FALSE
            /\ IF chg THEN UNCHANGED <<mu, pc>>
                      ELSE mu' = Free /\ Goto(t, AfterFlush(t, clean[t]))
    /\ UNCHANGED <<config, attVars, calls, todo, clean, cmVars>>

AttemptsDone(t) ==
    \/ mu = t /\ attempts[action] = <<>> /\ NextAction(t, FALSE)
    \/ EnqueueFull(t) /\ NextAction(t, result = "progress")
    \/ /\ Runs(t, "dequeue") /\ ~DequeueExhausted /\ DequeueWaits
       /\ NextAction(t, result = "progress")

-----------------------------------------------------------------------------
(* The parts of a thread that hold no lock.                                *)

\* The clean_up loop of FlushUnlocked: deregister, which may wait, call back.
CleanUp(t) ==
    /\ pc[t] = "clean" /\ mu = Free
    /\ LET o == Head(clean[t]) IN
         /\ IF Kind(o) = "close" THEN UNCHANGED cmVars
                                 ELSE DeregisterCallback(StepOf(o), o)
         /\ calls' = [calls EXCEPT ![o] = @ + 1]
    /\ clean' = [clean EXCEPT ![t] = Tail(@)]
    /\ Goto(t, AfterFlush(t, Tail(clean[t])))
    /\ UNCHANGED <<config, attVars, flushVars, todo>>

\* The end of CloseAndCancel.
CloseDone(o) ==
    /\ pc[o] = "done" /\ mu = Free
    /\ calls' = [calls EXCEPT ![o] = @ + 1]
    /\ status' = [status EXCEPT ![o] = "OK"]
    /\ Goto(o, "end")
    /\ UNCHANGED <<config, closed, queue, attempts, att, entered, delivered,
                   flushVars, todo, clean, cmVars>>

\* Cancel and CloseAndCancel call the callbacks they took, then flush.
\* CloseAndCancel calls them in the order of the attempts, the model in any.
CallBack(t) ==
    /\ pc[t] = "call" /\ mu = Free
    /\ \E o \in todo[t] :
         /\ calls' = [calls EXCEPT ![o] = @ + 1]
         /\ todo' = [todo EXCEPT ![t] = @ \ {o}]
         /\ IF todo[t] = {o} THEN Goto(t, "flush") ELSE UNCHANGED pc
    /\ UNCHANGED <<config, attVars, flushVars, clean, cmVars>>

\* StartCancel of a step runs QueueBase::Cancel for each registered token.  A
\* step whose operations register nothing on this queue is not followed.
StartCancel(s) ==
    /\ pc[s] = "idle" /\ mu = Free
    /\ \E o \in Ops : StepOf(o) = s /\ Kind(o) \notin CloseKinds
    /\ BeginCancel(s)
    /\ Goto(s, "cancel")
    /\ UNCHANGED <<config, attVars, calls, flushVars, todo, clean>>

\* Mutant of Cancel: the attempt is cancelled whether or not it is pending.
CancelAlways(s, o) ==
    /\ pc[s] = "cancel" /\ mu = Free
    /\ TakeCallback(s, o)
    /\ att' = [att EXCEPT ![o].cancelled = TRUE]
    /\ status' = [status EXCEPT ![o] = "Cancelled"]
    /\ todo' = [todo EXCEPT ![s] = {o}]
    /\ Goto(s, "call")
    /\ UNCHANGED <<config, closed, queue, attempts, entered, delivered,
                   calls, flushVars, clean>>

Cancel(s, o) ==
    /\ pc[s] = "cancel" /\ mu = Free
    /\ TakeCallback(s, o)
    /\ IF o \in SeqSet(attempts[ActionOf(o)]) /\ ~att[o].cancelled
       THEN /\ att' = [att EXCEPT ![o].cancelled = TRUE]
            /\ status' = [status EXCEPT ![o] = "Cancelled"]
            /\ todo' = [todo EXCEPT ![s] = {o}]
            /\ Goto(s, "call")
       ELSE UNCHANGED <<att, status, todo, pc>>
    /\ UNCHANGED <<config, closed, queue, attempts, entered, delivered,
                   calls, flushVars, clean>>

CancelDone(s) ==
    /\ pc[s] = "cancel" /\ mu = Free
    /\ EndCancel(s)
    /\ Goto(s, "end")
    /\ UNCHANGED <<config, attVars, calls, flushVars, todo, clean>>

Start(o) ==
    TryAttempt(o) \/ AlreadyCancelled(o) \/ EmptyBatch(o) \/ Close(o)
      \/ CloseAndCancel(o)

\* What a thread that is under way does next.
Run(t) ==
    \/ BeginFlush(t) \/ SkipCancelled(t) \/ AttemptsDone(t)
    \/ RunClose(t) \/ EnqueueClosed(t) \/ EnqueueElement(t)
    \/ DequeueTooFew(t) \/ DequeueSmallBatch(t) \/ DequeueElement(t)
    \/ CleanUp(t) \/ CloseDone(t) \/ CallBack(t)

RunCancel(s) == CancelDone(s) \/ \E o \in Ops : Cancel(s, o)

Next ==
    \/ \E o \in Ops : Start(o)
    \/ \E s \in Steps : StartCancel(s) \/ RunCancel(s)
    \/ \E t \in Threads : Run(t)

Spec == Init /\ [][Next]_vars

\* A thread goes on as long as it can: the threads of the pool are scheduled,
\* and mu_ is held only for a flush.  Nobody has to start an operation or to
\* cancel a step.
Fairness == /\ \A t \in Threads : WF_vars(Run(t))
            /\ \A s \in Steps : WF_vars(RunCancel(s))

-----------------------------------------------------------------------------
(* Properties.                                                             *)

TypeOK ==
    /\ CMTypeOK
    /\ flavor \in Flavors /\ closed \in BOOLEAN
    /\ mu \in Threads \union {Free}
    /\ action \in {"enqueue", "dequeue"} /\ result \in {"start", "progress"}
    /\ changed \in BOOLEAN
    /\ \A t \in Threads :
         pc[t] \in {"idle", "flush", "call", "clean", "cancel", "done", "end"}
    /\ \A o \in Ops :
         /\ status[o] \in {"none", "OK", "Cancelled", "OutOfRange"}
         /\ calls[o] \in Nat
         /\ att[o].left \in 0..work[o].n
         /\ SeqSet(att[o].tuple) \subseteq SeqSet(entered)

Live(o) == /\ o \in SeqSet(attempts["enqueue"]) \union SeqSet(attempts["dequeue"])
           /\ ~att[o].cancelled

\* The elements taken for batches that were never handed out.
TakenBy(o) == SeqSet(att[o].tuple)

\* Every element that entered the queue is in exactly one place: still in the
\* queue, held by a batch that is being filled, delivered, or dropped with a
\* batch whose dequeue was cancelled.  The partly filled batches of
\* TryDequeueMany are what makes this delicate.  (PriorityQueue, which drops
\* elements on another path, is the subject of NoElementsBehindOutOfRange.)
ElementsConserved ==
    TypeOK /\ (flavor # "priority" =>
      LET inQueue == SeqSet(queue)
          held == UNION {TakenBy(o) : o \in Ops}
          gone == SeqSet(delivered)
      IN  /\ SeqSet(entered) = inQueue \union held \union gone
          /\ inQueue \cap held = {} /\ inQueue \cap gone = {}
          /\ held \cap gone = {}
          /\ Len(queue) + Len(delivered) <= Len(entered)
          /\ \A o \in Ops : TakenBy(o) # {} => Live(o) \/ status[o] = "Cancelled")

Position(e) == CHOOSE i \in DOMAIN entered : entered[i] = e

\* FIFOQueue is first in, first out across operations: elements leave in the
\* order they entered, whatever batches are filled piecemeal, handed back on
\* close (push_front in reverse) or dropped by a cancellation.
FirstInFirstOut ==
    flavor = "fifo" =>
      LET d == attempts["dequeue"]
          held == IF d # <<>> THEN att[Head(d)].tuple ELSE <<>>
          rest == IF d # <<>> /\ att[Head(d)].cancelled THEN queue
                                                       ELSE held \o queue
          line == delivered \o rest
      IN  \A i, j \in DOMAIN line : i < j => Position(line[i]) < Position(line[j])

\* The done callback of an operation runs at most once, and an attempt whose
\* operation has called back is never run again: its OpKernelContext is gone.
CalledBackOnce ==
    \A o \in Ops : calls[o] <= 1 /\ (calls[o] = 1 => ~Live(o))

\* No lost wake-up: when no thread has a flush to run, the attempt at either
\* front really is blocked.
Flushing == mu # Free \/ \E t \in Threads : pc[t] \in {"flush", "call"}
EnqueueBlocked ==
    LET a == attempts["enqueue"] IN
    a # <<>> => att[Head(a)].cancelled
                  \/ (Kind(Head(a)) = "enqueue" /\ ~closed /\ Len(queue) >= Capacity)
DequeueBlocked ==
    LET a == attempts["dequeue"] IN
    a # <<>> => \/ att[Head(a)].cancelled
               \/ /\ ~closed
                  /\ \/ Available = 0
                     \/ flavor = "priority" /\ Len(queue) < att[Head(a)].left
NoStrandedAttempt == ~Flushing => EnqueueBlocked /\ DequeueBlocked

\* A queue keeps to its limits, element by element: it holds more than its
\* capacity only after a close handed a partly filled batch back, and an open
\* RandomShuffleQueue keeps min_after_dequeue elements to mix.
LimitsRespected ==
    [][/\ Len(queue') > Capacity => closed'
       /\ flavor = "shuffle" /\ ~closed /\ Len(queue') < Len(queue)
            => Len(queue') >= MinAfterDequeue]_vars

\* The doc of QueueDequeueUpTo and QueueDequeueMany: a dequeue fails with
\* OutOfRange only if it got no elements; what is left is returned by
\* QueueDequeueUpTo or stays in the queue.
NoElementsBehindOutOfRange ==
    \A o \in Ops : status[o] = "OutOfRange" => TakenBy(o) = {}

\* Step s waits, in a callback its StartCancel runs, for the cancellation of
\* step r to finish.
WaitsFor(s, r) ==
    /\ pc[s] = "clean"
    /\ Kind(Head(clean[s])) # "close" /\ StepOf(Head(clean[s])) = r
    /\ phase[r] = "cancelling"
\* A StartCancel that waits for itself, or two that wait for each other.
CancelDeadlock == \E s, r \in Steps : WaitsFor(s, r) /\ WaitsFor(r, s)

\* A cancelled step is released: StartCancel comes to its end, unless a
\* flush it ran completed another operation of a step that is being cancelled
\* and DeregisterCallback waits for the end of StartCancel itself.
CancelEnds ==
    \A s \in Steps :
      phase[s] = "cancelling" ~> (phase[s] = "cancelled" \/ CancelDeadlock)

\* A closed queue drains: every operation that was started calls back.
ClosedQueueDrains ==
    \A o \in Ops :
      (closed /\ pc[o] # "idle") ~> (calls[o] = 1 \/ CancelDeadlock)

\* cancellation.h, RegisterCallback: "(iii) `callback` does not invoke any
\* method on this cancellation manager".  It does not hold: see section 4 of
\* the README.
CallbackAvoidsItsManager == \A s \in Steps : ~WaitsFor(s, s)
=============================================================================
