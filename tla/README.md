# DeepDecision: a verification project in TLA+

DeepDecision is an Android application that recognises objects in the camera's
video. For every second it decides whether a neural network runs on the phone or
the video is streamed to a server, and with which bitrate and resolution. It lives
in `src/tensorflow/examples/android/src/org/tensorflow/demo/` (the *app* below),
inside a copy of TensorFlow. This project models the concurrent and stateful
parts of the app, its decision procedure, and the parts of the TensorFlow runtime
(`src/tensorflow/core`, the *runtime*) that are hardest to test: executor, queues,
cancellation, rendezvous, the distributed step and the allocator. It checks them
with TLC on small instances, and proves central invariants with TLAPS for every
value of the constants.

## 1. The system's parts

Paths of the first table are relative to the app. "Hard" names what a unit test would hardly reach.

| Part | State | Operations | Hard | Module |
|---|---|---|---|---|
| RTP socket `video/rtp/RtpSocket.java` | ring of packets, in and out index, two semaphores, the sender thread | `requestBuffer`, `commitBuffer`, `run`, `resetFifo` | a sender that times out or fails resets the ring while the packetizer works on it | `RtpSocket` |
| Multi-box tracker `tracking/MultiBoxTracker.java`, `tracking/ObjectTracker.java` | tracked objects, queue of colours, native objects | `onFrame`, `trackResults`, `handleDetection` | resources over long sequences of calls | `MultiBoxTracker` |
| Camera fragment `CameraConnectionFragment.java` | camera, session, reader, lock, background thread | `openCamera`, `closeCamera`, the service's callbacks, `onPause` | callbacks that arrive while the UI thread closes | `CameraConnection` |
| Detector activity `DetectorActivity.java`, `CameraActivity.java` | flag `computing`, frame buffers, detector, statics set by the buttons | `onImageAvailable`, its Runnable, the buttons, `onPause` | three threads without a lock | `InferencePipeline` |
| Offloading decision `Offload.java` | best candidate so far | `runOptimization`, `runMCDNN` | ties, limits, "no candidate" | `Offload` |
| Measured functions `MeasureFxn.java` | tables | `interp`, `inv` | the ends of a table | `MeasureFxn` |
| Decision loop `CameraActivity.java` 138-390 | previous decision | probe, decide, launch | never ends; survives its activity | planned |
| Streaming session `video/Session.java`, `video/MediaStream.java`, `video/video/VideoStream.java` | streams, handler thread | configure, start, stop, preview | start and stop from different threads | planned |
| RTSP `video/rtsp/RtspClient.java`, `RtspServer.java` | connection state, CSeq | OPTIONS to TEARDOWN, the monitor's reconnects | a response lost, a reconnect racing a stop | planned |
| H.264 packetizer `video/rtp/H264Packetizer.java` | NAL unit, offset | `send`, `fill`, `resync` | fragment boundaries | planned |
| RTCP reports `video/rtcp/SenderReport.java` | counters | `update` | wrap of 32-bit counters | planned |
| Detectors, OpenGL preview, codec probing, MP4 parsing, native tracking, other demos | | | numerical or I/O code | no |

The runtime; paths are relative to `src/tensorflow/core`.

| Part | State | Operations | Hard | Module |
|---|---|---|---|---|
| Executor `common_runtime/executor.cc`, `pending_counts.h` | frames, iterations, pending counts, outstanding ops | run a node, propagate its outputs, create and delete frames, finish | counts under two locks and under none; dead values; a ring of iterations | `Executor`, `PendingCounts` |
| Queues `kernels/queue_base.cc`, `fifo_queue.cc`, `padding_fifo_queue.cc`, `random_shuffle_queue_op.cc`, `priority_queue.cc` | elements, two lists of attempts | enqueue, dequeue, dequeue many and up to, close, cancel, flush | whoever flushes runs everybody's attempts and callbacks | `QueueBase` |
| Cancellation `framework/cancellation.cc` | callbacks, two flags | `StartCancel`, `RegisterCallback`, `DeregisterCallback` | a callback that deregisters | `CancellationManager` |
| Rendezvous `framework/rendezvous.cc` | table of items, status | `Send`, `RecvAsync`, `StartAbort` | an abort among sends and receives | `LocalRendezvous` |
| Distributed step `distributed_runtime/` | calls, tables of rendezvous, barriers | `RunPartitions`, `RunGraph`, `RecvTensor`, `CleanupGraph`, `Close` | cancellations that overtake what they cancel; restarts | `DistributedStep` |
| Allocator `common_runtime/bfc_allocator.cc`, `allocator_retry.cc` | regions, chunks, bins | `AllocateRaw`, `DeallocateRaw`, `Extend`, the retry loop | long sequences, failures of the sub-allocator, notifications | `BFCAllocator`, `AllocatorRetry` |
| Direct session, coordinator, queue runners, partial runs | | | | not modelled, see 6 |
| Kernels, gradients, graph rewriting, XLA, language bindings | | | numerical or sequential code | no |

The parts meet as follows. The camera fragment delivers frames to the detector
activity on its background thread; the detector activity hands a copy to its
inference thread, which runs the detector and gives the detections to the
tracker. The decision loop measures the network, asks the offloading decision,
which evaluates the measured functions, and when offloading wins starts the
streaming activity. There a session's packetizer fills the RTP socket's ring and
the socket's own thread empties it. Beneath the detectors a session runs a graph:
an executor per device, which exchange values through a rendezvous (across
machines through `RecvTensor`), share queues between steps, and get their memory
from the allocator; a step that is given up is cancelled through its manager.

`src/tensorflow/examples/android/libstreaming` holds a second copy of the `video`
packages; the app is built from the one modelled.

## 2. Modules

**`RtpSocket`** One packetizer and any number of sender threads (an ending
sender and its successor coexist). Each thread has a program counter; each access
to a shared field is a step. `mBufferRequested` and `mBufferCommitted` are
the permits of the current semaphore objects; `resetFifo` replaces the objects, and
a thread blocked on the old one is "stranded" (packetizer) or "waitOld" (sender). `NextSlot` is the wrap of the indices,
`NextSeq` that of the sequence number. Socket errors (`SendFails`), the four
second timeout (`TimeOut`), interruption (`Interrupted`) and the end of the stream
(`EndOfStream`) may happen wherever the code lets them. `Quiet` says that no
sender ends while the packetizer is inside the socket; `QuietSpec` is `Spec`
confined to it, the regime the code is written for. `PacketFifo` is the promise: a
bounded queue of packets, to which `RtpSocket` maps the ring's occupied slots.

**`MultiBoxTracker`** A tracked object has a colour and a detection confidence
(functions over the recognitions). A detection carries its confidence, its
correlation with the image and the overlap with every track, all chosen freely:
the geometry is abstracted to whether boxes overlap too much. `HandleDetection`
follows the branches of `handleDetection`: rejected, replacing intersected tracks,
replacing the weakest track, no room, a fresh colour. Ties are broken either way,
as the code's order depends on the list. `ObjectTracker` is the set of native
objects.

**`CameraConnection`** The UI thread and the background looper. `device` is the
camera as its service sees it; `cameraDevice` is the fragment's field. Fields
shared between the threads are read and written in separate steps. Android is
external: it answers an open request, may take the camera away, and after
`quitSafely` runs what was posted and drops what comes later. One life of the
fragment: `CameraActivity.onPause` finishes the activity.

**`InferencePipeline`** The camera thread, the inference thread and the UI
thread. Frames are numbers modulo `FrameMod`; the frame buffers hold the number of
the frame they were filled from, so that mixing two frames is visible. `changed`,
`size` and `big` are the statics that the two buttons set. The branch for
`CA == 1` is left out: nothing sets `CA`. So is that for the intent extra `Detector`
in `onPreviewSizeChosen`: the one statement that sends it is commented out.

**`Offload`** The two loops of `runOptimization`, one action per iteration.
A candidate's utility is an integer for its rank; whether it meets the targets is
an input. The bitrates increase, so those within the limit are the first ones.

**`MeasureFxn`** `interp` and `inv` as operators on a table, with rationals as
pairs of integers instead of `double`. **`MCOffload`** composes them with `Offload`:
the bitrate limit that `runOptimization` searches under is what `inv` makes of the
battery's target, for every increasing table on a small grid.

Accesses to shared fields are sequentially consistent: of the data races only the
outcomes of interleaving are modelled, and in `RtpSocket` the lost update of the two
unlocked increments (`ResetIn`, `ResetOut`).

**`CancellationManager`** The phase of each manager and the callbacks it still has
to run. `StartCancel` takes the callbacks out of the manager and runs them one after the other outside
its lock; `DeregisterCallback` waits until a cancellation under way is over.

**`QueueBase`** extends it. A thread is an operation on the queue or a step in
`StartCancel`. An operation's attempt records what it still has to put in or take
out and the elements of its batch so far; `flavor` selects the run callbacks of one of the queues
(the padding queue differs from the FIFO queue in shapes only). The holder of
`mu_` works element by element, as the callbacks' loops do; callbacks, registration and
deregistration happen outside `mu_`. `entered`, `delivered` and `calls` are history.

**`PendingCounts`** is the two counters of a node, **`Executor`** one step of an
executor. `Initialize` derives from a graph what `ExecutorImpl::Initialize` does
(pending counts, frames, Enter counts). A task is a tagged node in flight; its
steps are the sections that the code runs under one lock: a node leaves its
iteration under the frame's lock, a child frame is looked up and created under the
executor's, and `num_outstanding_ops_` changes under none. Kernels are
interpreted (constants, less, add, Switch, Merge, Enter, Exit, NextIteration, Send,
Recv) so that a graph has a result to compare with.

**`LocalRendezvous`** The operators on a table (`Store`, `HandOver`, `Wait`, `Consume`,
`Clear`) are used by two specifications: its own, which the proofs are about, and

**`DistributedStep`** `master` issues the `RunGraph` calls in the order of the partitions, registers with its
cancellation manager, waits, cleans up and marks the run. Every call has a client side
and a server side; the reply and the notice of a cancellation travel separately.
`objs` are the `BaseRemoteRendezvous` created for the step on each worker, each around a local
rendezvous; `table` is what the manager has for the step, so that a rendezvous may
live on, unreachable, after `CleanupGraph`. A unit is an executor reduced to its
sends and receives (`Executor` has the rest). `Crash` loses a worker's state and
breaks its connections. A restarted worker does not have the graph: a stale `RunGraph` is handled up to
the look-up in `ExecuteAsync` (`GraphNotFound`), and can be cancelled until then. `lost` records cancellations and aborts that found nothing to act on. gRPC is external.

**`BFCAllocator`** The heap as a value, with one operator for each function of the
allocator, in units of `kMinAllocationSize`; **`AllocatorRetry`** the threads that share it. Addresses are
places in one space; the sub-allocator hands out adjacent memory, which is where coalescing
across regions would show. Two bounds are constants: `NumBins`, and in the instances the sizes asked for.

## 3. Runs

| Run | Expect | Question |
|---|---|---|
| `rtp_quiet` | pass | In the quiet regime: is the ring a bounded FIFO (`ImplementsFifo`), does the packetizer own the buffer it was given (`RequestedBufferIsSent`)? |
| `rtp_race` | pass | With every interleaving: a committed packet has a sender (`NoPacketWithoutSender`), and leaves the ring in the end, sent or dropped by a reset (`CommittedPacketLeaves`). |
| `tracker` | pass | Colours are conserved and distinct, native objects do not leak (`TrackerInv`, the inductive invariant of the proofs), strong tracks are kept. |
| `camera` | pass | No path drops an open camera (`ForgottenIsClosed`), `onPause` returns, an error ends the activity (`PauseReturns`). |
| `pipeline` | pass | One frame is tracked, detector and bitmap fit, a click whose choice is written in time is applied (`ClickIsApplied`), a claimed frame is finished and `onPause` returns. |
| `offload` | pass | The decision is the best, and on a tie between phone and server it is the server. `inv` inverts `interp` exactly below the value of the last point but one, and is monotone; there the bitrate chosen keeps to the battery's target. |
| `queue` | pass | Are elements conserved and in order (`ElementsConserved`, `FirstInFirstOut`) when batches are filled piecemeal, handed back on close or dropped on cancellation? Does each operation call back once, is no attempt that could go on left behind (`NoStrandedAttempt`), are capacity and minimum kept (`LimitsRespected`)? Do a cancellation and a closed queue come to an end, except in the deadlock of section 4? |
| `queue_up_to` | violation | `PriorityQueue` drops what it took for a `QueueDequeueUpTo` of a closed queue. |
| `executor` | pass | Are the counts by which things are deleted exact, and the window of iterations intact (`CountsExact`)? Is nothing deleted that is still referred to, does a node run once in an iteration? Does the step end, once, with the result of the program? |
| `step` | pass | Does OK mean that every executor did all its work, does an aborted call fail, does a successful step leave nothing behind, does a restarted worker start and serve nothing for a stale request? Does the local rendezvous implement `LocalRendezvous` (`LocalSpec`)? Do `Run`, `Close` and the executors end, except where a cancellation was lost? |
| `step_completes` | violation | If a partition fails while calls are being issued, `Run` need not end. |
| `bfc` | pass | Do chunks tile the regions, within the limit (`ChunksTileRegions`)? Have they one owner (`AllocationsExclusive`), are free ones coalesced and in the right bin (`FreeChunksIndexed`)? Is the best fit found? Does a retry give up only after its deadline and with nothing free that fits, and does every `AllocateRaw` return, unless `Extend` loops? |

### Bounds

* RTP: a ring of 2 slots instead of 300, two sender threads. Full, empty and
  wrapped rings occur, and so does an old sender beside a new one. Sequence
  numbers are taken modulo 3, more than the ring's size, or are dropped (modulo 1) where no property is about them. In `rtp_race`
  the packetizer stops asking for buffers while races have left more than `MaxPermits` permits;
  nothing else is held up, and since it may rest there, that run does not look for deadlock.
* Tracker: 3 colours instead of 6, 4 recognitions and 2 confidences: the palette runs
  out and a track has to give way.
* Camera: no bound; the model is finite.
* Pipeline: 3 sizes instead of 7 (so that "one click behind" differs from "one
  ahead"), frames modulo 2.
* Offload: 2 bitrates, 2 resolutions each way, a remote and 2 local models, utilities 1
  and 2: ties and every order of two candidates occur.
* Measured functions: 4 grid points, values up to 9, which gives pieces of every
  relative slope between 1 and 7. `MCOffload` varies the candidates with one table, and
  the table with one set of candidates.
* Queue: three operations of two steps in 8 workloads, capacity 2, minimum 1. Batches of 3 exceed
  the capacity; each workload pairs operations that interfere (two enqueuers and
  a batch, a close during a batch, a batch of nothing), in every order and with
  every cancellation.
* Executor: 9 graphs of up to 17 nodes: a loop with 1 and 2 parallel iterations, with failing kernels, a
  conditional around a loop (taken, and dead), a nested loop, a Merge with a control
  input that two values race for. No bound on threads. The longest loop has 4 iterations
  on a ring of 3 slots, so a slot is used again.
* Step: two workers, three units, two keys (within a worker and across), one fault in
  a behaviour: an op, a prepare, a fetch or a worker fails, or the session is closed. `MaxObjects` bounds the rendezvous created; it is not reached.
* Allocator: units of 256 bytes, 4 bins instead of 21. One thread with 3 allocations
  in 8 units, growing and as one region; two threads with 2; two threads with 22 units and 100 bytes, a limit
  that is no multiple of the unit, and a sub-allocator that may fail.

Runs of `camera`, `pipeline`, `offload`, `queue`, `executor`, `step` and `bfc` do not look for deadlock: a
fragment, an activity, a procedure, an operation and a step end, and a thread
need not ask for memory.

### Fairness

A thread that can run does run (weak fairness of each thread). In `RtpSocket` the
sender's loop always returns to `tryAcquire`, whose wait ends after four seconds, so a sender
goes on until it has ended; the packetizer goes on inside the socket unless it is blocked,
and nothing obliges it to ask for a buffer. In `CameraConnection` the service answers
an open request, which Android documents, and an activity that called `finish()`
is paused; nobody has to leave otherwise. In `InferencePipeline` the camera keeps
delivering frames while it is open (strong fairness of `FrameArrives`, since a
failed acquisition competes with it), and its thread ends after `quitSafely`,
which keeps further frames out.

In the runtime the threads of a pool run what is scheduled, and a call that has begun goes
on; nobody has to begin one. `QueueBase`: each thread under way (`Run`) and each
cancellation under way (`RunCancel`); no operation has to start, be cancelled or close the queue. `Executor`: some task moves;
a lost value never comes. `DistributedStep`: threads run, calls and
replies are delivered, timers fire; nothing has to fail and nobody has to call `Close`. `AllocatorRetry`: a thread inside a call goes on and
its deadline passes; no memory has to be returned.

## 4. What the checks found

Two disagreements have a run of their own:

* `queue_up_to`: `PriorityQueue::TryDequeueMany` with `allow_small_batch` does not
  lower `elements_requested` on a closed queue as the other queues do. It takes what is left,
  finds nothing more in the next round and answers OutOfRange; the elements are gone.
* `step_completes`: the first error cancels the `RunGraph` calls
  that have been issued. `CallOptions::StartCancel` does nothing for a call that
  is not open, and nobody cancels it later: it waits for values of the failed partition, `Run`
  waits for it, and `MarkRunCompletion` and `Close` wait for `Run`.

Others are in the models, but have no run. Those marked with a definition can be
reproduced by giving it to TLC as the only property of the run named.

* `StartCancel` runs a callback that flushes the queue. If the flush completes another operation of
  the same step, `DeregisterCallback` waits for `StartCancel` to end, which is waiting for the callback; two steps may wait for each other in
  the same way. `cancellation.h` asks that a callback call no method of its manager
  (`CallbackAvoidsItsManager`, run `queue`). `CancelEnds` and `ClosedQueueDrains` except this case.
* A cancelled `DequeueMany` keeps what it has taken so far. An open
  `PriorityQueue` waits for all elements of a batch at once, so a batch larger than the capacity
  makes no progress until the queue is closed.
* `Extend` lowers the size once more after the sub-allocator has succeeded with it, so what it
  counts is less than what it obtained; below ten units the size is not lowered at
  all, and the loop holds `lock_` for good while the sub-allocator fails (`looping`).
* Memory that is returned between a failed try and the wait does not wake the waiter; it
  tries again at its deadline only.
* An abort between `RegisterCall` and `Start`, or before `RegisterCall`, does not
  stop the call, despite the comment in `StartRTCall`; the call fails (`AbortedCallsFail`) but
  may wait as long as the other side does. A cancellation that reaches a
  server before its handler has set the callback is lost. `CleanupGraph` before `ExecuteAsync` leaves executors that
  no one cancels. These are the members of `lost` that `UnitsEnd` excepts.
* `ExecutorState::Process` does not reset `s` between nodes it runs inline: a
  dead node after a failed one counts as failed. The comment on the lowest bit of a Merge's
  count in `ActivateNodes` says the opposite of the code.
* With `tolerate_dup_recv`, which nothing sets, a second receiver before the send is given an empty value with status OK.
* `resetFifo` runs on the ending sender's thread without a lock. If the packetizer
  is inside the socket at that moment, its buffer is exchanged (`RequestedBufferIsSent`, run `rtp_race`),
  or it waits for ever on the semaphore that was replaced (`BlockedPacketizerIsServed`, run `rtp_race`).
* A button sets `changed` before it writes the choice. If the inference thread takes the flag in
  between, it loads the detector for the choice before, and the click shows with the next one only.
  `ClickIsApplied` begins when the choice is written and the flag still set; the detector is at most
  one click behind (`AtMostOneClickBehind`, proved).
* A stale `RunGraph` on a restarted worker can be cancelled before the look-up of its graph has failed:
  `AbortStep` then creates a rendezvous for the step, possibly after `CleanupGraph`, which stays in the table. It is aborted
  and empty; `StaleRequestsRefused` allows exactly this one.
* `commitBuffer()` without a length sends the buffer it says it puts back
  (`PutBackIsNotSent`, run `rtp_quiet`).
* `onOpened` releases the lock one statement too early: the app can exit with the
  camera open (`ClosedBeforeExit`, run `camera`).
* `inv` answers with the last grid point for budgets it does not fit in, which is
  why `BudgetRespected` stops at the last point but one.
* `onConfigured` tests the camera without the lock, and it may be closed before the preview starts; an
  exception from `manager.openCamera` keeps the lock for ever and `onPause` blocks;
  an exception during the conversion of a frame leaves `computing` set and stops
  recognition; the debug key during a reload of the detector dereferences null.

## 5. Proofs

The proofs hold for every value of the constants, under the named assumptions in
the modules that declare them.

* `RtpSocket_proofs`: `TypeCorrect`, `OneSender` and `EveryPacketHasASender` for every interleaving.
  The last needs that a packet is unsent only while a sender is alive or the packetizer is about to
  test for one (`SenderOrCommit`). `BuffersAreExclusive`, `PacketsAreWhole` and `RingIsAFifo`, the
  refinement of `PacketFifo`, for the quiet regime. None of the three is inductive: they need that the permits of both semaphores match the
  distance between the indices, that a reset under way is complete before the ring
  is used, and that every occupied slot holds a whole packet. `QuietInv` is that
  conjunction. For the refinement, one lemma for each kind of step: `AdvanceIn` puts a packet in,
  `Send` takes the oldest out, a sender that ends discards all, the others leave the queue as it is.
* `MultiBoxTracker_proofs`: colours, native objects and the action property on
  strong tracks, from the conjunction `TrackerInv`. It holds for any finite
  palette and any set of recognitions.
* `InferencePipeline_proofs`: `NoMutexNeeded`, `OneFrameTracked`,
  `DetectorFitsImage` and `AtMostOneClickBehind`. The strengthening says that a
  claimed frame is at exactly one place (being converted, queued, or being
  recognised), and which buffers hold it there.
* `CameraConnection_proofs`: `CloseWaitsForOpen` and `ForgottenIsClosed`. While an
  open request is pending the lock has no permit, the UI thread is before
  `closeCamera` and no callback is queued (`OpenInv`). So the answer is always
  queued before `quitSafely`; an open camera that the fragment does not know of has
  its callback in flight (`KnownOrAnswered`).
* `Offload_proofs`: `DecisionIsFeasible` and `DecisionIsBest` for every
  number of candidates and every utility. The invariant quantifies over the
  candidates the loops have passed.
* `LocalRendezvous_proofs`: `Meeting` (nobody waits who is not an item's waiter,
  nobody waits after an abort, a value received was sent under that key),
  `NoSecondCallback`, and `OneDelivery` without `tolerate_dup_recv`. They assume
  `ConstantsOK`, which `DistributedStep` assumes of its instance and TLC evaluates
  in `step`. The strengthening says what the table may hold (`TableInv`): nothing
  after an abort, a value only under the key it was sent under, a waiter only under
  the key it asked for; and for `OneDelivery` that the key of a receiver that has
  its value is marked as received. `LocalSpec` ties the theorems to the distributed
  step: every step there is a step of this specification, checked for the first
  rendezvous created.
* `QueueBase_proofs`: `CallsBackOnce`, `NoLostWakeUp`, `KeepsLimits`, `ConservesElements` and `KeepsOrder`, for any
  operations, steps, batch sizes, capacity and class of queue, under
  `QueueConstants`. These strengthenings carry them.
  At most one callback: an operation is at one place, once in the attempts of its
  kind or once in the clean-up of one flush (`PlacesInv`); a callback that `Cancel`
  or `CloseAndCancel` has taken belongs to a cancelled attempt, and one in a
  clean-up to an attempt that was not and no longer can be cancelled (`CallsInv`).
  No lost wake-up: a flush that comes to the dequeues with nothing changed has left
  the enqueues blocked, an attempt that made progress is still at the front
  (`WakeInv`), and a pending dequeue needs at least one element (`LeftInv`);
  without the last a closed queue could leave a dequeue waiting for nothing.
  Limits: an open queue is within its capacity (`RoomInv`); what a close hands back
  may exceed it, but then the queue is closed.
  Elements: each that entered is queued, delivered or in one attempt's batch (`ElementsInv`), and
  an attempt's batch and what it still asks for add up to its size at most (`WorkInv`); only the dequeue at
  the front holds a part of a batch (`LineInv`), so that delivered, held and queued elements are in
  the order of entry (`OrderInv`).

Only model-checked: all liveness properties (they need fairness, which the prover does not
handle) and the refinement of `LocalRendezvous`; `MeasureFxn`, whose claims are about rationals
computed by nested operators; the executor, whose model uses recursive operators; the distributed
step and the allocator.

## 6. Not modelled

In the app: drawing, text, logging, geometry of boxes, floating-point numerics, codec probing,
MP4 parsing and the OpenGL preview: they hold no protocol, or their subject is numerical.
Second lives of a fragment are not modelled since its activity finishes on pause. In
`MultiBoxTracker` the object tracker's singleton is created once; hash
collisions of identifiers and the timestamps of frames are left out. The decision loop, the
streaming session, RTSP, the H.264 packetizer and RTCP are sequential, or wait
for a module (section 7).

In the runtime: most of it (kernels, shape functions, gradients, graph rewriting,
XLA, platform layers, bindings, tools) computes a result from its inputs without a protocol between threads
or machines, and its correctness is numerical or structural; it is out of reach of
a small instance, and no part of it is modelled by what it promises only. Within the modelled parts: reference values, statistics, tracing and
which ready nodes run inline, and a graph without root nodes, which there is not since the source node is one (executor); tensor shapes and failing copies (queues);
feeds and the values fetched, partial runs, registration of graphs, the worker's own cancellation manager (nothing cancels it), and the free list of `RecvTensor` calls
(distributed step); visitors and logs (allocator).

## 7. Plan

1. `runMCDNN` and the decision loop, composed with `Offload`: what is launched when,
   and that a decision is acted on.
2. `Session` and the streams beneath it; `RtspClient` against a server that answers,
   fails or disappears; `RtspServer`'s worker threads.
3. `H264Packetizer` composed with `RtpSocket`; `SenderReport` with 32-bit counters.
4. `CameraConnection` composed with `InferencePipeline`, replacing the abstract
   camera thread.
5. The direct session with its caches, `Coordinator` and `QueueRunner` on top of
   `QueueBase`, `PartialRunMgr` with a step of several `Run` calls.
6. Proofs: the remaining invariants of `CameraConnection`, the invariants of the distributed step.
