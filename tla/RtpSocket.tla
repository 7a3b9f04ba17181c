----------------------------- MODULE RtpSocket -----------------------------
(***************************************************************************)
(* The packet FIFO of video/rtp/RtpSocket.java.                            *)
(*                                                                         *)
(* One packetizer thread (H264Packetizer, AACLATMPacketizer, ...) takes a  *)
(* buffer with requestBuffer(), fills it and gives it back with            *)
(* commitBuffer(length) or commitBuffer().  A sender thread, started by    *)
(* the first commit, transmits the buffers and ends when none was          *)
(* committed for four seconds, or when sending throws; on its way out it   *)
(* forgets itself (mThread = null) and rebuilds the FIFO (resetFifo).      *)
(*                                                                         *)
(* The two semaphores are fields that resetFifo replaces: a thread blocked *)
(* on the replaced object is not woken by a release on the new one.        *)
(* Timestamps and delays are left out, they only decide how long the       *)
(* sender sleeps.  Reads and writes of fields are sequentially consistent  *)
(* except the two unlocked increments, see ResetIn and ResetOut.           *)
(***************************************************************************)
EXTENDS Naturals

CONSTANTS
  BufferCount,   \* mBufferCount, 300 in the code
  SeqMod,        \* the RTP header holds the sequence number modulo 2^16
  Skip,          \* the first Skip + 1 packets are not transmitted, 30 in the code
  Senders,       \* the Thread objects a run may create
  NoThread       \* null

ASSUME BufferCountAssumption == BufferCount \in Nat \ {0}
ASSUME SeqModAssumption == SeqMod \in Nat \ {0}
ASSUME SkipAssumption == Skip \in Nat
ASSUME SendersAssumption == Senders # {} /\ NoThread \notin Senders

VARIABLES
  mBufferRequested,  \* permits of the current "free" semaphore
  mBufferCommitted,  \* permits of the current "to send" semaphore
  mBufferIn,         \* slot the packetizer fills next
  mBufferOut,        \* slot the sender transmits next
  mSeq,              \* last sequence number given out, modulo SeqMod
  mCount,            \* packets taken since the last reset, saturating at Skip + 1
  mThread,           \* the sender thread the socket knows of, or NoThread
  payload,           \* per slot: the data in its buffer, named by the sequence number due to it
  header,            \* per slot: the sequence number in its buffer's header
  blank,             \* per slot: last committed with commitBuffer(), which writes no header
  unsent,            \* slots committed and not yet transmitted or discarded
  held,              \* slot whose buffer the packetizer was given
  putBack,           \* the running commit is commitBuffer(), not commitBuffer(length)
  ppc,               \* where the packetizer thread is
  spc,               \* where each sender thread is
  wire               \* last packet put on the network, or NoPacket

sems == <<mBufferRequested, mBufferCommitted>>
slots == <<payload, header, blank>>
vars == <<mBufferRequested, mBufferCommitted, mBufferIn, mBufferOut, mSeq, mCount,
          mThread, payload, header, blank, unsent, held, putBack, ppc, spc, wire>>

Slots == 0 .. BufferCount - 1
SeqNums == 0 .. SeqMod - 1

\* What the network sees of a buffer.
Packets == [payload : SeqNums, seq : SeqNums, blank : BOOLEAN]
NoPacket == [payload |-> 0, seq |-> 0, blank |-> FALSE]
PacketIn(i) == [payload |-> payload[i], seq |-> header[i], blank |-> blank[i]]

PacketizerSteps == {"idle", "waiting", "stranded", "acquired", "filling",
                    "startFirst", "advance", "release", "start"}
LoopSteps == {"wait", "waitOld", "send", "advance", "release"}
ResetSteps == {"resetIn", "resetOut", "resetRequested", "resetCommitted"}
ExitSteps == {"exit"} \cup ResetSteps
SenderSteps == {"none"} \cup LoopSteps \cup ExitSteps

\* The slot after i: if (++i >= mBufferCount) i = 0.
NextSlot(i) == IF i + 1 >= BufferCount THEN 0 ELSE i + 1

\* The header's sequence number after s.
NextSeq(s) == IF s + 1 >= SeqMod THEN 0 ELSE s + 1

Init ==
  /\ mBufferRequested = BufferCount
  /\ mBufferCommitted = 0
  /\ mBufferIn = 0
  /\ mBufferOut = 0
  /\ mSeq = 0
  /\ mCount = 0
  /\ mThread = NoThread
  /\ payload = [i \in Slots |-> 0]
  /\ header = [i \in Slots |-> 0]
  /\ blank = [i \in Slots |-> FALSE]
  /\ unsent = {}
  /\ held = 0
  /\ putBack = FALSE
  /\ ppc = "idle"
  /\ spc = [t \in Senders |-> "none"]
  /\ wire = NoPacket

-----------------------------------------------------------------------------
(* The packetizer thread *)

PacketizerAt(from, to) == ppc = from /\ ppc' = to

\* requestBuffer: mBufferRequested.acquire(), with or without a free permit.
Request ==
  /\ \/ /\ mBufferRequested > 0
        /\ mBufferRequested' = mBufferRequested - 1
        /\ PacketizerAt("idle", "acquired")
     \/ /\ mBufferRequested = 0
        /\ PacketizerAt("idle", "waiting")
        /\ UNCHANGED mBufferRequested
  /\ UNCHANGED <<mBufferCommitted, mBufferIn, mBufferOut, mSeq, mCount, mThread, slots,
                 unsent, held, putBack, spc, wire>>

\* The blocked acquire() returns.
Woken ==
  /\ PacketizerAt("waiting", "acquired")
  /\ mBufferRequested > 0
  /\ mBufferRequested' = mBufferRequested - 1
  /\ UNCHANGED <<mBufferCommitted, mBufferIn, mBufferOut, mSeq, mCount, mThread, slots,
                 unsent, held, putBack, spc, wire>>

\* stop() interrupts a packetizer blocked in acquire(): InterruptedException ends run().
Interrupted ==
  /\ \/ PacketizerAt("waiting", "idle")
     \/ PacketizerAt("stranded", "idle")
  /\ UNCHANGED <<sems, mBufferIn, mBufferOut, mSeq, mCount, mThread, slots, unsent, held,
                 putBack, spc, wire>>

\* requestBuffer returns mBuffers[mBufferIn].
ReturnBuffer ==
  /\ PacketizerAt("acquired", "filling")
  /\ held' = mBufferIn
  /\ UNCHANGED <<sems, mBufferIn, mBufferOut, mSeq, mCount, mThread, slots, unsent,
                 putBack, spc, wire>>

\* fill() meets the end of the stream: the packetizer ends with the buffer neither
\* committed nor given back.
EndOfStream ==
  /\ PacketizerAt("filling", "idle")
  /\ UNCHANGED <<sems, mBufferIn, mBufferOut, mSeq, mCount, mThread, slots, unsent, held,
                 putBack, spc, wire>>

\* commitBuffer(length), first half: the payload is in the buffer that was handed out,
\* updateSequence and setLength address the slot mBufferIn names now.
Commit ==
  /\ PacketizerAt("filling", "advance")
  /\ mSeq' = NextSeq(mSeq)
  /\ payload' = [payload EXCEPT ![held] = mSeq']
  /\ header' = [header EXCEPT ![mBufferIn] = mSeq']
  /\ putBack' = FALSE
  /\ UNCHANGED <<sems, mBufferIn, mBufferOut, mCount, mThread, blank, unsent, held, spc,
                 wire>>

\* commitBuffer(): the data read so far is in the buffer, the header is the old one.
CommitWithoutLength ==
  /\ PacketizerAt("filling", "startFirst")
  /\ payload' = [payload EXCEPT ![held] = NextSeq(mSeq)]
  /\ putBack' = TRUE
  /\ UNCHANGED <<sems, mBufferIn, mBufferOut, mSeq, mCount, mThread, header, blank, unsent,
                 held, spc, wire>>

\* if (mThread == null) { mThread = new Thread(this); mThread.start(); }  One step: when the
\* test succeeds no sender is left that could write the field (OneSenderLoops).
StartSender ==
  /\ \/ PacketizerAt("startFirst", "advance")
     \/ PacketizerAt("start", "idle")
  /\ IF mThread = NoThread
       THEN \E t \in Senders :
              /\ spc[t] = "none"
              /\ spc' = [spc EXCEPT ![t] = "wait"]
              /\ mThread' = t
       ELSE UNCHANGED <<spc, mThread>>
  /\ UNCHANGED <<sems, mBufferIn, mBufferOut, mSeq, mCount, slots, unsent, held, putBack, wire>>

\* if (++mBufferIn >= mBufferCount) mBufferIn = 0; the slot is part of the FIFO from here.
AdvanceIn ==
  /\ PacketizerAt("advance", "release")
  /\ blank' = [blank EXCEPT ![mBufferIn] = putBack]
  /\ unsent' = unsent \cup {mBufferIn}
  /\ mBufferIn' = NextSlot(mBufferIn)
  /\ UNCHANGED <<sems, mBufferOut, mSeq, mCount, mThread, payload, header, held, putBack,
                 spc, wire>>

\* mBufferCommitted.release();
ReleaseCommitted ==
  /\ PacketizerAt("release", IF putBack THEN "idle" ELSE "start")
  /\ mBufferCommitted' = mBufferCommitted + 1
  /\ UNCHANGED <<mBufferRequested, mBufferIn, mBufferOut, mSeq, mCount, mThread, slots,
                 unsent, held, putBack, spc, wire>>

Packetizer ==
  \/ Request \/ Woken \/ Interrupted \/ ReturnBuffer \/ EndOfStream
  \/ Commit \/ CommitWithoutLength \/ StartSender \/ AdvanceIn \/ ReleaseCommitted

-----------------------------------------------------------------------------
(* A sender thread, run() *)

SenderAt(t, from, to) == spc[t] = from /\ spc' = [spc EXCEPT ![t] = to]

\* mBufferCommitted.tryAcquire(4, SECONDS) succeeds.
TakeCommitted(t) ==
  /\ SenderAt(t, "wait", "send")
  /\ mBufferCommitted > 0
  /\ mBufferCommitted' = mBufferCommitted - 1
  /\ UNCHANGED <<mBufferRequested, mBufferIn, mBufferOut, mSeq, mCount, mThread, slots,
                 unsent, held, putBack, ppc, wire>>

\* ... or times out: on the current semaphore when it has no permit, on a replaced one
\* always.
TimeOut(t) ==
  /\ \/ SenderAt(t, "wait", "exit") /\ mBufferCommitted = 0
     \/ SenderAt(t, "waitOld", "exit")
  /\ UNCHANGED <<sems, mBufferIn, mBufferOut, mSeq, mCount, mThread, slots, unsent, held,
                 putBack, ppc, wire>>

\* Mutant of Send: the packet transmitted is the one after mBufferOut.
SendWrongSlot(t) ==
  /\ SenderAt(t, "send", "advance")
  /\ wire' = IF mCount > Skip THEN PacketIn(NextSlot(mBufferOut)) ELSE wire
  /\ mCount' = IF mCount > Skip THEN mCount ELSE mCount + 1
  /\ UNCHANGED <<sems, mBufferIn, mBufferOut, mSeq, mThread, slots, unsent, held, putBack,
                 ppc>>

\* The body of the loop up to the transmission, if (mCount++ > 30) mSocket.send(...).
Send(t) ==
  /\ SenderAt(t, "send", "advance")
  /\ wire' = IF mCount > Skip THEN PacketIn(mBufferOut) ELSE wire
  /\ mCount' = IF mCount > Skip THEN mCount ELSE mCount + 1
  /\ UNCHANGED <<sems, mBufferIn, mBufferOut, mSeq, mThread, slots, unsent, held, putBack,
                 ppc>>

\* mReport.update or mSocket.send throws an IOException.
SendFails(t) ==
  /\ SenderAt(t, "send", "exit")
  /\ UNCHANGED <<sems, mBufferIn, mBufferOut, mSeq, mCount, mThread, slots, unsent, held,
                 putBack, ppc, wire>>

\* Mutant of AdvanceOut: the wrap-around is missed, the last slot is sent again and again.
AdvanceOutWithoutWrap(t) ==
  /\ SenderAt(t, "advance", "release")
  /\ unsent' = unsent \ {mBufferOut}
  /\ mBufferOut' = IF mBufferOut + 1 >= BufferCount THEN mBufferOut ELSE mBufferOut + 1
  /\ UNCHANGED <<sems, mBufferIn, mSeq, mCount, mThread, slots, held, putBack, ppc, wire>>

\* if (++mBufferOut >= mBufferCount) mBufferOut = 0;
AdvanceOut(t) ==
  /\ SenderAt(t, "advance", "release")
  /\ unsent' = unsent \ {mBufferOut}
  /\ mBufferOut' = NextSlot(mBufferOut)
  /\ UNCHANGED <<sems, mBufferIn, mSeq, mCount, mThread, slots, held, putBack, ppc, wire>>

\* mBufferRequested.release();
ReleaseRequested(t) ==
  /\ SenderAt(t, "release", "wait")
  /\ mBufferRequested' = mBufferRequested + 1
  /\ UNCHANGED <<mBufferCommitted, mBufferIn, mBufferOut, mSeq, mCount, mThread, slots,
                 unsent, held, putBack, ppc, wire>>

\* Mutant of ForgetThread: mThread keeps naming the thread that ended.
RememberThread(t) ==
  /\ SenderAt(t, "exit", "resetIn")
  /\ UNCHANGED <<sems, mBufferIn, mBufferOut, mSeq, mCount, mThread, slots, unsent, held,
                 putBack, ppc, wire>>

\* mThread = null; after the loop.
ForgetThread(t) ==
  /\ SenderAt(t, "exit", "resetIn")
  /\ mThread' = NoThread
  /\ UNCHANGED <<sems, mBufferIn, mBufferOut, mSeq, mCount, slots, unsent, held, putBack,
                 ppc, wire>>

\* resetFifo: mCount = 0; mBufferIn = 0.  The packetizer's ++mBufferIn is not atomic: when
\* it read the field before this write and stores after it, the write is lost.
ResetIn(t) ==
  /\ SenderAt(t, "resetIn", "resetOut")
  /\ mCount' = 0
  /\ \/ mBufferIn' = 0
     \/ ppc = "advance" /\ UNCHANGED mBufferIn
  /\ UNCHANGED <<sems, mBufferOut, mSeq, mThread, slots, unsent, held, putBack, ppc, wire>>

\* resetFifo: mBufferOut = 0, racing with another sender's ++mBufferOut in the same way.
ResetOut(t) ==
  /\ SenderAt(t, "resetOut", "resetRequested")
  /\ \/ mBufferOut' = 0
     \/ (\E u \in Senders : spc[u] = "advance") /\ UNCHANGED mBufferOut
  /\ UNCHANGED <<sems, mBufferIn, mSeq, mCount, mThread, slots, unsent, held, putBack, ppc,
                 wire>>

\* Mutant of ResetRequested: one permit more than there are buffers.
ResetRequestedOneMore(t) ==
  /\ SenderAt(t, "resetRequested", "resetCommitted")
  /\ mBufferRequested' = BufferCount + 1
  /\ ppc' = CASE ppc = "waiting" /\ mBufferRequested > 0 -> "acquired"
              [] ppc = "waiting" /\ mBufferRequested = 0 -> "stranded"
              [] OTHER -> ppc
  /\ UNCHANGED <<mBufferCommitted, mBufferIn, mBufferOut, mSeq, mCount, mThread, slots,
                 unsent, held, putBack, wire>>

\* resetFifo: mBufferRequested = new Semaphore(mBufferCount).  A packetizer blocked on the
\* old object proceeds only with a permit that object still has.
ResetRequested(t) ==
  /\ SenderAt(t, "resetRequested", "resetCommitted")
  /\ mBufferRequested' = BufferCount
  /\ ppc' = CASE ppc = "waiting" /\ mBufferRequested > 0 -> "acquired"
              [] ppc = "waiting" /\ mBufferRequested = 0 -> "stranded"
              [] OTHER -> ppc
  /\ UNCHANGED <<mBufferCommitted, mBufferIn, mBufferOut, mSeq, mCount, mThread, slots,
                 unsent, held, putBack, wire>>

\* resetFifo: mBufferCommitted = new Semaphore(0); what was committed is forgotten.  Another
\* sender about to read the field waits on the new object; one that has read it proceeds
\* only with a permit the old object still has.
ResetCommitted(t) ==
  /\ spc[t] = "resetCommitted"
  /\ \E hasRead \in BOOLEAN :
       spc' = [u \in Senders |->
                 CASE u = t -> "none"
                   [] u # t /\ spc[u] = "wait" /\ hasRead ->
                        (IF mBufferCommitted > 0 THEN "send" ELSE "waitOld")
                   [] OTHER -> spc[u]]
  /\ mBufferCommitted' = 0
  /\ unsent' = {}
  /\ UNCHANGED <<mBufferRequested, mBufferIn, mBufferOut, mSeq, mCount, mThread, slots,
                 held, putBack, ppc, wire>>

Sender(t) ==
  \/ TakeCommitted(t) \/ TimeOut(t) \/ Send(t) \/ SendFails(t) \/ AdvanceOut(t)
  \/ ReleaseRequested(t) \/ ForgetThread(t) \/ ResetIn(t) \/ ResetOut(t)
  \/ ResetRequested(t) \/ ResetCommitted(t)

Next == Packetizer \/ \E t \in Senders : Sender(t)

Spec == Init /\ [][Next]_vars

\* The regime the code is written for: from the moment a sender leaves its loop until its
\* resetFifo is complete, the packetizer is outside requestBuffer ... commitBuffer.
Quiet == (\E t \in Senders : spc[t] \in ExitSteps) => ppc = "idle"

QuietSpec == Init /\ [][Next /\ Quiet']_vars

-----------------------------------------------------------------------------
(* Properties *)

\* Every variable has its type.
TypeOK ==
  /\ mBufferRequested \in Nat /\ mBufferCommitted \in Nat
  /\ mBufferIn \in Slots /\ mBufferOut \in Slots /\ held \in Slots
  /\ mSeq \in SeqNums /\ mCount \in 0 .. Skip + 1
  /\ mThread \in Senders \cup {NoThread}
  /\ payload \in [Slots -> SeqNums] /\ header \in [Slots -> SeqNums]
  /\ blank \in [Slots -> BOOLEAN]
  /\ unsent \in SUBSET Slots
  /\ putBack \in BOOLEAN
  /\ ppc \in PacketizerSteps /\ spc \in [Senders -> SenderSteps]
  /\ wire \in Packets

\* The unlocked "if (mThread == null) start" of the two commitBuffer methods, against the
\* sender's "mThread = null; resetFifo()", never lets two threads run the sending loop:
\* mThread names exactly the thread that is in it.
OneSenderLoops ==
  \A t \in Senders : spc[t] \in LoopSteps \cup {"exit"} <=> mThread = t

\* commitBuffer(length) releases the semaphore before it looks at mThread, so however a
\* sender's end interleaves with it, no packet stays in the FIFO without a thread to send
\* or to discard it.
NoPacketWithoutSender ==
  ppc = "idle" /\ (\A t \in Senders : spc[t] = "none")
    => \A i \in unsent : blank[i]

\* A packet does not stay in the FIFO: it is transmitted, or discarded by a reset, even when
\* resets race with the packetizer and leave indices and permits in disagreement.  The
\* sender that commitBuffer found or started goes round the ring as long as permits come,
\* and resets the FIFO when they do not.
CommittedPacketLeaves ==
  \A i \in Slots : []<>(i \notin unsent \/ blank[i])

\* requestBuffer hands out an available buffer: no packet waiting to be sent is in it, and
\* the buffer that commitBuffer sends is the one that was handed out.
RequestedBufferIsSent ==
  ppc \in {"filling", "startFirst", "advance"}
    => held \notin unsent /\ held = mBufferIn

\* What goes over the network is one packet: header and payload were written for the same
\* buffer between the same request and commit, whatever the wrap-around and the resets did.
WireIntact == wire.blank \/ wire.payload = wire.seq

\* commitBuffer() "puts the buffer back into the FIFO without sending the packet".
\* It does not hold: see section 4 of the README.
PutBackIsNotSent == ~wire.blank

-----------------------------------------------------------------------------
(* Why the two semaphores keep the two threads apart, in the quiet regime *)

One(b) == IF b THEN 1 ELSE 0
LoopIn(S) == mThread \in Senders /\ spc[mThread] \in S
Resetting == \E t \in Senders : spc[t] \in ExitSteps

\* Packets between ++mBufferIn and ++mBufferOut: every one is a permit of mBufferCommitted
\* or the packet a thread is about to release or is transmitting.
Occupied == mBufferCommitted + One(ppc = "release") + One(LoopIn({"send", "advance"}))

\* Buffers the packetizer holds a permit for.
Lent == One(ppc \in {"acquired", "filling", "startFirst", "advance"})

\* The permits of the two semaphores, and the buffers the two threads have in hand, never
\* stand for more than mBufferCount buffers; the indices are that many slots apart, and the
\* slots between them are those waiting to be sent.
PermitsMatchIndices ==
  ~Resetting =>
    /\ mBufferRequested + Occupied + Lent + One(LoopIn({"release"})) <= BufferCount
    /\ mBufferIn = IF mBufferOut + Occupied >= BufferCount
                     THEN mBufferOut + Occupied - BufferCount
                     ELSE mBufferOut + Occupied
    /\ unsent = {i \in Slots : \/ mBufferOut <= i /\ i < mBufferOut + Occupied
                              \/ i < mBufferOut + Occupied - BufferCount}

\* resetFifo, once complete, has put all of the above back to its initial value.
ResetIsComplete ==
  \A t \in Senders :
    /\ spc[t] \in {"resetOut", "resetRequested", "resetCommitted"} => mBufferIn = 0
    /\ spc[t] \in {"resetRequested", "resetCommitted"} => mBufferOut = 0
    /\ spc[t] = "resetCommitted" => mBufferRequested = BufferCount

OneSenderAlive ==
  \A t, u \in Senders : spc[t] # "none" /\ spc[u] # "none" => t = u

BuffersWhole ==
  /\ \A i \in unsent : blank[i] \/ payload[i] = header[i]
  /\ ppc = "advance" => putBack \/ payload[held] = header[held]
  /\ ppc = "startFirst" => putBack

\* The inductive invariant of the quiet regime.
QuietInv ==
  /\ OneSenderLoops /\ OneSenderAlive /\ Quiet
  /\ PermitsMatchIndices /\ ResetIsComplete
  /\ ppc \in {"filling", "startFirst", "advance"} => held = mBufferIn
  /\ BuffersWhole /\ WireIntact

-----------------------------------------------------------------------------
(* Why a committed packet always has a sender, in every interleaving *)

\* A packet in the FIFO has a thread that will send or discard it, or the packetizer is on
\* its way from the release of the semaphore to the test of mThread.
SenderOrCommit ==
  (\E i \in unsent : ~blank[i])
    => \/ \E t \in Senders : spc[t] # "none"
       \/ ppc \in {"release", "start"} /\ ~putBack

-----------------------------------------------------------------------------
(* The FIFO that the packetizer and the network see *)

\* The slot k places after mBufferOut.
SlotAt(k) ==
  IF mBufferOut + k >= BufferCount THEN mBufferOut + k - BufferCount ELSE mBufferOut + k

\* The packets a sender has yet to transmit, oldest first: the committed slots from
\* mBufferOut on, without the one being transmitted; none once the sender gave up.
Taken == One(LoopIn({"advance"}))
Pending ==
  IF Resetting THEN <<>>
  ELSE [k \in 1 .. Occupied - Taken |-> PacketIn(SlotAt(k - 1 + Taken))]

Fifo == INSTANCE PacketFifo
          WITH Capacity <- BufferCount, Packet <- Packets, queue <- Pending

\* Circular buffer, two indices, two semaphores and the reset together implement a bounded
\* queue: nothing is lost, repeated or reordered between commitBuffer and the socket.
ImplementsFifo == Fifo!FifoSpec

\* "If a packetizer tries to send many packets too quickly, the FIFO will grow and packets
\* will be sent one by one smoothly" (class comment): a packetizer that has to wait because
\* the FIFO holds packets gets a buffer, or is stopped.  It does not hold, because resetFifo
\* replaces the semaphore it waits on: see section 4 of the README.
BlockedPacketizerIsServed ==
  ppc = "waiting" /\ unsent # {} ~> ppc \in {"acquired", "idle"}

=============================================================================
