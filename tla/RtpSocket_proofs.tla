-------------------------- MODULE RtpSocket_proofs --------------------------
(* Proofs about RtpSocket, for every number of buffers, every size of the  *)
(* sequence number and every set of sender threads.                        *)
EXTENDS RtpSocket, Sequences, TLAPS

USE BufferCountAssumption, SeqModAssumption, SkipAssumption, SendersAssumption

\* NextSlot wraps around inside the array of buffers.
LEMMA NextSlotType == \A i \in Slots : NextSlot(i) \in Slots
  BY DEF NextSlot, Slots

\* NextSeq stays in the range of the header field.
LEMMA NextSeqType == \A s \in SeqNums : NextSeq(s) \in SeqNums
  BY DEF NextSeq, SeqNums

\* A buffer of the array is a packet.
LEMMA PacketInType == TypeOK => \A i \in Slots : PacketIn(i) \in Packets
  BY DEF TypeOK, PacketIn, Packets

\* Every step of the packetizer preserves the types.
LEMMA PacketizerTypeOK == TypeOK /\ Packetizer => TypeOK'
  <1> SUFFICES ASSUME TypeOK, Packetizer PROVE TypeOK'
    OBVIOUS
  <1> USE DEF TypeOK, PacketizerAt, PacketizerSteps, sems, slots
  <1>1. CASE Request
    BY <1>1 DEF Request
  <1>2. CASE Woken
    BY <1>2 DEF Woken
  <1>3. CASE Interrupted
    BY <1>3 DEF Interrupted
  <1>4. CASE ReturnBuffer
    BY <1>4 DEF ReturnBuffer
  <1>5. CASE EndOfStream
    BY <1>5 DEF EndOfStream
  <1>6. CASE Commit
    BY <1>6, NextSeqType, Zenon DEF Commit
  <1>7. CASE CommitWithoutLength
    BY <1>7, NextSeqType DEF CommitWithoutLength
  <1>8. CASE StartSender
    BY <1>8 DEF StartSender, SenderSteps, LoopSteps
  <1>9. CASE AdvanceIn
    BY <1>9, NextSlotType DEF AdvanceIn
  <1>10. CASE ReleaseCommitted
    BY <1>10 DEF ReleaseCommitted
  <1> QED
    BY <1>1, <1>2, <1>3, <1>4, <1>5, <1>6, <1>7, <1>8, <1>9, <1>10 DEF Packetizer

\* Every step of a sender preserves the types.
LEMMA SenderTypeOK == \A t \in Senders : TypeOK /\ Sender(t) => TypeOK'
  <1> SUFFICES ASSUME NEW t \in Senders, TypeOK, Sender(t) PROVE TypeOK'
    OBVIOUS
  <1> USE DEF TypeOK, SenderAt, SenderSteps, LoopSteps, ExitSteps, ResetSteps, sems, slots
  <1>1. CASE TakeCommitted(t)
    BY <1>1 DEF TakeCommitted
  <1>2. CASE TimeOut(t)
    BY <1>2 DEF TimeOut
  <1>3. CASE Send(t)
    <2>1. wire' \in Packets
      BY <1>3, PacketInType DEF Send
    <2> QED BY <1>3, <2>1 DEF Send
  <1>4. CASE SendFails(t)
    BY <1>4 DEF SendFails
  <1>5. CASE AdvanceOut(t)
    BY <1>5, NextSlotType DEF AdvanceOut
  <1>6. CASE ReleaseRequested(t)
    BY <1>6 DEF ReleaseRequested
  <1>7. CASE ForgetThread(t)
    BY <1>7 DEF ForgetThread
  <1>8. CASE ResetIn(t)
    BY <1>8 DEF ResetIn, Slots
  <1>9. CASE ResetOut(t)
    BY <1>9 DEF ResetOut, Slots
  <1>10. CASE ResetRequested(t)
    BY <1>10 DEF ResetRequested, PacketizerSteps
  <1>11. CASE ResetCommitted(t)
    BY <1>11 DEF ResetCommitted
  <1> QED
    BY <1>1, <1>2, <1>3, <1>4, <1>5, <1>6, <1>7, <1>8, <1>9, <1>10, <1>11 DEF Sender

\* Constructor and resetFifo give every field a value of its type.
LEMMA InitTypeOK == Init => TypeOK
  <1> SUFFICES ASSUME Init PROVE TypeOK
    OBVIOUS
  <1>1. 0 \in Slots /\ 0 \in SeqNums /\ 0 \in 0 .. Skip + 1
    BY DEF Slots, SeqNums
  <1>2. NoPacket \in Packets
    BY <1>1 DEF NoPacket, Packets
  <1>3. "idle" \in PacketizerSteps /\ "none" \in SenderSteps
    BY DEF PacketizerSteps, SenderSteps
  <1> QED BY <1>1, <1>2, <1>3, Zenon DEF Init, TypeOK

\* Every step, of whichever thread, preserves the types.
LEMMA NextTypeOK == TypeOK /\ [Next]_vars => TypeOK'
  <1>1. TypeOK /\ UNCHANGED vars => TypeOK'
    BY DEF TypeOK, vars
  <1> QED BY <1>1, PacketizerTypeOK, SenderTypeOK DEF Next

\* Every field keeps its type, whatever the two threads do to the FIFO: no index ever
\* leaves the arrays, not even when resetFifo races with an increment.
THEOREM TypeCorrect == Spec => []TypeOK
  BY InitTypeOK, NextTypeOK, PTL DEF Spec

-----------------------------------------------------------------------------
(* One sender thread                                                       *)

\* A sender enters the loop when mThread is null and is named by it until it leaves.
LEMMA NextOneSenderLoops ==
  TypeOK /\ OneSenderLoops /\ [Next]_vars => OneSenderLoops'
  <1> SUFFICES ASSUME TypeOK, OneSenderLoops, [Next]_vars PROVE OneSenderLoops'
    OBVIOUS
  <1> USE DEF TypeOK, OneSenderLoops, LoopSteps
  <1>1. CASE UNCHANGED <<spc, mThread>>
    BY <1>1
  <1>2. CASE StartSender
    BY <1>2 DEF StartSender
  <1>3. ASSUME NEW t \in Senders, Sender(t) PROVE OneSenderLoops'
    <2> USE DEF SenderAt
    <2>1. CASE TakeCommitted(t) \/ TimeOut(t) \/ Send(t) \/ SendFails(t)
      BY <2>1 DEF TakeCommitted, TimeOut, Send, SendFails
    <2>2. CASE AdvanceOut(t) \/ ReleaseRequested(t)
      BY <2>2 DEF AdvanceOut, ReleaseRequested
    <2>3. CASE ForgetThread(t)
      BY <2>3 DEF ForgetThread
    <2>4. CASE ResetIn(t) \/ ResetOut(t) \/ ResetRequested(t)
      BY <2>4 DEF ResetIn, ResetOut, ResetRequested
    <2>5. CASE ResetCommitted(t)
      BY <2>5 DEF ResetCommitted
    <2> QED BY <1>3, <2>1, <2>2, <2>3, <2>4, <2>5 DEF Sender
  <1>4. Packetizer => StartSender \/ UNCHANGED <<spc, mThread>>
    BY DEF Packetizer, Request, Woken, Interrupted, ReturnBuffer, EndOfStream, Commit,
           CommitWithoutLength, AdvanceIn, ReleaseCommitted
  <1> QED BY <1>1, <1>2, <1>3, <1>4 DEF Next, vars

\* The unsynchronised start of the sender in commitBuffer and its unsynchronised end in
\* run() never put two threads into the sending loop: mThread names the one that is in it.
THEOREM OneSender == Spec => []OneSenderLoops
  <1>1. Init => OneSenderLoops
    BY DEF Init, OneSenderLoops, LoopSteps
  <1> QED BY <1>1, InitTypeOK, NextTypeOK, NextOneSenderLoops, PTL DEF Spec

-----------------------------------------------------------------------------
(* No packet without a sender                                              *)

\* The packetizer leaves commitBuffer(length) only when it has seen or started a sender.
LEMMA PacketizerSenderOrCommit ==
  TypeOK /\ OneSenderLoops /\ SenderOrCommit /\ Packetizer => SenderOrCommit'
  <1> SUFFICES ASSUME TypeOK, OneSenderLoops, SenderOrCommit, Packetizer PROVE SenderOrCommit'
    OBVIOUS
  <1> USE DEF TypeOK, SenderOrCommit, PacketizerAt, sems, slots
  <1>1. CASE StartSender
    <2>1. \E t \in Senders : spc'[t] # "none"
      BY <1>1 DEF StartSender, OneSenderLoops, LoopSteps
    <2> QED BY <2>1
  <1>2. CASE AdvanceIn
    BY <1>2 DEF AdvanceIn
  <1>3. CASE ReleaseCommitted
    BY <1>3 DEF ReleaseCommitted
  <1>4. CASE Commit \/ CommitWithoutLength
    BY <1>4 DEF Commit, CommitWithoutLength
  <1>5. CASE Request \/ Woken \/ Interrupted \/ ReturnBuffer \/ EndOfStream
    BY <1>5 DEF Request, Woken, Interrupted, ReturnBuffer, EndOfStream
  <1> QED BY <1>1, <1>2, <1>3, <1>4, <1>5 DEF Packetizer

\* A sender goes away only with the reset that discards what was committed.
LEMMA SenderSenderOrCommit ==
  \A t \in Senders : TypeOK /\ SenderOrCommit /\ Sender(t) => SenderOrCommit'
  <1> SUFFICES ASSUME NEW t \in Senders, TypeOK, SenderOrCommit, Sender(t)
               PROVE  SenderOrCommit'
    OBVIOUS
  <1>1. CASE ResetCommitted(t)
    BY <1>1 DEF ResetCommitted, SenderOrCommit
  <1>2. CASE ~ResetCommitted(t)
    <2>1. spc'[t] # "none"
      BY <1>2 DEF TypeOK, Sender, SenderAt, TakeCommitted, TimeOut, Send, SendFails,
                  AdvanceOut, ReleaseRequested, ForgetThread, ResetIn, ResetOut, ResetRequested
    <2> QED BY <2>1 DEF SenderOrCommit
  <1> QED BY <1>1, <1>2

\* However the end of a sender interleaves with a commit, no packet stays in the FIFO
\* without a thread to send or to discard it.
THEOREM EveryPacketHasASender == Spec => []NoPacketWithoutSender
  <1> DEFINE Inv == TypeOK /\ OneSenderLoops /\ SenderOrCommit
  <1>1. Init => Inv
    BY InitTypeOK DEF Init, OneSenderLoops, LoopSteps, SenderOrCommit
  <1>2. Inv /\ [Next]_vars => Inv'
    <2> SUFFICES ASSUME Inv, [Next]_vars PROVE SenderOrCommit'
      BY NextTypeOK, NextOneSenderLoops
    <2>1. CASE UNCHANGED vars
      BY <2>1 DEF vars, SenderOrCommit
    <2> QED BY <2>1, PacketizerSenderOrCommit, SenderSenderOrCommit DEF Next
  <1>3. Inv => NoPacketWithoutSender
    BY DEF SenderOrCommit, NoPacketWithoutSender
  <1> QED BY <1>1, <1>2, <1>3, PTL DEF Spec

-----------------------------------------------------------------------------
(* The quiet regime                                                        *)

\* A sender is started only when none is alive: not one in the loop, for mThread is null,
\* and not one in resetFifo, for the packetizer is inside commitBuffer.
LEMMA NextOneSenderAlive ==
  TypeOK /\ QuietInv /\ Next => OneSenderAlive'
  <1> SUFFICES ASSUME TypeOK, QuietInv, Next PROVE OneSenderAlive'
    OBVIOUS
  <1> USE DEF QuietInv, OneSenderAlive
  <1>1. CASE StartSender
    <2>1. CASE mThread = NoThread
      <3>1. \A u \in Senders : spc[u] = "none"
        BY <1>1, <2>1 DEF TypeOK, StartSender, PacketizerAt, OneSenderLoops, Quiet, SenderSteps
      <3> QED BY <1>1, <2>1, <3>1 DEF StartSender, TypeOK
    <2> QED BY <1>1, <2>1 DEF StartSender
  <1>2. ASSUME NEW t \in Senders, Sender(t) PROVE OneSenderAlive'
    <2>1. spc[t] # "none"
      BY <1>2 DEF Sender, SenderAt, TakeCommitted, TimeOut, Send, SendFails, AdvanceOut,
                  ReleaseRequested, ForgetThread, ResetIn, ResetOut, ResetRequested,
                  ResetCommitted
    <2>2. \A u \in Senders : u # t => spc'[u] = "none"
      BY <1>2, <2>1 DEF TypeOK, Sender, SenderAt, TakeCommitted, TimeOut, Send, SendFails,
                  AdvanceOut, ReleaseRequested, ForgetThread, ResetIn, ResetOut,
                  ResetRequested, ResetCommitted
    <2> QED BY <2>2
  <1>3. Packetizer => StartSender \/ UNCHANGED spc
    BY DEF Packetizer, Request, Woken, Interrupted, ReturnBuffer, EndOfStream, Commit,
           CommitWithoutLength, AdvanceIn, ReleaseCommitted
  <1>4. CASE UNCHANGED spc
    BY <1>4
  <1> QED BY <1>1, <1>2, <1>3, <1>4 DEF Next

\* The packetizer moves permits and indices together.
LEMMA PacketizerPermits ==
  TypeOK /\ QuietInv /\ Packetizer /\ Quiet' => PermitsMatchIndices'
  <1> SUFFICES ASSUME TypeOK, QuietInv, Packetizer, Quiet', ~Resetting' PROVE PermitsMatchIndices'
    BY DEF PermitsMatchIndices
  <1> USE DEF QuietInv, TypeOK, PermitsMatchIndices, PacketizerAt, Occupied, Lent, One, Slots,
              sems, slots
  <1>a. CASE UNCHANGED <<spc, mThread>>
    <2>1. ~Resetting /\ \A S : LoopIn(S)' = LoopIn(S)
      BY <1>a DEF Resetting, LoopIn
    <2>2. CASE Request
      BY <2>1, <2>2 DEF Request
    <2>3. CASE Woken
      BY <2>1, <2>3 DEF Woken
    <2>4. CASE Interrupted
      BY <2>1, <2>4 DEF Interrupted
    <2>5. CASE ReturnBuffer
      BY <2>1, <2>5 DEF ReturnBuffer
    <2>6. CASE EndOfStream
      BY <2>1, <2>6 DEF EndOfStream
    <2>7. CASE Commit
      BY <2>1, <2>7 DEF Commit
    <2>8. CASE CommitWithoutLength
      BY <2>1, <2>8 DEF CommitWithoutLength
    <2>9. CASE StartSender
      BY <2>1, <2>9, <1>a DEF StartSender
    <2>10. CASE AdvanceIn
      BY <2>1, <2>10 DEF AdvanceIn, NextSlot
    <2>11. CASE ReleaseCommitted
      BY <2>1, <2>11 DEF ReleaseCommitted
    <2> QED
      BY <2>2, <2>3, <2>4, <2>5, <2>6, <2>7, <2>8, <2>9, <2>10, <2>11, Zenon DEF Packetizer
  <1>b. CASE StartSender /\ mThread = NoThread
    <2>1. ~Resetting
      BY <1>b DEF StartSender, Quiet, Resetting
    <2>2. ~LoopIn({"send", "advance"}) /\ ~LoopIn({"release"})
      BY <1>b DEF LoopIn
    <2>3. ~LoopIn({"send", "advance"})' /\ ~LoopIn({"release"})'
      BY <1>b DEF LoopIn, StartSender
    <2> QED BY <1>b, <2>1, <2>2, <2>3 DEF StartSender
  <1> QED
    BY <1>a, <1>b DEF Packetizer, Request, Woken, Interrupted, ReturnBuffer, EndOfStream,
           Commit, CommitWithoutLength, AdvanceIn, ReleaseCommitted, StartSender

\* The sender moves permits and indices together, and leaves a fresh FIFO behind.
LEMMA SenderPermits ==
  TypeOK /\ QuietInv /\ (\E t \in Senders : Sender(t)) => PermitsMatchIndices'
  <1> SUFFICES ASSUME TypeOK, QuietInv, NEW t \in Senders, Sender(t), ~Resetting'
               PROVE  PermitsMatchIndices'
    BY DEF PermitsMatchIndices
  <1> USE DEF QuietInv, TypeOK, PermitsMatchIndices, SenderAt, Occupied, Lent, One, Slots,
              sems, slots
  <1>1. CASE TakeCommitted(t) \/ Send(t) \/ AdvanceOut(t) \/ ReleaseRequested(t)
    <2>1. mThread = t /\ mThread' = t
      BY <1>1 DEF TakeCommitted, Send, AdvanceOut, ReleaseRequested, OneSenderLoops, LoopSteps
    <2>2. \A S : LoopIn(S) <=> spc[t] \in S
      BY <2>1 DEF LoopIn
    <2>3. \A S : LoopIn(S)' <=> spc'[t] \in S
      BY <2>1 DEF LoopIn
    <2>4. ~Resetting
      BY <1>1 DEF TakeCommitted, Send, AdvanceOut, ReleaseRequested, Resetting, ExitSteps,
                  ResetSteps, OneSenderAlive
    <2>5. CASE TakeCommitted(t)
      BY <2>2, <2>3, <2>4, <2>5 DEF TakeCommitted
    <2>6. CASE Send(t)
      BY <2>2, <2>3, <2>4, <2>6 DEF Send
    <2>7. CASE AdvanceOut(t)
      BY <2>2, <2>3, <2>4, <2>7 DEF AdvanceOut, NextSlot
    <2>8. CASE ReleaseRequested(t)
      BY <2>2, <2>3, <2>4, <2>8 DEF ReleaseRequested
    <2> QED BY <1>1, <2>5, <2>6, <2>7, <2>8
  <1>2. CASE TimeOut(t) \/ SendFails(t) \/ ForgetThread(t) \/ ResetIn(t) \/ ResetOut(t)
             \/ ResetRequested(t)
    BY <1>2 DEF TimeOut, SendFails, ForgetThread, ResetIn, ResetOut, ResetRequested,
                Resetting, ExitSteps, ResetSteps
  <1>3. CASE ResetCommitted(t)
    <2>1. ppc = "idle" /\ ppc' = "idle"
      BY <1>3 DEF ResetCommitted, Quiet, ExitSteps, ResetSteps
    <2>2. mBufferIn' = 0 /\ mBufferOut' = 0 /\ mBufferRequested' = BufferCount
      BY <1>3 DEF ResetCommitted, ResetIsComplete
    <2>3. \A S : LoopIn(S)' => "none" \in S
      BY <1>3 DEF ResetCommitted, OneSenderAlive, LoopIn
    <2>4. Occupied' = 0 /\ Lent' = 0 /\ One(LoopIn({"release"}))' = 0
      BY <1>3, <2>1, <2>3 DEF ResetCommitted
    <2>5. unsent' = {}
      BY <1>3 DEF ResetCommitted
    <2> QED BY <2>2, <2>4, <2>5
  <1> QED BY <1>1, <1>2, <1>3 DEF Sender

\* resetFifo runs with the packetizer at rest and no other sender, so nothing it has reset
\* is written again before it is done.
LEMMA NextResetIsComplete ==
  TypeOK /\ QuietInv /\ Next /\ Quiet' => ResetIsComplete'
  <1> SUFFICES ASSUME TypeOK, QuietInv, Next, Quiet' PROVE ResetIsComplete'
    OBVIOUS
  <1> USE DEF QuietInv, TypeOK, ResetIsComplete
  <1>1. CASE Packetizer
    <2>1. CASE ppc = "idle"
      BY <1>1, <2>1 DEF Packetizer, PacketizerAt, Request, Woken, Interrupted, ReturnBuffer,
           EndOfStream, Commit, CommitWithoutLength, StartSender, AdvanceIn,
           ReleaseCommitted, Quiet, ExitSteps, ResetSteps
    <2>2. CASE ppc # "idle"
      <3>1. \A u \in Senders : spc[u] \notin ExitSteps
        BY <2>2 DEF Quiet
      <3>2. \A u \in Senders : spc'[u] \notin ResetSteps
        BY <1>1, <3>1 DEF Packetizer, Request, Woken, Interrupted, ReturnBuffer,
             EndOfStream, Commit, CommitWithoutLength, StartSender, AdvanceIn,
             ReleaseCommitted, ExitSteps, ResetSteps
      <3> QED BY <3>2 DEF ResetSteps
    <2> QED BY <2>1, <2>2
  <1>2. ASSUME NEW t \in Senders, Sender(t) PROVE ResetIsComplete'
    <2> USE DEF SenderAt
    <2>1. \A u \in Senders : u # t => spc[u] = "none" /\ spc'[u] = "none"
      BY <1>2 DEF Sender, TakeCommitted, TimeOut, Send, SendFails, AdvanceOut,
                  ReleaseRequested, ForgetThread, ResetIn, ResetOut, ResetRequested,
                  ResetCommitted, OneSenderAlive
    <2>2. CASE TakeCommitted(t) \/ TimeOut(t) \/ Send(t) \/ SendFails(t) \/ AdvanceOut(t)
               \/ ReleaseRequested(t) \/ ForgetThread(t) \/ ResetCommitted(t)
      BY <2>1, <2>2 DEF TakeCommitted, TimeOut, Send, SendFails, AdvanceOut,
                        ReleaseRequested, ForgetThread, ResetCommitted
    <2>3. CASE ResetIn(t)
      BY <2>1, <2>3 DEF ResetIn, Quiet, ExitSteps, ResetSteps
    <2>4. CASE ResetOut(t)
      BY <2>1, <2>4 DEF ResetOut
    <2>5. CASE ResetRequested(t)
      BY <2>1, <2>5 DEF ResetRequested
    <2> QED BY <1>2, <2>2, <2>3, <2>4, <2>5 DEF Sender
  <1> QED BY <1>1, <1>2 DEF Next

\* Between request and commit the packetizer's buffer is the one mBufferIn names, and no
\* slot waiting to be sent is that one.
LEMMA HeldIsFree ==
  TypeOK /\ QuietInv => RequestedBufferIsSent
  <1> SUFFICES ASSUME TypeOK, QuietInv, ppc \in {"filling", "startFirst", "advance"}
               PROVE  held \notin unsent /\ held = mBufferIn
    BY DEF RequestedBufferIsSent
  <1>1. ~Resetting
    BY DEF QuietInv, Quiet, Resetting
  <1>2. Lent = 1 /\ One(LoopIn({"release"})) \in {0, 1} /\ Occupied \in Nat
    BY DEF Lent, One, Occupied, TypeOK
  <1>3. Occupied < BufferCount
    BY <1>1, <1>2 DEF QuietInv, PermitsMatchIndices, TypeOK
  <1> QED BY <1>1, <1>2, <1>3 DEF QuietInv, PermitsMatchIndices, TypeOK, Slots

\* A sender that took a permit finds a committed packet at mBufferOut.
LEMMA SendsCommitted ==
  ASSUME TypeOK, QuietInv, NEW t \in Senders, spc[t] = "send"
  PROVE  mBufferOut \in unsent
  <1>1. mThread = t
    BY DEF QuietInv, OneSenderLoops, LoopSteps
  <1>2. ~Resetting
    BY DEF QuietInv, OneSenderAlive, Resetting, ExitSteps, ResetSteps
  <1>3. Occupied \in Nat /\ Occupied >= 1
    BY <1>1 DEF Occupied, One, LoopIn, TypeOK
  <1> QED BY <1>2, <1>3 DEF QuietInv, PermitsMatchIndices, TypeOK, Slots

\* Header and payload of a committed buffer belong together, and so do those on the wire.
LEMMA NextBuffersWhole ==
  TypeOK /\ QuietInv /\ Next /\ Quiet'
    => /\ BuffersWhole' /\ WireIntact'
       /\ ppc' \in {"filling", "startFirst", "advance"} => held' = mBufferIn'
  <1> DEFINE Goal == /\ BuffersWhole' /\ WireIntact'
                     /\ ppc' \in {"filling", "startFirst", "advance"} => held' = mBufferIn'
  <1> SUFFICES ASSUME TypeOK, QuietInv, Next, Quiet' PROVE Goal
    OBVIOUS
  <1>f. RequestedBufferIsSent
    BY HeldIsFree
  <1> USE DEF QuietInv, TypeOK, BuffersWhole, WireIntact, PacketizerAt, slots
  <1>1. CASE Commit
    <2>1. held = mBufferIn /\ held \notin unsent
      BY <1>1, <1>f DEF Commit, RequestedBufferIsSent
    <2>2. mSeq' \in SeqNums
      BY <1>1, NextSeqType DEF Commit
    <2> QED BY <1>1, <2>1, <2>2 DEF Commit
  <1>2. CASE CommitWithoutLength
    <2>1. held = mBufferIn /\ held \notin unsent
      BY <1>2, <1>f DEF CommitWithoutLength, RequestedBufferIsSent
    <2> QED BY <1>2, <2>1 DEF CommitWithoutLength
  <1>3. CASE StartSender
    BY <1>3 DEF StartSender
  <1>4. CASE AdvanceIn
    <2>1. held = mBufferIn /\ held \notin unsent
      BY <1>4, <1>f DEF AdvanceIn, RequestedBufferIsSent
    <2> QED BY <1>4, <2>1 DEF AdvanceIn
  <1>5. CASE Request \/ Woken \/ Interrupted \/ ReturnBuffer \/ EndOfStream \/ ReleaseCommitted
    BY <1>5 DEF Request, Woken, Interrupted, ReturnBuffer, EndOfStream, ReleaseCommitted
  <1>6. ASSUME NEW t \in Senders, Sender(t) PROVE Goal
    <2> USE DEF SenderAt
    <2>1. CASE Send(t)
      <3>1. mBufferOut \in unsent
        BY <2>1, SendsCommitted DEF Send
      <3>2. wire' = wire \/ wire' = PacketIn(mBufferOut)
        BY <2>1 DEF Send
      <3>3. WireIntact'
        BY <3>1, <3>2 DEF PacketIn
      <3> QED BY <2>1, <3>3 DEF Send
    <2>2. CASE AdvanceOut(t)
      BY <2>2 DEF AdvanceOut
    <2>3. CASE ResetIn(t)
      BY <2>3 DEF ResetIn, Quiet, ExitSteps, ResetSteps
    <2>4. CASE ResetRequested(t)
      BY <2>4 DEF ResetRequested, Quiet, ExitSteps, ResetSteps
    <2>5. CASE TakeCommitted(t) \/ TimeOut(t) \/ SendFails(t) \/ ReleaseRequested(t)
               \/ ForgetThread(t) \/ ResetOut(t) \/ ResetCommitted(t)
      BY <2>5 DEF TakeCommitted, TimeOut, SendFails, ReleaseRequested, ForgetThread,
                  ResetOut, ResetCommitted
    <2> QED BY <1>6, <2>1, <2>2, <2>3, <2>4, <2>5, Zenon DEF Sender
  <1> QED BY <1>1, <1>2, <1>3, <1>4, <1>5, <1>6 DEF Next, Packetizer

\* A new socket's FIFO is empty and all its buffers are free.
LEMMA InitQuietInv == Init => QuietInv
  <1> SUFFICES ASSUME Init PROVE QuietInv
    OBVIOUS
  <1>1. OneSenderLoops /\ OneSenderAlive /\ Quiet /\ ResetIsComplete
    BY DEF Init, OneSenderLoops, OneSenderAlive, Quiet, ResetIsComplete, LoopSteps, ExitSteps,
           ResetSteps
  <1>2. PermitsMatchIndices
    BY DEF Init, PermitsMatchIndices, Occupied, Lent, One, LoopIn, Slots
  <1>3. BuffersWhole /\ WireIntact
    BY DEF Init, BuffersWhole, WireIntact, NoPacket
  <1> QED BY <1>1, <1>2, <1>3 DEF QuietInv, Init

\* Every step of the quiet regime keeps permits, indices and buffers in step.
LEMMA NextQuietInv ==
  TypeOK /\ QuietInv /\ [Next /\ Quiet']_vars => QuietInv'
  <1> SUFFICES ASSUME TypeOK, QuietInv, [Next /\ Quiet']_vars PROVE QuietInv'
    OBVIOUS
  <1>1. CASE Next /\ Quiet'
    <2>1. OneSenderLoops'
      BY <1>1, NextOneSenderLoops DEF QuietInv
    <2>2. OneSenderAlive'
      BY <1>1, NextOneSenderAlive
    <2>3. PermitsMatchIndices'
      BY <1>1, PacketizerPermits, SenderPermits DEF Next
    <2>4. ResetIsComplete'
      BY <1>1, NextResetIsComplete
    <2> QED BY <1>1, <2>1, <2>2, <2>3, <2>4, NextBuffersWhole DEF QuietInv
  <1>2. CASE UNCHANGED vars
    <2>1. OneSenderLoops' /\ OneSenderAlive' /\ Quiet' /\ ResetIsComplete'
      BY <1>2 DEF vars, QuietInv, OneSenderLoops, OneSenderAlive, Quiet, ResetIsComplete
    <2>2. Resetting' = Resetting /\ Occupied' = Occupied /\ Lent' = Lent
          /\ One(LoopIn({"release"}))' = One(LoopIn({"release"}))
      BY <1>2 DEF vars, Resetting, Occupied, Lent, One, LoopIn
    <2>3. PermitsMatchIndices'
      BY <1>2, <2>2 DEF vars, QuietInv, PermitsMatchIndices
    <2>4. BuffersWhole' /\ WireIntact'
      BY <1>2 DEF vars, QuietInv, BuffersWhole, WireIntact
    <2> QED BY <1>2, <2>1, <2>3, <2>4 DEF vars, QuietInv
  <1> QED BY <1>1, <1>2

\* While no commit overlaps a dying sender, requestBuffer hands out a buffer that is not
\* waiting to be sent, and commitBuffer sends that buffer.
THEOREM BuffersAreExclusive == QuietSpec => []RequestedBufferIsSent
  <1>1. QuietSpec => [](TypeOK /\ QuietInv)
    <2>1. TypeOK /\ [Next /\ Quiet']_vars => TypeOK'
      BY NextTypeOK
    <2> QED BY <2>1, InitTypeOK, InitQuietInv, NextQuietInv, PTL DEF QuietSpec
  <1> QED BY <1>1, HeldIsFree, PTL

\* ... and every packet on the wire carries the header that was written for its payload.
THEOREM PacketsAreWhole == QuietSpec => []WireIntact
  <1>1. TypeOK /\ [Next /\ Quiet']_vars => TypeOK'
    BY NextTypeOK
  <1>2. QuietInv => WireIntact
    BY DEF QuietInv
  <1> QED BY <1>1, <1>2, InitTypeOK, InitQuietInv, NextQuietInv, PTL DEF QuietSpec

-----------------------------------------------------------------------------
(* The refinement of PacketFifo                                            *)

\* How many packets the FIFO holds, and that it is shorter by one while the sender is
\* between transmitting a packet and leaving its slot.
PendingIs(n) ==
  /\ n \in 0 .. BufferCount /\ Pending \in Seq(Packets) /\ Len(Pending) = n
  /\ \A k \in 1 .. n : Pending[k] = PacketIn(SlotAt(k - 1 + Taken))

\* The slots of the packets that are pending.
LEMMA PendingSlots ==
  TypeOK /\ QuietInv /\ ~Resetting =>
    /\ Occupied \in 0 .. BufferCount /\ Taken \in {0, 1} /\ Taken <= Occupied
    /\ \A k \in 0 .. Occupied - 1 : SlotAt(k) \in Slots /\ SlotAt(k) \in unsent
  <1> SUFFICES ASSUME TypeOK, QuietInv, ~Resetting
      PROVE  /\ Occupied \in 0 .. BufferCount /\ Taken \in {0, 1} /\ Taken <= Occupied
             /\ \A k \in 0 .. Occupied - 1 : SlotAt(k) \in Slots /\ SlotAt(k) \in unsent
    OBVIOUS
  <1>1. Occupied \in Nat /\ Lent \in {0, 1} /\ One(LoopIn({"release"})) \in {0, 1}
    BY DEF Occupied, One, Lent, TypeOK
  <1>i. /\ mBufferRequested + Occupied + Lent + One(LoopIn({"release"})) <= BufferCount
        /\ mBufferRequested \in Nat /\ mBufferOut \in 0 .. BufferCount - 1
        /\ unsent = {i \in Slots : \/ mBufferOut <= i /\ i < mBufferOut + Occupied
                                  \/ i < mBufferOut + Occupied - BufferCount}
    BY DEF QuietInv, PermitsMatchIndices, TypeOK, Slots
  <1>2. Occupied \in 0 .. BufferCount
    BY <1>1, <1>i
  <1>3. Taken \in {0, 1} /\ Taken <= Occupied
    <2>1. LoopIn({"advance"}) => LoopIn({"send", "advance"})
      BY DEF LoopIn
    <2>2. LoopIn({"send", "advance"}) => Occupied >= 1
      BY DEF Occupied, One, TypeOK
    <2> QED BY <1>1, <2>1, <2>2 DEF Taken, One
  <1>4. ASSUME NEW k \in 0 .. Occupied - 1 PROVE SlotAt(k) \in Slots /\ SlotAt(k) \in unsent
    <2>1. SlotAt(k) \in Slots
      BY <1>2, <1>i DEF SlotAt, Slots
    <2>2. \/ mBufferOut <= SlotAt(k) /\ SlotAt(k) < mBufferOut + Occupied
          \/ SlotAt(k) < mBufferOut + Occupied - BufferCount
      BY <1>2, <1>i DEF SlotAt
    <2> QED BY <1>i, <2>1, <2>2
  <1> QED BY <1>2, <1>3, <1>4

\* Pending is a sequence of packets, oldest first, and empty during a reset.
LEMMA PendingFacts ==
  TypeOK /\ QuietInv =>
    /\ Resetting => Pending = <<>>
    /\ ~Resetting => PendingIs(Occupied - Taken)
  <1> SUFFICES ASSUME TypeOK, QuietInv, ~Resetting PROVE PendingIs(Occupied - Taken)
    BY DEF Pending
  <1> DEFINE n == Occupied - Taken
  <1>1. n \in 0 .. BufferCount /\ Taken \in {0, 1}
    BY PendingSlots
  <1>2. \A k \in 1 .. n : PacketIn(SlotAt(k - 1 + Taken)) \in Packets
    BY <1>1, PendingSlots, PacketInType
  <1>3. Pending = [k \in 1 .. n |-> PacketIn(SlotAt(k - 1 + Taken))]
    BY DEF Pending
  <1> HIDE DEF n
  <1>4. Pending \in Seq(Packets)
    BY <1>1, <1>2, <1>3
  <1>5. Len(Pending) = n
    BY <1>1, <1>3
  <1> QED BY <1>1, <1>3, <1>4, <1>5 DEF PendingIs, n

\* Whatever touches neither the slots in the FIFO nor their number leaves it as it is.
LEMMA SamePending ==
  ASSUME TypeOK, QuietInv, Resetting' = Resetting, Occupied' = Occupied, Taken' = Taken,
         mBufferOut' = mBufferOut, \A i \in unsent : PacketIn(i)' = PacketIn(i)
  PROVE  Pending' = Pending
  <1>1. CASE Resetting
    BY <1>1 DEF Pending
  <1>2. CASE ~Resetting
    <2>1. \A k : SlotAt(k)' = SlotAt(k)
      BY DEF SlotAt
    <2>2. \A k \in 1 .. Occupied - Taken : SlotAt(k - 1 + Taken) \in unsent
      BY <1>2, PendingSlots
    <2>3. \A k \in 1 .. Occupied - Taken :
            PacketIn(SlotAt(k - 1 + Taken))' = PacketIn(SlotAt(k - 1 + Taken))
      BY <2>1, <2>2 DEF PacketIn
    <2> QED BY <1>2, <2>3 DEF Pending
  <1> QED BY <1>1, <1>2

\* commitBuffer puts one packet in.
LEMMA AdvanceInPuts ==
  ASSUME TypeOK, QuietInv, TypeOK', QuietInv', AdvanceIn
  PROVE  Fifo!Put
  <1> USE DEF AdvanceIn, PacketizerAt, sems
  <1>1. ~Resetting /\ ~Resetting'
    BY DEF QuietInv, Quiet, Resetting
  <1>2. Taken' = Taken /\ LoopIn({"send", "advance"})' = LoopIn({"send", "advance"})
    BY DEF Taken, LoopIn, One
  <1>3. Occupied' = Occupied + 1
    BY <1>2 DEF Occupied, One, TypeOK
  <1>4. /\ Occupied \in 0 .. BufferCount /\ Taken \in {0, 1} /\ Taken <= Occupied
        /\ \A k \in 0 .. Occupied - 1 : SlotAt(k) \in Slots /\ SlotAt(k) \in unsent
    BY <1>1, PendingSlots
  <1>5. PendingIs(Occupied - Taken)
    BY <1>1, PendingFacts
  <1>6. PendingIs(Occupied - Taken)'
    BY <1>1, PendingFacts, PTL
  <1>7. Occupied < BufferCount
    <2>1. (Occupied \in 0 .. BufferCount)'
      BY <1>1, PendingSlots, PTL
    <2> QED BY <1>3, <1>4, <2>1
  <1>8. held = mBufferIn /\ held \notin unsent
    BY HeldIsFree DEF RequestedBufferIsSent
  <1>9. \A i \in unsent : PacketIn(i)' = PacketIn(i)
    BY <1>8 DEF PacketIn, TypeOK
  <1> DEFINE n == Occupied - Taken
             p == Pending'[n + 1]
  <1>10. n \in Nat /\ n < BufferCount /\ Occupied' - Taken' = n + 1
    BY <1>2, <1>3, <1>4, <1>7
  <1>11. /\ Pending \in Seq(Packets) /\ Len(Pending) = n
         /\ Pending' \in Seq(Packets) /\ Len(Pending') = n + 1 /\ p \in Packets
    BY <1>5, <1>6, <1>10 DEF PendingIs
  <1>12. \A k \in 1 .. n : Pending'[k] = Pending[k]
    <2> SUFFICES ASSUME NEW k \in 1 .. n PROVE Pending'[k] = Pending[k]
      OBVIOUS
    <2>1. SlotAt(k - 1 + Taken) \in unsent
      BY <1>4
    <2>2. SlotAt(k - 1 + Taken)' = SlotAt(k - 1 + Taken)
      BY <1>2 DEF SlotAt
    <2>3. PacketIn(SlotAt(k - 1 + Taken))' = PacketIn(SlotAt(k - 1 + Taken))
      BY <1>9, <2>1, <2>2 DEF PacketIn
    <2> QED BY <1>5, <1>6, <1>10, <2>3 DEF PendingIs
  <1> HIDE DEF n, p
  <1>13. Pending' = Append(Pending, p)
    <2>1. Pending'[n + 1] = p
      BY DEF p
    <2> QED BY <1>10, <1>11, <1>12, <2>1
  <1> QED BY <1>10, <1>11, <1>13 DEF Fifo!Put

\* The sender transmits or suppresses the oldest packet.
LEMMA SendTakes ==
  ASSUME TypeOK, QuietInv, TypeOK', QuietInv', NEW t \in Senders, Send(t)
  PROVE  Fifo!Take
  <1> USE DEF Send, SenderAt, sems, slots
  <1>1. ~Resetting /\ ~Resetting'
    BY DEF QuietInv, OneSenderAlive, Resetting, ExitSteps, ResetSteps, TypeOK
  <1>2. mThread = t /\ mThread' = t
    BY DEF QuietInv, OneSenderLoops, LoopSteps
  <1>3. Taken = 0 /\ Taken' = 1
    BY <1>2 DEF Taken, LoopIn, One, TypeOK
  <1>4. Occupied' = Occupied
    <2>1. LoopIn({"send", "advance"}) /\ LoopIn({"send", "advance"})'
      BY <1>2 DEF LoopIn, TypeOK
    <2> QED BY <2>1 DEF Occupied, One
  <1>5. PendingIs(Occupied - Taken) /\ Occupied \in Nat
    BY <1>1, PendingFacts, PendingSlots
  <1>6. PendingIs(Occupied - Taken)' /\ (Taken <= Occupied)'
    BY <1>1, PendingFacts, PendingSlots, PTL
  <1> DEFINE n == Occupied - 1
  <1>7. n \in Nat /\ Occupied - Taken = n + 1 /\ Occupied' - Taken' = n
    BY <1>3, <1>4, <1>5, <1>6
  <1>8. \A k : PacketIn(SlotAt(k))' = PacketIn(SlotAt(k))
    BY DEF SlotAt, PacketIn
  <1>9. \A k \in 1 .. n : Pending'[k] = Pending[k + 1]
    <2> SUFFICES ASSUME NEW k \in 1 .. n PROVE Pending'[k] = Pending[k + 1]
      OBVIOUS
    <2>1. Pending'[k] = PacketIn(SlotAt(k - 1 + Taken))'
      BY <1>6, <1>7 DEF PendingIs
    <2>2. Pending[k + 1] = PacketIn(SlotAt(k))
      BY <1>3, <1>5, <1>7 DEF PendingIs
    <2>3. PacketIn(SlotAt(k - 1 + Taken))' = PacketIn(SlotAt(k))'
      BY <1>3 DEF SlotAt, PacketIn
    <2> QED BY <1>8, <2>1, <2>2, <2>3
  <1>10. Pending[1] = PacketIn(mBufferOut)
    BY <1>3, <1>5, <1>7 DEF PendingIs, SlotAt, TypeOK, Slots
  <1>11. /\ Pending \in Seq(Packets) /\ Len(Pending) = n + 1
         /\ Pending' \in Seq(Packets) /\ Len(Pending') = n
    BY <1>5, <1>6, <1>7 DEF PendingIs
  <1> HIDE DEF n
  <1>12. Pending # <<>> /\ Head(Pending) = PacketIn(mBufferOut) /\ Pending' = Tail(Pending)
    BY <1>7, <1>9, <1>10, <1>11
  <1>13. wire' \in {wire, PacketIn(mBufferOut)}
    OBVIOUS
  <1> QED BY <1>12, <1>13 DEF Fifo!Take

\* To leave the slot of the packet that was transmitted changes nothing more.
LEMMA AdvanceOutKeeps ==
  ASSUME TypeOK, QuietInv, TypeOK', QuietInv', NEW t \in Senders, AdvanceOut(t)
  PROVE  Pending' = Pending
  <1> USE DEF AdvanceOut, SenderAt, sems, slots
  <1>1. ~Resetting /\ ~Resetting'
    BY DEF QuietInv, OneSenderAlive, Resetting, ExitSteps, ResetSteps, TypeOK
  <1>2. mThread = t /\ mThread' = t
    BY DEF QuietInv, OneSenderLoops, LoopSteps
  <1>3. Taken = 1 /\ Taken' = 0
    BY <1>2 DEF Taken, LoopIn, One, TypeOK
  <1>4. Occupied' = Occupied - 1
    <2>1. LoopIn({"send", "advance"}) /\ ~LoopIn({"send", "advance"})'
      BY <1>2 DEF LoopIn, TypeOK
    <2> QED BY <2>1 DEF Occupied, One, TypeOK
  <1>5. Occupied \in 0 .. BufferCount
    BY <1>1, PendingSlots
  <1>6. Occupied' - Taken' = Occupied - Taken
    BY <1>3, <1>4, <1>5
  <1>7. \A k \in 1 .. Occupied - Taken : SlotAt(k - 1 + Taken)' = SlotAt(k - 1 + Taken)
    BY <1>3, <1>5 DEF SlotAt, NextSlot, TypeOK, Slots
  <1>8. \A k \in 1 .. Occupied - Taken :
          PacketIn(SlotAt(k - 1 + Taken))' = PacketIn(SlotAt(k - 1 + Taken))
    BY <1>7, Zenon DEF PacketIn
  <1> QED BY <1>1, <1>6, <1>8 DEF Pending

\* The rest of the packetizer works on a buffer that is not in the FIFO.
LEMMA PacketizerKeeps ==
  ASSUME TypeOK, QuietInv, Packetizer, ~AdvanceIn
  PROVE  Pending' = Pending /\ wire' = wire
  <1> USE DEF PacketizerAt, sems, slots
  <1>1. wire' = wire /\ mBufferOut' = mBufferOut
    BY DEF Packetizer, Request, Woken, Interrupted, ReturnBuffer, EndOfStream, Commit,
           CommitWithoutLength, StartSender, ReleaseCommitted
  <1>2. \A i \in unsent : PacketIn(i)' = PacketIn(i)
    <2>1. CASE Commit
      <3>1. held \notin unsent /\ held = mBufferIn
        BY <2>1, HeldIsFree DEF Commit, RequestedBufferIsSent
      <3> QED BY <2>1, <3>1 DEF Commit, PacketIn, TypeOK
    <2>2. CASE CommitWithoutLength
      <3>1. held \notin unsent
        BY <2>2, HeldIsFree DEF CommitWithoutLength, RequestedBufferIsSent
      <3> QED BY <2>2, <3>1 DEF CommitWithoutLength, PacketIn, TypeOK
    <2>3. CASE UNCHANGED slots
      BY <2>3 DEF PacketIn
    <2> QED BY <2>1, <2>2, <2>3 DEF Packetizer, Request, Woken, Interrupted, ReturnBuffer,
               EndOfStream, StartSender, ReleaseCommitted
  <1>3. /\ Resetting' = Resetting /\ Taken' = Taken
        /\ LoopIn({"send", "advance"})' = LoopIn({"send", "advance"})
    <2>1. CASE UNCHANGED <<spc, mThread>>
      BY <2>1 DEF Resetting, Taken, One, LoopIn
    <2>2. CASE StartSender /\ mThread = NoThread
      <3>1. ~LoopIn({"send", "advance"}) /\ ~LoopIn({"advance"})
        BY <2>2 DEF LoopIn
      <3>2. ~LoopIn({"send", "advance"})' /\ ~LoopIn({"advance"})'
        BY <2>2 DEF LoopIn, StartSender, TypeOK
      <3>3. Resetting' = Resetting
        <4>1. \A u \in Senders : spc'[u] \in ExitSteps <=> spc[u] \in ExitSteps
          BY <2>2 DEF StartSender, TypeOK, ExitSteps, ResetSteps
        <4> QED BY <4>1 DEF Resetting
      <3>4. LoopIn({"send", "advance"})' = LoopIn({"send", "advance"})
        BY <3>1, <3>2 DEF LoopIn
      <3>5. Taken' = Taken
        BY <3>1, <3>2 DEF Taken, One
      <3> QED BY <3>3, <3>4, <3>5
    <2> QED BY <2>1, <2>2 DEF Packetizer, Request, Woken, Interrupted, ReturnBuffer,
               EndOfStream, Commit, CommitWithoutLength, StartSender, ReleaseCommitted
  <1>4. Occupied' = Occupied
    <2>1. mBufferCommitted' + One(ppc' = "release") = mBufferCommitted + One(ppc = "release")
      <3>1. CASE ReleaseCommitted
        <4>1. /\ mBufferCommitted' = mBufferCommitted + 1 /\ ppc = "release" /\ ppc' # "release"
              /\ mBufferCommitted \in Nat
          BY <3>1 DEF ReleaseCommitted, TypeOK
        <4> QED BY <4>1 DEF One
      <3>2. CASE ~ReleaseCommitted
        <4>1. mBufferCommitted' = mBufferCommitted /\ ppc # "release" /\ ppc' # "release"
          BY <3>2 DEF Packetizer, Request, Woken, Interrupted, ReturnBuffer, EndOfStream, Commit,
                      CommitWithoutLength, StartSender
        <4> QED BY <4>1 DEF One
      <3> QED BY <3>1, <3>2
    <2>2. One(LoopIn({"send", "advance"}))' = One(LoopIn({"send", "advance"}))
      BY <1>3 DEF One
    <2>3. One(ppc = "release")' = One(ppc' = "release")
      BY DEF One
    <2> QED BY <2>1, <2>2, <2>3 DEF Occupied
  <1> QED BY <1>1, <1>2, <1>3, <1>4, SamePending

\* A sender that takes a permit or gives one back does not change the FIFO.
LEMMA PermitKeeps ==
  ASSUME TypeOK, QuietInv, NEW t \in Senders, TakeCommitted(t) \/ ReleaseRequested(t)
  PROVE  Pending' = Pending /\ wire' = wire
  <1> USE DEF TakeCommitted, ReleaseRequested, SenderAt, slots
  <1>1. mThread = t /\ mThread' = t /\ wire' = wire /\ mBufferOut' = mBufferOut
    BY DEF QuietInv, OneSenderLoops, LoopSteps
  <1>2. Taken' = Taken
    BY <1>1 DEF Taken, LoopIn, One, TypeOK
  <1>3. Occupied' = Occupied
    BY <1>1 DEF Occupied, LoopIn, One, TypeOK
  <1>4. Resetting' = Resetting
    <2>1. \A u \in Senders : spc'[u] \in ExitSteps <=> spc[u] \in ExitSteps
      BY DEF TypeOK, ExitSteps, ResetSteps
    <2> QED BY <2>1 DEF Resetting
  <1>5. \A i \in unsent : PacketIn(i)' = PacketIn(i)
    BY DEF PacketIn
  <1> QED BY <1>1, <1>2, <1>3, <1>4, <1>5, SamePending

\* A sender that gives up discards the FIFO, and the reset leaves it empty.
LEMMA GivingUpDiscards ==
  ASSUME TypeOK, QuietInv, TypeOK', QuietInv', NEW t \in Senders, Sender(t),
         spc'[t] \in ExitSteps \/ ResetCommitted(t)
  PROVE  Pending' = <<>> /\ wire' = wire
  <1>1. CASE ResetCommitted(t)
    <2>1. wire' = wire /\ ~Resetting' /\ \A u \in Senders : spc'[u] = "none"
      BY <1>1 DEF ResetCommitted, QuietInv, OneSenderAlive, Resetting, ExitSteps, ResetSteps,
                  TypeOK
    <2>2. ~LoopIn({"send", "advance"})' /\ ~LoopIn({"advance"})'
      BY <2>1 DEF LoopIn
    <2>3. ppc' # "release" /\ mBufferCommitted' = 0
      BY <1>1 DEF ResetCommitted, QuietInv, Quiet, ExitSteps, ResetSteps
    <2>4. Occupied' - Taken' = 0
      BY <2>2, <2>3 DEF Occupied, Taken, One
    <2>5. PendingIs(Occupied - Taken)'
      BY <2>1, PendingFacts, PTL
    <2>6. Pending' \in Seq(Packets) /\ Len(Pending') = 0
      BY <2>4, <2>5 DEF PendingIs
    <2> QED BY <2>1, <2>6
  <1>2. CASE ~ResetCommitted(t)
    <2>1. Resetting'
      BY <1>2 DEF Resetting
    <2>2. wire' = wire
      BY <1>2 DEF Sender, SenderAt, TakeCommitted, TimeOut, Send, SendFails, AdvanceOut,
                  ReleaseRequested, ForgetThread, ResetIn, ResetOut, ResetRequested,
                  ExitSteps, ResetSteps, TypeOK
    <2> QED BY <2>1, <2>2 DEF Pending
  <1> QED BY <1>1, <1>2

\* Every step of the quiet regime puts a packet in, takes the oldest out, discards all of
\* them, or does nothing to the FIFO.
LEMMA FifoStep ==
  TypeOK /\ QuietInv /\ TypeOK' /\ QuietInv' /\ [Next]_vars
    => [Fifo!Put \/ Fifo!Take \/ Fifo!Discard]_<<Pending, wire>>
  <1> SUFFICES ASSUME TypeOK, QuietInv, TypeOK', QuietInv', [Next]_vars
               PROVE  [Fifo!Put \/ Fifo!Take \/ Fifo!Discard]_<<Pending, wire>>
    OBVIOUS
  <1>1. CASE UNCHANGED vars
    <2>1. wire' = wire /\ mBufferOut' = mBufferOut /\ \A i \in unsent : PacketIn(i)' = PacketIn(i)
      BY <1>1 DEF vars, PacketIn
    <2>2. Resetting' = Resetting /\ Occupied' = Occupied /\ Taken' = Taken
      BY <1>1 DEF vars, Resetting, Occupied, Taken, One, LoopIn
    <2> QED BY <2>1, <2>2, SamePending
  <1>2. CASE Packetizer
    BY <1>2, AdvanceInPuts, PacketizerKeeps
  <1>3. ASSUME NEW t \in Senders, Sender(t)
        PROVE  [Fifo!Put \/ Fifo!Take \/ Fifo!Discard]_<<Pending, wire>>
    <2>1. CASE Send(t)
      BY <2>1, SendTakes
    <2>2. CASE AdvanceOut(t)
      <3>1. wire' = wire
        BY <2>2 DEF AdvanceOut
      <3> QED BY <2>2, <3>1, AdvanceOutKeeps
    <2>3. CASE TakeCommitted(t) \/ ReleaseRequested(t)
      BY <2>3, PermitKeeps
    <2>4. CASE spc'[t] \in ExitSteps \/ ResetCommitted(t)
      BY <1>3, <2>4, GivingUpDiscards DEF Fifo!Discard
    <2>5. \/ Send(t) \/ AdvanceOut(t) \/ TakeCommitted(t) \/ ReleaseRequested(t)
          \/ spc'[t] \in ExitSteps \/ ResetCommitted(t)
      BY <1>3 DEF Sender, SenderAt, TimeOut, SendFails, ForgetThread, ResetIn, ResetOut,
                  ResetRequested, ExitSteps, ResetSteps, TypeOK
    <2> QED BY <2>1, <2>2, <2>3, <2>4, <2>5
  <1> QED BY <1>1, <1>2, <1>3 DEF Next

\* While no commit overlaps a dying sender, the ring with its two indices, its two
\* semaphores and its reset is a bounded first-in first-out queue: PacketFifo.
THEOREM RingIsAFifo == QuietSpec => ImplementsFifo
  <1>1. Init => Fifo!FifoInit
    <2> SUFFICES ASSUME Init PROVE Fifo!FifoInit
      OBVIOUS
    <2>1. ~Resetting /\ Occupied = 0 /\ Taken = 0
      BY DEF Init, Resetting, ExitSteps, ResetSteps, Occupied, Taken, One, LoopIn
    <2>2. PendingIs(Occupied - Taken)
      BY <2>1, InitTypeOK, InitQuietInv, PendingFacts
    <2>3. Pending \in Seq(Packets) /\ Len(Pending) = 0
      BY <2>1, <2>2 DEF PendingIs
    <2>4. wire \in Packets
      BY InitTypeOK DEF TypeOK
    <2> QED BY <2>3, <2>4 DEF Fifo!FifoInit
  <1>2. TypeOK /\ [Next /\ Quiet']_vars => TypeOK'
    BY NextTypeOK
  <1>3. QuietSpec => [](TypeOK /\ QuietInv)
    BY <1>2, InitTypeOK, InitQuietInv, NextQuietInv, PTL DEF QuietSpec
  <1>4. [Next /\ Quiet']_vars => [Next]_vars
    OBVIOUS
  <1> QED BY <1>1, <1>3, <1>4, FifoStep, PTL DEF QuietSpec, ImplementsFifo, Fifo!FifoSpec

=============================================================================
