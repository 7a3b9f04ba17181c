----------------------------- MODULE PacketFifo -----------------------------
(***************************************************************************)
(* What RtpSocket promises a packetizer: a bounded first-in first-out      *)
(* queue of packets in front of the network.  Packets leave in the order   *)
(* in which they were committed, each at most once; the first ones of a    *)
(* stream are suppressed, and the whole queue is discarded when the sender *)
(* gives up.                                                               *)
(***************************************************************************)
EXTENDS Naturals, Sequences

CONSTANTS Capacity, Packet

VARIABLES queue, wire

Put ==
  /\ Len(queue) < Capacity
  /\ \E p \in Packet : queue' = Append(queue, p)
  /\ UNCHANGED wire

Take ==
  /\ queue # <<>>
  /\ wire' \in {wire, Head(queue)}
  /\ queue' = Tail(queue)

Discard == queue' = <<>> /\ UNCHANGED wire

FifoInit == queue = <<>> /\ wire \in Packet

FifoSpec == FifoInit /\ [][Put \/ Take \/ Discard]_<<queue, wire>>

=============================================================================
