---------------------------- MODULE MCRtpSocket ----------------------------
(* Model-checking instances of RtpSocket.                                  *)
EXTENDS RtpSocket

CONSTANT MaxPermits   \* bound on the permits of the two semaphores together

ASSUME MaxPermitsAssumption == MaxPermits \in Nat /\ MaxPermits >= BufferCount

\* When a dying sender and the packetizer race, resetFifo can leave more permits than
\* buffers, and repeated races more and more: in the instances the packetizer stops asking
\* for buffers when there are more than MaxPermits.  Nothing else is held up.
PermitsBounded == mBufferRequested + mBufferCommitted <= MaxPermits

RaceSpec == Init /\ [][Next /\ (ppc = "idle" /\ ppc' # "idle" => PermitsBounded)]_vars

\* A thread that can run does run.  A sender always can while it is alive, its wait ends
\* after four seconds: its weak fairness is that it ends or goes on taking steps.  So is
\* the packetizer's inside requestBuffer and commitBuffer, unless it is blocked; nothing
\* obliges it to ask for a buffer, or stop() to interrupt it.
LiveRaceSpec ==
  /\ RaceSpec
  /\ \A t \in Senders : []<>(spc[t] = "none") \/ []<><<spc'[t] # spc[t]>>_spc
  /\ []<>(ppc \in {"idle", "waiting", "stranded"}) \/ []<><<ppc' # ppc>>_ppc

=============================================================================
