SPECIFICATION LiveRaceSpec
CONSTANTS
  BufferCount = 2
  SeqMod = 1
  MaxPermits = 2
  Skip = 0
  Senders = {t1, t2}
  NoThread = NoThread
INVARIANTS
  NoPacketWithoutSender
PROPERTIES CommittedPacketLeaves
CHECK_DEADLOCK FALSE
