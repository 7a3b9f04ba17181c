SPECIFICATION QuietSpec
CONSTANTS
  BufferCount = 2
  SeqMod = 3
  MaxPermits = 3
  Skip = 0
  Senders = {t1, t2}
  NoThread = NoThread
INVARIANTS
  RequestedBufferIsSent
PROPERTIES ImplementsFifo
