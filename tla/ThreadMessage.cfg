CONSTANTS
  s1 = s1
  s2 = s2
  Senders <- MCSenders
  Receiver = r
  NoThread = none
  NoMsg = nomsg
  MaxSize = 1
  MaxSent = 3
  Drain = TRUE
SPECIFICATION Spec
INVARIANTS TypeOK Bounded PopsWhatItHandled InOrder
PROPERTY ImplementsFifo
