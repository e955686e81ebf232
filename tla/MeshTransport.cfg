SPECIFICATION Spec
CONSTANTS
  ka = ka
  kb = kb
  sa = sa
  sb = sb
  None = None
  Calls = {ka, kb}
  Sessions = {sa, sb}
  Sender <- SenderOf
  Dialler <- BothDial
  MaxTrouble = 1
ACTION_CONSTRAINT OneAtATime
CHECK_DEADLOCK FALSE
INVARIANTS TypeOK TransportInv RegisteredIsLive AtMostTwice
PROPERTY ImplementsCall
