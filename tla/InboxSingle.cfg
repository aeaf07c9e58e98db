SPECIFICATION FairSpec
CONSTANTS
  Senders = {s1}
  Capacity = 2
  MaxSends = 5
  Blank = Blank
INVARIANTS SingleInv
PROPERTIES Implements AcceptedIsDelivered
