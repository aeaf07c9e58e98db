SPECIFICATION SharedSpec
CONSTANTS
  Senders = {s1, s2}
  Capacity = 2
  MaxSends = 2
  Blank = Blank
INVARIANTS TypeOK NeverOverfull AtMostOnce
PROPERTIES KeepsShared
