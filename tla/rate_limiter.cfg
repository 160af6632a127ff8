\* Three threads share two slots per period.
SPECIFICATION FairSpec
CONSTANTS
  Sender = {s1, s2, s3}
  MaxPPS = 2
INVARIANTS TypeOK SlotsConserved BoundedRate
PROPERTY Progress
