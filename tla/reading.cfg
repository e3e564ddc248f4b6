SPECIFICATION ReadingSpec
CONSTANTS
  Absent = Absent
  Extractions <- Readings
  AutoPost = 2
  Trigger = 3
  Limits = {1, 150}
  MaxExact = 1490
INVARIANTS CleanIsTrustworthy SentAsApproved SoundIsNotParked
CHECK_DEADLOCK FALSE
