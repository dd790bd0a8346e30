SPECIFICATION Spec
CONSTANTS
  NotToml = NotToml
  AlsoNotToml = AlsoNotToml
  BareValue = BareValue
  NoFile = NoFile
  NoDigest = NoDigest
  NotKnown = NotKnown
  NotDelivered = NotDelivered
  NoDedup = NoDedup
  Fields <- MCFields
  Values <- MCValues
  Contents <- TwoGoodOneBad
  Garbage <- JustNotToml
  NPaths = 1
  CallerRechecks = FALSE
  CallbacksRaise = TRUE
  MaxEdits = 2
PROPERTY OverflowNotRedelivered
