SPECIFICATION FairSpec
CONSTANTS
  NotToml = NotToml
  AlsoNotToml = AlsoNotToml
  BareValue = BareValue
  NoFile = NoFile
  NoDigest = NoDigest
  NotKnown = NotKnown
  NotDelivered = NotDelivered
  NoDedup = NoDedup
  Fields <- MCFields
  Values <- MCValues
  Contents <- OneGoodOneBad
  Garbage <- JustNotToml
  NPaths = 1
  CallerRechecks = FALSE
  CallbacksRaise = TRUE
  MaxEdits = 3
PROPERTY UndeliveredIsRetried
