SPECIFICATION Spec
CONSTANTS
  NotToml = NotToml
  AlsoNotToml = AlsoNotToml
  BareValue = BareValue
  NoFile = NoFile
  NoDigest = NoDigest
  NotKnown = NotKnown
  NotDelivered = NotDelivered
  NoDedup = NoDedup
  Fields <- MCFields
  Values <- MCValues
  Contents <- NotTomls
  Garbage <- NotTomls
  NPaths = 1
  CallerRechecks = FALSE
  CallbacksRaise = FALSE
  MaxEdits = 3
PROPERTY SkippedRejectionWasTold
