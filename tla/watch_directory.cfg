SPECIFICATION Spec
CONSTANTS
  NotToml = NotToml
  AlsoNotToml = AlsoNotToml
  BareValue = BareValue
  NoFile = NoFile
  NoDigest = NoDigest
  NotKnown = NotKnown
  NotDelivered = NotDelivered
  NoDedup = NoDedup
  Fields <- MCFields
  Values <- MCValues
  Contents <- OneGoodOneBad
  Garbage <- JustNotToml
  NPaths = 2
  CallerRechecks = FALSE
  CallbacksRaise = TRUE
  MaxEdits = 2
INVARIANTS TypeOK ForgottenOnlyOnceTold OwedOverflowStaysReachable NoMarkOutlivesItsEvent OnlyOwnRecheckClearsMark
PROPERTY AlarmIsEarned
