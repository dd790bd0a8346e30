SPECIFICATION Spec
CONSTANTS
  NotToml = NotToml
  AlsoNotToml = AlsoNotToml
  BareValue = BareValue
  NoFile = NoFile
  NoDigest = NoDigest
  NotKnown = NotKnown
  NotDelivered = NotDelivered
  NoDedup = NoDedup
  Fields <- MCFields
  Values <- MCValues
  Contents <- EveryKind
  Garbage <- JustNotToml
  NPaths = 1
  CallerRechecks = TRUE
  CallbacksRaise = TRUE
  MaxEdits = 2
INVARIANTS ReplicaMatchesBaseline ChangesChain RejectionRepeatedOnlyFromStart
PROPERTY ImplementsFeed
