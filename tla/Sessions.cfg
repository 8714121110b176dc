SPECIFICATION Spec
CONSTANTS
  me = me
  Bc = Bc
  b = b
  Names <- MCNames
  Norm <- MCNorm
  Self = me
  Nothing = Nothing
  MaxGroup = 2
  MaxMsgs = 2
  MaxHelpers = 1
INVARIANTS
  ViewIsCurrent ReceivedIsListed TreeMatchesContacts SentWhereMeant
