SPECIFICATION Spec
CONSTANTS
  alice = alice
  bob = bob
  carol = carol
  a = a
  Bc = Bc
  b = b
  cc = cc
  c = c
  Nobody = nobody
  Users <- MCUsers
  Names <- MCNames
  Addr <- MCAddr
  Norm <- MCNorm
  Owner <- MCOwner
  MaxMsgs = 2
  MaxGroup = 2
INVARIANT TrustedFriendsSealed
