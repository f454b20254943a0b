SPECIFICATION RpcSpec
CONSTANTS
  BodiesOf <- MCBodiesOf
  Sigs = {s1, s2}
  Fees = {0, 1, 9}
  Foreign = {3}
  Strange = {h1}
  Bases = {0, 1, 2, 3}
  U128Max = 5
  NoSig = NoSig
  ZeroSig = ZeroSig
  None = None
  Panic = Panic
  ra = ra
  rb = rb
  alice = alice
INVARIANTS
  IdentityKept
  WrittenIsReadable
  PriceShownIsPaid
CHECK_DEADLOCK FALSE
