SPECIFICATION FairWSpec
CONSTANTS
  Peers = {p1, p2}
  a = a
  b = b
  x = x
  Announcements <- MCAnnouncements
  Authorized = {a, b}
  LruSize = 1
  NoBlock = none
  NoPeer = nobody
  MaxConns = 3
  MaxMessages = 3
INVARIANTS
  SeenIsLastSubmitted
  NewestIsRegistered
PROPERTIES
  AuthorizedIsSubmitted
CHECK_DEADLOCK FALSE
