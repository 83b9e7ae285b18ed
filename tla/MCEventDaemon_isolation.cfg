CONSTANTS
  a = a
  b = b
  c1 = c1
  c2 = c2
  Owners = {a, b}
  Topics = {x}
  MayUnsubscribe <- RootIsA
  MaxTopics = 1
  MaxSubscribers = 2
  RingDepth = 2
  MaxSequence = 2
  Conns = {c1, c2}
  OwnerOf <- AAndB
  MaxClients = 2
  MaxSubsPerClient = 1
  SendRoom = 1
  MaxSent = 1
  MaxInbox = 1
  Junk <- CleanJunk
SPECIFICATION Spec
PROPERTIES
  OnlyFailedDisconnected
CHECK_DEADLOCK FALSE
