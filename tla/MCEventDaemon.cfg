CONSTANTS
  a = a
  b = b
  c1 = c1
  c2 = c2
  Owners = {a, b}
  Topics = {x}
  MayUnsubscribe <- RootIsA
  MaxTopics = 1
  MaxSubscribers = 2
  RingDepth = 2
  MaxSequence = 3
  Conns = {c1, c2}
  OwnerOf <- TwoOfA
  MaxClients = 2
  MaxSubsPerClient = 1
  SendRoom = 1
  MaxSent = 3
  MaxInbox = 1
  Junk <- AnyJunk
SPECIFICATION FairSpec
INVARIANTS
  SubscriptionsHaveOneHolder
  NothingLeftQueued
PROPERTIES
  HungIsForgotten
CHECK_DEADLOCK FALSE
