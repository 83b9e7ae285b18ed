\* The router: two entries, sockets and queues that are full with one
\* message.  The broker: three topics of which two fit, three subscriptions.
\* The handover: two threads publish, two acquire, one withdraws; three listeners.
SPECIFICATION LibrariesSpec
CONSTANTS
  Apps = {a1, a2}
  NoApp = NoApp
  MaxGuests = 2
  QueueDepth = 1
  FloodPolicy = "disconnect"
  Quota = 1
  SocketRoom = 1
  Senders = {a2}
  Frames = {"good", "foreign", "empty"}
  Refused = {FALSE, TRUE}
  Ids = 2
  a = a
  b = b
  Owners = {a, b}
  Topics = {x, y, z}
  MaxTopics = 2
  MaxSubscribers = 3
  RingDepth = 2
  MayUnsubscribe <- RootIsA
  MaxSequence = 3
  Publishers = {"p", "q"}
  Acceptors = {"a", "b"}
  Taker = "t"
  Fds = {1, 2, 3}
  Generations = {1, 2, 3}
  First = 1
  Room = 1
  NoFd = 0
  Inside = {"code", "page", "id.pem", "gen", "dist", ".git", "in.arapp", "in.hash"}
  Vcs = {".git"}
  Private = {"id.pem"}
  Unmapped = {"dist"}
  Unhashed = {".git", "dist", "in.arapp", "in.hash"}
  UserFiles = {"code", "id.pem"}
  StepFiles = {"gen"}
  TidyFiles = {"dist"}
  FirstTree = {"code", "page", "dist", ".git"}
  Code = {"code"}
  Binary = "app"
  HashOf <- HashNames
  Plans <- Manifests
  RmCap = 2
  MaxCommands = 2
  MaxEdits = 1
\* The index: two files and a log that must not be listed, two builds, one change.
  u1 = u1
  u2 = u2
  Paths = {2, 5, 6}
  Mutable = {6}
  IndexName = 3
  Temps = {1, 4}
  Files <- ChangedFiles
  FirstFile <- ReleasedFile
  Builders = {u1, u2}
  KeyFiles <- IndexKeyFiles
  MaxBuilds = 2
  MaxWrites = 1
SYMMETRY Interchangeable
INVARIANTS
  LibrariesTypeOK
  AcceptedInOrder
  QuarantinedForCause
  RegistryExact
  LeastImportantFirst
  ListenersHaveOneOwner
  BuildRestoresTree
  
  FreshIndexVerifies
PROPERTIES
  BrokerRefinesContract
CHECK_DEADLOCK FALSE
