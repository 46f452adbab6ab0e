\* Two clients, queues of two, five events: a client can fall three behind.
CONSTANTS
  Clients = {a, b}
  QueueSize = 2
  MaxEvents = 5
SPECIFICATION FairSpec
INVARIANTS
  TypeOK
  QueueHoldsNewest
PROPERTIES
  FeedSpec
  ClientsCatchUp
