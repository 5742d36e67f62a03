SPECIFICATION Spec
CONSTANTS
  ControlStreams = {c1, c2}  DataStreams = {d1, d2}  RequestStreams = {b1}
  MaxBuffered = 1
  MaxOpen = 2  MaxWrites = 2  FlushTimeout = TRUE  GoawayTimeout = TRUE
  Priorities = {0, 1}  MaxRequests = 3  MaxCredit = 2
  Fetches = {"f1"}  Publishes = {"p1"}  Providers = 2  MaxSessions = 3
INVARIANTS
  TypeOK SetupInOrder DrainIsBounded QueueServes 
PROPERTIES
   WorkEnds
CHECK_DEADLOCK FALSE
