SPECIFICATION FairSpec
CONSTANTS
  Sinks = 2
  RedisSinks = {2}
  Clients = {p, q}
  MaxSent = 2
  Sources = 3
  Local = 2
  MaxMsgs = 2
  MaxBreaks = 2
  Conns = {c1, c2}
  MaxSends = 3
  Buffer = 2
  Callers = {a, b}
  MaxReads = 2
  MaxConns = 3
CHECK_DEADLOCK FALSE
INVARIANTS Relays PipelineRuns Queues KeepsAcked ReadsWritten
PROPERTIES EventuallyRelayed RedisReturns AckedReturned ReadReturns
