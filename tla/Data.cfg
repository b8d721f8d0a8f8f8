SPECIFICATION DataSpec
CONSTANTS
  Callers = 2
  MaxSpooled = 3
  MaxOpens = 2
  MaxCrashes = 2
  Chunk = 3
  PerFile = 4
  MaxFiles = 1
  Comps = {"none", "snappy", "zlib"}
  Formats = {"text", "kv", "json", "dash"}
  MaxWritten = 3
  MaxEncoders = 3
  MaxObjects = 3
  ObjectMsgs = 2
  ListMax = 2
  MaxFaults = 1
  MaxEvents = 3
  MaxTime = 2
  PerSecond = 2
  Size = 2
  BufferSizes = {1, 2}
  MaxPage = 3
  MaxParts = 3
  Modes = {"counted", "lines", "dgram"}
  MaxFrames = 3
  MaxText = 1
  Priorities = {8, 192}
  MetricNames = {"x", "y"}
  Amounts = {3}
  MaxMetrics = 3
  MaxExports = 2
CHECK_DEADLOCK FALSE
INVARIANTS SpoolKeeps ReadsBack StreamReads BucketReads PollsAll MessageHolds   SyslogReads 
