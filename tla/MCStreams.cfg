SPECIFICATION StreamsSpec
CONSTANTS
  Callers = {"p", "q", "r"}
  NUM = 8
  IDX = 16
  MAXREQ = 4
  Writers = {"w1", "w2"}
  Readers = {"r"}
  PIPESIZE = 2
  UINT = 4
  WRITE = 3
  READS = {1, 3}
  MAXPKILLS = 1
  Printers = {"p", "q"}
  Syncs = {"c"}
  OUTPUT = 3
  BATCH = 2
  SYNCBYTES = 2
  FIFO = 2
INVARIANT StreamIntact
PROPERTIES
  RequestsServed
  MCPipeEnds
  MCOutputDelivered
