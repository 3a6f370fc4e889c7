INIT ResourcesInit
NEXT ResourcesNext
CONSTANTS
  Users = {u1, u2}
  Names = {"a", "b"}
  NINODES = 3
  FsBlocks = {1, 2, 3}
  NDIRECT = 1
  MAXFILE = 2
  FsPaths <- MCPaths
  Images <- MCImages
  FsCalls = {"creat", "mkdir", "mknod", "open", "unlink", "link", "chdir", "write", "close"}
  FsCrashes = 1
  MAXCALLS = 3
  Openers = {"sh", "left", "right"}
  First = "sh"
  NOFILE = 4
  NFILE = 4
  PipePages = {1}
  MAXFCALLS = 4
  PIPEBYTES = 2
  Spaces = {"p", "q"}
  Root = "p"
  PageCounts = {7, 9, 10, 11, 12, 14, 16}
  LEVELS = 1
  MAXVP = 4
  SEGSIZE = 1
  DATASIZE = 1
  USERSTACK = 1
  NARG = 1
  MAXMCALLS = 4
  Holders = {u1, u2}
  Blocks = {1, 2, 3, 4}
  NBUF = 3
  MAXPINS = 2
  HEAPMAX = 12
  NALLOC = 4
  MAXUNITS = 5
  Tokens = {"a", "|", "&", ";", "<", ">", "+", "(", ")"}
  MAXTOKENS = 5
  MAXARGS = 4
  LineReaders = {"p", "q"}
  INPUT_BUF_SIZE = 3
  INDEX = 6
  ReadSizes = {1, 3}
  Cpus = {"c1", "c2"}
  Threads = {"p", "q", "r"}
  Dev = "dev"
  None = "none"
  TextChars = {"x", "y"}
  ReChars = {"x", ".", "*", "$", "^"}
  REMAX = 3
  INMAX = 4
  GREPBUF = 4
SYMMETRY ResourceSymmetry
INVARIANTS
  MCBlocksExact
  MCNoDangling
  MCCopyAgrees
  MCOrphansReclaimed
  FilesExact
  MCPagesExact
  MCMemoryAgrees
  CacheCoherent
  MCHeapSound
  MCParseAgrees
  LinesIntact
  InterruptsRestored
  MCGrepAgrees
