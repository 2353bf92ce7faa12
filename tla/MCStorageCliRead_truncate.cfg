\* read when the medium fails mid-transfer: a truncated file is printed with no error.
CONSTANTS
  nonumber = nonumber
  NoNumber <- nonumber
  ChunkArgs <- MCChunkArgs
  MaxFileSize = 5
  ReadBufferSize = 2
  ShortReads = TRUE
  MediumFailures = TRUE
  OpenFaults = TRUE
  HeapFree = 3
  MaxHandshakes = 6
SPECIFICATION Spec
\* The handler returns, or read_chunks spins after a medium failure.
CHECK_DEADLOCK FALSE
INVARIANT ReadReportsTruncation
