\* write and write_chunk with short writes, short console reads and open
\* failures: no loss, duplication or stale bytes.
CONSTANTS
  d1 = d1
  d2 = d2
  etx = etx
  junk = junk
  nonumber = nonumber
  NoNumber <- nonumber
  ChunkArgs <- MCChunkArgs
  Data <- MCData
  ETX <- etx
  Junk <- junk
  BufferSize = 2
  IndexWidth = 2
  MaxInput <- MCMaxInput
  WriteFaults = TRUE
  OpenFaults = TRUE
  ShortConsoleReads = TRUE
  HeapFree = 2
SPECIFICATION Spec
INVARIANT TypeOK
INVARIANT FileMatchesInput
\* The handler returns (done), or waits in cli_getc for input that never comes.
CHECK_DEADLOCK FALSE
