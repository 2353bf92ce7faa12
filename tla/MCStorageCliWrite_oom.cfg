\* A write_chunk size larger than the free heap must not halt the system
\* (spec: only confirmed destructive operations are fatal); the code mallocs it.
CONSTANTS
  d1 = d1
  d2 = d2
  etx = etx
  junk = junk
  nonumber = nonumber
  NoNumber <- nonumber
  ChunkArgs <- MCChunkArgs
  Data <- MCData
  ETX <- etx
  Junk <- junk
  BufferSize = 2
  IndexWidth = 2
  MaxInput <- MCMaxInput
  WriteFaults = FALSE
  OpenFaults = FALSE
  ShortConsoleReads = FALSE
  HeapFree = 2
SPECIFICATION Spec
INVARIANT ChunkSizeNeverHalts
\* The handler returns (done), or waits in cli_getc for input that never comes.
CHECK_DEADLOCK FALSE
