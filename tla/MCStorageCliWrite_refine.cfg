\* write and write_chunk, with every fault and a 4-byte buffer (Ctrl+C and
\* short writes meet partial buffers of every length), implement BufferedAppend.
CONSTANTS
  d1 = d1
  d2 = d2
  etx = etx
  junk = junk
  nonumber = nonumber
  NoNumber <- nonumber
  ChunkArgs <- MCChunkArgs
  Data <- MCData
  ETX <- etx
  Junk <- junk
  BufferSize = 4
  IndexWidth = 3
  MaxInput <- MCMaxInputLarge
  WriteFaults = TRUE
  OpenFaults = TRUE
  ShortConsoleReads = TRUE
  HeapFree = 4
SPECIFICATION Spec
PROPERTY WriteRefinesBufferedAppend
\* The handler returns (done), or waits in cli_getc for input that never comes.
CHECK_DEADLOCK FALSE
