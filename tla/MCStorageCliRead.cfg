\* read and read_chunks with short reads, open failures, a medium that may
\* fail mid-transfer and a chunk size (4) beyond the free heap: whatever is
\* printed is the file in order, the handshake count fits the file, and the
\* handlers end unless read_chunks lost its medium.
CONSTANTS
  nonumber = nonumber
  NoNumber <- nonumber
  ChunkArgs <- MCChunkArgs
  MaxFileSize = 5
  ReadBufferSize = 2
  ShortReads = TRUE
  MediumFailures = TRUE
  OpenFaults = TRUE
  HeapFree = 3
  MaxHandshakes = 6
SPECIFICATION Spec
INVARIANT TypeOK
INVARIANT OutputIsFile
INVARIANT ChunkHandshakesBounded
PROPERTY ReturnsUnlessMediumLost
\* Every behaviour ends with the handler returned, the system halted, or
\* read_chunks waiting for a handshake at the cap.
CHECK_DEADLOCK FALSE
