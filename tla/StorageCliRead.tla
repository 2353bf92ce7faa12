---------------------------- MODULE StorageCliRead ----------------------------
(***************************************************************************)
(* The two read protocols of storage_cli.c:                                *)
(*   read        (storage_cli_read): print the size, then read into a      *)
(*               buffer and print until storage_file_read returns 0;       *)
(*   read_chunks (storage_cli_read_chunks): parse a chunk size, print the  *)
(*               size, then while file_size > 0 wait for one console byte  *)
(*               (the readiness handshake), read up to a chunk, print it   *)
(*               and subtract what was read from file_size.                *)
(*                                                                         *)
(* The file holds the bytes 1..file_len (a byte is named by its offset, so *)
(* order, loss and duplication are visible).  The storage may return short *)
(* reads, and the medium may fail (SD card removed, I/O error), after      *)
(* which every read returns 0 bytes.                                       *)
(***************************************************************************)
EXTENDS Naturals, Sequences, SequencesExt

CONSTANTS
  MaxFileSize,    \* bound: largest file
  ReadBufferSize, \* buffer_size of storage_cli_read (128 in the code)
  ChunkArgs,      \* the values sscanf("%lu") may produce from <args>
  NoNumber,       \* <args> that sscanf cannot parse (parsed_count != 1)
  ShortReads,     \* storage_file_read may return fewer bytes than available
  MediumFailures, \* the medium may fail while the file is open
  OpenFaults,     \* storage_file_open may fail
  HeapFree,       \* bound: the largest block malloc can still provide
  MaxHandshakes   \* bound: handshakes counted (read_chunks may spin)

ASSUME /\ MaxFileSize \in Nat /\ ReadBufferSize \in Nat \ {0}
       /\ ChunkArgs \subseteq Nat /\ NoNumber \notin Nat
       /\ ShortReads \in BOOLEAN /\ MediumFailures \in BOOLEAN
       /\ OpenFaults \in BOOLEAN
       \* the fixed 128-byte buffer of read is always available
       /\ HeapFree \in Nat /\ ReadBufferSize <= HeapFree
       \* a transfer that makes progress never reaches the cap
       /\ MaxHandshakes \in Nat /\ MaxFileSize < MaxHandshakes

VARIABLES
  cmd,         \* "read" | "read_chunks"
  chunk,       \* buffer_size parsed from <args> (read_chunks)
  file_len,    \* size of the file on the medium
  pc,          \* "start" | "loop" | "done" | "halted" (system crash)
  handle_open, \* the File handle is open
  opened,      \* storage_file_open succeeded
  error,       \* a storage error or usage text was printed
  medium_ok,   \* the medium still serves reads
  pos,         \* the file's read position
  file_size,   \* uint64_t file_size: bytes read_chunks still expects
  out,         \* bytes printed to the console, in order
  handshakes   \* console bytes consumed by cli_getc (read_chunks)

vars == <<cmd, chunk, file_len, pc, handle_open, opened, error, medium_ok,
          pos, file_size, out, handshakes>>

Content == [i \in 1..file_len |-> i]

\* The counts storage_file_read may return when asked for n bytes.
ReadResults(n) ==
  LET avail == IF n < file_len - pos THEN n ELSE file_len - pos IN
  IF ~medium_ok THEN {0}
  ELSE IF ShortReads /\ avail > 0 THEN 1..avail ELSE {avail}

\* storage_file_read of k bytes: print them and advance the position.
Emit(k) ==
  /\ out' = out \o SubSeq(Content, pos + 1, pos + k)
  /\ pos' = pos + k

\* Leave the handler: storage_file_close, storage_file_free, return.
Close ==
  /\ pc' = "done"
  /\ handle_open' = FALSE

TypeOK ==
  /\ cmd \in {"read", "read_chunks"}
  /\ chunk \in ChunkArgs \cup {NoNumber}
  /\ file_len \in 0..MaxFileSize
  /\ pc \in {"start", "loop", "done", "halted"}
  /\ {handle_open, opened, error, medium_ok} \subseteq BOOLEAN
  /\ pos \in 0..file_len
  /\ file_size \in 0..MaxFileSize
  /\ out \in Seq(1..MaxFileSize)
  /\ handshakes \in 0..MaxHandshakes

Init ==
  /\ cmd \in {"read", "read_chunks"}
  /\ chunk \in ChunkArgs \cup {NoNumber}
  /\ file_len \in 0..MaxFileSize
  /\ pc = "start"
  /\ handle_open = FALSE
  /\ opened = FALSE
  /\ error = FALSE
  /\ medium_ok = TRUE
  /\ pos = 0
  /\ file_size = 0
  /\ out = <<>>
  /\ handshakes = 0

\* storage_file_open(FSAM_READ, FSOM_OPEN_EXISTING) failing: print the
\* error, close the unopened file, return.
OpenFailed ==
  /\ OpenFaults
  /\ error' = TRUE
  /\ Close
  /\ UNCHANGED <<opened, medium_ok, pos, file_size, out>>

\* storage_cli_read up to the loop: open, print the size.
ReadStart ==
  /\ pc = "start" /\ cmd = "read"
  /\ \/ /\ pc' = "loop"
        /\ handle_open' = TRUE
        /\ opened' = TRUE
        /\ UNCHANGED <<error, medium_ok, pos, file_size, out>>
     \/ OpenFailed
  /\ UNCHANGED <<cmd, chunk, file_len, handshakes>>

\* One pass of the do/while: read up to buffer_size, print what was read;
\* a read of 0 ends the loop (the file's error state is never inspected).
ReadStep ==
  /\ pc = "loop" /\ cmd = "read"
  /\ \E read_size \in ReadResults(ReadBufferSize) :
       /\ Emit(read_size)
       /\ IF read_size = 0 THEN Close ELSE UNCHANGED <<pc, handle_open>>
  /\ UNCHANGED <<cmd, chunk, file_len, opened, error, medium_ok, file_size,
                 handshakes>>

\* malloc(n) returns a block; the firmware's allocator halts the system on
\* a request it cannot satisfy (a NULL result would be dereferenced anyway).
Allocates(n) == n <= HeapFree

\* Mutant of EntersLoop: the loop written as do/while, so one handshake
\* and read happen even for an empty file.
EntersLoopAlways(remaining) == TRUE

\* while(file_size > 0), tested before the first iteration.
EntersLoop(remaining) == remaining > 0

\* storage_cli_read_chunks up to the loop: parse the chunk size (usage on
\* failure, before opening), open, read file_size and print it; a nonzero
\* chunk size is malloc'ed (even for an empty file); a zero chunk size or
\* an empty file skips the loop.
ReadChunksStart ==
  /\ pc = "start" /\ cmd = "read_chunks"
  /\ \/ /\ chunk = NoNumber
        /\ error' = TRUE
        /\ Close
        /\ UNCHANGED <<opened, medium_ok, pos, file_size, out>>
     \/ /\ chunk # NoNumber
        /\ \/ /\ opened' = TRUE
              /\ file_size' = file_len
              /\ CASE chunk = 0                      -> Close
                    [] ~Allocates(chunk)              -> pc' = "halted"
                                                         /\ handle_open' = TRUE
                    [] ~EntersLoop(file_len)          -> Close
                    [] OTHER                          -> pc' = "loop"
                                                         /\ handle_open' = TRUE
              /\ UNCHANGED <<error, medium_ok, pos, out>>
           \/ OpenFailed
  /\ UNCHANGED <<cmd, chunk, file_len, handshakes>>

\* Mutant of FileSizeAfterRead: the requested chunk is subtracted instead
\* of the bytes actually read (uint64_t file_size underflows).
FileSizeMinusChunk(remaining, read_size) == remaining - chunk

\* Mutant of FileSizeAfterRead: the requested chunk is subtracted, and the
\* loop stops at the first chunk that reaches the end.
FileSizeMinusChunkClamped(remaining, read_size) ==
  IF remaining > chunk THEN remaining - chunk ELSE 0

\* Mutant of FileSizeAfterRead: file_size is never decremented.
FileSizeNotDecremented(remaining, read_size) == remaining

\* file_size -= read_size
FileSizeAfterRead(remaining, read_size) == remaining - read_size

\* One iteration of while(file_size > 0): print "Ready?", cli_getc (the
\* handshake), read up to chunk bytes, print them, subtract what was read.
ReadChunksStep ==
  /\ pc = "loop" /\ cmd = "read_chunks"
  /\ handshakes < MaxHandshakes
  /\ handshakes' = handshakes + 1
  /\ \E read_size \in ReadResults(chunk) :
       /\ Emit(read_size)
       /\ file_size' = FileSizeAfterRead(file_size, read_size)
       /\ IF file_size' = 0 THEN Close ELSE UNCHANGED <<pc, handle_open>>
  /\ UNCHANGED <<cmd, chunk, file_len, opened, error, medium_ok>>

\* Environment: the medium fails while the file is open (the card is
\* removed, or another task unmounts or formats it -- the command is
\* registered parallel-safe).  Not fair: it may never happen.
MediumFails ==
  /\ MediumFailures /\ medium_ok /\ handle_open
  /\ medium_ok' = FALSE
  /\ UNCHANGED <<cmd, chunk, file_len, pc, handle_open, opened, error, pos,
                 file_size, out, handshakes>>

Handler == ReadStart \/ ReadStep \/ ReadChunksStart \/ ReadChunksStep

Next == Handler \/ MediumFails

\* The handler runs to completion once started; read_chunks additionally
\* relies on the console answering every "Ready?" (the host driving it).
Spec == Init /\ [][Next]_vars /\ WF_vars(Handler)

-----------------------------------------------------------------------------
(***************************************************************************)
(* Properties                                                              *)
(***************************************************************************)

\* The printed data is the file, in order, never duplicated; once either
\* handler has returned after a successful open of a readable medium, all
\* of it was printed (except read_chunks with a chunk size of 0, which by
\* design prints only the size).
OutputIsFile ==
  /\ IsPrefix(out, Content)
  /\ (pc = "done" /\ opened /\ medium_ok /\ ~(cmd = "read_chunks" /\ chunk = 0))
        => out = Content

\* The spec's chunk count: read_chunks with chunk size n > 0 that returns
\* from a healthy medium took between ceil(L/n) handshakes (every read
\* full) and L (every read one byte) -- never one for an empty file, and
\* never one that yielded nothing.
ChunkHandshakesBounded ==
  (cmd = "read_chunks" /\ pc = "done" /\ opened /\ medium_ok
     /\ chunk \notin {0, NoNumber})
    => (file_len + chunk - 1) \div chunk <= handshakes /\ handshakes <= file_len

\* Both handlers return: the read loop and the handshake loop end.
HandlerTerminates == <>(pc = "done")

\* Both handlers come to an end whatever the medium does -- they return,
\* or the system halts on the chunk buffer's malloc -- except read_chunks
\* after the medium failed, whose handshake loop then never ends (read's
\* loop ends on the first empty read).
ReturnsUnlessMediumLost ==
  <>(pc \in {"done", "halted"} \/ (cmd = "read_chunks" /\ ~medium_ok))

\* Storage errors are reported (spec, error handling): when `read` returns
\* having printed less than the whole file, a storage error was printed.
ReadReportsTruncation ==
  (cmd = "read" /\ pc = "done" /\ opened /\ out # Content) => error

=============================================================================
