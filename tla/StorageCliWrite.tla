--------------------------- MODULE StorageCliWrite ---------------------------
(***************************************************************************)
(* The two write protocols of storage_cli.c: write-until-cancel of         *)
(* `storage write <path>` (storage_cli_write) and the single chunk of      *)
(* `storage write_chunk <path> <size>` (storage_cli_write_chunk).          *)
(*                                                                         *)
(* The handler opens the file for append, then loops: read one symbol      *)
(* from the console (cli_getc, the only point where it waits), store it at *)
(* buffer[read_index % buffer_size], echo it, advance read_index, and      *)
(* flush the whole buffer when the cursor wraps.  Ctrl+C (ETX) flushes the *)
(* partial buffer and ends the session -- but only when that partial      *)
(* buffer is non-empty; otherwise the code falls through and stores ETX   *)
(* as data.  One loop iteration is one atomic step: nothing else runs      *)
(* between the cli_getc return and the next cli_getc.                      *)
(*                                                                         *)
(* Data is abstract: a byte is a model value of Data, ETX, or Junk (the    *)
(* uninitialised content malloc leaves in the buffer).  storage_file_write *)
(* may write fewer bytes than asked when WriteFaults is TRUE.               *)
(*                                                                         *)
(* write_chunk parses the size before opening, opens for append, prints    *)
(* "Ready", takes one cli_read of up to size bytes (short only when the    *)
(* console session ends) and writes what it got.                           *)
(***************************************************************************)
EXTENDS Naturals, Sequences, SequencesExt

CONSTANTS
  Data,        \* console symbols other than ETX
  ETX,         \* CliSymbolAsciiETX, Ctrl+C
  Junk,        \* uninitialised heap byte left by malloc
  BufferSize,  \* buffer_size (512 in the code)
  IndexWidth,  \* bit width of read_index (uint32_t in the code)
  MaxInput,    \* bound: symbols the user types in one session
  WriteFaults, \* storage_file_write may write short
  OpenFaults,  \* storage_file_open may fail
  ChunkArgs,   \* the values sscanf("%lu") may produce from <args>
  NoNumber,    \* <args> that sscanf cannot parse (parsed_count != 1)
  ShortConsoleReads, \* cli_read may return fewer bytes than asked
  HeapFree     \* bound: the largest block malloc can still provide

ASSUME /\ ETX \notin Data /\ Junk \notin Data \cup {ETX}
       /\ BufferSize \in Nat \ {0}
       /\ IndexWidth \in Nat
       \* 512 divides 2^32: the modulo cursor survives read_index wrapping
       /\ (2^IndexWidth) % BufferSize = 0
       /\ MaxInput \in Nat
       /\ WriteFaults \in BOOLEAN /\ OpenFaults \in BOOLEAN
       /\ ChunkArgs \subseteq Nat /\ NoNumber \notin Nat
       /\ ShortConsoleReads \in BOOLEAN
       \* the fixed 512-byte buffer of write is always available
       /\ HeapFree \in Nat /\ BufferSize <= HeapFree

Symbol == Data \cup {ETX}
Byte   == Symbol \cup {Junk}

VARIABLES
  cmd,         \* "write" | "write_chunk"
  chunk,       \* buffer_size parsed from <args> (write_chunk)
  pc,          \* "open" | "loop" | "done" | "halted" (system crash)
  opened,      \* storage_file_open succeeded
  handle_open, \* the File handle is open (not yet storage_file_close'd)
  buffer,      \* the malloc'ed buffer, indices 0..BufferSize-1
  read_index,  \* uint32_t read_index
  file,        \* bytes appended to the file by this session
  write_error, \* a short storage_file_write was reported
  typed        \* history: every symbol the console delivered, in order

vars == <<cmd, chunk, pc, opened, handle_open, buffer, read_index, file, write_error, typed>>

IndexMod == 2^IndexWidth

\* The first n bytes of the buffer, as storage_file_write(file, buffer, n) sees them.
BufferPrefix(buf, n) == [i \in 1..n |-> buf[i - 1]]

\* Bytes held in the buffer and not yet flushed.
Pending == BufferPrefix(buffer, read_index % BufferSize)

\* The byte counts storage_file_write may return when asked to write n.
WriteResults(n) == IF WriteFaults THEN 0..n ELSE {n}

TypeOK ==
  /\ cmd \in {"write", "write_chunk"}
  /\ chunk \in ChunkArgs \cup {NoNumber}
  /\ pc \in {"open", "loop", "done", "halted"}
  /\ opened \in BOOLEAN /\ handle_open \in BOOLEAN /\ write_error \in BOOLEAN
  /\ buffer \in [0..(BufferSize - 1) -> Byte]
  /\ read_index \in 0..(IndexMod - 1)
  /\ file \in Seq(Byte)
  /\ typed \in Seq(Symbol)

Init ==
  /\ \/ cmd = "write" /\ chunk = NoNumber
     \/ cmd = "write_chunk" /\ chunk \in ChunkArgs \cup {NoNumber}
  /\ pc = "open"
  /\ opened = FALSE
  /\ handle_open = FALSE
  /\ buffer = [i \in 0..(BufferSize - 1) |-> Junk]
  /\ read_index = 0
  /\ file = <<>>
  /\ write_error = FALSE
  /\ typed = <<>>

\* storage_file_open(FSAM_WRITE, FSOM_OPEN_APPEND); on failure print the
\* error, close the (unopened) file and return.
OpenFile ==
  /\ pc = "open" /\ cmd = "write"
  /\ \/ /\ pc' = "loop"
        /\ opened' = TRUE
        /\ handle_open' = TRUE
     \/ /\ OpenFaults
        /\ pc' = "done"
        /\ UNCHANGED <<opened, handle_open>>
  /\ UNCHANGED <<cmd, chunk, buffer, read_index, file, write_error, typed>>

\* Leaving the loop: storage_file_close and return.
Finish ==
  /\ pc' = "done"
  /\ handle_open' = FALSE

\* Mutant of CancelWriteSize: the final flush writes the whole buffer.
CancelWriteSizeWhole == BufferSize

\* write_size = read_index % buffer_size: the partial remainder at Ctrl+C.
CancelWriteSize == read_index % BufferSize

\* Mutant of CancelWriteFailed: the result of the final write is ignored.
CancelWriteFailedIgnored(written, write_size) == FALSE

\* written_size != write_size: the final flush came up short.
CancelWriteFailed(written, write_size) == written # write_size

\* ETX with a non-empty partial buffer: flush write_size bytes, report a
\* short write, break.
CancelFlush(symbol) ==
  LET write_size == CancelWriteSize IN
  /\ symbol = ETX
  /\ write_size > 0
  /\ \E written \in WriteResults(write_size) :
       /\ file' = file \o BufferPrefix(buffer, written)
       /\ write_error' = CancelWriteFailed(written, write_size)
  /\ Finish
  /\ UNCHANGED <<cmd, chunk, opened, buffer, read_index>>

\* Mutant of NextIndex: read_index advanced without the uint32_t wrap.
NextIndexUnwrapped(i) == i + 1

\* read_index++ on a uint32_t read_index.
NextIndex(i) == (i + 1) % IndexMod

\* Any other symbol (including ETX when the partial buffer is empty):
\* store it, advance the cursor, and flush the full buffer when the cursor
\* wraps; a short full-buffer write is reported and ends the loop.
StoreSymbol(symbol) ==
  LET slot    == read_index % BufferSize
      buffer1 == [buffer EXCEPT ![slot] = symbol]
      index1  == NextIndex(read_index)
  IN
  /\ ~(symbol = ETX /\ slot > 0)
  /\ buffer' = buffer1
  /\ read_index' = index1
  /\ IF index1 % BufferSize = 0
       THEN \E written \in WriteResults(BufferSize) :
              /\ file' = file \o BufferPrefix(buffer1, written)
              /\ IF written # BufferSize
                   THEN write_error' = TRUE /\ Finish
                   ELSE UNCHANGED <<write_error, pc, handle_open>>
       ELSE UNCHANGED <<file, write_error, pc, handle_open>>
  /\ UNCHANGED <<cmd, chunk, opened>>

\* One iteration of while(true): cli_getc returns a symbol, then the body.
GetSymbol(symbol) ==
  /\ pc = "loop" /\ cmd = "write"
  /\ Len(typed) < MaxInput
  /\ typed' = Append(typed, symbol)
  /\ \/ CancelFlush(symbol)
     \/ StoreSymbol(symbol)

\* The byte counts cli_read may return when asked for n bytes.
ConsoleReadResults(n) == IF ShortConsoleReads THEN 0..n ELSE {n}

\* written_size != buffer_size: the check compares with the requested size.
ChunkWriteFailed(written, read_bytes) == written # chunk

\* malloc(n) returns a block.  The firmware's allocator never returns NULL:
\* a request it cannot satisfy halts the system (and the code would
\* dereference a NULL result anyway), so the only other outcome is a crash.
Allocates(n) == n <= HeapFree

\* storage_cli_write_chunk, whole: usage when <args> is not a number (the
\* file is never opened); otherwise open for append, print "Ready", and
\* for a nonzero size malloc size bytes, read up to size bytes from the
\* console, write them, and report when the write does not match; close.
WriteChunk ==
  /\ pc = "open" /\ cmd = "write_chunk"
  /\ \/ /\ chunk = NoNumber
        /\ Finish
        /\ UNCHANGED <<opened, file, write_error, typed>>
     \/ /\ chunk # NoNumber /\ OpenFaults
        /\ Finish
        /\ UNCHANGED <<opened, file, write_error, typed>>
     \/ /\ chunk # NoNumber /\ ~Allocates(chunk)
        /\ opened' = TRUE
        /\ pc' = "halted"
        /\ handle_open' = TRUE
        /\ UNCHANGED <<file, write_error, typed>>
     \/ /\ chunk # NoNumber /\ Allocates(chunk)
        /\ opened' = TRUE
        /\ Finish
        /\ \E read_bytes \in ConsoleReadResults(chunk) :
           \E received \in [1..read_bytes -> Data] :
           \E written \in WriteResults(read_bytes) :
             /\ typed' = received
             /\ file' = SubSeq(received, 1, written)
             /\ write_error' = (chunk > 0 /\ ChunkWriteFailed(written, read_bytes))
  /\ UNCHANGED <<cmd, chunk, buffer, read_index>>

Next ==
  \/ OpenFile
  \/ \E s \in Symbol : GetSymbol(s)
  \/ WriteChunk

Spec == Init /\ [][Next]_vars

-----------------------------------------------------------------------------
(***************************************************************************)
(* Properties                                                              *)
(***************************************************************************)

\* No loss, no duplication, no stale or uninitialised bytes: what reached
\* the file is always a prefix of what the user typed; while the loop runs,
\* file ++ pending buffer is exactly what was typed (across full-buffer
\* flushes and read_index wrap-around); and a session that ended without a
\* write error stored everything typed except the terminating Ctrl+C.
FileMatchesInput ==
  cmd = "write" =>
    /\ IsPrefix(file, typed)
    /\ pc = "loop" => file \o Pending = typed
    /\ (pc = "done" /\ opened /\ ~write_error) => file = Front(typed)

\* The spec (write-until-cancel, and its round-trip property): Ctrl+C ends
\* the session, and the file then holds exactly the symbols typed before
\* it, for any count including multiples of the buffer capacity.
CtrlCEndsWrite ==
  (cmd = "write" /\ Contains(typed, ETX)) =>
    /\ pc = "done"
    /\ ~write_error =>
         file = SubSeq(typed, 1, SelectInSeq(typed, LAMBDA s : s = ETX) - 1)

\* The spec (error handling): no failure is fatal to the system except a
\* confirmed format or factory reset; a bad chunk size is an argument
\* error.  write_chunk passes the user's size straight to malloc.
ChunkSizeNeverHalts == pc # "halted"

-----------------------------------------------------------------------------
(***************************************************************************)
(* Refinement: both write handlers implement BufferedAppend.  The bytes    *)
(* offered are the console symbols, except the Ctrl+C that ended a write   *)
(* session; the file is the stored sequence; write_error is the report.    *)
(* A handler that crashed before reading anything has accepted nothing.    *)
(***************************************************************************)
Offered ==
  IF pc = "done" /\ typed # <<>> /\ Last(typed) = ETX THEN Front(typed)
  ELSE typed

Status ==
  CASE pc = "open"   -> "idle"
    [] pc = "loop"   -> "open"
    [] pc = "done"   -> "done"
    [] pc = "halted" -> "idle"

AbsWrite == INSTANCE BufferedAppend
              WITH offered <- Offered, stored <- file, status <- Status,
                   lost <- write_error

\* Every behaviour of write and write_chunk is a buffered append session:
\* the file only grows by appending, stays a prefix of the bytes the
\* console delivered, and an ending with bytes not stored is reported
\* (storage_cli_write's flushes and Ctrl+C, write_chunk's one write).
WriteRefinesBufferedAppend == AbsWrite!Spec

=============================================================================
