--------------------------- MODULE StorageCliListing ---------------------------
(***************************************************************************)
(* The directory loops of `storage list <path>` (storage_cli_list) and     *)
(* `storage tree <path>` (storage_cli_tree) for a real path: open a        *)
(* cursor (storage_dir_open / dir_walk_open; on failure print the error),  *)
(* then while the cursor yields an entry print "[D] name" or              *)
(* "[F] name <size>b", and print "Empty" when it yielded none.  The two    *)
(* loops have the same control; they differ in the cursor (one directory,  *)
(* or the depth-first walk of dir_walk), which is not under src/ -- here   *)
(* the cursor is the sequence of entries it yields, in its order.          *)
(*                                                                         *)
(* A read may fail (storage_dir_read returns false, dir_walk_read returns  *)
(* DirWalkError); the loop ends as if the cursor were exhausted.  A file   *)
(* size is a uint64_t printed through a (uint32_t) cast and %lu.           *)
(***************************************************************************)
EXTENDS Naturals, Sequences, SequencesExt

CONSTANTS
  MaxEntries, \* bound: entries the cursor yields
  Sizes,      \* file sizes on the medium
  SizeWidth,  \* width of the cast the size is printed through (32)
  OpenFaults, \* the cursor may fail to open
  ReadFaults  \* a read of the cursor may fail

ASSUME /\ MaxEntries \in Nat /\ Sizes \subseteq Nat /\ SizeWidth \in Nat
       /\ OpenFaults \in BOOLEAN /\ ReadFaults \in BOOLEAN

\* What the cursor yields: a directory, or a file with its size.
Entry == [dir : {TRUE}, size : {0}] \cup [dir : {FALSE}, size : Sizes]

\* A printed line: an entry (its kind, which entry, the size shown), the
\* "Empty" indicator, or a storage error.
Line == [kind : {"D", "F", "Empty", "Error"}, id : Nat, size : 0..(2^SizeWidth - 1)]

EmptyLine == [kind |-> "Empty", id |-> 0, size |-> 0]
ErrorLine == [kind |-> "Error", id |-> 0, size |-> 0]

VARIABLES
  entries,   \* the entries the cursor yields, in order
  pc,        \* "open" | "loop" | "done"
  pos,       \* entries read so far
  read_done, \* bool read_done
  faulted,   \* the loop ended on a failed read
  out        \* lines printed, in order

vars == <<entries, pc, pos, read_done, faulted, out>>

TypeOK ==
  /\ entries \in Seq(Entry) /\ Len(entries) <= MaxEntries
  /\ pc \in {"open", "loop", "done"}
  /\ pos \in 0..Len(entries)
  /\ read_done \in BOOLEAN /\ faulted \in BOOLEAN
  /\ out \in Seq(Line)

Init ==
  /\ entries \in UNION {[1..n -> Entry] : n \in 0..MaxEntries}
  /\ pc = "open"
  /\ pos = 0
  /\ read_done = FALSE
  /\ faulted = FALSE
  /\ out = <<>>

\* Mutant of PrintedSize: the uint64_t size passed to %lu without the cast.
PrintedSizeUncast(size) == size

\* (uint32_t)(fileinfo.size) printed with %lu.
PrintedSize(size) == size % (2^SizeWidth)

\* printf("\t[D] %s") or printf("\t[F] %s %lub") for the i-th entry.
EntryLine(i) ==
  IF entries[i].dir THEN [kind |-> "D", id |-> i, size |-> 0]
  ELSE [kind |-> "F", id |-> i, size |-> PrintedSize(entries[i].size)]

\* storage_dir_open / dir_walk_open; on failure print the storage error
\* and skip the loop.
OpenCursor ==
  /\ pc = "open"
  /\ \/ pc' = "loop" /\ UNCHANGED out
     \/ OpenFaults /\ pc' = "done" /\ out' = <<ErrorLine>>
  /\ UNCHANGED <<entries, pos, read_done, faulted>>

\* The cursor yields an entry: read_done = true, print it.
ReadEntry ==
  /\ pc = "loop" /\ pos < Len(entries)
  /\ pos' = pos + 1
  /\ read_done' = TRUE
  /\ out' = Append(out, EntryLine(pos + 1))
  /\ UNCHANGED <<entries, pc, faulted>>

\* Mutant of ReadEnd's indicator: printed whenever the last read found
\* nothing, ignoring read_done.
EmptyIndicatorUnguarded(done) == <<EmptyLine>>

\* if(!read_done) printf("\tEmpty").
EmptyIndicator(done) == IF done THEN <<>> ELSE <<EmptyLine>>

\* The cursor is exhausted, or the read fails: leave the loop, print the
\* indicator, close.
ReadEnd ==
  /\ pc = "loop"
  /\ \/ pos = Len(entries) /\ UNCHANGED faulted
     \/ ReadFaults /\ pos < Len(entries) /\ faulted' = TRUE
  /\ out' = out \o EmptyIndicator(read_done)
  /\ pc' = "done"
  /\ UNCHANGED <<entries, pos, read_done>>

Next == OpenCursor \/ ReadEntry \/ ReadEnd

Spec == Init /\ [][Next]_vars

-----------------------------------------------------------------------------
(***************************************************************************)
(* Properties                                                              *)
(***************************************************************************)

Listed == SelectSeq(out, LAMBDA l : l.kind \in {"D", "F"})

\* The listing is the directory: the entries printed are the cursor's
\* entries, in its order, once each, with the right [D]/[F] tag; "Empty"
\* appears only alone, and a listing that ended without a failure shows
\* every entry, or "Empty" exactly when there were none.
ListingFaithful ==
  /\ \A i \in 1..Len(Listed) :
       Listed[i].id = i /\ (Listed[i].kind = "D") = entries[i].dir
  /\ Contains(out, EmptyLine) => out = <<EmptyLine>>
  /\ (pc = "done" /\ out # <<ErrorLine>> /\ ~faulted) =>
       /\ Len(Listed) = Len(entries)
       /\ (out = <<EmptyLine>>) = (entries = <<>>)

\* The spec (tree walker test): a file is listed with its exact byte size.
ListedSizesExact ==
  \A i \in 1..Len(Listed) :
    Listed[i].kind = "F" => Listed[i].size = entries[Listed[i].id].size

=============================================================================
