--------------------------- MODULE BufferedAppend ---------------------------
(***************************************************************************)
(* What a write session of the storage console promises, whatever its      *)
(* buffering: bytes are offered to the session one after another (or, for *)
(* a one-shot transfer, all at once); what reaches the file only grows and *)
(* is always a prefix of what was offered; and when the session ends with  *)
(* less stored than offered, it reports an error.  A session may also be   *)
(* refused before it opens (bad arguments, open failure): nothing stored.  *)
(*                                                                         *)
(* StorageCliWrite refines this module (see WriteRefinesBufferedAppend).   *)
(***************************************************************************)
EXTENDS Sequences, SequencesExt

CONSTANT Byte

VARIABLES
  offered,  \* bytes handed to the session, in order
  stored,   \* bytes appended to the file, in order
  status,   \* "idle" | "open" | "done"
  lost      \* an error was reported

vars == <<offered, stored, status, lost>>

Init ==
  /\ offered = <<>>
  /\ stored = <<>>
  /\ status = "idle"
  /\ lost = FALSE

\* The file grows only by appending, and never past what was offered.
StoredGrows ==
  /\ IsPrefix(stored, stored')
  /\ IsPrefix(stored', offered')

\* A session that ends with part of its data not stored says so.
NoSilentLoss == stored' # offered' => lost'

Open ==
  /\ status = "idle" /\ status' = "open"
  /\ UNCHANGED <<offered, stored, lost>>

Refuse ==
  /\ status = "idle" /\ status' = "done"
  /\ UNCHANGED <<offered, stored, lost>>

\* One more byte is offered; any part of the backlog may be stored.
Put ==
  /\ status = "open" /\ status' = "open"
  /\ \E b \in Byte : offered' = Append(offered, b)
  /\ StoredGrows
  /\ UNCHANGED lost

\* The session ends, possibly taking one last byte with it.
Close ==
  /\ status = "open" /\ status' = "done"
  /\ \/ offered' = offered
     \/ \E b \in Byte : offered' = Append(offered, b)
  /\ StoredGrows
  /\ NoSilentLoss

\* A one-shot transfer: open, take a block, store some of it, end.
Transfer ==
  /\ status = "idle" /\ status' = "done"
  /\ offered' \in Seq(Byte)
  /\ StoredGrows
  /\ NoSilentLoss

Next == Open \/ Refuse \/ Put \/ Close \/ Transfer

Spec == Init /\ [][Next]_vars

=============================================================================
