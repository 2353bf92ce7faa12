-------------------------- MODULE MCStorageCliWrite --------------------------
(* Model-checking instance of StorageCliWrite: a 2-byte buffer and a 2-bit *)
(* read_index, so that full-buffer flushes and the index wrap-around both *)
(* happen (twice) within MaxInput symbols; write_chunk sizes 0..3 against a heap *)
(* that can supply 2 bytes, so one size is larger than the free heap.    *)
EXTENDS StorageCliWrite

CONSTANTS d1, d2, etx, junk, nonumber

MCData == {d1, d2}

MCChunkArgs == 0..3

\* Bound: eight typed symbols cover four buffer wraps and two index wraps.
MCMaxInput == 8

\* Bound for the 4-byte buffer: twelve symbols cover three buffer wraps,
\* an index wrap (3-bit read_index) and partial buffers of 1 to 3 bytes.
MCMaxInputLarge == 12
=============================================================================
