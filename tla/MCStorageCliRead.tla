--------------------------- MODULE MCStorageCliRead ---------------------------
(* Model-checking instance of StorageCliRead: files of up to 5 bytes, a    *)
(* 2-byte read buffer and chunk sizes 0..4, so a file needs several reads *)
(* and chunks both divide and do not divide its length; HeapFree in each  *)
(* .cfg says which chunk sizes fit in the heap.                         *)
EXTENDS StorageCliRead

CONSTANTS nonumber

MCChunkArgs == 0..4
=============================================================================
