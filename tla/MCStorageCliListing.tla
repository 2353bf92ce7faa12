------------------------- MODULE MCStorageCliListing -------------------------
(* Model-checking instance of StorageCliListing: up to four entries; file *)
(* sizes 1 and 4 printed through a 2-bit cast (32 bits in the code), so   *)
(* 4 plays a file of 4 GiB or more.                                       *)
EXTENDS StorageCliListing

MCSizes == {1, 4}
=============================================================================
