------------------------------ MODULE MCStorageCli ------------------------------
(* Model-checking instance of StorageCli: one unknown verb and four        *)
(* console answers ('y', 'Y', 'n' and another).                           *)
EXTENDS StorageCli

CONSTANTS notoken

MCOtherVerbs == {"foobar"}

MCAnswers == {"y", "Y", "n", "x"}
=============================================================================
