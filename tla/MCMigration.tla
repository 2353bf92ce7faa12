------------------------------ MODULE MCMigration ------------------------------
(* Model-checking instance of Migration: two bases; the source may hold    *)
(* foo, foo_1, foo_2 (names that are also derived candidates of foo) and *)
(* bar; the destination may hold foo, foo_1, foo_2, bar and bar_1, so a    *)
(* moved entry can collide with an old entry, with a derived name, or     *)
(* three times (foo -> foo_3), and the two bases' searches interleave.    *)
EXTENDS Migration

CONSTANTS foo, bar

MCSourceNames == {<<foo>>, <<foo, 1>>, <<foo, 2>>, <<bar>>}

MCDestNames == {<<foo>>, <<foo, 1>>, <<foo, 2>>, <<bar>>, <<bar, 1>>}
=============================================================================
