------------------------------ MODULE Migration ------------------------------
(***************************************************************************)
(* The migration engine behind `storage migrate <src> <dst>`               *)
(* (storage_common_migrate, in the storage service; modelled from the      *)
(* spec, section 4.4).  The entries of the source directory are moved one  *)
(* at a time into the destination.  An entry whose name is taken there is  *)
(* placed under the first free candidate of `name`, `name_1`, `name_2`,    *)
(* ...; a directory moves with its whole subtree under the name it gets.   *)
(* A move may fail; the engine then stops and reports one error, leaving   *)
(* what was already moved in place (no rollback).                          *)
(*                                                                         *)
(* A name is a sequence: a base atom followed by the numeric suffixes      *)
(* appended to it, so `foo_1` is <<"foo", 1>> whether the user typed it or *)
(* the engine derived it, and `foo_1` renamed again is <<"foo", 1, 1>>.    *)
(***************************************************************************)
EXTENDS Naturals, Sequences, FiniteSets

CONSTANTS
  SourceNames,  \* names that may occur in the source directory
  DestNames,    \* names that may already occur in the destination
  MoveFaults,   \* a single move may fail
  Old           \* the content of an entry that was in the destination before

ASSUME MoveFaults \in BOOLEAN /\ Old \notin SourceNames

VARIABLES
  src,      \* source entries not yet moved: name -> content
  dest,     \* destination entries: name -> content
  origin,   \* history: the names in the source before the migration
  pc        \* "move" | "done" | "failed"

vars == <<src, dest, origin, pc>>

\* The content of an entry is the source name it came from, or Old (a
\* directory's subtree moves with it, so its content is named by its entry).
Content == SourceNames \cup {Old}

\* Mutant of Candidate: the suffix is written over the base name.
CandidateOverwritten(name, k) == IF k = 0 THEN name ELSE <<k>>

\* The k-th candidate for a name: the name itself, then name_k.
Candidate(name, k) == IF k = 0 THEN name ELSE Append(name, k)

RECURSIVE FreeFrom(_, _, _)
\* The first candidate from the k-th on that is not taken.  It terminates
\* because taken is finite: at most Cardinality(taken) candidates are taken.
FreeFrom(name, k, taken) ==
  IF Candidate(name, k) \notin taken THEN Candidate(name, k)
  ELSE FreeFrom(name, k + 1, taken)

\* The name an entry gets: retry candidates until an unused one is found.
FreeName(name, taken) == FreeFrom(name, 0, taken)

\* The names in use at the destination when an entry is placed.
Taken == DOMAIN dest

\* A name: a base atom followed by positive numeric suffixes.
Bases == {Head(n) : n \in SourceNames \cup DestNames}
IsName(m) ==
  /\ m # <<>> /\ Head(m) \in Bases
  /\ \A i \in 2..Len(m) : m[i] \in Nat \ {0}

TypeOK ==
  /\ \A m \in DOMAIN dest : IsName(m)
  /\ DOMAIN src \subseteq origin /\ origin \subseteq SourceNames
  /\ \A n \in DOMAIN src : src[n] = n
  /\ \A n \in DOMAIN dest : dest[n] \in Content
  /\ pc \in {"move", "done", "failed"}

Init ==
  /\ \E names \in SUBSET SourceNames : src = [n \in names |-> n]
  /\ \E names \in SUBSET DestNames : dest = [n \in names |-> Old]
  /\ origin = DOMAIN src
  /\ pc = "move"

\* Move one source entry (a file, or a directory with its subtree) to the
\* first free name at the destination.
MoveEntry(n) ==
  LET target == FreeName(n, Taken) IN
  /\ pc = "move"
  /\ dest' = [m \in DOMAIN dest \cup {target} |->
                IF m = target THEN src[n] ELSE dest[m]]
  /\ src' = [m \in DOMAIN src \ {n} |-> src[m]]
  /\ UNCHANGED <<origin, pc>>

\* A move fails: the engine stops and reports the error; entries already
\* moved stay moved, the rest stay in the source.
MoveFails ==
  /\ pc = "move" /\ MoveFaults /\ DOMAIN src # {}
  /\ pc' = "failed"
  /\ UNCHANGED <<src, dest, origin>>

\* Every entry moved: the (now empty) source directory is removed.
Finish ==
  /\ pc = "move" /\ DOMAIN src = {}
  /\ pc' = "done"
  /\ UNCHANGED <<src, dest, origin>>

Next ==
  \/ \E n \in DOMAIN src : MoveEntry(n)
  \/ MoveFails
  \/ Finish

Spec == Init /\ [][Next]_vars

=============================================================================
