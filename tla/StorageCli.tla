------------------------------- MODULE StorageCli -------------------------------
(***************************************************************************)
(* The console front-end of storage_cli.c: the `storage` command           *)
(* (storage_cli) that parses <cmd> <path> <args> and dispatches to one     *)
(* handler, and the `factory_reset` command.  Commands run one after the   *)
(* other; a handler's storage calls are abstract (each may succeed or      *)
(* fail), while every branch on the path, the arguments and the console   *)
(* answer is kept.  The transfer handlers (read, read_chunks, write,       *)
(* write_chunk) are modelled in StorageCliRead and StorageCliWrite; here   *)
(* only their argument check and their use of the storage record appear.  *)
(*                                                                         *)
(* Two handlers wait for a console byte: format /ext and factory_reset ask *)
(* "(y/n)?" and act only on 'y' or 'Y'.  tree / calls itself on /int and   *)
(* then on /ext.                                                           *)
(***************************************************************************)
EXTENDS Naturals, Sequences

CONSTANTS
  OtherVerbs, \* tokens that are not in the command table
  NoToken,    \* args_read_*_and_trim found no token
  Answers     \* console bytes a user may answer "(y/n)?" with

\* The command table of storage_cli, in order.
Table == <<"info", "format", "list", "tree", "read", "read_chunks", "write",
           "write_chunk", "copy", "remove", "rename", "migrate", "mkdir",
           "md5", "stat", "timestamp">>
Verbs == {Table[i] : i \in DOMAIN Table}

\* STORAGE_INT_PATH_PREFIX, STORAGE_EXT_PATH_PREFIX, STORAGE_ANY_PATH_PREFIX,
\* the root marker, and a path below a volume.
Paths == {"/", "/int", "/ext", "/any", "/ext/dir"}

\* What the trailing <args> hold: a second (probably quoted) path, a
\* decimal number (which also reads as a path), or nothing.
ArgKinds == {"path", "number", "none"}

ASSUME /\ OtherVerbs \cap (Verbs \cup {"factory_reset"}) = {}
       /\ NoToken \notin OtherVerbs \cup Verbs \cup Paths
       /\ {"y", "Y"} \subseteq Answers

\* Console output of a command, abstracted to its kind.
Outputs == {"none", "usage", "error", "ok", "cancelled"}

VARIABLES
  pc,           \* "idle" | "dispatch" | "format_confirm" | "reset_confirm" | "tree_ext"
  verb,         \* the <cmd> token (or "factory_reset")
  line_path,    \* history: the <path> token as typed
  path,         \* the FuriString path (tree "/" rewrites it)
  arg,          \* what <args> holds
  answer,       \* the console byte read by a confirmation
  output,       \* what the command printed last
  record_taken, \* the command opened RECORD_STORAGE
  walked,       \* paths walked by the current tree command, in order
  event         \* the irreversible effect of the last step

vars == <<pc, verb, line_path, path, arg, answer, output, record_taken, walked,
          event>>

Events == {"none", "sd_format", "factory_reset"}

TypeOK ==
  /\ pc \in {"idle", "dispatch", "format_confirm", "reset_confirm", "tree_ext"}
  /\ verb \in Verbs \cup OtherVerbs \cup {"factory_reset", NoToken}
  /\ line_path \in Paths \cup {NoToken}
  /\ path \in Paths \cup {NoToken}
  /\ arg \in ArgKinds
  /\ answer \in Answers \cup {NoToken}
  /\ output \in Outputs
  /\ record_taken \in BOOLEAN
  /\ walked \in Seq(Paths)
  /\ event \in Events

Init ==
  /\ pc = "idle"
  /\ verb = NoToken /\ line_path = NoToken /\ path = NoToken
  /\ arg = "none" /\ answer = NoToken
  /\ output = "none"
  /\ record_taken = FALSE
  /\ walked = <<>>
  /\ event = "none"

\* A command line arrives: `storage <cmd> <path> <args>` or `factory_reset`.
ReadLine ==
  /\ pc = "idle"
  /\ \/ /\ \E v \in Verbs \cup OtherVerbs \cup {NoToken}, p \in Paths \cup {NoToken},
               a \in ArgKinds :
             \* tokens are read left to right: no <path> without <cmd>, no
             \* <args> without <path>
             /\ v = NoToken => p = NoToken
             /\ p = NoToken => a = "none"
             /\ verb' = v /\ path' = p /\ arg' = a
        /\ pc' = "dispatch"
     \/ /\ verb' = "factory_reset" /\ path' = NoToken /\ arg' = "none"
        /\ pc' = "reset_confirm"
  /\ line_path' = path'
  /\ answer' = NoToken
  /\ output' = "none"
  /\ record_taken' = FALSE
  /\ walked' = <<>>
  /\ event' = "none"

\* The handler returns to the console.
Return(out) ==
  /\ pc' = "idle"
  /\ output' = out

\* A storage call (under RECORD_STORAGE) whose FS_Error is printed unless
\* FSE_OK.
StorageCall ==
  /\ record_taken' = TRUE
  /\ \E ok \in BOOLEAN : Return(IF ok THEN "ok" ELSE "error")

Usage == Return("usage")

\* storage_cli_info: opens the record, then /int -> fs_info, /ext -> sd_info,
\* anything else -> usage; closes the record.
Info ==
  /\ verb = "info"
  /\ IF path \in {"/int", "/ext"} THEN StorageCall
     ELSE record_taken' = TRUE /\ Usage
  /\ UNCHANGED <<path, walked, answer, event>>

\* storage_cli_format: /int -> FSE_NOT_IMPLEMENTED; /ext -> ask (y/n)?;
\* anything else -> usage.
Format ==
  /\ verb = "format"
  /\ \/ path = "/int" /\ Return("error")
     \/ path = "/ext" /\ pc' = "format_confirm" /\ UNCHANGED output
     \/ path \notin {"/int", "/ext"} /\ Usage
  /\ UNCHANGED <<path, record_taken, walked, answer, event>>

\* answer == 'y' || answer == 'Y'
Confirmed(c) == c \in {"y", "Y"}

\* The answer to "Formatting SD card ... (y/n)?": 'y' or 'Y' opens the
\* record and formats the SD card; anything else is "Cancelled.".
FormatConfirm ==
  /\ pc = "format_confirm"
  /\ \E c \in Answers :
       /\ answer' = c
       /\ IF Confirmed(c)
            THEN event' = "sd_format" /\ StorageCall
            ELSE Return("cancelled") /\ UNCHANGED <<record_taken, event>>
  /\ UNCHANGED <<verb, line_path, path, arg, walked>>

\* storage_cli_list: "/" prints the three volumes without storage;
\* otherwise dir_open, read every entry ("Empty" when none), close.
List ==
  /\ verb = "list"
  /\ IF path = "/" THEN Return("ok") /\ UNCHANGED record_taken
     ELSE StorageCall
  /\ UNCHANGED <<path, walked, answer, event>>

\* One non-recursive storage_cli_tree: dir_walk over p, under the record.
Walk(p) ==
  /\ walked' = Append(walked, p)
  /\ record_taken' = TRUE

\* storage_cli_tree: "/" sets path to /int and recurses (then to /ext, see
\* TreeExt); any other path is walked directly.
Tree ==
  /\ verb = "tree"
  /\ IF path = "/"
       THEN /\ path' = "/int"
            /\ Walk("/int")
            /\ pc' = "tree_ext"
            /\ UNCHANGED output
       ELSE /\ Walk(path)
            /\ \E ok \in BOOLEAN : Return(IF ok THEN "ok" ELSE "error")
            /\ UNCHANGED path
  /\ UNCHANGED <<answer, event>>

\* Mutant of TreeExt: the second call is given EXT_PATH(""), i.e. "/ext/",
\* where the code uses the prefix "/ext".
TreeExtSlash ==
  /\ pc = "tree_ext"
  /\ path' = "/ext/"
  /\ Walk(path')
  /\ \E ok \in BOOLEAN : Return(IF ok THEN "ok" ELSE "error")
  /\ UNCHANGED <<verb, line_path, arg, answer, event>>

\* tree "/": furi_string_set(path, /ext) and the second recursive call.
TreeExt ==
  /\ pc = "tree_ext"
  /\ path' = "/ext"
  /\ Walk("/ext")
  /\ \E ok \in BOOLEAN : Return(IF ok THEN "ok" ELSE "error")
  /\ UNCHANGED <<verb, line_path, arg, answer, event>>

\* read and write: the transfer protocols of StorageCliRead and
\* StorageCliWrite, which open the record and the file themselves.
Transfer ==
  /\ verb \in {"read", "write"}
  /\ StorageCall
  /\ UNCHANGED <<path, walked, answer, event>>

\* storage_cli_stat: "/" prints "Storage"; a volume prefix reports its
\* fs_info; any other path is stat'ed.  The record is opened first.
Stat ==
  /\ verb = "stat"
  /\ IF path = "/" THEN record_taken' = TRUE /\ Return("ok") ELSE StorageCall
  /\ UNCHANGED <<path, walked, answer, event>>

\* storage_cli_timestamp, storage_cli_remove, storage_cli_mkdir and
\* storage_cli_md5: one storage call on the path; a failure is printed
\* ("Invalid arguments" for timestamp).
Timestamp == verb = "timestamp" /\ StorageCall /\ UNCHANGED <<path, walked, answer, event>>
Remove    == verb = "remove"    /\ StorageCall /\ UNCHANGED <<path, walked, answer, event>>
Mkdir     == verb = "mkdir"     /\ StorageCall /\ UNCHANGED <<path, walked, answer, event>>
Md5       == verb = "md5"       /\ StorageCall /\ UNCHANGED <<path, walked, answer, event>>

\* read_chunks and write_chunk: the size is parsed with sscanf("%lu")
\* after the record is opened; no number -> usage.
Chunked ==
  /\ verb \in {"read_chunks", "write_chunk"}
  /\ IF arg = "number" THEN StorageCall
     ELSE record_taken' = TRUE /\ Usage
  /\ UNCHANGED <<path, walked, answer, event>>

\* copy, rename, migrate: the new path is read from <args> after the
\* record is opened; none -> usage.
TwoPaths ==
  /\ verb \in {"copy", "rename", "migrate"}
  /\ IF arg # "none" THEN StorageCall
     ELSE record_taken' = TRUE /\ Usage
  /\ UNCHANGED <<path, walked, answer, event>>

\* storage_cli: usage when a token is missing or the verb is unknown.
BadLine ==
  /\ verb \notin Verbs \/ path = NoToken
  /\ Usage
  /\ UNCHANGED <<path, record_taken, walked, answer, event>>

\* storage_cli: read the two tokens, look the verb up in the table, run
\* its handler.
Dispatch ==
  /\ pc = "dispatch"
  /\ \/ BadLine
     \/ /\ verb \in Verbs /\ path # NoToken
        /\ \/ Info \/ Format \/ List \/ Tree \/ Transfer \/ Chunked \/ TwoPaths
           \/ Stat \/ Timestamp \/ Remove \/ Mkdir \/ Md5
  /\ UNCHANGED <<verb, line_path, arg>>

\* storage_cli_factory_reset: 'y' or 'Y' sets the factory-reset RTC flag
\* and reboots (the console starts afresh); anything else is "Safe choice.".
ResetConfirm ==
  /\ pc = "reset_confirm"
  /\ \E c \in Answers :
       /\ answer' = c
       /\ IF Confirmed(c)
            THEN event' = "factory_reset" /\ Return("ok")
            ELSE Return("cancelled") /\ UNCHANGED event
  /\ UNCHANGED <<verb, line_path, path, arg, record_taken, walked>>

Next ==
  \/ ReadLine
  \/ Dispatch
  \/ FormatConfirm
  \/ TreeExt
  \/ ResetConfirm

Spec == Init /\ [][Next]_vars

=============================================================================
