# TLA+ models of the storage console (`storage_cli.c`)

This directory holds TLA+ models of `src/applications/services/storage/storage_cli.c`,
the `storage` and `factory_reset` console commands of the firmware, and the TLC
configurations that check them.

## 1. Inventory

### Components and their state

| Component | Code | State it keeps | Operations |
|---|---|---|---|
| Command dispatcher | `storage_cli` (522-625), `storage_cli_print_usage` (14-38) | the `cmd` and `path` strings of one line, the rest of `args` | read two tokens, exact-match the verb against a 16-entry table in order, call one handler, else print usage |
| Path classifier | inline in `info`, `format`, `list`, `tree`, `stat` | none | exact comparison with `"/"`, `/int`, `/ext`, `/any` |
| Write-until-cancel | `storage_cli_write` (228-280) | 512-byte heap buffer (uninitialised), `uint32_t read_index`, open `File` | per console symbol: store, echo, flush on wrap; Ctrl+C flushes the partial buffer and ends |
| Write one chunk | `storage_cli_write_chunk` (322-356) | parsed size, heap buffer | parse size, open for append, one `cli_read`, one write, check |
| Read to completion | `storage_cli_read` (197-226) | 128-byte buffer, open `File` | print size, read/print until a 0-byte read |
| Read in chunks | `storage_cli_read_chunks` (282-320) | parsed chunk size, `uint64_t file_size` | print size; per chunk: wait for a console byte, read, print, subtract |
| Tree walker / listing | `storage_cli_tree` (156-195), `storage_cli_list` (119-154) | the shared `path` string (tree `/` rewrites it) | `tree /` recurses on `/int` then `/ext`; otherwise walk and print entries or "Empty" |
| Destructive confirmations | `storage_cli_format` (93-117), `storage_cli_factory_reset` (627-639) | the answer byte | ask (y/n), act only on `y`/`Y` |
| Single-call handlers | `info`, `stat`, `timestamp`, `copy`, `rename`, `migrate`, `remove`, `mkdir`, `md5` | none | one storage call (after parsing a second path for copy/rename/migrate), print its error |
| Migration engine | `storage_common_migrate` (storage service, not under `src/`) | — | move a subtree, renaming collisions `name`, `name_1`, ... |
| Registration | `storage_on_system_start` (641-651) | — | registers the two commands as `CliCommandFlagParallelSafe` |

External collaborators (not in `src/`): the storage service (open/read/write/size/
stat/...; each call returns a count or an `FS_Error`), the console transport
(`cli_getc`, `cli_read`, `printf`), the dir walker and the MD5 library.

### Interaction

The CLI thread calls `storage_cli` with one line; it parses the tokens and calls
exactly one handler synchronously. Every handler takes `RECORD_STORAGE`, allocates
a `File` where it needs one, performs storage calls, and releases everything before
returning. The only points where a handler waits are console reads: `cli_getc` in
`write` (every symbol), `read_chunks` (the "Ready?" handshake), `format` and
`factory_reset` (the answer), and `cli_read` in `write_chunk`. The command is
registered parallel-safe, so other applications may use the storage meanwhile.

### What is hard

- Loops driven by external input whose exit depends on counters: the write loop's
  `read_index % 512` and its Ctrl+C rule, the read loops' `read_size` / `file_size`.
- Partial failure: short writes, short reads, a medium that fails mid-transfer,
  a console session that delivers fewer bytes than asked.
- Numeric edges: the `uint32_t` cursor wrap, zero chunk sizes, empty files,
  sizes that are and are not multiples of the buffer.
- Protocol steps with the user: confirmation before destructive operations, the
  handshake per chunk.

### Properties that make each component correct

- Write-until-cancel: what reaches the file is exactly what was typed, in order,
  never duplicated, never stale or uninitialised heap bytes, across flushes and
  cursor wrap; Ctrl+C ends the session and stores everything before it.
- Write one chunk: a write that stores less than the console delivered is reported
  (part of the refinement below).
- Read / read_chunks: the printed bytes are the file, in order; the handler returns;
  a failure is reported rather than printing a truncated file.
- Both write handlers: they implement a buffered append session (the file only
  grows by appending, stays a prefix of what the console delivered, and an ending
  with bytes not stored is reported), checked as a refinement.
- Chunk sizes: a size the user types never crashes the system.
- Listing: the entries printed are the directory's, in the cursor's order, with
    the right tag and the exact size; "Empty" alone, and exactly for an empty
  directory when no read failed. A read that fails before any entry also prints
  "Empty" (the indicator follows `read_done`), so a failing non-empty directory
  looks empty; `ListingFaithful` excludes such listings.
- Migration, dispatcher, tree root and confirmations: only their type invariants
  are checked. Each of their other rules is one branch of the code (or, for the
  spec-modelled migration engine, one definition of the model), and a property
  would only restate it.

The full list of hazards, each at its source line with the properties covering
it, is `hazards` in `PROJECT.json`.

## 2. Modules

| Module | Models | State ↔ code |
|---|---|---|
| `StorageCliWrite` | `storage_cli_write`, `storage_cli_write_chunk` | `buffer` = the heap buffer (`Junk` = uninitialised), `read_index` = the `uint32_t` cursor taken modulo `2^IndexWidth`, `file` = bytes appended, `typed` = history of console bytes. `GetSymbol` is one iteration of `while(true)` (one `cli_getc` and the body); its disjuncts `CancelFlush` and `StoreSymbol` are the two paths through the body. `WriteChunk` is the whole chunk handler; `pc = "halted"` is the crash of a `malloc` beyond `HeapFree`. |
| `StorageCliRead` | `storage_cli_read`, `storage_cli_read_chunks` | The file is the bytes `1..file_len` (a byte is named by its offset). `pos` = file position, `file_size` = the `uint64_t` counter, `out` = printed bytes. `ReadStep` / `ReadChunksStep` are one loop iteration each. `MediumFails` is the environment (card removed). `pc = "halted"`: the chunk buffer's `malloc` exceeded `HeapFree`. |
| `BufferedAppend` | the contract of a write session (abstract) | `offered` = bytes handed to the session, `stored` = bytes in the file, `status`, `lost` = error reported. `StorageCliWrite` maps onto it: `offered` = the console symbols without a terminating Ctrl+C, `stored` = `file`, `lost` = `write_error`. |
| `StorageCliListing` | the directory loops of `storage_cli_list` and `storage_cli_tree` (real path) | `entries` = what the cursor (`storage_dir_read` / `dir_walk_read`) yields, in order; `out` = printed lines; `OpenCursor`, `ReadEntry` (one loop pass), `ReadEnd` (cursor exhausted or read failed, then the `Empty` indicator). Sizes pass through the `(uint32_t)` cast (`PrintedSize`). |
| `Migration` | `storage_common_migrate` (storage service; from the spec, §4.4) | `src` / `dest` = name -> content; `MoveEntry` moves one entry (a directory with its subtree) to `FreeName`, the `RECURSIVE` first-free-candidate search; `MoveFails` stops with partial progress. Names are sequences (`foo_1` = `<<foo, 1>>`). |
| `StorageCli` | `storage_cli`, every other handler, `factory_reset` | One command after another: `ReadLine` receives a line, `Dispatch` runs a handler; `FormatConfirm`, `ResetConfirm` are the steps after `cli_getc` returns the answer; `TreeExt` is the second recursive call of `tree /`. Storage calls are abstract (succeed or fail). |

Each `MC*.tla` gives the constants for TLC; each `.cfg` is one run.

## 3. Runs

| Run | Config | Checks | Result |
|---|---|---|---|
| `write_pass` | `MCStorageCliWrite.cfg` | `TypeOK`, `FileMatchesInput` with short writes, short console reads, open failures | pass |
| `write_cancel` | `MCStorageCliWrite_cancel.cfg` | `CtrlCEndsWrite` (spec: Ctrl+C ends the session; round trip for any k) | **violated** after typing only Ctrl+C |
| `read_pass` | `MCStorageCliRead.cfg` | `TypeOK`, `OutputIsFile`, `ChunkHandshakesBounded`, `ReturnsUnlessMediumLost` with short reads, open and medium failures and a chunk size beyond the heap: the printed bytes are a prefix of the file (all of it after a healthy return); a `read_chunks` that returns took between ceil(L/n) and L handshakes (none for an empty file); both handlers end unless `read_chunks` lost its medium | pass |
| `read_spin` | `MCStorageCliRead_spin.cfg` | `HandlerTerminates` when the medium may fail | **violated**: read_chunks loops forever |
| `read_truncate` | `MCStorageCliRead_truncate.cfg` | `ReadReportsTruncation` when the medium may fail | **violated**: truncated output, no error |
| `write_refine` | `MCStorageCliWrite_refine.cfg` | `WriteRefinesBufferedAppend`: `AbsWrite!Spec` for the write module with every fault, a 4-byte buffer, 3-bit index and 12 symbols | pass |
| `write_oom` | `MCStorageCliWrite_oom.cfg` | `ChunkSizeNeverHalts` (spec: only confirmed destructive operations are fatal) | **violated**: a size beyond the free heap halts the system |
| `listing_pass` | `MCStorageCliListing.cfg` | `TypeOK`, `ListingFaithful` with open and read failures | pass |
| `listing_sizes` | `MCStorageCliListing_sizes.cfg` | `ListedSizesExact` (spec: the file's exact byte size) | **violated** for a file of 4 GiB or more |
| `migrate_pass` | `MCMigration.cfg` | `TypeOK` with failing moves: every derived name is a base followed by positive suffixes | pass |
| `cli_pass` | `MCStorageCli.cfg` | `TypeOK` over every command line and answer (`tree /` walks the prefix `/ext`, never `/ext/`) | pass |

### Findings

1. **Ctrl+C with an empty buffer is data** (`storage_cli.c:246`). `storage_cli_write`
   breaks on ETX only when `read_index % 512 > 0`. When nothing is pending — the first
   symbol, or right after a full 512-byte flush — ETX falls through, is stored as a
   byte, and the loop goes on; a later Ctrl+C writes the stored `0x03` to the file.
   The spec says Ctrl+C ends the session, with the round trip holding for every k,
   multiples of the capacity included.
2. **read_chunks never returns after a read failure** (`:298`). The loop ends only when
   `file_size` reaches 0 and subtracts what each read returned; once the medium fails
   every read returns 0 and the handler asks "Ready?" forever.
3. **read prints a truncated file silently** (`:214`). The loop ends at the first 0-byte
   read and never looks at `storage_file_get_error`.

4. **A chunk size the user types can halt the system** (`:336`, and `:297` in
   read_chunks). The size parsed by `sscanf("%lu")` (`-1` parses to 4294967295) goes
   straight to `malloc`; a size the heap cannot supply halts the firmware. The spec
   makes only a confirmed format or factory reset fatal and treats a bad chunk size
   as an argument error. The models bound the heap by `HeapFree`.
5. **File sizes of 4 GiB and more are printed modulo 2^32** (`:139`, `:180`, and
   `stat` at `:388`). The `uint64_t` size goes through a `(uint32_t)` cast; an exFAT
   card can hold such files. The spec's tree-walker test asks for the exact size.

### Bounds and why they suffice

- Write: buffer of 2 bytes (512 in the code) and a 2-bit `read_index` (32 bits in
  the code), with 8 typed symbols: four buffer wraps and two index wraps happen, and
  Ctrl+C meets both an empty and a non-empty partial buffer. Only `read_index % size`
  and the divisibility of `2^width` by the size matter to the code, and both hold
  in the model as in the code (`ASSUME`). Two data symbols make order visible.
- Read: files of 0..5 bytes, read buffer 2 (128 in the code), chunk sizes 0..4: files
  shorter than, equal to, and longer than a chunk, chunks dividing and not dividing
  the length (5 = 2+2+1 = 3+2), zero chunk size and empty file. `handshakes` is
  capped at `MaxHandshakes` = 6, one more than the longest file: a transfer that
  makes progress takes at most `file_len` handshakes, so only a spinning loop
  (medium lost, or a mutant) reaches the cap.
- write_refine uses a 4-byte buffer, a 3-bit index and 12 symbols (128k states):
  the 2-byte buffer only ever holds a 1-byte partial flush, the 4-byte one holds
  1 to 3 bytes at Ctrl+C or a short write, and the index wraps mid-sequence.
- Heap: `HeapFree` = 2 with write chunk sizes 0..3, and `HeapFree` = 3 with read
  chunk sizes 0..4: in each, the largest size does not fit and the others do, so
  a chunk of 3 reads a 5-byte file as 3+2 while a chunk of 4 halts. read_pass's
  liveness property counts the halt as an end.
- Listing: up to 4 entries of both kinds, sizes 1 and 4 through a 2-bit cast, so
  that one size wraps as a size of 2^32 or more does in the code.
- Migration: source names `foo`, `foo_1`, `foo_2`, `bar` and destination names
  `foo`, `foo_1`, `foo_2`, `bar`, `bar_1`, all subsets: an entry collides with an old
  entry, with a name derived earlier in the same migration (`foo` -> `foo_1`, then
  the literal `foo_1`), or several times (`foo` -> `foo_3`, `foo_1` -> `foo_1_1`).
- Dispatcher: every verb of the table, one unknown verb, a missing token, five paths
  covering the root, each volume prefix and a sub-path, three argument kinds, four
  answers.

### Fairness

`StorageCliRead` assumes weak fairness of the handler's steps: once started, the
handler keeps running, and for `read_chunks` the console answers each "Ready?" (the
host program driving `read_chunks` does so). The medium failure is not fair — it may
or may not happen. The cap on `handshakes` disables a spinning `read_chunks`; that
state is not a return, so the liveness properties still see the spin. The other modules check only safety: their progress depends on
the user typing, which nothing guarantees. Runs disable deadlock checking because the
handler returns (a terminal state) or waits in `cli_getc` for input that never comes.

### Mutants

Every property of a passing run is paired in `PROJECT.json` with a mutant: an
operator written just before the definition it replaces, modelling a plausible bug
(the result of the final write ignored, the whole buffer flushed at Ctrl+C, the
cursor without its wrap, `file_size` decremented by the chunk or not at all, the
handshake loop written as do/while, `tree`'s second path set to `/ext/`, the
`Empty` indicator without its `read_done` guard, the size printed without the
cast, the suffix written over the base name). TLC finds each one.

## 4. Not modelled, and why

- The storage service's own semantics (what `copy`, `rename`, `remove`, `mkdir`,
  `format` do to the tree), the console transport and the MD5 library: external
  collaborators, represented only by the results their calls may return.
- Directory contents yielded by `dir_walk` / `storage_dir_read`: library code.
- Output formatting (the usage text, the wording of messages): no property is about
  it. The one conversion a property is about, the `(uint32_t)` cast of listed sizes,
  is modelled.
- The contents a directory cursor yields and its depth-first order: library code
  (`dir_walk`), taken as a sequence of entries.
- Concurrent use of a file by another application while a handler holds it (the
  command is registered parallel-safe): the spec (§5) gives the command exclusive
  use of its storage handle, and whether the storage service refuses a second open
  is decided outside `src/`. What another task can do to a transfer in progress
  (unmount, format or lose the card) is modelled: `MediumFails` for reads, and
  failing writes for writes. The 644 hazard in `PROJECT.json` is covered by
  `OutputIsFile`, `ReturnsUnlessMediumLost` and `FileMatchesInput`.
- The MD5 digest itself: an external library; only the handler's call and error
  report are modelled.
- `storage_on_system_start`: one-time registration.
- The migration engine's recursive collision policy for descendants (spec §8): the
  model moves a directory whole under its new name. `storage_common_migrate` is
  not under `src/`, and any property of the spec-modelled engine would only check
  the model's own definitions. Only its type invariant is checked, and the
  component is marked partly modelled.

## 5. Plan

Done: the write-until-cancel protocol, the read protocols, write_chunk, the
dispatcher with every handler and the confirmations; the abstract write contract
with the refinement check; the heap bound on chunk sizes; the listing loops with
the size cast; the migration engine; the handshake count of `read_chunks`.

Open, and why each is left:
1. A composition of `StorageCli` with instances of the transfer modules. Each
   handler already closes its `File` and the record on every exit path it
   models. Commands run one after another, so a composition would only restate
   those closes; it would add no interaction.
2. An abstract read contract refined by `StorageCliRead`. It would restate
   `OutputIsFile` (printed bytes a prefix of the file), and the silent truncation
   of `read` is already shown by read_truncate.
3. A host model for `read_chunks`, and the console stream that `write_chunk`
   shares with the next command line. Both need the CLI's line reader and
   `cli_read`, which are outside `src/`, and the spec does not describe them
   closely enough to model them faithfully.
