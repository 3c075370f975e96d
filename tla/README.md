# tracehash: a TLA+ model of the recorders and their readers

tracehash instruments two implementations of one program (typically a Rust port
and its C original). Each instrumented call becomes a row of a TSV file with
hashes of its inputs and outputs and, in deep mode, an entry with the captured
values in a per-function `.dclog` file. `tracehash-compare` compares two TSV
files; the replay harness runs a port on the entries of a `.dclog`.

This directory holds the specifications of that code, the TLC configurations
that model-check them, and proofs that TLAPS checks. Line numbers are those of
the repository.

## Inventory

| Component | State | Operations | Hard part |
|---|---|---|---|
| **Rust recorder** (`src/lib.rs`) | `SEQ` (atomic), `WRITER` (mutex around the TSV file), the `Call` on the caller's stack | `Call::new`, `input_*`, `output_*`, `finish` | the number is taken before the deep record and before the writer's lock; threads interleave in between |
| **Deep registry** (`src/deep/mod.rs`) | `DeepConfig` (resolved once), `logs`: name to `Arc<Mutex<DeepLog>>` | `record`, `open_log`, `flush_all` | two levels of locks; the answer of `record` is used after its lock is gone; a log that cannot be created |
| **DeepLog** (`src/deep/writer.rs`) | `seq_counter`, `seen_hashes`, `last_buffer`, the `BufWriter` | `create`, `record`, `flush_last` | sampling, deduplication and the kept last call interact over long runs; what the buffer holds is lost at exit; I/O errors |
| **Sampling** (`src/deep/sampling.rs`) | policy, random generator | `decide`, `keeps_last`, parse, print | boundary at N, defaults of the parser |
| **C recorder** (`c/tracehash_c.c`) | `tracehash_seq`, TSV `FILE`, registry list, per-function `seq` and `FILE` | `tracehash_begin`, helpers, `tracehash_finish`, `tracehash_deep_flush_all` | `df->seq` is read outside its lock; check and use of `first:N` are two critical sections; `realloc` failures |
| **C++ wrapper** (`c/tracehash_cpp.hpp`) | a call and `finished_` | constructor, moves, `finish`, destructor | exactly one finish per call |
| **Hash stream** (`src/stable_hash.rs`, `TraceHash` impls, C `hash_*`) | a 64-bit accumulator | one per type | the two languages must feed the same bytes |
| **Wire format** (`src/spec/`) | none | encode and decode of values, entries, header | round trip, torn input |
| **Reader and replay** (`src/deep/reader.rs`, `replay.rs`) | position in a file, report | `next_entry`, `collect_entries`, `replay`, `replay_dir`, `replay_assert` | torn files, frames out of step, streams without an end, one failure among many files |
| **Comparator** (`src/bin/tracehash-compare.rs`) | two lists of rows, counters | read, filter, three comparisons | order of rows of concurrent calls; three comparisons with maps of their own decide one status; lines of a killed recorder |
| **derive** (`tracehash-rs-derive`) | none (compile time) | expansion | finding the fields of a struct by its colons and commas |

Interactions: `Call::finish` calls `deep::record`, which locks the registry,
opens or finds the log, releases the registry, locks the log and calls
`DeepLog::record`; its answer, the `deep_seq`, goes into the row that `finish`
writes under the writer's lock. `flush_all` runs beside all of this and holds the
registry while it locks each log. The C recorder has the same parts with its
own locking, and the C++ wrapper sits on the C helpers. Recorders and readers
meet only through the files: what the logs' buffers, failed writes, a crash or
a shared file name left of a `.dclog` is what `LogReader` gets.

What makes each correct:

* rows: no number lost or used twice; the C rows in order;
* `deep_seq`: a row points at one entry, the record of its own call, and no two
  rows at the same one; exactly the entries that were kept as a last call have no row;
* log: the entries the policy promises, in call order, each input once unless its
  write failed;
* `flush_all`: what rows pointed at when it was called is on disk when it returns,
  in every log whose flush did not fail;
* locks: every `finish` and every `flush_all` ends;
* C recorder: the same, as far as its unlocked read lets it;
* files: whatever fails and wherever the program stops, a prefix of the entries
  survives, and all that was flushed; an input is missing only if its write failed;
* replay: a success is complete, an error has a cause, entries are reported once
  and in order;
* probes: both languages hash, count and capture alike; different sequences of
  arguments feed different bytes; a C++ call is finished exactly once;
* derive, policy texts: no field invented or skipped; one text, one policy;
* comparator: its exit status is 0 exactly when every input has the same outputs
  in the same order on both sides; the order in which threads wrote rows of
  different inputs never matters, also for functions that remember earlier calls.

## Modules

| Module | What it is | Code |
|---|---|---|
| `Capture` | calls, what a deep entry holds of a call, the content hash | `Call`, `Entry`, `canonical_input_bytes` |
| `Sampling` | `Decide`, `KeepsLast` | `sampling.rs` |
| `DeepLog` | the state of the logs and one action for each outcome of `DeepLog::record`, for `create` and for `flush_last` | `writer.rs`, `mod.rs` |
| `DeepLogSession` | long sequences of operations on the logs, each under its mutex, with the history of what a log was offered | `record`, `flush_all` |
| `LogFile` | `DeepLogSession` with its files: which log wrote which piece, failing writes, shared names, exit and crash | `writer.rs`, `sanitize_filename` |
| `DurableLog` | the promise of one file: entries are appended, a prefix survives, with what was synced | |
| `Replay` | `LogFile`, then `replay_dir` over what it left | `reader.rs`, `replay.rs`, `read_framed_entry`, `read_file_prefix` |
| `HashStream` | the bytes each type feeds to a hash, in Rust and in C, and `quantize_f32` | `stable_hash.rs`, `TraceHash` impls, C `hash_*` |
| `Derive` | the fields the derive finds in the tokens of a declaration | `tracehash-rs-derive` |
| `PolicyText` | `FromStr`, `Display` and the C parser of sampling policies | `sampling.rs`, `tracehash_init` |
| `Probe` | one program instrumented in Rust and in C++: every helper, `finish`, moves, destructor | `lib.rs`, `tracehash_c.c`, `tracehash_c.h`, `tracehash_cpp.hpp` |
| `Recorder` | threads in `Call::finish` and `flush_all`, all locks, exit | `lib.rs`, `mod.rs` |
| `TraceLog` | the promise: a finished call becomes, in one step, a row and at most one entry of its own | crate documentation, `lib.rs:1-11` |
| `RecorderDocs` | sentences of the documentation that the code does not keep | |
| `CRecorder` | the C recorder, implementing the same `TraceLog` | `tracehash_c.c` |
| `Compare` | the comparator: reading and counting, then one step per key in each of the two keyed comparisons, exit status | `tracehash-compare.rs` |
| `TwoRuns` | one program run with two implementations, the rows in any order of its threads, then `Compare` | `Call::finish`, `tracehash_finish` as writers of rows |
| `RecorderInv`, `CRecorderInv`, `ReplayInv`, `CompareInv`, `TwoRunsInv` | inductive invariants of `Recorder`, `CRecorder`, `Replay` (with `LogFile` and `DeepLogSession`), `Compare`, `TwoRuns` | |
| `DeepLogProofs` | lemmas: each action of `DeepLog` keeps the types of the logs and `LogInv` | |
| `RecordingLemmas` | lemmas shared by the proofs about the two recorders and the files: appending, entries by number, pieces of a file | |
| `RecorderProofs`, `CRecorderProofs`, `LogFileProofs`, `ReplayProofs`, `TwoRunsProofs` (with `Compare`), `ProbeProofs` | the theorems | |
| `MC*` | values of the constants for TLC | |

### From code to state

* A `Call` is a record `[fn, input, output]`. A stream is a sequence of items:
  `"arg"` for the typed helpers, which hash a value and capture it for the
  entry, `"field"` for `input_value` and `input_field` (in C the `*_field` and
  struct helpers), which only hash. `DeepView` drops the second kind.
  `ContentHash` is a constant operator; the proofs assume nothing of it, TLC's
  runs take it to be free of collisions.
* `New` builds a whole call in one step: `Call::new` and the helpers touch
  nothing shared but the configuration, which does not change after start-up.
  For that reason one open call per thread stands for nested ones as well.
* `pc[t]` follows `finish`: `registry` (about to lock the registry), `open`
  (holding it), `log` (about to lock the log), `record` (holding it), `row`
  (about to write the row). Rust's guards are dropped where the code drops
  them. The row is one step: `write_all` under the writer's lock.
* `flush_all` goes `flush_registry`, `flush_pick`, `flush_log`, `flush_write` and
  keeps the registry to its end. The `HashMap` is walked in any order.
* Any write to a log may fail (`failures`), and `finish` and `flush_all` go on.
  `DeepLog::record` has put the hash into `seen_hashes` and used the number by then
  (`writer.rs:99`, `WriteFails`); `deep::record` makes the error a call without an
  entry (`mod.rs:147`). `flush_last` has taken `last_buffer` and loses its entry
  (`DropLast`), or leaves part of the buffer where it was (`StallFlush`);
  `flush_all` ignores that (`mod.rs:158`). Histories keep what the properties
  speak of: `lost`, the hashes whose write failed; `kept`, the numbers that went into
  `last_buffer`; `missed`, the logs a `flush_all` could not flush, and `flushed`, how
  many rows each log is safe for. `Recorder` has the threads and counts an
  entry as on disk when its pieces have left the buffer; `LogFile` has the same
  failures and what a reader makes of half a frame.
* `file[f]` is what `write_framed` was given, `durable[f]` how much of it left
  the buffer, in pieces: the prefix of the file, then a length and a body per
  entry. `write_framed` may leave the buffer as it is or spill it before
  either write. `Exit` keeps `durable` as it is: the log lives in a static.
* In C, a section under one mutex that waits for nothing is one step. The read
  of `df->seq` (`tracehash_c.c:1027`) is a step of its own between check and
  write: that is what the build can produce, since the mutex operations around
  it keep the load from moving past them. stdio may pass on any part of what it
  holds; a normal exit flushes it, `Crash` does not. `Finish` and `ReadSeq` have
  an alternative for a helper that ran out of memory.

* A trace of `Compare` is a sequence of lines with the three columns it looks at
  and whether the line is whole. Rows are named by their position; `RowsOf` and
  `Occurrence` are `occurrence_map`, `OutputCount` is `pair_map`. Keys come in any
  order, since the order only decides what is printed first. Of the printed text
  the model keeps how many differences were printed. `ReadFails` is a file that
  cannot be opened or is not text, found before anything is compared.
* In `TwoRuns` an implementation is the sequence of outputs each thread gets from its
  calls, whatever their inputs: a function may remember what it was called with before.
* `disk[p]` of `LogFile` names, for each piece of a file, the log that wrote it, a
  hole, or a torn piece. A log writes at its own offset, so two logs with one
  path overwrite each other and `LogOpen` truncates for both. `damaged[f]` is
  where a failed `write_framed` left a length without a body; from there on the
  reader's lengths are out of step, and what it makes of the bytes is left open:
  `BogusEntry`, an end of file or an error. `failures` counts failed writes, which
  may come in `record`, where the hash stays in `seen_hashes`, and in
  `flush_last`, where `last_buffer` has been taken.
* `Replay` reads a file entry by entry; a compressed stream has no end because no
  log is ever dropped. `Answer` stands for the caller's body. `reports` and
  `verdict` are the result of `replay_dir`; `report` is what the body was shown.
* `Probe` keeps for each call the Rust `Call` and, in the objects of the C++
  class, the C one, fed with the same helper calls. A hash is the sequence of bytes
  it was fed. Names of arguments, which are numbered, and the labels of the
  values column are kept as pairs. The derive gets tokens, the policies the
  parts of a text between colons.

## Runs

Bounds: `MaxCalls` calls in a run over all threads, `MaxFlushes` flushes and
`MaxFailures` failed writes and flushes of logs.

| Run | Instance | Checks | Time |
|---|---|---|---|
| `session` | 2 functions, 3 calls and a failing write of one, 1 call of the other, 2 inputs, a policy of each mode, any number of flushes, stop anywhere, 2 filters | inductive invariant (types included), which calls a file ends up with, what survives, what a replay reports; refinement of `DurableLog` | 60 s |
| `recorder` | 2 threads, 2 functions (`g`'s log may fail to open), 3 inputs, 2 calls, 1 flush, 1 failing write or flush, 8 configurations, symmetric threads | inductive invariant (types included), numbering, `deep_seq`, flush, deduplication, failed writes | 40 s |
| `recorder_one_log` | 2 threads, 1 function, 2 inputs, 3 calls, 1 flush, 1 failing write or flush, `firstlast:2`, `FairSpec` | table and log agree, refinement of `TraceLog`, every finish and flush ends | 90 s |
| `docs_exit` | 2 threads, 1 function, 2 calls | violated: see Findings | 3 s |
| `c_recorder` | 2 threads on 1 function, 3 calls, 1 flush, exit and crash, 7 configurations | inductive invariant (types included), what survives the race | 40 s |
| `c_owned` | 2 threads, each with a function of its own, 3 calls | the C recorder implements `TraceLog` without the race | 15 s |
| `c_docs_unique` | as `c_recorder` | violated: see Findings | 2 s |
| `compare` | every pair of traces of up to 3 lines, 2 functions, one of them with 2 inputs, a torn line, 3 command lines; and 16 programs of 2 threads with 1 or 2 calls each, 5 implementations on either side, every order of the rows | inductive invariant of comparator and recordings (types included), exit status, summary, pairing of occurrences; what the order of threads can and cannot change | 80 s |
| `probes` | 32 helper calls, up to 2 in a call or 2 calls with 1, 2 C++ objects, 4 environments; 443 declarations; 936 policy texts | both ports write the same rows and entries, calls finish once, streams tell arguments apart, derive, policy texts | 10 s |
| `docs_zstd`, `docs_names` | as `session`, compressed; one path for both functions | violated: see Findings | 30 s |
| `docs_struct` | a struct with a field of bytes | violated: see Findings | 1 s |

Why the bounds are enough. The interesting cases need two threads inside
`finish` of one function (a race for the log, for the row, for the number), a
flush by one of them between the two, a third call to be deduplicated against
or to replace a last call, an input that agrees with another in what the entry
captures and not in what the row hashes (`MCInputs` has one), and policies with
N = 0, 1 and 2 so that the limit falls before, between and behind the calls. All
occur within three calls; `session` has three of one function, where a call may
be written, a second kept or fail, a third replace or repeat it, with flushes in
between, and one call of another function, so that a directory has two files and
a name can be shared. One failing write of each kind is enough: after the first
half-written frame the file is out of step for good. In the recorder one failure
is a write that costs an input its entry, with another call to repeat the input, or
the flush of one of two logs. Two threads are enough for the
overshoot of `first:N` to show that its bound is reached. For the comparator,
three lines are the least with which two rows of a key can be swapped, or differ
in number, while a third is out of the way of them or filtered; the theorems
below cover traces of any length. The implementations give a thread `p` from its
first call, from its second or from none, so that one thread alone can produce
`o, p` on one side and `p, o` on the other. `OccurrencesExact` compares the pairing with lists
built row by row, as `occurrence_map` builds them.

`HashStream` scales integers down: a u64 is two bytes, a u32 one, so that a value
can pass for the end of another argument; bytes, tags and lengths are those of
the code. Quanta are eighths, and the values include ties of either sign, NaN, a
quantum of 0 and a quotient that does not fit. Two helper calls suffice for what
one argument can do to the next: the hash of a sequence is the concatenation of
what its calls feed, and `StreamsTellApart` compares each with every
sequence of up to two; `StreamsHold` below covers sequences of any length. Declarations have two fields with every combination of
visibility, attribute and type tokens the parser treats differently (generic
arguments, paths, groups); texts have up to four parts.

Fairness. `FairSpec` has weak fairness of each thread's steps inside `finish`
and `flush_all`: a thread that is in the library runs again. Beginning a call,
finishing it, starting a flush and exiting are the program's choice and are not
fair. Rust's mutexes promise no order, so a thread might wait for ever behind
others that keep coming; the bounds on calls and flushes exclude that, and the
property says that nothing else stops a call: no lock left held, no circle.

Deadlock is checked in every run but `probes` and `docs_struct`; `Exited` (in C
`~alive`, in `Replay` a verdict) is the only state without another step, and there
the models stutter. In `probes` a program ends by having made all its calls.

## Findings

* `docs_exit`. `deep/mod.rs:151` asks for `flush_all` before exit under policies
  that keep a last call. The `BufWriter` is in a static and is dropped under
  no policy: without `flush_all` rows point at entries that no file has.
* `c_docs_unique`. `deep_write_entry` reads `df->seq` outside the lock: two
  threads can get the same `deep_seq`, and two entries carry it.
* `docs_zstd`. `auto_finish` (`writer.rs:51`) ends a stream when the encoder is
  dropped; the logs are in a static and never are, and `flush_all`, which
  is documented to close the writers, only flushes. Every compressed log ends
  in an error, and `collect_entries` and `replay` drop what they have read.
* `docs_names`. `sanitize_filename` gives two names one file. The second
  `File::create` truncates it, the first log goes on at its old offset. When the
  frames happen to have the same sizes the replay succeeds and reports entries
  of one function as those of the other.
* `docs_struct`. `tracehash_*_struct_field_bytes` feeds `Y`, length, bytes; no
  `TraceHash` impl does: the derive hashes a field of bytes as `L`, length and a
  tagged integer per byte. The README offers the macros to match the derive.

Differences the models show that are no run of their own:

* `lib.rs:8-10` says that in deep mode every probe emits an entry. `input_value`
  and `input_field` are hashed into the row and not captured, so two calls that
  differ in a field only have one content hash, and `writer.rs:99` drops the
  second, in mode `all` too.
* The check of `first:N` in C (`tracehash_c.c:1092`) and its use are two critical
  sections: more than N entries can be written, by less than the number of
  threads (`OvershootBounded`).
* `first:` with no number is the default in Rust and `first:0` in C, where
  `strtoull` finds no digits; `all:x` is `all` in Rust and the default in C
  (`ForBoth` in `Probe` leaves these texts out, so no property is about them; `tracehash_c.c:221`: "Unknown modes
  fall back to the first:100 default").
* The quotient of `quantize_f32` that does not fit an i64 saturates in Rust and is
  undefined in C (`Comparable`); `README.md:62-65` promises one rule for both.

* Visible in `EntriesHaveRows`: `lib.rs:10-11` says a row has
  `-` when its call was not recorded. A call kept as the last one gets `-`, and
  `flush_last` records it later; those entries, and no others, are without a row.
* After a failed write an input counts as seen (`lost` in `OneEntryPerInput`): no
  later call with it is recorded. After a failed flush `flush_all` returns as if
  nothing had happened (`missed` in `FlushedRowsOnDisk`).
* With one thread and a function that answers `o` then `p` on one side and `p` then
  `o` on the other, the summary has no mismatched input and the exit status is 1:
  `compare_pairs` compares how often an output came, `compare_occurrences` when.
  `CallsComparedWithThemselves` says the status is the one to go by.

## Proofs

Every theorem is about `Spec` for every value of the constants: any sets of
threads, functions and inputs, any policies and bounds, and any content hash.
The assumptions are of two kinds. Those of the modules say what the constants are:
`CallsAssumption` (there is a call), `ConfigsAssumption`, `RecorderAssumption`,
`CRecorderAssumption` (bounds are numbers, `NoThread` is no thread, C threads are
finitely many), `FileAssumption` (a hole or torn piece is no function),
`ReplayAssumption` (file names can be sorted), `CompareAssumption` and
`TwoRunsAssumption` (traces, options, programs and implementations are
well-formed, and there is an implementation), `ProbeAssumption` (helper calls are
those that compile; names, strings and slices are no longer than their counts can
say; the body of a struct follows `IsBody`, what Rust's grammar says of names, colons
and commas). Five more restrict what is claimed, and only the theorems
that name them have them:

* `OwnedUse`: no function is called by two threads. Without it uniqueness fails,
  as `c_docs_unique` shows.
* `PathsApart`: no two functions share a file name. Without it a log is
  overwritten, as `docs_names` shows.
* `AnswerTotal`: the ported function ends with a match, a mismatch or an error.
* `NoBytesField`: no struct that is hashed has a field of bytes. Without it the
  two hashes of the struct differ, as `docs_struct` shows.
* `NamesAreNoTags`: no hashed struct, and no field of one, has a name whose length
  has a tag for its low byte; the shortest such length is 48. It holds in `MCProbe`,
  by an `ASSUME` there. The section on probes says why it is needed.

### Rust recorder

| `RecorderProofs` | Statement |
|---|---|
| `Typing` | `Spec => []TypeOK` |
| `Invariance` | `Spec => []IInv` |
| `RowNumbering` | `Spec => []RowsNumbered` |
| `DeepSeqResolution` | `Spec => []DeepSeqResolves` |
| `EntryOwnership` | `Spec => []RowsShareNoEntry` |
| `EntryPerInput` | `Spec => []OneEntryPerInput` |
| `EntriesPointedAt` | `Spec => []EntriesHaveRows` |
| `FlushedDurability` | `Spec => []FlushedRowsOnDisk` |
| `Refinement` | `Spec => ImplementsTraceLog` |

None of the properties is inductive: a row is written long after its number
was taken and after the log's lock was released. `IInv` adds what holds in
between. `NumbersInv`: the numbers `0 .. SEQ-1` are spread, each once, over the
rows and the threads inside `finish`. `LogInv`: the entries of a log, the kept
last call included, have distinct numbers below `seq_counter`; without the
clause on `last_buffer`, `FlushLast` could put a number in the file twice.
`PointersInv`: each `deep_seq`, in a row or in a thread about to write its row,
resolves to the entry of its own call, and no two of one function are equal;
without the clause on threads, `WriteRow` could add a row that resolves to
nothing. `DiskInv`: a flush under way has made the old rows safe but for the logs
it has yet to come to or could not flush, and every log that holds anything is in the
registry it walks. `KeptInv`: what is in `last_buffer` is among the `kept` numbers,
which have all been counted; without it `FlushLast` could bring in an entry that
looks recorded, and the next number could pass for a kept one. `CountInv`: a call
takes at most one number of each counter, which bounds the
numbers of `TraceLog`. `OneEntryPerInput` is inductive itself because it has the
failed writes: `seen_hashes` is what was recorded and what was lost, so a write
that is let through is of a hash in neither. Locks play little part in the argument: the actions on a
log are single steps under its mutex, and what a thread carries out of the lock
is its own.

`Refinement` maps each step: `New` begins a call, the write of a row finishes it,
with an entry if the row points at one, and every other step is a stutter. The
entries a reader finds from the table only change with the table: an entry that
comes into the file has a number no row has yet (`LogInv`, `PointersInv`).

### C recorder

| `CRecorderProofs` | Statement |
|---|---|
| `Invariance` | `Spec => []IInv` |
| `RowOrder` | `Spec => []RowsInOrder` |
| `DeepSeqResolution` | `Spec => []DeepSeqFindsEntry` |
| `Overshoot` | `Spec => []OvershootBounded` |
| `FlushedDurability` | `Spec => []FlushedRowsOnDisk` |
| `OwnedInvariance` | under `OwnedUse`, `Spec => []OwnedInv` |
| `OwnedUniqueness` | under `OwnedUse`, `Spec => []DeepSeqUnique` |
| `OwnedRefinement` | under `OwnedUse`, `Spec => ImplementsTraceLog` |

The first five hold in spite of the race. `DeepSeqInv` follows the number from
the unlocked read to the entry and the row. `LimitInv` bounds the overshoot:
the entries of a log and the threads let through to write one are together fewer
than the limit and the number of threads, since the last one let through saw the log
below its limit. `FlushInv` is `DiskInv` with what is left of uniqueness: some
entry of the row's call, under its number, is safe. `OwnedInv` needs one thread to
a function: then the number a thread has read is still the next one when it
writes, so that entry k has number k-1 and no row has the number before it.

### Logs, files, replay

| `LogFileProofs` | Statement |
|---|---|
| `Invariance` | `Spec => []FileInv` |
| `FirstCalls` | `Spec => []FirstCallsCaptured` |
| `LastCall` | `Spec => []LastCallCaptured` |
| `CallOrder` | `Spec => []InCallOrder` |
| `EntryOnce` | `Spec => []NoCallTwice` |
| `Durability` | under `PathsApart`, `Spec => ImplementsDurableLog` |

| `ReplayProofs` | Statement |
|---|---|
| `ReplayInvariance` | under `AnswerTotal`, `Spec => []IInv` |
| `ReplayTyping` | under `AnswerTotal`, `Spec => []TypeOK` |
| `ErrorCause` | under `PathsApart`, `AnswerTotal`, `Spec => []ErrorHasCause` |
| `Completeness` | under `PathsApart`, `AnswerTotal`, `Spec => []ReplayComplete` |
| `FlushedReadBack` | under `PathsApart`, `AnswerTotal`, `Spec => []ReadBack` |

`CaptureInv` ties `seen_hashes` to what became of each hash: it is in the file or
its write failed (`HistoryOf`); a kept last call is the last one offered
(`BufferedOf`, `LastOf`), so writing it later keeps the order. `MeasureInv` and
`DiskInv` relate entries, pieces that left the buffer and what the path holds;
a failed write may leave a torn end there once the program has stopped. `StageInv`,
`StemsInv` and `ReadInv` follow the replay: which files are done, a report for
each, each report a prefix of the entries on disk or going on into damaged
frames. `CauseInv` keeps the cause of an error after the reader has gone.
`Durability` shows each step of `LogFile` to be, for each log, an append with or
without a sync, a stop or a stutter of `DurableLog`.

### Comparator

| `TwoRunsProofs`, about `Compare` | Statement |
|---|---|
| `Invariance` | `Spec => []CInv` |
| `CompareTyping` | `Spec => []TypeOK` |
| `Reporting` | `Spec => []DivergenceReported` |
| `NoFalseAlarm` | `Spec => []EqualTracesPass` |
| `Listing` | `Spec => []ListedFunctionsDiffer` |
| `SummaryConsistency` | `Spec => []SummaryConsistent` |
| `Pairing` | `Spec => []OccurrencesExact` |

| `TwoRunsProofs`, about `TwoRuns` | Statement |
|---|---|
| `RunsInvariance` | `RunsSpec => []RInv` |
| `ComparisonOfRuns` | `RunsSpec` has the five properties above too |
| `AgreeingRuns` | `RunsSpec => []AgreeingRunsMatch` |
| `RealDifferences` | `RunsSpec => []RealDifferenceListed` |
| `CallByCall` | `RunsSpec => []CallsComparedWithThemselves` |

The argument has two halves. About the traces: key and occurrence tell rows
apart (`OccurrenceInjective`, since a later row of a key has a greater number),
so where the occurrences of some keys agree, sending each row to the other
side's row of the same key and occurrence is an injection, in both directions,
that keeps key and output (`MatchingRows`). Hence the counts per function and
the outputs per key agree too: `compare_counts` and `compare_pairs` can only find
what `compare_occurrences` finds. About the program: `CInv` says of the keys
already seen that those with a difference, and no others, have been counted.
It is needed because the properties speak of the end only. Traces are finite
sequences, so all sets involved are finite; functions and hashes may be
infinitely many.

`Pairing` is about a recursive function, the list that grows row by row: if its
length or one of its outputs were wrong after some number of lines, it would be
wrong after a least number (`LeastOf`, from the library's theorem that the
natural numbers are well-founded), and the last of those lines cannot be to
blame (`ListGrows`).

`RInv` counts instead of following the order: for each input and output, a
recording has as many rows as calls were finished with them. Each step of a
thread adds one row and one call, so it does not matter which thread comes
next. Two whole recordings of one program have the same rows per input, so
nothing is missing on either side; an input with unequal numbers of some output
has outputs that differ at some occurrence, since the occurrences of a key are
the numbers 1 to n, each once; and a pure implementation that agrees with the
other on an input gives the same output at each of them. Counting does not suffice for
functions with a memory. `OrderInv` follows the order where there is one: of an input
that only one thread gives, the n-th row is that of the thread's n-th call with it,
since each step of the thread adds one row behind and one call behind
(`OrderWritten`). So the occurrence by which `compare_occurrences` pairs two rows is
the place of one and the same call in both runs.

### Probes

| `ProbeProofs` | Statement |
|---|---|
| `TypeHolds` | `Spec => []TypeOK` |
| `EntryParityHolds` | `Spec => []EntryParity` |
| `RowParityHolds` | under `NoBytesField`, `Spec => []RowParity` |
| `FinishedOnceHolds` | `Spec => []FinishedOnce` |
| `StreamsHold` | under `NamesAreNoTags`, `Spec => []StreamsTellApart` |
| `DeriveHolds` | `Spec => []DeriveFaithful` |
| `PolicyTextsHold` | `Spec => []PolicyTextsAgree` |

The inductive invariant `IInv` of `ProbeProofs` is about whole lives of calls, for
any number of C++ objects. `HolderInv`: two open objects never hold one call; a
move keeps that because it marks its source as finished. `EmissionInv`: a call that no open
object holds has been written once on the C++ side, any other not yet; where it was
written on both sides and every helper called exists in both languages, the two
records are alike. `CallsInv`: as long as a call is open, its two copies are alike
stream by stream: the same hash, length and captured values, and, where deep mode
is on, the same counter. The parity properties speak of what finish wrote;
`CallsInv` is what carries them there, through one lemma per way of feeding a value
(a typed argument, a field, a struct). The counters are compared in deep mode only:
C does not count otherwise. For a struct both languages hash name and value of
each field; that the two concatenations are the same holds for any number of
fields, but only where each field is hashed alike: `NoBytesField`.

`StreamsHold` says of sequences of helper calls of any length, for strings, slices
and structs of any length, that equal bytes mean equal calls. `StreamInv` ties a
hash to what was called: the callee, then what each call fed. The rest is about two
readings of the same bytes. `PiecesApart` is the general step: if two
sequences of pieces build the same bytes from one place on, and no place can be read
as two different pieces, one is the beginning of the other. It serves
the elements of a slice, the fields of a struct and the calls of a stream; the
induction over the pieces is a least counterexample. What remains is that one
piece can be read in one way: a tag tells the kind of a call or a value
(`ClassTagApart`, `TypeTagApart`), a kind has a fixed length or says its length
first, and numbers in the range of their type differ in their bytes.

A struct is the exception: the derived impl feeds its name and its fields
(`tracehash-rs-derive/src/lib.rs:44-56`) without a count of them. So the reader must
tell the next field, which begins with the length of its name, from the next helper
call, which begins with a tag; and a value that is a struct, which begins with the
length of its name too, from a value that is not. Without `NamesAreNoTags` the
theorem is false: the bytes of `input_value` of a struct with a name of 85 letters are
also those of `input_value` of an integer and some calls after it, if the letters are
chosen for it. No struct or field that the repository hashes has a name near that long.

`DeriveHolds` is about declarations of any number of fields and tokens. The body is
what `IsBody` says: each field is a name and a colon, some comma stands between two
fields, and any other colon that is not in a group is half of a `::`. Commas may also
stand inside a type, between generic arguments, and there the parser of the derive
takes the rest of the type for the next field. `Found` is why nothing goes wrong:
behind each token the fields are the names that have had their colons, a name just read
is the candidate, and if the parser ignores identifiers no comma has been seen
since the last field's colon. What it takes for a name in the middle of a type is
replaced or dropped before the next colon, for that colon is behind a name. A body
with a path has two colons in a row, and the second has no candidate (`PathFails`).

Proving `StreamsHold` changed the model in two places. Values got the range of their
type in `HasType`, since beyond it two numbers have the same bytes; TLC's
values had been in range. And `RustHelper` and `CHelper` were a
CASE whose first arm was the inactive call and whose other arms did not exclude
it. TLC takes the first arm that is true, but by the semantics of CASE the result
was any of them, and no proof about an inactive call was possible. They are
`IF` with the early return of the code first.

### How the proofs are laid out

Each takes its inductive invariant through each action, conjunct by conjunct.
Lemmas about appending to a file and about calls whose log changes are shared
between actions and, through `RecordingLemmas` and `DeepLogProofs`, between the
proofs about the recorders and the files; actions that touch nothing a conjunct
reads go through a frame lemma. TLC checks the inductive invariants as
invariants of the runs; only `OwnedInv` and the `IInv` of `ProbeProofs` are left
to the proof (`StreamInv` is a conjunct of `StreamsTellApart`).

### Only model-checked

* `FinishEnds`, that every finish and every flush ends: liveness is out of this
  prover's reach.
* The runs that expect a violation are counterexamples.

`RunsTypeOK` is a conjunct of `RInv`; the `TypeOK` of `Probe` is left to the proof.

## Not modelled

* Poisoned mutexes: no code of the recorder panics while it holds one.
* The encoding of values and entry bodies (`spec/value.rs`, `spec/wire.rs` up to
  its framing), aliases among them, and the header's JSON: recursive data without
  state, whose round trip unit tests reach. The reader gets whole entries,
  torn frames or frames out of step.
* `Outcome`s other than a return, shared references and schemas: the format has
  them, no recorder writes them.
* `EntryView`'s lookups by name: part of the caller's `Answer`.
* Collisions of FNV-1a: where they matter (`ContentHash`, hash streams) TLC's
  instances have none; the proofs about the recorder allow them.
* Wrap-around of `seq` at 2^32, of `SEQ` at 2^64. Behind 2^32 calls of one
  function `deep_seq` is not unique.
* Probabilities between whole numbers in policy texts; `TRACEHASH_COMPRESS` and
  the seed (whether a log is compressed is a constant, a draw is free); the run
  and side columns.
* Errors of the TSV writer in Rust, which `finish` ignores (`lib.rs:757`): a row is
  taken to be written whole.
* In C: write errors of stdio, the cut-off of long file names, `json_escape`.
* The text `%.17e` that C prints for doubles in the values column, which has no
  bits behind it as Rust's has; the column is compared by label.
* `Exit` while another thread is between the two `fwrite`s of an entry: no row
  points at that entry yet.
* Timing columns, formatting and everything the comparator prints beside counts.

## Plan

The system is modelled as far as the list above says, and every safety property
that the passing runs check is proved. What is left is `FinishEnds`.
