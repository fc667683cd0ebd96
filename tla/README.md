# dbshell in TLA+

dbshell gives an agent a shell over databases: an input line is parsed into
pipelines, the path of a pipeline's first command is resolved to a database
operation, stages after it are folded into that operation where possible, a
router sends the operation to a driver (through a cache for reads), the
remaining stages run over the answer, and result sets are kept under `/results`.
This directory holds TLA+ modules of that machinery, TLC configurations that
check them on small instances, and TLAPS proofs, for every instance, of every
safety property those configurations check and the code satisfies.

Paths below are relative to `src/crates/`; `core` is `dbshell-core/src`.

## 1. The system

| Component | State | Operations | Talks to |
|---|---|---|---|
| Session (`core/session.rs`) | `tx` (Mutex), `results` (RwLock), fixed `vfs`, `router`, `mode` | `exec`, `exec_tool`, `begin`/`commit`/`rollback`, internally `exec_pipeline`, `dispatch_op`, `run_client_stages`, `store_if_records` | all of the below; shared by tasks through `&self` |
| ResultStore (`core/result_store.rs`) | map, deque of ids, `last` | `store`, `get`, `last`, `list_ids` | Session, under its lock |
| CachedQueryRouter, CacheLayer (`core/router.rs`, `core/cache.rs`) | moka cache: operation hash -> payload | `dispatch`; `get`, `put`, `invalidate_for_write` | QueryRouter below it |
| QueryRouter (`core/router.rs`) | drivers by name | `dispatch` | one driver method per operation |
| DbOperation (`core/operation.rs`) | none | `is_write`, `driver_name`, `collection_or_table` | read by the router and the session |
| MemoryDriver (`dbshell-drivers/src/memory.rs`) | tables, collections (each behind an RwLock) | `create`/`drop`/`list_collections`, `vector_search`, `upsert`, `delete`; `list`/`describe`/`query_table`, `insert`/`upsert`/`update`/`delete_rows` | called by the router; Filter |
| PipelineOptimizer (`core/pipeline.rs`) | none; a loop over stages | `optimize`, `fold_*` | Session, with the parsed stages |
| CommandLine (`core/command_line.rs`) | none; a loop over characters | `parse`: `tokenize`, `parse_tokens`, `parse_stage` | Session; VfsPath |
| VirtualFS (`core/vfs.rs`) | symbolic links; fixed view mounts | `resolve`, `add_symlink`, `remove_symlink` | Session |
| VfsPath (`core/vfs_path.rs`) | none | `parse`, one parser per namespace | CommandLine, VirtualFS |
| Filter (`core/filter.rs`) | none; a loop in `like_match` | `matches_filter`, `like_match`, `cmp_json_values` | MemoryDriver |
| records, payloads, `Embedder` | none | none that change state | types only |
| dbshell-py, dbshell-mcp, dbshell-tools | none | none | empty crates |

What is hard about each, and what makes it correct:

- **ResultStore.** Three fields tell one story: which results exist, in what
  order, and which is the newest. They must agree through every eviction, and
  the entry `/results/last` names must never be the one evicted.
- **Router and cache.** `dispatch` awaits the cache, the driver and the cache
  again; any other task may run in between. Reads may be served from the cache,
  so the question is when an entry may differ from what the driver would say. It
  is answered by what a write invalidates, *when* it does so, and what happens if
  it never gets there.
- **Session.** One `Session` is shared by reference. Each line yields one result
  per pipeline, errors included, whatever other tasks do; `/results/last` is
  shared and moves under a task's feet; a driver call that hangs must not hold
  `tx` and stop everybody.
- **Optimizer and client stages.** A chain `find | tail | head | grep` has a
  meaning (each stage reads what the one before printed). Folding stages into a
  query whose own order is filter, offset, limit must not change it.
- **VirtualFS.** Links are resolved one level deep, so the link table must never
  hold a link to a link; and no path may resolve to a write.
- **CommandLine and VfsPath.** One character decides whether the next is text or
  syntax, one word what the next word is. Quoted text must reach the stage as it is
  written, separators must cut a line into lines that mean the same on their own, and
  no path or argument may get lost on the way.
- **Filter.** `like_match` remembers one place to go back to, not all of them; it must
  still find every match, and end. Integers are compared as 64-bit floats.
- **MemoryDriver.** Lists stand for maps, a running top-k for a sort, one stable sort
  per column for an order by all columns, one query per page for the whole answer. Each
  must amount to what it stands for, with ties, duplicates and missing keys.

## 2. Modules

| Module | Models | Built from |
|---|---|---|
| `Operation` | `DbOperation`: a record `[kind, on, request]`, what it writes, names and is answered with | |
| `ResultWindow` | *abstract*: the N most recent results, in order | |
| `ResultStore` | `result_store.rs` | implements `ResultWindow` |
| `Driver` | a database behind `DbDriver`: refusals, effects, answers | `Operation` |
| `DirectRouter` | *abstract*: every call takes effect and is answered at one instant | `Driver` |
| `Router` | `CachedQueryRouter` over `CacheLayer` | `Driver`, implements `DirectRouter` when the cache is hidden |
| `Kept` | `Vec::retain` and `Iterator::filter`, as a fold | |
| `Pipeline` | `optimize`, the query served, `run_client_stages` | `Operation`, `Kept` |
| `Option` | the constant `None` | |
| `VirtualFS` | `vfs.rs` | `Operation`, `Option` |
| `Session` | `session.rs` | instances of `VirtualFS` and `ResultStore` |
| `Filter` | `matches_filter`, `cmp_json_values` | |
| `LikeMatch` | `like_match`, a turn of its loop a step | |
| `KeyedCollections` | *abstract*: a map from ids, searched all at once | `Filter` |
| `MemoryCollections` | the collections of `memory.rs` | `Filter`, `Kept`, implements `KeyedCollections` |
| `MemoryTables` | the tables of `memory.rs` | `Filter`, `Kept` |
| `Splits` | `str::split` and the loop of `parse_pipeline`, as a fold | |
| `VfsPath` | `vfs_path.rs` | `Kept`, `Splits` |
| `CommandLine` | `command_line.rs`, an arm of the tokenizer's loop a step | `VfsPath`, `Kept`, `Splits`, `Option` |
| `MCRouter`, `MCPipeline`, `MCVirtualFS`, `MCSession`, `MCLikeMatch`, `MCMemoryCollections`, `MCMemoryTables`, `MCCommandLine` | inputs of the runs | |
| `ResultStoreProofs`, `RouterProofs`, `PipelineProofs`, `SessionProofs`, `LikeMatchProofs` | theorems about the module of that name | |
| `MemoryDriverProofs` | theorems about `MemoryCollections` and `MemoryTables` | |
| `CommandLineProofs` | theorems about `CommandLine` with `VfsPath`, about `VirtualFS`, and about the two together | |
| `FoldLemmas` | lemmas on `FoldLeft` and `Kept` the last ones share | |

Operators called `Slip...` stand next to the definition they would replace. They
are plausible wrong edits of that code, no specification uses them, and each
makes some property below fail; they are how the properties are shown to look
at the code.

### How state and actions correspond to the code

**ResultStore.** `results`, `order`, `last` are the struct's fields. `Store(id,
rs)` is the whole of `store()`: evict if full, insert, push back, move `last`.
`Get` and `ListIds` are the reads; `asked` and `reply` hold the last question and
its answer, so that an implementation cannot answer one question with another's. Session holds the store's lock around each
method, so each is one step. `issued` remembers the UUIDs handed out: a v4 UUID
is taken never to repeat. Result sets are opaque.

**Driver.** The content of a table or collection is a version number, moved on
by each change and wrapped after `MaxVersion` (so content may return to what it
was); `Missing` means the collection is not there. `Refused` collects the error
returns of `memory.rs`, `Effect` the changes, `Answer` what an answer depends on:
the call itself and the versions of everything in its `Scope` (a
`ListCollections` depends on all collections, as it reports their counts;
`MergeTable` on both tables). Each method takes one lock and holds it throughout,
so a driver call is atomic. Graphs stand for a driver that implements
`graph_query`; `MemoryDriver` refuses it.

**Router.** `pc` says at which await of `dispatch` a call is: `lookup`
(`cache.get`), `drive` (`inner.dispatch`), `fill` (`cache.put`), `invalidate`
(`invalidate_for_write`, which drops everything), `done`. `Policy` is
`CachePolicy`; under `None` the cache is never filled. `Put` lets moka give up any
entry at capacity; `Expire` is its time to live. `DriverFail` is a driver error
with nothing changed, `LoseReply` a change whose reply never arrives, or whose
caller dropped the future; both leave by `?` before the invalidation.
`overlapped` and `exposed` are history variables; no guard reads them.

**Pipeline.** `Optimize` is one round of the loop in `optimize()`: fold the stage
into `request`, or append it to `client`, and once one stage stayed all later
ones do (`hit_boundary`, here `client # <<>>`). `Dispatch` serves the request as
`query_table`, `vector_search` or a listing does, `RunClientStage` is one round of
`run_client_stages()`. Rows are numbers; a pattern or predicate is the set of
rows it holds of; `sort` orders the numbers (`SortBy`, an insertion that keeps equals in
their order, as the stable `sort_by` does).

**VirtualFS.** `Resolve(p, tool)` is `resolve()` with its match on the kind of
path and the tool; `AddSymlink` and `RemoveSymlink` are the two mutators with
their refusals. `reply` holds what the last call returned. Casting a view
parameter to its type is membership in `Casts[type]`. Its `VfsSpec`, `VfsTypeOK` and the
like have names of their own, so that one module can be about it and `CommandLine`.

**Session.** A task's `pc` is `next` (the loop of `exec`), `resolve` (path to
operation, read-only check, `exec_tool`'s lookup of results), `lock` (the read of
`tx` in `dispatch_op`), `dispatch` (waiting for the router), `store`
(`store_if_records`), `done`. `Dispatch`, `DispatchFails` and `DispatchLocal` are the
router's answers. `outputs` is the `Vec<ToolResult>`; `aborted` is an error
`exec()` returned instead. Nothing in the code opens a transaction, so `tx` is
always `None`: `begin` fails with `Unsupported`, the others with `InvalidState`, and
all of them still take the lock, which is what `TxIsFree` is about. Answers are
numbered; `log` and `seen` are history: the order in which results were stored and
how far along it each task has looked.

**Filter.** A row is a function from the columns it has to values `[type, n]`.
`MatchesFilter` is `matches_filter` by cases, compound filters through a recursive
function over `Filters`. `AsF64` is the rounding of `as_f64()` past `Exact`, which is
2^53 in the code. The comparison `_ => Equal` of `cmp_json_values` is kept: a number and a
string are equal to it. Inside `Filter` a `Like` is known by the strings it accepts.

**LikeMatch.** The variables are the function's locals, indices from 1; `starPi` is
`None` for `usize::MAX`. `Bookmark`, `Advance`, `Backtrack` and `Mismatch` are the four
arms of the first loop, `SkipTrailingStar` the second loop, `Finish` the return.
`Like` is the reference: some assignment of the text's parts to the pattern's fits.

**MemoryCollections.** A collection is the `Vec` of its records. `Upsert` folds
`PutRecord` over the batch (find by id, replace or push), `Delete` keeps what the
filter does not match. A vector is known by its cosine similarity with the one searched
for, `None` for a record without one. `TopIndices` is the loop of `vector_search`:
`top` grows by one, and beyond the limit one of the worst goes; which of several
equal ones is left open, as `sort_unstable_by` leaves it. `KeyedCollections` says the
same of a map and of all scores at once.

**MemoryTables.** A table is the `Vec` of its rows. `Results` is `query_table`: filter,
one stable sort per column from the last, total, offset, limit, projection. If a comparison
is no order on the rows at hand, `sort_by` promises nothing, and `SortBy` gives every
permutation. `Upserted` is `upsert_rows` with `find_row_by_pk`, `UpdateRows` sets column
by column. Its variables and its specification have names of their own (`tableVars`,
`TablesSpec`), so that one module can be about both halves of the driver.

**VfsPath.** A text is a sequence of symbols: `/`, a blank, and symbols each standing for
text without either. `ParsePath` trims, strips one slash and dispatches on the namespace;
`DbForms` lists the patterns of `parse_db`.

**CommandLine.** Texts are sequences of symbols, too, a tool's name being one.
`OpenQuote`, `InQuote`, `Operator`, `Redirect`, `Blank`, `Letter`, `Unterminated` and
`ParseLine` are the arms and the ends of `tokenize`. `ParseTokens` and the operators under it
are `parse_tokens`, `parse_pipeline` and `parse_stage`: `Collected` is a round of the loop
that looks for `;` and `&`, `Ended` closes a pipeline, `Argument` is a round of the loop
over a stage's words. `Number` is `str::parse::<u64>`, which takes a sign of its own.

## 3. Runs

Passing runs:

| Run | Question and answer | Bounds |
|---|---|---|
| `ResultStore` | Do map, deque and pointer stay in step and implement the window? Yes: `IndexesAgree`, `LastIsNewest`, `ImplementsWindow`. | 3 slots, 5 ids: eviction happens twice in a row, and reads meet ids never stored, stored and evicted |
| `RouterSerial` | With one caller and no faults, is the cache invisible? Yes: `Coherent`, `RepliesAnswerTheCall`, `ImplementsDirect`. | all kinds of path through `dispatch` on one collection and two tables; 4 entries against more reads, so eviction happens |
| `RouterShared` | With concurrent callers, faults, lost replies and queries that write, how does the cache go stale, does each call return, and does a stale entry go under `Ttl`? Only as `StaleOnlyIfExposed` lists; yes (`CallsReturn`); yes (`StaleExpires`). | 2 callers: a reader overlapping a writer; one graph, read, written and changed by a query; 1 entry for two reads, so that one evicts the other |
| `PipelinePlans` | When does folding keep the output? For every orderly chain; and no chain loses, doubles or moves a stage. | every chain of up to 3 stages out of 10, behind 6 leads, on tables of 0, 3 and 4 rows: stages interact in pairs, a third stands before, between or after them |
| `VirtualFS` | Do links stay transparent through any sequence of linking? May a path write? Yes; no. | a path of every kind, 2 links (a link to a link, relinking), views of two types, one shadowed, one missing |
| `SessionShared` | Do the outputs of a line match its pipelines, does `/results/last` ever go back for a task, does a driver that hangs for one task stop the other? Yes; no; no (`OthersProceed`). | 2 tasks, 2 calls each, 2 slots: a task's own result is evicted by the other |
| `LikeMatch` | Does the loop with one bookmark decide LIKE, and end? Yes: `AnswersLike`, `LastStarSuffices`, `Terminates`. | every text of up to 4 bytes against every pattern of up to 4 out of two letters (one in the other case), `%` and `_`: two `%` with something between, and backtracking over a partial match |
| `MemoryCollections` | Are a list and a running top-k as good as a map and a look at all? Yes: `ImplementsKeyed`. | 3 ids, batches of up to 2 with one id twice, scores that tie, a record without a vector; limits 0, 1 and 2, below, at and above the number of records |
| `MemoryTables` | What do upserts, pages, sorts and range filters guarantee? `UpsertByKey`, `PagesMakeTheAnswer`, `SortedByAllColumns`, `FiltersCutTheOrder`. | up to 3 rows, duplicate and missing keys, every set of columns as the key; `Exact` is 4, so 4 and 5 are one float; a string among numbers; every page size up to 3 |
| `CommandLine` | Is a line tokenized, grouped and read as it is written? `TokensFollowQuoting`, `HalvesMakeTheLine`, `ArgumentsKept`, `PathsRoundTrip`. | every text of up to 5 symbols (6 in paths) over the symbols that matter to one part: 40 000 lines |

`PipelinePlans`, `LikeMatch` and `CommandLine` end when there is an answer, `SessionShared`
when the calls are used up (`MaxCalls`), so deadlock is not checked there.

The named bounds are `MaxVersion` (a content may come back after as many changes),
`MaxCalls` (calls of a task) and `MaxRows` (rows of a table: a write that would exceed it is
not taken). None stands in the code.

What some of the properties say, where it is not obvious:

- `LastStarSuffices`: at every turn, the text is LIKE the pattern exactly if the rest
  matches from here or the last `%` can take more. It is the reason `like_match` may forget
  all the `%` before.
- `UpsertByKey` covers tables that already hold several rows of one key, as
  `insert_rows` looks at no key: the first of them is the one replaced, and found later.
  Repeating an upsert changes nothing, but appends rows that lack a key column once more.
- `FiltersCutTheOrder`: whatever value is compared with, `<` and `>=` (and `<=` and `>`)
  cut the sorted rows in two, although different integers compare equal past 2^53.
- `PagesMakeTheAnswer` and `SortedByAllColumns` speak of columns with one kind of value
  in every row (`Orderly`); elsewhere the comparison need not be an order.
- `ArgumentsKept` says what the count of `head -n N`, `head -n +N` and `tail -n N` is. Of
  `tail -n +N` it says nothing: that one is not read as it is meant (the table below).
- `HalvesMakeTheLine`: cut at any `;` or `&`, a line parses to what its halves parse to,
  and fails when one of them does; cut at a `|`, the last pipeline of the one half and
  the first of the other are one, stage by stage, and the others are as they are.

`StaleOnlyIfExposed` names three ways: (1) a write has reached the driver and its
invalidation is still to come; (2) a reader had its answer before a change and put
it after the invalidation; (3) a change was made that invalidates nothing, being
a `GraphQuery` or a write whose reply was lost. Only these two are excused: a kind of write
that `is_write()` forgot would leave stale entries behind, and break the property. Fresh
means: a lookup answers what the driver would answer now.

*Orderly* chains (`Pipeline!Orderly`) are those whose meaning a single query has:
folded filters first, then at most one `tail`, then `head`s with non-growing
counts; `grep` and anything after the boundary on the client; `wc` last; listings
followed by nothing but `wc`. For those folding is invisible; the runs below
show what happens outside.

Runs that show the code doing other than the repository says:

| Run | The code | The repository |
|---|---|---|
| `RouterRace` | a reader that had its answer before a write puts it after the invalidation; the entry stays | cache.rs:66, DESIGN.md:1496 |
| `PipelineOrder` | `head \| tail`, `head \| head` overwrite offset and limit and print other rows than the pipe | DESIGN.md:1356, :1114 |

The models follow the code in these other places, too. Where a document or a comment
says something else it is named on the right; the others may only surprise. They have no
run of their own:

| The code | The repository |
|---|---|
| a `GraphQuery` that changes the graph is cached, and repeating it never reaches the driver (`is_write()`, operation.rs:100) | DESIGN.md:821 |
| it also invalidates no cached read | DESIGN.md:812 |
| a folded `grep` filters on a column named `*`: no row has one, nothing passes (pipeline.rs:148) | pipeline.rs:26, DESIGN.md:1204 |
| a typed `filter` stage has no pushdown and passes every row (session.rs:368); `FieldFilter` stands for stages built through the crate | DESIGN.md:1205 |
| `head` after a listing leaves it whole (session.rs:300) | pipeline.rs:38 |
| `tail -n +N` drops N rows and starts at row N + 1 (command_line.rs:283) | command_line.rs:281, DESIGN.md:1203, :1632 |
| `head -20` has the flag `-20` and no `-n`, so it gives 10 rows (command_line.rs:270) | DESIGN.md:348, :1631 |
| no tool writes through a path: given to `rm`, `echo` or `find`, whatever the flags, it is a read or an error (`PathsOnlyRead`) | DESIGN.md:1574, :1581-:1584, planned |
| a newline is a blank (command_line.rs:96) | command_line.rs:18 |
| a flag without a value takes the next word: `sort -r name`, `grep -i foo` lose their argument to it | |
| a pipeline after `&` waits for the one before it (session.rs:208) | command_line.rs:21, DESIGN.md:1480 |
| `begin` leaves `exec()` by `?` and drops the outputs before it (session.rs:191) | DESIGN.md:1316, :1308 |
| `exec()` sends `cat /results/last` to the router, which refuses it (session.rs:238) | DESIGN.md:122, router.rs:177 |
| a search reaches the driver with an empty vector (session.rs:237) | vfs.rs:160 |
| `exec_tool` looks a result up under the last segment of the raw text: `/results/last/` under the empty id (session.rs:149) | vfs_path.rs:72 |
| `/search//q` and `/search///` name an empty collection; `/db//` is the root, `/db///` an error | |
| a search, result, tmp or link name ending in a slash or a blank cannot be written so that it is read back | |
| `_` matches one byte (filter.rs:119) | filter.rs:102 |
| `>=`, `<=` and `Between` hold of values of another type, which compare as equal; 1 and 1.0 are equal in order but not for `Eq` | filter.rs:80 |
| `insert_rows` reports no duplicate key, and `upsert_rows` then replaces the first such row only (memory.rs:314, :324) | DESIGN.md:1737 |

### Fairness

- `Router!FairSpec`: weak fairness of each call's next step (the runtime polls a
  task whose await is ready; a driver that was called answers, with `Drive` or an
  error) and of each entry's expiry (moka's clock). Nobody has to call.
- `LikeMatch!Spec`: weak fairness of the loop, which is synchronous and awaits nothing.
- `Session!SlowSpec`: weak fairness of the session's own steps only. The driver's
  answers (`Dispatch`, `DispatchFails`) carry none: a driver may hang, which is the
  point of `OthersProceed`.

## 4. Proofs

All theorems are for every value of the constants, from the assumptions the
modules name.

**ResultStore** (`MaxResultsAssumption`: at least one slot; `IdsAssumption`: no
UUID reads `last`). The inductive invariant is `TypeOK /\ IndexesAgree /\
LastIsNewest`: eviction is right because the deque lists each id once, and `last`
survives because with a slot or more the front of a full deque is evicted before the new
id is appended. `StoreTypeCorrect`, `StoreIndexesAgree`, `StoreLastIsNewest`, and
from them `StoreImplementsWindow`: a `Store` is a `Push` under the mapping of deque
and map to the sequence of entries, and a lookup in the map is what the window
holds under that id, because the deque has no duplicates.

**Router** (`MaxVersionAssumption`, `CapacityAssumption`, `OpsAssumption`,
`AnswersAssumption`: the error and the markers are not answers). The inductive
invariant `IInv` adds to the invariants that an entry answers an operation of its
key, that nothing is cached under `None`, and that a reader waiting to put, unless
overlapped, holds what the driver would still answer. That last one is what makes
`StaleOnlyIfExposed` inductive: `Fill` can only break freshness for readers that
overlapped a change. `RouterTypeCorrect`, `RouterRepliesAnswer` and
`RouterStaleOnlyIfExposed` hold for any callers and faults. `RouterSerialCoherent`
adds the assumption `Serial` (one caller, no faults, no graph writes): then no key
is ever exposed. `RouterImplementsDirect` assumes `CacheHidden` (`Serial`, or policy
`None`): `Drive`, and `Lookup` of a hit, map to `Execute`; the rest to `Invoke`, `Fail`,
`Return` or a stutter.

**VirtualFS** (`PathsAssumption`: every path has a kind of the enum). `VfsTypeOK`, in
which no link leads to a link, is inductive by itself, and `LinksAreTransparent`
and `PathsOnlyRead` follow from it, for `resolve()` makes a read or an error of every
kind of path (`ResolveReads`).

**Session** (`LinesAssumption`: lines are sequences of groups; `PathsAssumption`;
`NoneAssumption`: `None` is no number and no error; `StoreAssumption`: what a failed
lookup gives is no id and no result set). For any tasks, lines and interleaving:
`SessionTypeCorrect`, `SessionOutputsMatchGroups`, `SessionLastNeverGoesBack`. The
inductive invariant has a part per task and two shared parts. Per task, `Position` (what is
to do is the end of the line, from where the outputs stop), `Phase` (what a task has made
sure of when it is where it is: `exec_tool` is never at `dispatch` with an operation that has
no driver, a task at `store` has records) and `Fitting` (each output so far is its
pipeline's). Shared, `Made` (result sets held and stored are different and not yet to
come) and `Newest` (`last` leads to the last of `log`, in the map, whatever was evicted).
`Newest` is why `/results/last` cannot go back: what it leads to is the end of a log
that only grows. A step of one task keeps the other tasks' parts by `OthersKept`; `Combine` puts
the parts together.

**LikeMatch** (`InputsAssumption`, `LowerAssumption`, `NoneAssumption`: any set of bytes
and any case mapping on it). `LikeTypeCorrect`, `LikeLastStarSuffices` and
`LikeAnswers` hold for all texts and patterns. The inductive invariant adds
`NothingBehind` to the run's invariants: if the last `%` could take more than it has,
a match of what stands at the walk begins at a later byte, too. So when the walk meets
the next `%`, whatever the old one could still take, the new one can take as well, and
the old bookmark may go; and at the end of the text nothing is left to go back for. `Matches`
quantifies over layouts (functions) instead of recurring over the pattern: `MatchesPart` takes
one part off a layout or puts one before it, and no induction is needed.

**FoldLemmas.** A batch, a chain of stages, a list of columns are sequences of any length,
and what the code's loop over one computes is a `FoldLeft`. The community module defines
that by one recursive function over the subsets of the positions, that is by a CHOOSE, and
what it comes to needs induction. Here induction is had from one instance of the
library's well-founded orderings (finite sets under inclusion): a set of numbers has a
least one (`LeastNumber`), so what passes from n to n + 1 holds of all n (`StepsUpTo`).
`FoldIterates` shows that the CHOOSE has a value, `FoldAlong` follows it along the
sequence. A lemma cannot take the folded operator as a parameter, so it takes it as
a function, and each operator has a short lemma of its own, named `...Steps`, that brings
its fold into that form and gives a sequence of intermediate results. `SelectSeq` is
recursive and cannot be expanded by the prover, so the modules filter with `Kept`, a fold:
`KeptSelects`, `KeptAppend`, `KeptTwice`.

**Pipeline** (`ContentsAssumption`, `MatchesAssumption`: tables and predicates are of
rows; `DefaultCountAssumption`; `NoneAssumption`: an absent count is no number and an
answer still to come is no answer; `ProgramsAssumption`: a program is a lead the parser lets stages follow and a
sequence of stages, each of one of the kinds there are). For chains of any length:
`PipelineTypeCorrect` and `OrderlyPlansArePipes`. The property holds at every step, of what is shown so far and
the stages still to come, and yet is not inductive: it does not know how the request
came to be. `Inductive` adds that the stages done are those that could be folded, and that
offset and limit are those of one of them (`RequestOf`); and that what stays with the
client could not be folded, and has nothing behind a `wc` (`ClientRuns`). With it, the next stage
of an orderly chain finds neither offset nor limit set, or a limit no smaller than its
own (`OrderlyFolds`), and then serving the new request is printing the stage over what the old
one serves (`FoldPrints`). For `head` that is `TakeTwice`, a smaller limit after a larger one,
which is where the non-growing counts of `Orderly` are needed. `PipedNext` takes one stage off
the fold over the rest of the chain.

**MemoryCollections** (`RecordsAssumption`: a similarity is a number or absent;
`InputsAssumption`: batches are sequences of records, a limit is a `u64`). `TypeOK`, in which a
collection lists each id once, is inductive (`CollectionsTypeCorrect`): a batch keeps it
one record at a time, and deleting keeps it because `Kept` picks positions in order.
`CollectionsImplementKeyed` is the refinement: an upserted list maps to the map updated by
the last record of each id in the batch (`UpsertedById`), a filtered list to the map
restricted (`KeptById`), the length of a list to the size of the map (`IdsCounted`).
A search is the hard step. The loop holds the best `limit` of the records seen so far, in
the sense that none left out beats one held (`BestGrows`); at the end these are the best
of the map (`TopsAreBest`).

**MemoryTables** (`RowsAssumption`: a row with columns set to the values of an update is a
row, batches are sequences of rows; `QueriesAssumption`: the fields of a query, its offset
and limit counts or absent; `MaxRowsAssumption`; `ExactAssumption`). Five theorems, one
for each invariant of the run.

- `TablesTypeCorrect`: `TablesTypeOK` is inductive. It is the only one that needs
  to be; the others say what an operator makes of *any* table of that type, and are
  proved of the operators.
- `UpsertsMatchOnKey`: along the batch, `UpsertedBy` says after n rows which rows are
  where: a key touched for the first time has one place, any other key the places it had;
  its first place holds the last row of that key among the n; every other place holds what it
  held. At the end of the batch that is the property's first half. For the second, the same is said of
  upserting the batch into its own result: every key is there already, its first place
  ends with the row it had, and only rows that lack a column of the key are appended.
- `OrderByIsLexicographic`: rows whose column holds values of one kind have an integer
  `Rank`, and comparing them is comparing ranks (`CmpByRank`, where floats have already made
  integers equal). A sort by one column is a permutation in order of rank and, within
  a rank, of position (`Arranges`), which insertion keeps. Columns are sorted from the
  last to the first: after column k the rows are lexicographic in the columns from k on
  (`OrderedFrom`), since ties are in the order the columns after k gave them.
- `PagesAreTheAnswer`: rows that are `Orderly` have exactly one order, so each page is cut
  from the same sorted rows; page k is the `SubSeq` from `(k-1)n + 1` to `kn` or the
  end, and adjacent parts concatenate to the whole (`PagesFlatten`).
- `FiltersFollowTheOrder`: what `<` x lets pass has rank below that of x, what `>=` lets
  pass has not. A row of the one side is inserted among the sorted rows of that side as it is among all
  (`PlaceLow`, `PlaceHigh`), so, row by row, sorting the two sides apart and putting them
  together sorts the whole (`CutAt`). For `<=` and `>` the cut is at the rank one higher.

**CommandLine** (`InputsAssumption`: an input is a sequence of symbols, any; `ValueAssumption`: a
symbol that stands for digits is not `+`, `-` or `/`, and its value is a natural number;
`NoneAssumption`: an absent value is no quote, error, number, text or path). One theorem for each
invariant of the run, for lines of any length. The inductive invariant `Inv` has two
parts: `Tokenizing` (the types, and that what is left is an end of the input) and `Parsed`
(when there is a line, nothing is left, and it is what `ParseTokens` makes of the tokens, or an
error if a quote is open). It reduces four of the five to what operators make of *any*
sequence of tokens.

- `CommandLineTypeCorrect`: a word that is flushed is not empty, a pipeline that was pushed
  has a token, so at least one stage, and a stage whose path is an error fails the line.
- `CommandLineHalves`: splitting at a separator is splitting both sides (`SplitConcat`); collecting
  pipelines over two sequences is collecting over one and going on with what is open
  (`PipelinesConcat`), so where the first ends in a separator the pipelines are those of both.
  `SoundConcat`: two sequences of pipelines have no error exactly if neither has. At a pipe,
  `CutsAtPipe` finds the pipeline that is cut, up to the next separator, and splits its
  tokens; every other pipeline stays.
- `CommandLineArguments`: along the words of a stage, each does one of four things
  (`ArgumentOutcome`), and after n words what has been gathered is known from those n: the flags and
  which of them have values, the first word with a slash, the last `-n`, and a count of all
  words by what they became. With no flag repeated, that count is the statement.
- `CommandLineQuoting`: this one is about the loop, and `Inv` is too weak. `Reading` adds, of
  the symbols read so far: the open quote is the one `OpenAfter` says; the word is
  the text since the last break; the tokens are those of the breaks and words complete by
  then. It also says that a `>` is never read as the second of two arrows
  (`ArrowsRead`), which is what makes `>>>` one `Append` and one `Overwrite`. `Tokenized`
  says the same of the whole input, by sets of positions; each symbol adds one position
  to one of them (`PendingGrows`, `DoneGrows`).
- `CommandLinePaths`: a path is its first segment and the rest (`Divides`). Segments written
  behind slashes are the text again (`SpeltSegments`), and names without slashes are read back as
  the segments they were (`SpeltSplits`). With that, kind by kind, what is written is what was
  stripped, and parsing it gives the same kind and names (`NamedRoundTrips`,
  `SearchRoundTrips`, and for `/db` `DbSegments` with `ReadingBack`). No two forms
  of `parse_db` fit one path (`OneFormFits`), so the order of its arms does not matter and the
  CHOOSE in `ParseDb` has one form to choose.

`CommandLineOnlyReads` puts the two modules together: for a line typed at any state of the link
table, each path the parser lets through is of a kind `resolve()` has an arm for (`KindsAgree`:
this is what `PathsAssumption` takes for granted), and no tool gets a write out of it.

Only model-checked: the liveness properties `CallsReturn`, `StaleExpires`, `Terminates`
and `OthersProceed`, which need fairness and ENABLED.

## 5. Abstractions

- One driver, and its rows are versions (Router) or numbers (Pipeline). Several
  drivers by name, and the invalidation of another driver's entries, are left out.
- Two operations whose `Debug` texts share a 64-bit hash are left out.
- The session's VirtualFS has no links (nothing in `session.rs` adds one); what
  links do is in `VirtualFS`. The session's router answers or fails; what its cache
  does is in `Router`. A path never resolves to a write (`VfsPathsOnlyRead`), so a
  composition of the two would only ever read. A line the parser refuses never gets
  into `Session`; what is refused is in `CommandLine`.
- Text is made of symbols and chunks of letters; the few symbols that decide
  something are kept one by one.
- A row is an object. `update_rows` passes over a row, or a set of values, that is none
  (memory.rs:356), and the model has neither.
- A vector is its similarity, so a similarity that is not a number, and the capacity
  `limit + 1` at 2^64 - 1, are left out (both listed as hazards). `with_collection` could
  be given records with one id twice; collections here begin as `create_collection`
  makes them.
- Formatting of payloads, timings, token counts and messages are left out.
- Not modelled: `Embedder`, which nothing calls; the dispatch through an open
  transaction, which nothing opens; the empty crates.

## 6. Plan

Done, in this order: ResultStore with its window and proofs; Operation, Driver,
DirectRouter, Router with proofs; Pipeline; VirtualFS with proofs; Session with proofs;
LikeMatch with proofs; Filter; MemoryCollections with its abstraction; MemoryTables;
VfsPath and CommandLine; induction along folds, and with it the proofs of Pipeline,
MemoryCollections, MemoryTables and CommandLine.

What is left:

1. Several drivers: `dispatch` by name, and an invalidation that names a driver.
2. `Driver` as the abstraction of `MemoryTables` and `MemoryCollections`: rows in place
   of versions.
