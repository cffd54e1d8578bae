# A TLA+ verification of esodm

esodm is an object-document mapper for Elasticsearch written in Go: typed
repositories over the official client, bulk processing, point-in-time iteration,
relationship loading and reindex migrations. This directory models the parts of
it that keep state over several steps or several actors, and the computations whose
edge cases decide what a request asks for; it checks them with TLC on
small instances, and proves the central invariants for every instance with TLAPS.

Contents: [inventory](#inventory) · [modules](#modules) · [bulk](#bulk-writes) ·
[migrations](#migrations) · [checkpoint file](#the-checkpoint-file) ·
[iterator](#the-iterator) · [documents](#documents) · [library](#the-library) · [runs](#runs-and-bounds) · [fairness](#fairness) ·
[proofs](#proofs) · [finding](#finding) · [not modelled](#what-is-not-modelled) · [plan](#plan)

## Inventory

| Component | Source | State it keeps | Operations | Interacts with | What makes it hard | What makes it correct |
|---|---|---|---|---|---|---|
| Bulk stream | `bulk.go` | channels `jobs`, `results`; the producer's slice; first error; two contexts | `BulkStream` | caller's input channel, the bulk request, `onResult` | W+3 goroutines, every wait a `select` with the context | nothing lost, sent twice or misnumbered; the error is true; it returns |
| Bulk sequences | `bulk_sequence.go` | the batch being filled, the bridge goroutine | `BulkSeq`, `BulkSeq2` | bulk stream, the caller's iterator | a goroutine that may block for ever on a stream that has returned | same contract as the stream; producer joined |
| Bulk request | `bulk_retry.go`, `bulk.go` | outcome per item, pending positions, attempt | `Bulk`, `BulkWithOptions` | transport, hooks | ambiguous failures, partial answers, positions after a retry | at most one application; hooks once; items agree with the server |
| Checkpointed migration | `migration.go` | `MigrationState` (phase, mapping, task, documents) and the stored copy | `StartMigration`, `ResumeMigration` | cluster, task API, checkpoint callback, operator | crashes between effect and save; lost answers; delayed requests | the alias never moves to a partial copy; one copy submitted |
| One-call migration | `admin.go` | local variables only | `ApplyMigration` | cluster | the same cluster without checkpoints | the alias never moves to a partial copy |
| Checkpoint file | `migrationstore/file.go` | mutex, the file at `Path` | `Save`, `Load` | operating system | failures and crashes between system calls | never torn; acknowledged saves survive |
| Iterator | `iterator.go` | PIT id, page, position, sort key, closed flag | `Iterate`, `Next`, `Close`, `Cursor`, `Detach`, `ResumeIterator` | search and PIT API | PIT renaming and ownership; cursor in the middle of a page | no hit skipped; the PIT it knows is deleted once, never under its owner; what is left open shows as an error |
| Document writes | `repository.go`, `operations.go`, `options.go` | none (the document's version is the server's) | `Create`, `Replace`, `Save`, `Insert`, `Update`, `Upsert`, `UpdateWith`, `Delete`, reads | hooks, transport | lost answers, repeated and late requests, version conflicts, vectors left out of reads | no lost update with tokens; applied once; outcomes are true |
| Index creation | `index.go`, `repository.go` | none | `EnsureIndex`, `EnsureAll`, `VerifyIndex`, `VerifyAll` | cluster, registry | another creator between HEAD and PUT, a writer that makes the index | a race alone never fails a start; what is verified fits |
| Reference loading | `relations.go` | visited set, pending level | `MGet`, `Load`, `Preload`, joins | multi-get | cycles, repetition, limits, missing documents | each reference once, breadth first, whole levels |
| By-query and tasks | `operations.go` | the server's task | `UpdateByQuery`, `DeleteByQuery`, `Task`, `WaitTask`, `CancelTask` | task API | conflicts, partial failures and timeouts inside a 200 | success means complete |
| Registry, models, schema | `model.go`, `schema.go`, `fields.go`, `geo.go` | registered entries, under a lock | registration, inference, overrides | repositories, the generator | Go's embedding rules, tags, joins | the mapping fits what encoding/json writes |
| Search, query, facets, finder | `search.go`, `query.go`, `facets.go`, `finder.go` | builders: structs that share arrays and maps | deriving, compiling, sending, decoding | transport | shared slices and maps, composition, partial results, overflow | derived values are independent; the hits are those asked for |
| Client | `client.go`, `adapter/` | server version, observers | one request per call | official client | classification of answers that are not one | an error that says refused is true |
| Tools and tests | `cmd/`, `internal/`, `esodmtest/`, `observe/` | - | - | - | the generator repeats the library's field rules | both find the same fields |

`PROJECT.json` lists the hazards of this code, each at its line with the properties
that would catch it going wrong.

## Modules

```
BulkDelivery  <-- refined by --  BulkSequence  -- extends -->  BulkStream
              <-- refined by --  BulkSeq
BulkRetry         (what one bulk request of BulkStream or BulkSeq is inside)

AliasMigration <-- refined by -- Migration       -- extends --> MigrationCluster
               <-- refined by -- ApplyMigration  -- extends --> MigrationCluster
CheckpointFile    (the checkpoint callback of Migration)

Iterator

Client  <-- extended by --  Documents (MCDocuments), IndexSetup, ByQuery, Queries
Library (MCLibrary) = IndexSetup + References + Builders + ByQuery + Queries + Numbers + Schemas

BulkStreamProofs (BulkStream and BulkSequence), BulkSeqProofs, BulkRetryProofs,
MigrationProofs (Migration and ApplyMigration), CheckpointFileProofs, IteratorProofs,
DocumentsProofs, LibraryProofs (ByQuery, IndexSetup, Builders,
Numbers, References and Queries)
```

Every module takes its sizes as CONSTANTS; a `.cfg` file named after the run gives
the values. `MCDocuments` and `MCLibrary` add a symmetry and a set of inputs; the
other modules are checked as they stand. Definitions marked "Mutant" are a plausible
bug each, in the place of the definition that follows it; no specification uses
them, they show that the property they are listed with can fail.

### Bulk writes

`BulkDelivery` is what each bulk front end promises: operations are accepted in
order, cut into batches numbered from 0, each batch is delivered to the callback at
most once, a callback error ends delivery, and the call returns an error that is
true: none only if every operation accepted was delivered without error.

`BulkStream` models `Repository.BulkStream`, one action for each point where a
goroutine can block or be preempted:

| Code | Actions |
|---|---|
| producer goroutine, its `select` and `send` (bulk.go:304-347) | `ProducerReceives`, `ProducerTicks`, `ProducerSeesClose`, `ProducerSends`, `ProducerStops`, `ProducerReturns` |
| worker goroutine (349-367) | `WorkerTakes`, `WorkerStarts`, `WorkerFinishes`, `WorkerReports`, `WorkerStops` |
| `wg.Wait(); close(results)` (369) | `Closer` |
| the result loop and the callback (370-388) | `CollectorReceives`, `CallbackReturns`, `CollectorReturns` |
| the caller: send, close, cancel | `CallerSends`, `CallerCloses`, `CallerCancels` (external) |

A `select` is two actions that may both be enabled. The input channel is unbuffered,
`jobs` and `results` have the code's capacities. The derived context is
`CtxDone == parentDone \/ cancelled`. `formed` and `delivered` are history
variables: the batches sent to workers and the results handed to the callback. Slices
are modelled as Go has them: `ops` is what the producer has appended, `array` the array it
appends into, `heap` all arrays. A batch in the queue or with a worker is an array and a
length (`Batch`), so that a producer which went on with the same array after `send` would
change a batch under its worker; `BatchesKeepTheirOps` says that it does not. A
request is `WorkerStarts` and `WorkerFinishes` with either outcome, and any outcome
once the context is over; `BulkRetry` has its inside.

`BulkSequence` adds the goroutine of `streamSequence` that drains the caller's
iterator into the stream, and the `cancel(); <-done` after it. The stream's parent
context is the bridge's, so the stream's caller actions are replaced by the
bridge's. Its instance of `BulkDelivery` is the refinement mapping.

`BulkSeq` is the sequential loop of `BulkSeq2`, used for one worker and no ticker. The
context is looked at before each operation (`ContextReturns`) and once behind the loop
(`ChecksEnd`). The second look matters for a sequence that honors the context itself and ends
early without an error: `short` remembers that it may have, and the refinement calls such a
source `cut`, of which the contract lets no call return success.

`BulkRetry` models `BulkWithOptions` with `sendBulk`. An operation is its index. The
server may process a request late, after the client has given up, or not at all;
what is assumed of it is that an item it answers as rejected was not applied. The
answer is decoded by position, and may be malformed from any item on. AfterWrite may
fail, and its error may itself look retryable (`hook429`), which is why the code asks
for a `CommittedError` before it asks for `Retryable`.

### Migrations

`AliasMigration` is the contract of a migration: the alias moves once, from the
source to a target that holds every document, and only then is the migration
complete; another administrator may move it elsewhere.

`MigrationCluster` is the server, the reindex tasks, and the network, all external:
a request is issued, handled at some time or never, answered or not. A request that
the client gave up (`late`) may still be handled. Refreshes decide what a count and a
copy see. Another administrator or writer may interfere a bounded number of times.
The alias request is atomic and carries `must_exist`, so it is a compare-and-swap of
the alias, as `Admin.Aliases` builds it.

`Migration` models StartMigration, submitMigration and ResumeMigration: `pc` is the
next step of the running call, `state` the `MigrationState` it holds and returns,
`store` what the callback's storage shows and `durable` what a crash leaves of it.
Each call to `checkpoint` may fail before or after it took effect. `Crash` loses
`state` and `pc`; the next run starts from the store. `Reconcile` is the operator
following docs/migrations.md, "Recovery decisions"; `GiveUp` is the operator's right
to stop when a task's outcome cannot be established.

`ApplyMigration` models the one call that does it all, which waits for the
reindex inside the request.

### The checkpoint file

`CheckpointFile` models `File.Save` and `File.Load` per system call. `path` is the
file the directory shows, `disk` the file a crash would leave there: the file system
may write back at any time, must have written what was synced, and a rename is
atomic. `DirSync = FALSE` is Windows. Checkpoints are numbered in the order saved.

### The iterator

`Iterator` models one iterator at a time and a process that may go on from a cursor
it has kept. `pit`, `page`, `position`, `current`, `after`, `err`, `closed` and
`started` are the fields of the struct; `owner` says who must close the PIT, `open`
which PIT ids the server still knows. With any answer, also one that fails, the
server may rename the PIT; it is taken to forget the old id with that.

Answers may be lost, unreadable or told without an id. `IterateFails` is a `POST /_pit` that
may have opened a PIT all the same, `NextFails` a search that may have renamed it:
the iterator adopts the id an answer told (`AnsweredPit`), else deletes the one it knows, for
which a 404 counts as success. The ids no answer told are in `lost`. No client can close
these before the keep-alive runs out; `NoSilentLeak` says that nothing else is left
open but a PIT whose deletion failed, and that in either case the caller was given an error.

`Answers` lets the server send a page that ends with the hit the last page ended with, or hits
without sort values; which page the iterator takes is decided by `Advanced`, as in the
code. A server that answers `search_after` with other hits altogether is not modelled.

### Documents

`Client` is what `Client.perform`, `DoTyped`, `Connect` and the version rules make of a
request and its answer. It keeps no state; the modules below apply it to every answer
their server may give, with a body that is whole, unreadable, too large, empty,
malformed or followed by more. `Refusals` are the errors that tell a caller the server
refused this very request; any other leaves open what became of it.

`Documents` models one document and the goroutines that read and write it. `doc` is
the server's document, `hit` what each caller read last, `call` the value and the
options it has prepared, `net` the requests the server has still to handle, however
late. One write is these actions:

| Code | Actions |
|---|---|
| `Get`, `loadWith`, `Search` with `includeSourceVectors` (repository.go, relations.go, search.go) | `Read`: a value, with or without its vectors, and its tokens |
| the caller's value; `IfMatches` copies the tokens (options.go:106) | `Prepare` |
| the method up to its request: `writeWith`, `updateWith`, `upsert`, `UpdateWith`, `DeleteWith`, `values`, hooks, `Stamp` | `Send`, whose `...Refuses` operators are the early returns of each function |
| the index, update and delete API | `ServerHandles` (external) |
| `perform`, `afterWrite`, `CommittedError` | `AnswerReceived`, `CallFails` |
| a caller that does not know what became of its call | `Repeat` |

A value is the set of calls whose edits it carries, so that a lost edit can be seen.
Elasticsearch 9 leaves vectors out of what it returns unless they are asked for, which is
why a read that does not ask, followed by a conditional replace, would lose them.

### The library

`Library` composes the parts that share nothing but the client. A call of one reads no
state of another, so their composition is a sum: `part` says which one a behaviour
follows, and the variables of the others stay `Nil`. It gives each instance its
constants, states the assumptions on them (`LibraryAssumption`), and repeats each
part's property under its name.

- `IndexSetup` models a program that starts: `Connects`, `EnsureAll` (`EnsureNext`,
  `HeadIndex`, `PutIndex`, `PutReturns`), `VerifyAll` (`VerifyIndex`), and the registry
  (`Add`), while the server handles a PUT some time after it was sent (`ServerCreates`) and
  others create the index or add fields to it by writing (`Interferes`). `todo` and
  `pos` are the snapshot of the registry a call ranges over.
- `References` models `MGet`, `Load` and `Preload` on every graph of three documents.
  MGet runs the AfterRead hook over each document found (`AfterRead`), which may refuse any of
  them: that one's answer is then the hook's error. `Load` and `Preload` run none.
  `depth`, `seen`, `pending`, `nodes` and `truncated` are the code's variables; `Fresh` is
  the loop both functions run over a slice, keeping what they meet for the first time; `Level`
  and `LoadLevel` are one round of its loop, cut where it sends its requests. The property
  compares them with `Layer`, which defines distance from the roots without an order of
  traversal.
- `Builders` models a `Finder` as Go has it: slices as an array of the heap and a length,
  maps by reference. `Find`, `AddClause`, `With`, `Param`, `Aggregate` and `HybridRRF`
  derive a value; `CallerWrites` is the caller who goes on using the slice it passed.
  `meaning` is what each caller asked for.
- `ByQuery` models a task of the server that takes a snapshot and processes its documents
  one by one (`TaskStarts`, `TaskSteps`, `TaskEnds`, external) beside other writers,
  `UpdateByQuery` and `DeleteByQuery` (`ByQuery`, `ByQueryReturns`), and `WaitTask` and
  `CancelTask`.
- `Queries`, `Numbers` and `Schemas` are functions: `given` is a case, and one step
  computes `result`. `Queries` has `boolean`, `Finder.compile`, `First`, `Exists`, `Count`,
  `WithFacets`, `DecodeAgg` and `MultiSearch`, with a query as the set of documents it
  matches and shards that fail or stop early. Its documents, shards and names are
  constants, and so are the cases (`Calls`), any of the types the module gives; `Cases` of
  `MCLibrary` lists those TLC tries. `Numbers` has `Finder.Page`,
  `RetryPolicy.delay` and `Search.Timeout` over integers of W bits that wrap. `Schemas`
  has `jsonFields`, `inferProperties`, `NewSchema`, `SchemaFromMapping`, `compileJoin`,
  `validateJoin`, and the generator's own `visibleFields` and descriptors, over small struct
  types. The two resolutions are translated apart, as the code has them: `Candidates` by the
  path of embeddings, `Collected` by the structs it is inside of. Both are compared with
  each other and with the rule of encoding/json, `Beats`. A tag is what `parseTag` makes of
  it, or one it refuses. Descriptors and mapping have to agree in the objects that both
  open: the generator opens a struct also where its tag maps it as text, and does not see
  overrides, and docs/models.md:224 promises no more.

## Runs and bounds

| Run | Instance | Distinct states | What it shows |
|---|---|---|---|
| MCBulkStream | 2 workers, batches of 2, queue of 1, ticker, 3 operations | 171 815 | nothing lost, twice, misnumbered or overwritten; the error is true; goroutines joined; the call returns, what is received is delivered unless the context or the callback ends it |
| MCBulkSequence | 2 workers, batches of 2, queue of 1, 4 operations | 45 612 | refinement of `BulkDelivery`; the bridge is joined |
| MCBulkSeq | batches of 2, 6 operations | 786 | refinement of `BulkDelivery`, in order; a sequence cut short is not taken for one that ended |
| MCBulkRetry | 3 operations, 2 retries | 8 174 | at most once, hooks once, items and error agree with the server |
| MCBulkRetryStatus | 2 operations, 1 retry | - | violated: see [finding](#finding) |
| MCMigration | 2 documents, 2 interferences, 3 faults, durable saves | 27 190 | refinement of `AliasMigration`, write-ahead, one submission, completion |
| MCMigrationLossy | 2 documents, 3 faults, saves may be lost | 775 k | refinement of `AliasMigration` on a store that loses saves |
| MCApplyMigration | 3 documents, 2 interferences | 1 416 | refinement of `AliasMigration`: the alias never shows a partial copy |
| MCCheckpointFile | 2 goroutines, 4 saves, 2 crashes | 4 126 | never torn, durable, forward |
| MCIterator | 4 hits, pages of 2, 2 renamings, 2 resumes | 88 947 | no skip, no repetition; what is left open is known and reported; ownership |
| MCDocuments | 2 calls, each sent twice, version 9 | 311 286 | conditional writes lose nothing and are applied once; outcomes are true |
| MCLibrary | see below | 453 549 | each part of the library against its reference |

Why these sizes: two workers and three or four operations in batches of two give a full batch,
a partial one, and two batches in flight that can finish in either order while a
third waits in the queue of one. Three operations and two retries give a retry of
a proper subset followed by a retry of a subset of it. Two documents tell a partial copy from
a full one; three faults allow a failed save, a crash and a lost answer in one
history. Pages of two over four hits end on a full page, so that the empty page
after it is fetched, and leave an unread hit when a cursor is taken. Two calls sent
twice give a repetition that arrives before, between and after the other writer's
requests; they are interchangeable, so the run uses their symmetry.

In MCLibrary: two indices and two calls of `Add` (a duplicate within a batch, between batches,
and a registration between EnsureAll and VerifyAll); three documents with any references,
batches of 2, depth 2 and limits of 2 and 3 (a graph that fits, one that exceeds each limit, a
level of two batches); three derived values (a value, one derived from it, and a sibling); two
documents with one foreign write each; six bits with the constants of the code scaled
(`DefaultInitial`, `DefaultMaximum`, `Millisecond`), so that every page, size, delay and
duration is tried; three documents on two shards; structs of three types, embedded in each
other.

Bounds on
counters are constants named Max..., used only in guards of the environment's
actions.

Type invariants stand in the modules beside the properties. Those of `BulkStream`,
`BulkRetry`, `Migration`, `CheckpointFile`, `Iterator` and `Documents` are proved, as are
the types of `BulkSeq`, `ApplyMigration` and the six proved parts of `Library` as far as
they are needed; the runs spend their time on what could be wrong.

`CHECK_DEADLOCK FALSE` everywhere: each model ends when its call has returned or its
bounded environment has nothing left to do.

## Fairness

- `BulkStream!Fairness`, `BulkSequence!SequenceFairness`: weak fairness of each
  goroutine, which the Go scheduler gives. It covers the end of a request and of a callback
  (`WorkerFinishes`, `CallbackReturns`): both are assumed to return, which the transport's
  context and the caller's code answer for. The context branch of the producer's
  `select` has fairness of its own: Go chooses among ready branches at random, so it
  is not passed over for ever while the context is over. The caller is not assumed to send,
  close or cancel: `Returns` says that the call returns *if* the input closes or the
  context ends.
- `Migration!Fairness`: weak fairness of the running call, of the server for a request it
  has, of a task, and of the operator who reconciles an ambiguous checkpoint; strong fairness
  of `GiveUp`, which is enabled and disabled as calls are repeated on a migration that cannot
  succeed (another index behind the alias, a foreign target, a lost task). Nothing is
  assumed of faults and interferences except that they are finite.

The other runs check safety only and have no fairness.

## Proofs

Every theorem is of the form `Spec => []P` or `Spec => A` for all values of the
constants, so for any number of workers, operations, documents, hits, calls, crashes and
so on. The table lists what is proved of each module besides its type invariant, and
the parts its inductive invariant has that the property does not; after it, why they are needed.

| Proofs | Proved | Inductive invariant |
|---|---|---|
| `BulkStreamProofs`, of `BulkStream` | `BatchesCoverInput`, `JoinedOnReturn`, `BatchesKeepTheirOps`, `NoBatchTwice`, `NoBatchLost`, `ReturnTellsTruth` | `ClosingOrder`, `CallbackOver`, `OfferIsNext`; then `Written`, `Slices`; then `Placed`, `Endings` |
| the same, of `BulkSequence` | `DeliveryContract`: it implements `BulkDelivery` | and `BridgeOrder`, `Answered` |
| `BulkSeqProofs` | `DeliveryContract` | `Cutting`, `Numbering`, `Errors`, `Shortness` |
| `BulkRetryProofs` | `AppliedAtMostOnce`, `HookOncePerWrite`, `ErrorMatchesServer`, `AcknowledgedIsFinal` | `Untouched`, `Outstanding`, `Attempt`, `Settled` |
| `MigrationProofs`, of `Migration` | `SafeMigration`: it implements `AliasMigration`; `CheckpointNeverRegresses`; `WriteAhead` and `SubmittedOnce` if saves are durable | `PhaseAtStep`, `AwaitedAtStep`; then `Copied`, `Ordered`, `Ahead`, one for each promise |
| the same, of `ApplyMigration` | `SafeMigration` | `Verified` |
| `CheckpointFileProofs` | `NeverTorn`, `SavedIsDurable`, `PathMovesForward` | `Mutex`, `TempFollowsCall`, `Ordered`, `Synced` |
| `IteratorProofs` | `EmitsSuccessor`, `ExhaustedMeansAll`, `NoSilentLeak`, `DetachedPitIsKept` | `Paging`, `Covered`, `Ownership` |
| `DocumentsProofs` | `NoLostUpdate`, `AppliedOnce`, `OutcomeTellsTruth` | `Known`, `Traced`, `Passed`, `Told` |
| `LibraryProofs` | `SuccessIsComplete`, `StartedIsReady`, `BuildersIndependent`, `NumbersStayInRange`, `PreloadIsBreadthFirst`, `QueriesSelect` | `Ops`; `Start`; `Heap`, `Searches`; `GivenCase`; `Once`, `Ordered`, `Bounded`, `Between`, `Outcome`; a case keeps its type |

**BulkStream.** The first invariant orders the goroutines: jobs are closed only by a
producer that has ended, results only when producer and workers have, and the collector
returns only after. It says that the slice being filled continues the batches formed. For
`BatchesKeepTheirOps` it has to be known that what the producer holds is written in its
array (`Written`), and that every batch under way has an array of its own (`Slices`).
That a batch is delivered once, and not lost, needs to know where each one is at every
moment: in the queue, with one worker, among the results, at the callback, or given
up (`Placed`). `ReturnTellsTruth` also needs what made the goroutines end (`Endings`):
while the context is not over, the producer ends only at the end of its input and a
worker only when the jobs are closed and empty. The error of `BulkSequence` is the
stream's unless a context has ended the bridge (`BridgeOrder`, `Answered`), and with
that each of its steps is one of `BulkDelivery` or a stutter.

**BulkSeq.** With one goroutine the invariant says where the call is: which batches it
has formed, how far their delivery has come, which errors it has seen; and that a sequence cut
short leaves the loop only for the check behind it, which then returns (`Shortness`).

**BulkRetry.** At a return the properties hold because of what holds in between: an
operation that is not in the current attempt is settled, its item and the server agree
(`Settled`); one that is has not been applied until the server has handled the attempt,
and from then exactly if its answer says so (`Attempt`). A request nobody waits for
any more is still the whole attempt, with nothing of it applied (`Outstanding`): the
server may handle it later, and there is no other to apply its operations a second time.

**Migration.** `SafeMigration` rests on `Copied`: a switch is asked for, or on its way from an
earlier life of the process, only when the target is complete. It needs no durable store, so
that MCMigrationLossy is a small instance of a theorem. `Ordered` says that the disk is not
ahead of the store nor the store of the memory, by phase and by task; the one exception is a
new run that begins to plan again over a checkpoint that says "creating". `Ahead` adds that
memory, too, admits what may have been done, and that before each request the checkpoint
already does; it is the only one that assumes `DurableSave`, a callback that is durable when it
returns nil.

**ApplyMigration** has no checkpoint: that the target is complete when it asks for the
switch follows from the counts it took itself (`Verified`).

**CheckpointFile.** `NeverTorn` alone is not inductive: after `Rename` it depends on the
temporary file having been synced before (`TempFollowsCall`), which in turn is
the file of the one thread that holds the mutex.

**Iterator.** The page holds the hits that follow the current one, and `search_after` its last
(`Paging`); all hits before are emitted (`Covered`); every PIT the server keeps is the
iterator's, the caller's, or left behind by a failure that was reported (`Ownership`), and of
those left behind each was lost or is the one not deleted. A closed iterator is excepted: a
page that was refused stays in its fields.

**Documents.** A conditional write relies on this: every copy of a hit whose sequence
number is still the document's holds all the edits the document does (`Known`), whether a
caller has it, a prepared call, or a request on the network. `AppliedOnce` needs that
a conditional call that was applied has left behind the number its other requests are
for (`Passed`), and `OutcomeTellsTruth` that a request which is its call's only one was
handled exactly as its answer says (`Told`).

**Library.** A behaviour follows one part, so each invariant speaks of its own. `Ops`: each
document of a task's snapshot is left, done or in conflict, and a task that stopped
before its end says why. `Start`: what the loop is done with exists, and what was
compared without a difference has the schema, also after others have added fields.
`Heap` and `Searches`: each derived value still means, read from the heap, what its
caller asked for; no value refers to the array of a caller that goes on writing to it,
and the heap only grows.

Two more parts of `Library` are about recursive functions: the loop over a slice (`Fresh`), the
concatenation of the children, distance in a graph (`Layer`), powers of two and the doubled
delay. `LibraryProofs` derives what it needs of them from one fact of the library, that the
order of the numbers is well-founded: `Induction`, which is about a set of numbers and so has
no operator for a parameter, and `Recursion`, that a first value and a rule for the next one
make a function. With the latter each recursive definition is shown to have the value its
equations say, and with the former what holds of it follows.

`NumbersStayInRange` holds for every width of an integer: a page that passes the division
`MaxInt \div size` has a window that does not wrap (`Products`, `PageKeeps`), the doubled delay
never exceeds its limit and is the least of the limit and the power of two times the first
delay (`Doublings`, `UpperHalf`, `DelayKeeps`). `PreloadIsBreadthFirst` holds for every finite
graph, batch size, and limits: between two levels what has been seen is loaded (`Between`), the
nodes are the layers before `depth`, once each and in order (`Once`, `Ordered`), and the new
references among the pending ones are exactly the next layer (`Bounded`). When that layer is
empty all later ones are, so that a result which is not truncated is closed. That distance is
well defined needs each layer to be disjoint from those before it, and that a batch is found
again by its position needs batches to be a partition of the distinct references.

`QueriesSelect` holds for any finite set of documents, any shards, and any number of
clauses, facets and searches; its proof follows the calls rather than states, since each is
one step. What the server does with a bool query is compared with what the caller asked
for, counted or said document by document (`BooleanSelects`, `CompileSelects`), whatever
`minimum_should_match` was left out or set. A result with no error comes from all shards,
and is a window of what was wanted (`ResultSelects`); that a window of enough documents is
all of them, and is empty only if they are, follows from counting the documents before
each (`Ranks`, `Windows`). A facet's filter is the selections but its own
(`SelectionsSelect`), found again under a name that the server may have prefixed
(`DecodeTyped`) or not (`DecodePlain`).

The refinements are proved step by step: the initial states map to initial states, and
a lemma per kind of step maps it to an action of the contract or to a stutter.

Assumptions: those named in the modules and nothing else. `StreamAssumption`, `SeqAssumption`,
`RetryAssumption`, `IteratorAssumption`, `FileAssumption` and `LibraryAssumption` restate
what options are validated or defaulted to; `ClusterAssumption` and
`MigrationAssumption` that documents are finitely many and bounds are numbers
(`NilAssumption` the former for `Library`, whose `LibraryAssumption` says the same of the
references and that a call starts from a sequence of them);
`NumbersAssumption` that the default delays are positive and fit in an integer;
`QueriesAssumption` that documents are finitely many numbers, each on a shard, names
finitely many, and that the cases have the types of `Queries`;
`DocumentsAssumption` that the server is version 8 or 9. `DocumentsAssumption`,
`NoneAssumption` and `NilAssumption` also say that a model value is none of the data
it stands for the absence of.

Model-checked only:

- `Returns`, `ReceivedIsDelivered`, `SequenceReturns`, `Completes`: liveness under
  fairness, beyond the prover.
- `SchemasFitDocuments`: the fields of structs that embed each other, compared with the rule of
  encoding/json, and the generator with the schema, over the structs `Schemas` enumerates. What
  holds of any nesting is an induction over the data, and the recursion follows a path of types
  rather than a number.
- `RejectedIsNotApplied`, which does not hold: see below.

## Finding

`MCBulkRetryStatus`: bulk.go:52 says of `BulkItem.Status` that "zero means no definitive server
outcome was decoded". When a retried attempt fails ambiguously (bulk_retry.go:138-145), the
items it carried keep the 429 or 5xx `Status` and `Err` of the attempt before, although the
server may have applied the failed attempt. A caller that trusts the item takes a write that
may be applied for one that was rejected. The comment on `BulkResult.Items` (bulk.go:64-65)
warns of this in general; the item does not show it.

## What is not modelled

- Promises of callers: `MigrationOptions.WritesPaused` is taken as
  kept, up to the bounded interferences.
- Content: documents are sets of edits, queries the sets they match, mappings functions
  from paths to attributes; JSON, headers and wording are left out.
- Constructors of one query, one aggregation or one request option, which encode their
  arguments and decide nothing; `prepareBulk`'s encoding; inner hits; `SearchFromRequest`.
- The other administrative calls: one request each, nothing kept.
- The adapters, the typed indexer, the observer and the test recorder: forwarding,
  telemetry and test doubles. The documentation generator and the generator's file work.
- In `ByQuery`, a call that waits and whose task another administrator cancels: the
  answer then has no failures and no timeout, and the code does not look at a report of a
  cancellation. The model lets only a caller that has a task's id cancel it, and
  makes no claim beyond that.
- In `Schemas`, the limit of 32 on nesting is "a type met twice on one path". What `parseTag`
  refuses is one malformed tag; the values of keys other than the type are not told apart. A
  struct that marshals itself may write other fields than its mapping has: docs/models.md:226
  leaves that to the caller, and no property is about it.
- In `Iterator`, a server that keeps the old id of a PIT alive when it gives a new one, and
  one that ignores `search_after` in any other way than repeating its last page.
- The transport's own retries, which are configured on the official client; the
  models assume it does not repeat a request by itself.
- Several processes that share a checkpoint path: docs/migrations.md asks for a lease.

## Plan

Done in the order: bulk stream, its contract and its sequences; bulk request;
checkpointed migration, file, one-call migration; iterator; first proofs; client and
document writes; the parts of the library; then the proofs of every safety property of
the bulk front ends, of the bulk request, of the migrations, the file, the iterator and
the documents, of the parts of the library that keep state over several steps, and
of the refinements; then the two parts of the library that rest on recursive functions,
arithmetic and the traversal of references; last what searches select, with documents,
shards and cases as constants.

Next:

1. `Schemas`: the struct types as constants, so that TLC tries more of them than fit in one
   run, and the rule of encoding/json for any of them whose nesting has a limit.
2. The longest proofs (`BulkStreamProofs`, `LibraryProofs`): fewer and larger lemmas.
