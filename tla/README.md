# Formal models of eal-sync

TLA+ models of the ingestion side of Embedded Alerts: the durable crawl queue down to its row locks,
the workers that drain it, the crawl command they run, the HTTP fetcher, and what is made of a page:
its text, its links and its embedding inputs. TLC checks them on small instances; TLAPS proves, for
every value of the constants, all the safety properties that the passing runs check, and the
refinements of the queue.

Paths below are relative to the repository root.

## The system

| Part | State | Operations | Talks to |
|---|---|---|---|
| Crawl queue, `runtime-worker/src/queue.rs`, `migrations/001_runtime.sql` | tables `eal_crawl_jobs`, `eal_crawl_attempts` | `seed`, `lease`, `complete`, `fail`, `reap_expired`, each one transaction | PostgreSQL |
| Worker, `runtime-worker/src/main.rs` | the `CrawlJob` it works on | `run_worker`: reap, lease, crawl, post, settle; idle sleep; ctrl-c; `--once` | queue, command, API |
| Command runner, `runtime-worker/src/runner.rs`, `types.rs` | a child process and three pipes | `run_crawl_command`, `read_limited`, `CrawlCommandEnvelope::validate` | crawl command (external) |
| API client, `runtime-worker/src/api.rs` | none | `ingest_page` | eal-api (external) |
| HTTP fetcher, `src/ingestion/network/*` | one semaphore per host, shared by clones | `fetch`: scope check, permit, resolve, request, redirect, body | DNS, web servers |
| Fetch scope, `network/policy.rs` | hosts and path prefixes of a source | `for_url`, `allow_host`, `allow_path_prefix`, `allows_url` | |
| Extraction, `content.rs`, `semantic_views.rs` | none | text, links, embedding inputs of a document | |
| Revision, `revision.rs` | none | `decide_revision`, `EmbeddingWorkItem::validate` | |
| `crawl_once`, `src/bin/crawl_once.rs` | none | one `fetch`, printed | fetcher |
| Reconcile gateway, `src/main.rs` | none | `merge_json` of the external `syncer_rs` | HTTP clients |

Workers share nothing but the database. A lease is a token in the job's row with an expiry; the
row of `eal_crawl_attempts` with the same token is the receipt of what became of it. A worker
crawls and posts outside any transaction, so everything it knows of the job may be stale when it
settles.

What is hard here, and what it means for each part to be right:

- **Queue.** Row locks taken in opposite orders by settlements and by the reaper, stale handles, late
  and repeated settlements, reseeding during a lease, a `now()` that is the start of the transaction,
  retry counts at their ceiling. Right means: a lease and its attempt agree, only the holder ends a live lease, receipts never change, failures are counted
  once and waited out, transactions interleaved as they may be are still one operation each, and
  none stays open.
- **Worker.** Death at any point, leases shorter than the work, lost answers. Right means: with
  long enough leases nobody is overtaken; a success is a page the API accepted; dead leases are
  recovered, and due jobs reached although leases pass over locked rows.
- **Runner.** Blocking pipes, limits, a child that stalls, does not read, or leaves descendants that
  keep its pipes. Right means: worker and child never wait for each other, limits are exact, and
  every run ends, but for the write that has no deadline.
- **Fetcher.** Redirects across hosts under per-host limits, lookups without a timeout. Right means:
  limit, scope and validators hold on every hop, and a fetch waits for ever only on a lookup of its
  own hop's host.
- **Extraction and revision.** Byte offsets in a page that is not ASCII, rewritings whose order
  matters, limits written in several places, an order of deduplicating, capping and numbering.
  Right means: the text hashed is what the page shows, links are found as they are written, what the
  extractor emits is accepted by the gate in front of the embedding queue, and no view, key or
  string is lost or misplaced on the way.

## Modules

| Module | Models | Uses |
|---|---|---|
| `LeaseLedger` | what the queue promises: who holds a job, what became of a lease | |
| `CrawlQueue` | queue.rs over the two tables, one step per transaction | instantiates `LeaseLedger` |
| `CrawlQueueTx` | queue.rs statement by statement, over row locks | extends `CrawlQueue` |
| `CrawlRuntime` | main.rs around the queue, with a clock | extends `CrawlQueue` |
| `CrawlLoop` | the same workers without a clock, for liveness | |
| `CrawlCommand` | runner.rs and the child | |
| `FetchScope` | policy.rs, the scope as pure operators | |
| `HttpFetcher` | fetcher.rs | extends `FetchScope` |
| `JsonFragments` | `collect_json_text` of content.rs | |
| `TextExtraction` | `extract_text` of content.rs, `extract_tag_texts` of semantic_views.rs | extends `JsonFragments` |
| `LinkDiscovery` | `discover_links` and `extract_href_values` of content.rs | |
| `SemanticViews` | semantic_views.rs from scanned lists to the document, and the gate of revision.rs | |
| `CrawlQueueProofs` | theorems about the queue and its ledger | extends `CrawlQueue` |
| `QueueRefinementProofs` | theorems about transactions and workers | extends `CrawlQueueTx`, `CrawlRuntime`, `CrawlQueueProofs` |
| `CrawlCommandProofs`, `HttpFetcherProofs` | theorems about command and fetcher | each extends its module |
| `ListLemmas` | lemmas about numbers, flattening and positions | |
| `TextExtractionProofs`, `LinkDiscoveryProofs`, `SemanticViewsProofs` | theorems about what is made of a page | each extends its module and `ListLemmas` |
| `MC...` | the instances TLC checks | |

The queue is three specifications, each implementing the one above it:

    LeaseLedger      holders, receipts, streaks of failures
       ^             ImplementsLedger (checked, proved)
    CrawlQueue       tables, timestamps, schedules; a transaction is a step
       ^             RefinesQueue (checked, proved)
    CrawlQueueTx     statements, row locks, waits, aborts

`CrawlRuntime` is the queue in use: its actions are the queue's, taken by workers that die anywhere.

### LeaseLedger and CrawlQueue

`jobs` and `attempts` are the tables; `handles` keeps every `CrawlJob` that `lease()` ever returned.
One action per public operation (`Seed`, `Lease`, `Complete`, `Fail`, `Reap`), with the SQL's WHERE
clauses as guards (`Ready`, `Holds`, `Abandoned`) and its SET lists as row operators (`Inserted`,
`Reseeded`, `Leased`, `Released`). `ts` is SQL's `now()`: any time at most `MaxLag` before the step
commits. `locked` is the set of rows `SKIP LOCKED` passes over. `reap_expired` works on a snapshot:
it may miss a lease that was committed behind it (`CommittedLate`). Callers are the weakest possible:
any handle may be settled at any time, any number of times; a settlement that bails is a stutter.
A token stands for the `lease_token` and `attempt_id` minted together.

`LeaseLedger` says the same without tables, timestamps or schedules: a job has at most one holder; a
lease ends by its holder's settlement or, once lapsed, by being abandoned or taken over; a receipt
closes once; a streak counts the failures since the last success. The refinement mapping
(`HolderOf`, `LapsedJobs`, `ReceiptOf`, `StreakOf`) reads them off the tables.

Abstracted: `lease_owner` (never read), error texts (who wrote the code is kept), receipts' JSON,
the id that breaks ties in `ORDER BY next_run_at, id` (every tie is tried).

### CrawlQueueTx

A session has at most one transaction open: its operation, its `now()`, its rows, the statements it
has done and the row it waits for. A statement picks rows by its snapshot (`Begin...`, `Request`,
`ReapRequest`), waits for their locks (`Grant`) and evaluates its WHERE clause again on the committed
row (`Matches`), as PostgreSQL does at READ COMMITTED; a settlement whose statement matched no row
rolls back (`Bail`); `lease()` skips locked rows and never waits (`TakeCandidate`). Writes are made at
the commit: nobody else sees them earlier, and nobody changes a row that is locked. Any transaction
may be lost with its connection (`Disconnect`), and the detector may abort any member of a cycle of
waits (`DeadlockAbort`). `complete()` and `fail()` lock the attempt, then the job; the one statement
of `reap_expired()` locks jobs, then their attempts, and how far the two interleave is left open, as
it depends on the query plan.

### CrawlRuntime

Adds, per worker, where `process_next` stands (`pc`), its lease (`mine`) and since when (`since`);
`sent` and `pages` are the posts and what the API accepted, at any time after the post. `Stop` is
every way a process ends early: crash, ctrl-c, database error. `LostLease` is the bail of a
settlement, which ends the process. `RuntimeTick` lets time pass only while each worker is within
the timeout of its phase; the code has no timeout for a settlement, `DbPatience` stands for the
deployment's. `Admin` is the `seed` and `reap` subcommands. Workers may be configured with different
`lease_seconds`.

### CrawlLoop

Keeps of the schedule only the order in which jobs come due and of a lease only who holds it and
whether it has lapsed, so that the state space is finite although workers run for ever. All jobs
are enabled and have the same `MaxAttempts`. `LongLeased` are the workers whose lease lapses only
when they are dead: `LongLeasesAreNeverLost` (below) says when that is so. Two transactions hold a
row over a step, whoever has the job: a seed (`SeedBegins`, `SeedEnds`) and a lease (`TakeCandidate`,
`Lease`). A lease passes over those rows (`Locked`), also when the job is free and due, and may pass
over those of a settlement or a reap in flight (`Settling`, `Reaping`); settlements and reaps wait.
That CrawlLoop abstracts CrawlRuntime is argued from the code, definition by definition, and not
checked.

### CrawlCommand

The worker's phases (write the request, collect, done) and an external child that reads, writes,
stops listening, crashes, stalls or exits in any order, up to a planned output per stream. It need
not read its input, and its descendants may keep any of the three pipes open after it
(`plan.keeps`). The request may be larger than the pipe: it is written before the deadline is armed
(`StuckInWrite`). A unit is any number of bytes. The deadline strikes when the child has stalled or
nobody can move, so a timeout of a child that did not stall and left nothing open would mean that
worker and child waited for each other.

### FetchScope and HttpFetcher

A host is the sequence of its labels and a path that of its segments, so `strip_suffix` at a dot
and `strip_prefix` at a slash are suffix and prefix of sequences; trailing dots or slashes are
empty last elements, all of them trimmed. Per fetch: where it is (`pc`), its request, URL, redirect count, permits held
and the requests it has sent (`wire`). The semaphores are `available` and a first-come queue
`waiting`, as tokio's are fair. `ReleasePermits` is the drop of `_permit` at the end of a hop.
Servers answer anything at any hop, a 304 to a request without validators included, which the
code takes as it takes any other. A lookup may last for ever; headers and body end by the client's
request timeout.

### JsonFragments and TextExtraction

`JsonFragments` turns the recursion of `collect_json_text` into a stack. What it should collect and
how deep it has to go are the constants `Fragments` and `Nesting`, given by their equations over
the tree (`RecursionAssumption`); the instance computes them and TLC checks the equations. The limit
is tested when a value is entered and nowhere else, so a document of exactly `MaxFragments` texts is
accepted only if the last value visited is a string: `EndsInText`, with equations of its own.
`TextExtraction` puts the walk behind the content type and adds the other three branches: the removal of ignored blocks, one tag at
a time (`RemoveBlock`, `NextIgnored`), `strip_markup`, the entities in their order, the collapse of
white space; and the scan for titles and headings over the markup. Markup is a sequence of tokens:
`<script` and `</script>` are one each, an entity is `&` and its name, so that what one rewriting
leaves can be found by the next. A page is written from pieces, and `Visible` says piece by piece
what it shows, without looking at markup: the properties compare the two.

The code looks for substrings where a browser parses, so its answer is right only for pages whose
pieces do not run into each other. `WellWritten` says which those are and `PieceAssumption` asks it
of every piece: texts and elements hold words, spaces and whole entities, no markup; a comment
holds no `>`, no closing tag and no tag that is looked for; a block holds anything but its own closing
tag, the opening of a tag that is removed before it, and the opening of a title or heading. Every
page of the instance is one, in every order of its pieces.

### LinkDiscovery

`extract_href_values` over bytes (`NoValue`, `TakeValue`, `EndScan`), then the loop of
`discover_links` over its values (`SkipValue`, `AddLink`, `Finish`). The letters of `href` are one
byte, a character outside ASCII is two, `lead` and `cont`: a cursor on `cont` is where the slice
`lowered[cursor..]` panics. What `Url::join` and `canonicalize_url` make of a value is the constant
`Resolved`. A page is again written from pieces, so the attributes it has are known (`Hrefs`).
Pages are valid UTF-8 (`StrAssumption`: `cont` only follows `lead`), a value does not hold the byte
that ends it, and no text between the attributes assigns to `href` (`PieceAssumption`).

### SemanticViews

Takes a page as the lists the scanners return and follows `extract_semantic_document` statement by
statement: collect, dedupe, cap, number, validate, then `decide_revision_with_inputs`. A text is its
lower-cased words and its size, so two texts are duplicates when the code finds them so, except that
long texts with the same first 699 characters stay apart. Weights are hundredths. All limits are the
code's own numbers, the extractor's and the gate's (`MaxEmbeddingInputs`, `GateEmbeddingTextChars`)
apart, as semantic_views.rs and revision.rs write them apart.

## What the runs check

| Run | Instance | Result |
|---|---|---|
| `crawl_queue` | 2 jobs, 3 leases, 2 attempts, clock 5, lag 1; 277,000 states | `TypeOK`, `LeaseBacked`, `HandleFresh`, `RetryBounded`, `LiveLeaseKept`, `OrphanOnlyByLease`, `BackoffHonoured` hold; the queue implements the ledger |
| `crawl_queue_tx` | corners of 3 sessions, 2 jobs, 2 leases, lag 2; 919,000 states | the transactions implement `CrawlQueue`; every deadlock has a reaper in it, and a settlement deadlocks only after its lease has lapsed |
| `crawl_queue_tx_ends` | 2 sessions, 1 job, 1 lease; 22,000 states | every transaction ends |
| `runtime` | 1 job, 2 leases, 2 workers (one `--once`), leases 1 and 4 = lag + 1 + 1 + 1, clock 6; 1,580,000 states | every success was accepted; the worker with long leases never loses its job |
| `runtime_orphan` | the same, lag 0, leases 3, clock 8 | violated: see below |
| `crawl_loop` | 2 jobs, 2 workers (one with long leases), 2 attempts, 2 crashes, 1 reseed; 131,000 states | dead leases end, due jobs are leased, retries end |
| `crawl_command` | request to 3, pipes 2, limits 2 and 1, output to 4; 1,050,000 states | limits are exact; only a child that stalls, or what it leaves behind, times out; every run ends unless it is stuck in the write |
| `http_fetcher` | 2 fetches, limit 1, 2 redirects, 6 redirect targets; 169,000 states | limit, scope, validators; every fetch returns unless a lookup hangs, which holds up only its host |
| `http_fetcher_dotted` | 2 fetches, limit 1, a redirect to the dotted spelling | violated: see below |
| `semantic_views` | pages with each list empty, within and at its limit; 10,000 states | nothing is lost to the cap; the gate accepts what is emitted |
| `text_extraction` | JSON of three levels (two more arrays for the small ones), depth limit 2, fragment limit 3; pages of up to three pieces; 76,000 states | JSON collected exactly; visible text kept and normal; titles and headings found; the removal ends |
| `link_discovery` | pages of up to three pieces, max_links 0, 1, 2 and 4 with a ceiling of 3; 89,000 states | no slice inside a character; the attributes as written; the first links up to the limit; every call returns |

Why the bounds are enough. In `crawl_queue`, three leases over two jobs let a job be leased, lost
and leased again with a stale handle about while the other job competes; two attempts reach the
ceiling; a clock of 5 covers a lease, its expiry, the reap's wait and the next lease, with a lag at
each. Ticks are half minutes: first backoff 1, reap delay 2. A job is seeded with 1 or 2 attempts,
and the constraint `TwoJobsShareTwo` explores nothing beyond a third lease once both jobs exist: a
job alone may take all three.

`crawl_queue_tx` is cut by the constraint `Corners` to the parts of the instance that tell something
apart: three sessions about one job (a settlement, a reaper and a rival for the same rows); two
sessions about two jobs, each seeded once (two reapers that take the jobs in opposite orders); two
that seed, lease and reap one job to a clock of 4, so that a `lease()` commits after its own lease
has run out. The theorems are free of the cut. `crawl_queue_tx_ends` needs one reaper, one settlement
and the lease they fight over.

In `runtime` two workers and one job are the smallest overlap; the short lease ends before its
worker's crawl can, the long one is exactly the budget of the theorem. With a long lease one tick
shorter `WorkerHoldsLease` fails. In `crawl_loop` one worker has long leases: without any,
`DueJobLeased` and `RetriesEnd` fail, as two slow workers can take a job from each other for ever.
Jobs, tokens and sessions are symmetric: the runs with symmetry check only safety.

In `crawl_loop` a free due job may be passed over because a seed or another lease has its row.

The crawl command's pipes hold less than either stream may carry, so writers block, and each limit
is met exactly, passed by one and passed by more; requests are shorter than a pipe, fill it, and
exceed it. Two fetches share each host with one permit and redirect into each other's hosts twice,
to a host with two trailing dots and to another port, which one of the scopes allows. The pages of `semantic_views` fill every list at once: 86
views of at most 96, 98 without the joint limit on headings. The documents of `text_extraction` pass
each limit by one and by more, in arrays, objects and mixtures; its pages put blocks, elements,
longer names, comments, entities and spaces next to each other in every order, with tags, marks and
the opening of a later ignored tag inside blocks. Those of `link_discovery` have every quoting and
spacing, `href` without `=`, `href` at the end, before a space and before a character of two bytes,
`href=` and the other quote inside a value, two spellings of one link, and places in the page.

What the page instances leave out, because the code does something else there: a block whose raw
text opens an ignored tag of an earlier round (the text up to that tag's end is lost), `&amp;` before
the name of an entity (decoded twice), a comment with `>` or a tag inside, and titles and headings
inside blocks (the scan for elements looks at the markup before the removal). `PieceAssumption` leaves
them out of the theorems too, and with them elements inside elements, of which a page of pieces in a
row cannot tell what they show.

The clock, tokens, clock lag, crashes, reseeds, requests and child output are the only bounds in
guards (`MaxClock`, `Token`, `MaxLag`, `MaxCrashes`, `MaxSeeds`, `MaxRequest`, `MaxOutput`); deadlock is checked except where the system stops: a
command that has returned, fetches that have all returned.

### Fairness

- `CrawlQueueTx`: weak for what a running transaction does next and for the deadlock detector;
  strong for the grant of a lock, since waiters queue for a row and so cannot be passed over for
  ever. Starting, disconnecting and time are not forced.
- `CrawlLoop`: time passes (`ComeDue`, `Lapse`); each phase of a worker ends, by success or by its
  timeout; a transaction that holds a row ends (`SeedEnds`, `Lease`); a process that exited is started again, as the deployment does for a service. Crashes
  are bounded by `MaxCrashes` and never forced.
- `CrawlCommand`: the worker's task is scheduled and the deadline fires; a child that can move and
  has not stalled writes or exits. That it reads is not assumed, nor that descendants let go.
- `HttpFetcher`: each fetch moves when it can: the client's request timeout bounds the answer and
  the body. `lookup_host` has no timeout in the code, and no lookup is assumed to end.
- `TextExtraction`, `LinkDiscovery`: sequential code goes on.

Every fairness is on the whole process, never on the outcome we hope for.

### What the runs found

- **An expired lease taken over by `lease()` leaves its attempt open** (`runtime_orphan`). A worker
  dies; another reaps before the lease has expired and leases just after. `lease()` accepts the
  expired row (queue.rs:93) and overwrites the token; the dead worker's attempt stays `leased` for
  ever and is not counted as a failure. The README of the runtime and the test
  `expired_lease_is_recovered_and_attempt_is_abandoned` say it is abandoned. `OrphanOnlyByLease`,
  proved, says that this is the only way.
- **A host spelled with its trailing dot has a second set of permits** (`http_fetcher_dotted`).
  `allows_url` trims the dot, the limiter's key does not (fetcher.rs:83).

Observed along the way:

- A JSON page of exactly 20000 fragments is refused unless the last value visited is a string, since
  the limit is tested when a value is entered. The message (content.rs:48) says "more than 20000 text
  fragments". `CollectedExactly` states what the code does, to the fragment.
- A request larger than the pipe, to a child that does not read it all, is written for ever: it is
  written before the deadline is armed (runner.rs:57). `CommandEnds` says that this is the only way.
- A lookup that hangs keeps its permit, and with it every fetch of that host (`HeldUp`).
- A 304 is taken as 'unchanged' also from a redirected-to host that was sent no validators, with the
  caller's own etag (fetcher.rs:102, 111). Nothing in the repository forbids it.
- A reaper and a settlement can deadlock, or two reapers over two jobs, since they lock in different
  orders; PostgreSQL then fails one of them, and the worker whose statement it fails ends.
- Nothing relates `lease_seconds` to the timeouts it must cover. The worker's budget (`PhaseLimit`)
  counts the crawl by its timeout and leaves out the write above.
- A reseed leaves an exhausted `attempt_count` as it is.
- A page of one or two characters cannot be extracted, because no view of it is kept.

## What is proved

For every value of the constants, from the assumptions the modules name (`NullAssumption`,
`BoundsAssumption`, `RowAssumption` and the like: types, and that `Null` is no member of anything).

**The queue** (`CrawlQueueProofs`). The invariant to prove was not inductive as it stands: `IInv`
joins `TypeOK`, `LeaseBacked`, `HandleFresh`, `RetryBounded` and `ErrorMatchesCount` with
`HandleOfAttempt`, that an attempt and the handle of its token name the same job, which links what a
worker passes to `complete()` to the row its token is in. One lemma per operation keeps `IInv`;
`RetryBounded` is about each job's own limits: a job that is held has failed less often than the
`max_attempts` its row had at that lease, and its count is never past the limit under which one of
its failed attempts was leased (`FailedWithin`), however a reseed moves the limit. `Invariance` follows, and from it the five invariants and the five action properties
(`LiveLeasesAreKept`, `OrphansComeFromLease`, `BackoffIsHonoured`, and `ReceiptsAreImmutable` and
`FailuresAreCounted`), by what each operation does to the rows. `ErrorMatchesCount`,
`ReceiptsImmutable` and `RetryAccounting` are stated by their theorems only; the runs check
`ImplementsLedger`, which says more of receipts and counts.

**The ledger** (`CrawlQueueProofs`). `QueueImplementsLedger`: under `IInv` every transaction is one
step of the ledger or leaves it alone, one lemma per operation.

**The transactions** (`QueueRefinementProofs`). The invariant `TxInv` adds to `IInv` what every open
transaction has locked, waits for and may rely on (`SeedInv`, `LeaseInv`, `SettleInv`, `ReapInv`):
that a settlement which has locked both rows still holds its lease; that the lapsed attempts a reaper
has caught lie under its lock and those it has not are still to come or were leased behind its
snapshot. A frame argument carries it: a step of one session `Spares` the others, as it writes only
rows it has locked. `TransactionsRefineQueue` follows commit by commit. `DeadlocksHaveReapers`: a
seed, lease or settlement that waits and holds a row holds its attempt and waits for its job, so in a
cycle of them every row waited for would be an attempt and a job.
`LiveSettlementsDoNotDeadlock`: a reaper only locks and waits for rows of lapsed jobs. With the
ledger's theorem, the promise of `LeaseLedger` is proved of the interleaved statements.

**The workers** (`QueueRefinementProofs`).

- `RuntimeInvariance` carries `IInv` over, as the actions of the workers are the queue's own;
  `RuntimeTypeCorrect` is about the workers' variables.
- `SuccessesAreAccepted`: a success is recorded only after the API accepted the page.
- `LongLeasesAreNeverLost`: a worker whose `lease_seconds` is at least `MaxLag + CrawlTimeout +
  ApiTimeout + DbPatience` holds its job from its lease to its settlement, whatever leases the others
  ask for (the code does not check the sum). The strengthening: a working worker's lease outlasts the
  rest of its phases, and no two workers have the same lease.

**The command** (`CrawlCommandProofs`). `CommandInv` relates what a child planned, wrote and what was
taken of each stream; from it `CommandTypeCorrect`, `LimitsHoldExactly` and `TimeoutsAreStalls` (worker
and child never wait for each other), for every size of request, pipe and limit.

**The fetcher** (`HttpFetcherProofs`). `FetcherInv` is the books of the limiter (`LimiterBooks`:
permits out and permits left add up to the limit, a fetch waits once and only where none is left) and
the traffic of each fetch; from it `FetcherTypeCorrect`, `HostsAreSpared` and
`WireStaysInScope`, for any number of fetches and URLs.

**The text of a page** (`TextExtractionProofs`). `WalkInv` says that what the walk has put out, followed
by what the tasks on its stack still have to say (`Remaining`), is the document's text; that every
key stands before the visit of its value, so that output one past the limit is found out by the next
task; that no visit goes deeper than the document (`Within`), and that a document that is too deep
still has a visit to come that is (`TooDeep`). Visiting a value replaces it by tasks that say the
same (`Unfolds`, one lemma per kind of value). `EndInv` says how the walk will end: the last task is a visit, of
a value that ends in text if and only if the document does, and once nothing is left the output has
room or the document ends in text (`EndInvariant`; `EndingHasText`: what ends in text still has one to
put out). So `DocumentsAreCollected` has both halves, what is accepted and what is refused, exact for every
document and every limit. `TextInv` types the pipeline and keeps the content normal: a space is put out only behind
a word and before one (`NormalGrows`, `CollapsedIsNormal`). From it `TextTypeCorrect` and
`TextsAreNormal`, for every page.

What the page shows takes two more invariants, inductive together with `TextInv` (`PageInvariant`).

- `ContentInv` says what the text is at each stage. While blocks are removed it is the page with a
  space in place of some of them (`Cleared(R)`), all those of the tags done with among them (`Gone`): the
  first opening of the tag looked for starts a block (`BlockFound`), as nothing else holds one, and
  what is cut out is that block and no more (`BlockTaken`, `ReplacePart`). Afterwards it is what is left
  of that, stripped and with the first entities replaced (`OnItsWay`). That the end is `Visible(page)`
  rests on how the rewritings meet at the border of two pieces. A piece `Fits` what it shows if it leaves
  no tag open behind it, holds whole entities, and adds the same to collapsed texts that are the
  same so far (`Same`: same text, same space pending). Every well-written piece fits (`PieceFits`), and
  so do two in a row (`FitsConcat`). The four rounds of replacement read every entity once, because
  what one puts in is never the start of the next (`DecodedRead`).
- `ScanInv` says where the scan for an element is: between two pieces, with all found that those before
  show and no opening passed over (`Reached`), or at the end of an element whose inside is being
  cleaned (`Taking`). The next opening is the start of a piece (`NextOpening`); a longer name brings the
  scan to its end (`NameSkipped`), an element gives its inside and nothing else (`ElementParsed`), and a
  scan that stops has found all or is full (`AllFound`).

`VisibleTextIsKept` and `ElementsAreFound` follow, for every page of well-written pieces and any
limits, in place of an induction over pages. They assume `PieceAssumption` and nothing else about pages.

**The link scan** (`LinkDiscoveryProofs`). Three invariants.

- `LinkInv` keeps the cursor between characters, by `StrAssumption`: the byte a round stops at is
  ASCII or the first of a character. `LinksTypeCorrect`: the scan never slices inside a character,
  and the call never holds more links than it was asked for.
- `ScanInv`: the cursor stands where a piece of the page begins, or inside a text it may skip, and
  the values found are those of the pieces before. A text never looks like an assignment, so the next
  `href` that assigns is the next attribute's own, and its quote or delimiter the first behind it.
  `ValuesAreFound` follows for every page, in place of an induction over pages.
- `LoopInv`: the links are those of the first values of their kind (`IsFirstOfKind`) among the values
  looked at, spelled as there; the loop stops early only when the map is full. `FirstLinksAreFound`:
  the answer is the first `max_links` of them, for every page and limit.

**The semantic views** (`SemanticViewsProofs`). `SInv` follows the inputs through the stages. The lists
are bounded one by one (each capped list, each list joined two or six at a time), which gives at most
86 views: `NoPageLosesViews`, the cap of 96 drops nothing, and a page fails only when its text has
fewer than three characters. Deduplication keeps each text once, truncation and joining keep within
700 characters, numbering starts at zero: `ExtractionPassesGate`, against the gate's own limits. The first line of the combined text
always fits and every further one is tested: `ProviderTextFits`. Nothing is assumed but that pages
consist of texts (`PageAssumption`).

The texts and lists here are built by recursive or chosen functions (`FlattenSeq`, `RunningTotal`,
`Distinct`, `Selected`). The induction theorems of the library take an operator that no prover here
can instantiate, so `ListLemmas` goes by least counterexample instead (`LeastNumber`, `AllNumbers`):
the set of numbers for which a fact holds has no least gap. It shows that a function with the
equations exists, what it computes prefix by prefix (`FlatSteps`), where each part of a flattened
list stands (`PartOfFlat`, `PartAtFlat`) and what happens when one is replaced (`ReplacePart`).

Only model-checked:

- everything temporal that rests on fairness (`TransactionsEnd`, `DeadLeaseEnds`, `DueJobLeased`,
  `RetriesEnd`, `CommandEnds`, `FetchReturns`, `RemovalEnds`, `CallReturns`), which is out of the
  prover's reach as ENABLED is;
- that the recursion equations of `Fragments`, `Nesting` and `EndsInText` have a solution for every set of
  documents: they do for finite trees, by an induction over values that cannot be carried out here.
  TLC evaluates them on the instance.

## Not modelled

The scanners of semantic_views.rs for sentences, keywords, entities and URL terms, which are string
functions without state (`SemanticViews` takes what they return); `Url::join` and `canonicalize_url`,
in other crates; the check of path spellings in `normalize_path_prefix` and of the numbers in
`FetchPolicy::validate`, `CrawlCommandConfig` and `IngestApiClient::new`, which only bound the
constants of the models; the field checks of types.rs, which decide between two outcomes of
`CrawlCommand`; the address classes of `is_public_ip` and the chunks of a response body (one step
with a good and a bad outcome); the reconcile gateway (its logic is in an external crate);
`crawl_once` (one fetch, printed); lint rules, repository checks and scripts.

## Plan

Done, in this order: `CrawlQueue` and its proofs; `CrawlRuntime`, the refinement and the lease
budget; `CrawlLoop`; `CrawlCommand`, `FetchScope`, `HttpFetcher`; `SemanticViews`, `JsonFragments`;
`LeaseLedger` and the refinement; `CrawlQueueTx`, its refinement and the deadlock theorems;
`TextExtraction`; `LinkDiscovery`; the proofs of command, fetcher and link scan; the theorems about
semantic views, about the values and links of every page, about the walk over JSON, and about the
text, the title and the headings of every page.

Left, in order of worth:

1. The step from `CrawlRuntime` to `CrawlLoop` as a checked refinement, for instances without lag.
2. The scanners for sentences and keywords, with the limits on their lengths.
