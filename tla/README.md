# A TLA+ model of the 115 share indexer

This directory is a verification project for the repository it sits beside: a Go
service (`cmd/115-indexer`) that crawls public shares of the 115 cloud drive
through rented proxies, keeps the files it finds in SQLite, and packages a
search index for consumers. The modules below model the parts where order,
restarts and concurrency matter; TLC checks them on small instances, and TLAPS
proves their safety properties for every instance.

Contents: [the system](#the-system) · [the modules](#the-modules) ·
[the runs](#the-runs) · [bounds](#bounds) · [fairness](#fairness) ·
[what is proved](#what-is-proved) · [findings](#findings) ·
[known limits](#known-limits) ·
[what is not modelled](#what-is-not-modelled-and-why) · [plan](#plan)

## The system

One daemon process runs up to three goroutines (`cmd/115-indexer/daemon.go`): the
scheduler's loop, the admin server and the metrics server.
When one of them returns an error the process goes down and systemd starts it
again (`install.sh`, `Restart=on-failure`). One-shot modes of the same binary
(`import-shares`, `dedupe-share-titles`, `dedupe-shares-by-size`,
`cleanup-orphans`, `export-db`, ...) are processes of their own on the same
database. Inside a process the store has a single connection, so a store call is
atomic, and everything between two calls is not.

| Component | State | Operations | What makes it correct |
|---|---|---|---|
| Crawler (`internal/crawler`) | locals of one run: queue, visited, active folder, offset; checkpoint in the database | `CrawlShare` | every page that 115 gives out is indexed once the share is COMPLETED, across any number of interrupted runs; no folder is lost; a pause stops it at the next page |
| Scheduler (`internal/scheduler`) | snapshot of the due shares, pause gate | `RunOnce`, `RunLoop`, `PauseGate` | every crawl gets the right verdict; shares come to a decision; a pause is not a failure |
| Store, share table (`internal/store`) | status, failure count, retry time, title, size, duplicate_of | `UpsertShare`, `UpdateShareMeta`, `MarkShare*`, `RecordShareFailure`, `ReactivateShare`, `DeleteShare`, `PurgeIfOrphan` | status, failure count, files and checkpoint agree; COMPLETED means indexed |
| Store, files, checkpoints, kv | rows, checkpoint, cookie | `UpsertFiles`, `Save/LoadCheckpoint`, `CookieStore` | a checkpoint never claims a page that is not indexed |
| Store, titles (`store/dedupe.go`) | `share_title` | `planShareRenames`, `DedupeShareTitles`, `RenameShareTitle`, `FindShareTitleConflict` | titles end up distinct, whoever writes them |
| Store, duplicates by size, orphans | `file_size`, `duplicate_of` | `FindDuplicateShare`, `DedupeSharesBySize`, `DeleteOrphans` | one copy of every content stays; the canonical is stable |
| Admin API (`internal/adminhttp`) | none of its own | POST, PATCH, DELETE, reactivate, pause, resume | each handler is several store calls: what it checked must still hold when it acts |
| 115 client (`internal/api115`) | cookie in memory and in kv, the proxy of the call | `List` | a session is used only from the address it was issued to; an empty answer is not the end of a folder |
| Proxy manager (`internal/proxy`) | current proxy, failures, replacements | `Acquire`, `RecordSuccess`, `RecordFailure` | a failing proxy is left; a call ends when a fatal threshold says so |
| Search index (`internal/searchindex`) | index directories, the manifest | `planDocs`, `Rebuild`, `UpdateManifest` | every row can be found by its name and nothing under another's; the manifest points to a whole index |
| Export (`store.ExportTrimmed`, `package.go`) | the package | `export-db` | a package joins a whole index with the database; what is shipped can be found |
| Lists and groups (`internal/shares`, `store.ApplyGroups`) | `share_group`, `share.group_id` | `import-shares`, `import-groups` | the last overlay is in force; an import is complete |
| Daemon (`cmd/115-indexer`) | contexts, `errCh`, grace timer | `runDaemon` | a loop that fails takes the process down within the grace period, with its error |

How they interact: the scheduler lists shares once per cycle and works from that
snapshot, possibly for hours, while the admin API changes the same rows; the
crawl of a share calls the lister (client, proxy manager) and the store
alternately, and its progress lives in the checkpoint; the pause gate is polled
by the crawl once per page and by the scheduler between shares and again after a
failed crawl; the duplicate check and the title are decided on the first page of
a run; titles are renamed at the end of each cycle and by operators.
`dedupe-shares-by-size` and `cleanup-orphans` change the same tables from
processes of their own; `rebuild-index` and `export-db` read them at two different
times, and what they make is joined in one package.

The hard behaviours are therefore: a death between any two calls; a handler
that acts on what it read some calls ago; a share deleted, added again,
reactivated or renamed while it is crawled; retries on three levels (proxy
inside `List`, page inside a run, run inside the scheduler) over non-atomic
writes; answers of 115 that look like the end of a folder and are not.
`PROJECT.json` lists each hazard at its line with the properties that would
notice it.

## The modules

| Module | Models | Depends on |
|---|---|---|
| `Crawler` | `CrawlShare` over one share, call by call | instantiates `ShareIndex` |
| `ShareIndex` | the abstract promise of a crawl: pages done one by one along a frontier | |
| `ShareLifecycle` | the scheduler's cycle, the share table's bookkeeping, and the admin API between the calls | |
| `ShareTitles` | every writer of `share_title` and the rename planner | |
| `SnapClient` | `Client.List`, cookies, proxy manager | |
| `SizeDedup` | duplicates by size and orphans: the crawl's check, the two commands and the operator on one share table | |
| `SearchPlan` | `planDocs` as operators on a set of rows, and what its result is for | |
| `Release` | `rebuild-index` and `export-db` beside a changing database | extends `SearchPlan` |
| `ShareLists` | `Parse` and `ParseGroups`, line by line | |
| `ShareGroups` | `import-shares` and `import-groups` beside crawls and deletions | extends `ShareLists` |
| `Daemon` | `runDaemon`, the servers, `RunLoop` | |
| `CrawlerProofs`, `ShareLifecycleProofs`, `SnapClientProofs`, `ShareTitlesProofs`, `SizeDedupProofs`, `ReleaseProofs`, `DaemonProofs`, `ShareGroupsProofs` | theorems about the module they are named for | extend it, TLAPS |
| `MC...` | trees, shares and titles for TLC | extend the above |

**Crawler.** Variables follow the code: `queue`, `visited`, `task` and `offset`
are the locals of `CrawlShare`, `cp` is the row of `crawl_checkpoint`, `rows` the
share's rows of `file`, and `pc` names the call that comes next. One action per
call: `Start` (load the checkpoint), `NextTask` (head of the outer loop),
`StartPage` (poll the pause, save the start-of-page checkpoint), `ListPage` /
`ListRetry`, `PassDedup` / `Duplicate`, `PersistMeta`, `EmptyPage` or
`UpsertFiles`, `EndPage` (queue the folders, save the end-of-page checkpoint),
`SaveFinal`, and the ways out (`Return`, `PausedOut`, `Dead`, `Fail`, `Crash`).
`Pause`, `Resume`, `Reactivate` and `Rename` are the operator's. The share is a
constant tree of folders with pages (`Pages`, `Level`); 115 may withhold a page
past the first, as `listOnce` allows. An offset counts pages.

**ShareIndex.** State: rows, pages done, pages that 115 withheld, complete. A page
may be asked for, written and committed only while it is on the frontier
(the pages before it in its folder are done, and so is a page that lists the
folder); the share is declared complete only with an empty frontier. `Crawler`
implements it with `done <- DonePages`, the pages the saved checkpoint never has
fetched again: a crash, a failure, a pause or a repeated page is a stuttering
step, and a page that were committed before it was written would not be.

**ShareLifecycle.** `share[s]` is the row (status, failures, retry, titled),
`files[s]` and `cp[s]` the share's rows and checkpoint. `pc` is the scheduler's
next store call; `batch` and `snap` are the snapshot of the cycle; `delShare`
holds a DELETE between its count and its delete; `seen` holds the failure count
that `RecordShareFailure` has read. The crawl of a share is a chain of pages with
the same calls in the same order as in `Crawler`. `cut` records shares deleted
while a run had them: the safety properties except them (see
[known limits](#known-limits)).

**ShareTitles.** `rows` is the share table by id with code, receive code and title.
Two workers run `DedupeShareTitles`: the scheduler, after its crawls, and the
command, at any time; each lists and plans in one step and then writes one rename
per step. A PATCH is three steps; `backfill-share-meta` writes 115's title over whatever
a row has. `PlanShareRenames` is `planShareRenames`: first
holders keep their title, the rest, in order, take the first suffix that neither a
share nor a share before them has. A title is a sequence of characters, of which
`Itoa` appends the digits, and carries the white space that Go's `TrimSpace` removes
and SQLite's `TRIM` leaves. The batch of a cycle may come in any order.

**SnapClient.** `cookie` and `kvCookie` are the two homes of the session, a cookie
is the address it was issued to, `current` is the manager's proxy, and `pc` says
whether `List` is acquiring or requesting. Every answer of 115 is a choice:
transport failure, other error, a page, an empty first page, an empty later page.

**SizeDedup.** `share[s]` is the row with the columns that decide duplicates (`id`,
`status`, `size`, `crawled`, `duplicate_of`); `size` is what 115 reports and the
table learns on a first page or by `backfill-share-meta`. The scheduler's crawl is
the chain of pages of `ShareLifecycle`, with `check`, `duplicate` and `meta` between
the page and its rows. The command has a scan (`DedupeScan`), and for each loser a
mark and a delete. `touched` records sizes whose last copy an operator or a death
may have taken, `holed` the shares whose files were deleted under a checkpoint or a
run, by `DedupeSharesBySize` or by `DeleteShare`.

**SearchPlan, Release.** A row has the columns `planDocs` reads; a name is its text,
the terms that bleve's analyzer makes of it, and whether it has an episode marker. Words
that dots join are one term (`dedupe.go:92-95`, `dedupe_test.go:219-221`), and a query
finds a document by a term of its names (`indexer.go:148`): only a rolled-up folder,
whose names are normalised (`Norm`), is found by the single words. `PlanDocs`
follows the Go code step by step (folders, rolled-up children, content groups,
representatives); `Findable` and `Stands` say without it what the documents are for.
In `Release`, `building`, `ready` and `package` are the disk, and each command is a
sequence of the steps that a death, a second command or the database can come
between: remove the old directory, read, batches, rename, manifest; choose, copy and
prune, walk the index, stamp and close. An index directory is a set of files (`Entries`:
bleve's own file, and the segments in `store`). `RemoveAll` takes them one by one
(`indexer.go:66`), and an export reads a directory's names and then copies the files
one by one, each from whatever is at its path by then (`package.go:34-46`), so a rebuild
of the same second can come between any two. `package.bleve` holds each file copied with
the build it was taken from. The share's status is LIVE, DEAD, DUPLICATE or none.

**ShareLists, ShareGroups.** A line of a list is a header, a share with its two
codes, a line to skip or one that cannot be read. `ParseGroups` moves a code to the
last group that names it; `LastGroupOf` says the same by counting headers. A row is
keyed by both codes, while verdicts, groups and deletions go by the first.
`unseen` holds rows inserted since the last overlay, `undone` those that something
else has changed since the import's list was read.

**Daemon.** `main`, `errCh`, `received`, `firstErr` and `deadline` are `runDaemon`'s;
each server is up, broken, closing or done; `pc` and the counters are `RunLoop`'s and
`RunOnce`'s, whose crawls are reduced to their outcomes. A store call under a
cancelled context returns `context.Canceled`, as `database/sql` does. Time starts with
the cancellation; `runDaemon` and the servers act before it passes.

## The runs

| Run | Checks | Shows |
|---|---|---|
| `crawler` | `TypeOK`, `CompleteWhenDone`, `RowsFaithful`, `NoFolderForgotten`, `NeverPastEnd`, `PauseStopsSoon`, `ImplementsShareIndex`, `EventuallySettled` | a crawl interrupted anywhere, any number of runs long, indexes exactly the share, implements `ShareIndex`, and comes to a verdict |
| `lifecycle` | `TypeOK`, `CompletedIsIndexed`, `CheckpointBacked`, `NoOrphanFiles`, `StatusMatchesFailures`, `EventuallyDecided` | cycles over two shares under admin requests between any two calls keep the tables consistent, and each share is decided |
| `titles` | `TypeOK`, `DedupeIdempotent`, `EventuallyDistinct` | an undisturbed dedupe leaves nothing to rename, and titles become distinct for good |
| `snap` | `TypeOK`, `NoCookieOfLeftProxy`, `RetryStartsFresh`, `CappedCallReturns` | within a call sessions and proxies are kept apart, and a capped call returns |
| `sizes` | `TypeOK`, `KeepsACopy`, `DuplicateOfItsSize`, `DuplicateIndexesNothing`, `DedupeComplete`, `HolesHaveCauses` | marking never takes the last copy of a size, a duplicate writes nothing, the command left alone finishes its work, and completed shares are whole unless their files were deleted under a checkpoint |
| `package` | `TypeOK`, `PackageWhole`, `ManifestResolves`, `EveryNameFound`, `NoFalseHit`, `ShippedAreFound` | whatever dies or runs beside, a stamped package holds a whole index, every row is found by its name and only by its own, and shipped rows are found in the package unless their representative is gone |
| `groups` | `TypeOK`, `OverlayInForce`, `ImportComplete` | the last overlay that could be read is in force whatever came before and after, and a finished import is complete |
| `daemon` | `TypeOK`, `EndsInOrder`, `SleepMatchesStreak`, `EventuallyEnds` | the process ends after a signal or a failure, within the grace period and with the right error; the sleep follows the streak of cycles without contact |
| `crawler_reactivate`, `snap_false_end`, `sizes_indexed_twice`, `package_docs` | one property each, violated | see [findings](#findings) |

Every property of a passing run has a mutant in `PROJECT.json`: a definition
changed as a plausible bug would change it (a dropped resume point, a checkpoint
with the old queue, an unchecked suffix, ...), under which TLC refutes the
property. The mutated forms stand before the definitions they replace
(`ResumeTask_Dropped` before `ResumeTask`).

## Bounds

- `Crawler`: one tree with every shape of folder the walk treats differently: two
  pages, no page, a page without anything indexable, three levels. `RetryCount = 1`
  (one retry tells "retried" from "given up"), `MaxFaults = 2` (an interrupted run
  and an interrupted resume). The tree and all numbers are parameters of the
  theorems, so for the safety properties the bound only matters to TLC.
- `ShareLifecycle`: two shares, of two pages and of one: a run that resumes in the
  middle, a stale snapshot of the second share while the first is crawled. The
  thresholds `QuarantineAt` and `GiveUp` are 2 each (3 and 4 in the code): each
  comparison is still crossed, one failure before and one at the threshold, and the
  failure count saturates where no comparison tells more apart. `MaxFaults = 1`,
  `MaxOps = 2`: two requests make every pair of them, such as DELETE and POST.
- `ShareTitles`: three shares, of which two have one title on 115 and the third the
  title a rename would pick; two requests or commands, one death. Suffixes of more than
  one digit, and any number of holders, are left to the proof.
- `SnapClient`: two addresses, a failure threshold of 2 (3 in the code), fatal
  thresholds 0 and 2, two expiries, one restart. `consecutiveReplacements` is
  counted up to the largest threshold.
- `SizeDedup`: three shares (the oldest, a duplicate, and one more that can take
  the oldest's place), all of one size or of three sizes of which one is below the
  threshold; two pages, two cycles, one crash or failed crawl, two requests or
  commands, which is enough for a scan, a stale plan and a re-added share. TLC
  visits 1.8 million states.
- `Release`: two shares of one page each, with folders of the same id: one of too many
  episodes for its document, one of a dotted and an undotted spelling of one name; with
  copies of a movie, one of them named as an episode, and rows without a hash. The first
  share, whose rows represent the copies, may die or be deleted (`Unsteady`). An index of
  one file and a store with one segment: enough for a directory that is read half-way
  through its removal, or of which one file is of one build and one of the next. Two
  seconds, two rebuilds, one export, one crash or write error, one death or deletion.
  `BatchSize`, `MaxNames` and `MinEpisodes` are 4, 2 and 2 (2000, 256 and 5 in the code),
  so that batches, the cap and both kinds of folder occur. TLC visits 1.6 million states.
- `ShareGroups`: two codes, one with two receive codes; three share lists and five
  overlays with repeated, moved, early and unreadable lines; seven commands,
  verdicts, deletions or crashes.
- `Daemon`: both servers, batches of at most two shares, four cycles (each step of
  `proxyBackoff`), two faults; a shutdown timeout of one and a grace of two units (5
  and 10 seconds).

Deadlock is checked in the runs of `Crawler`, `ShareLifecycle`, `ShareTitles` and
`SnapClient`: none of these systems may stop. The other four have commands that end
and bounds that run out, and the daemon is meant to end.

## Fairness

- `Crawler`: weak fairness of `Start` and of the crawl's own steps. The daemon's
  `RunLoop` lists due shares again and again (`scheduler.go:150-193`), and a run
  under way makes its next call; failures are bounded. `EventuallySettled` assumes
  that the operator does not leave the crawler paused for ever, and nothing else.
- `ShareLifecycle`: weak fairness of the cycle, the crawl, the verdict, of backoffs
  elapsing (they are times in the past sooner or later), and of `Restart`
  (`install.sh:48-57`). Requests and faults have none, and are bounded.
- `ShareTitles`: weak fairness of the scheduler's steps only. The crawl need never
  succeed, the command and a PATCH may stop half-way.
- `Daemon`: weak fairness of `runDaemon`'s goroutine, of each server's (Go's
  scheduler runs what can run; `Shutdown` has a timeout) and of the clock. Nothing of
  the scheduler: a crawl may hang, which is what the grace period is for.
- `SizeDedup`, `Release`, `ShareGroups`: safety only.
- `SnapClient`: weak fairness of acquiring and of answers: `proxyAccess.Acquire`
  and the HTTP client have timeouts. Nothing is assumed of what the answers are.

## What is proved

Every safety property that the runs check is a theorem of TLAPS for every value of the
constants. Each proof module states an inductive invariant `IInv`, proves
`Spec => []IInv` (theorem `Inductive`, one lemma for each conjunct, with one step for
each action that can disturb it), and derives the properties from it. The invariants
were checked with TLC before.

| Module | Theorem | States |
|---|---|---|
| `CrawlerProofs` | `TypeCorrect` | `Spec => []TypeOK` |
| | `Completeness` | `Spec => []CompleteWhenDone` |
| | `Faithfulness` | `Spec => []RowsFaithful` |
| | `InsideFolders` | `Spec => []NeverPastEnd` |
| | `NothingForgotten` | `Spec => []NoFolderForgotten` |
| | `PauseIsPrompt` | `Spec => []PauseStopsSoon` |
| | `Refinement` | `Spec => ImplementsShareIndex` |
| `ShareLifecycleProofs` | `TypeCorrect` | `Spec => []TypeOK` |
| | `CompletedShares` | `Spec => []CompletedIsIndexed` |
| | `CheckpointsHonest` | `Spec => []CheckpointBacked` |
| | `NoOrphans` | `Spec => []NoOrphanFiles` |
| | `StatusesAgree` | `Spec => []StatusMatchesFailures` |
| `SnapClientProofs` | `TypeCorrect` | `Spec => []TypeOK` |
| | `CookiesStayBehind` | `Spec => []NoCookieOfLeftProxy` |
| | `RetriesStartFresh` | `Spec => []RetryStartsFresh` |
| `ShareTitlesProofs` | `TypeCorrect` | `Spec => []TypeOK` |
| | `DedupeLeavesNothing` | `Spec => []DedupeIdempotent` |
| `SizeDedupProofs` | `TypeCorrect` | `Spec => []TypeOK` |
| | `LastCopyKept` | `Spec => []KeepsACopy` |
| | `DuplicatesMatch` | `Spec => []DuplicateOfItsSize` |
| | `DuplicatesWriteNothing` | `Spec => []DuplicateIndexesNothing` |
| | `CommandComplete` | `Spec => []DedupeComplete` |
| | `HolesExplained` | `Spec => []HolesHaveCauses` |
| `ReleaseProofs` | `TypeCorrect` | `Spec => []TypeOK` |
| | `ManifestIsHonest` | `Spec => []ManifestResolves` |
| | `PackagesAreWhole` | `Spec => []PackageWhole` |
| | `EveryNameIsFound` | `Spec => []EveryNameFound` |
| | `NoHitIsFalse` | `Spec => []NoFalseHit` |
| | `ShippedRowsAreFound` | `Spec => []ShippedAreFound` |
| `DaemonProofs` | `TypeCorrect` | `Spec => []TypeOK` |
| | `EndsWell` | `Spec => []EndsInOrder` |
| | `SleepIsRight` | `Spec => []SleepMatchesStreak` |
| `ShareGroupsProofs` | `TypeCorrect` | `Spec => []TypeOK` |
| | `LastOverlayHolds` | `Spec => []OverlayInForce` |
| | `ImportsAreComplete` | `Spec => []ImportComplete` |

The assumptions are those of the modules, which TLC evaluates on every run: numbers
are numbers and bounds are not zero where the code's are not; the special values
(`None`, `NoTimer`) are not members of the sets they are kept apart from; and

- `TreeAssumption` (`Crawler`): folders and media are disjoint, levels grow by one
  from folder to sub-folder;
- `BoundsAssumption` (`SizeDedup`): there are finitely many shares, all of a size above
  zero;
- `PagesAssumption`, `SegmentsAssumption` (`Release`): the rows of all pages are a finite
  set of well-typed rows in which share and file are a key, as they are of the table
  (`PRIMARY KEY (share_code, file_id)`, `sqlite.go:223`); no segment has the name of
  another entry of the directory;
- `DaemonAssumption` (`Daemon`): the servers are not named as the scheduler is;
- `ShareGroupsAssumption` (`ShareGroups`): a list is a finite sequence of lines;
- `TitlesAssumption`, `ImportAssumption` (`ShareTitles`): a title that an operator asks for
  is trimmed and not empty (`server.go:369-373`), and the file of `import-shares` is a
  finite sequence without repetition.

### Crawler

None of the safety properties is inductive by itself: `CompleteWhenDone` says
nothing until the walk is over. The invariant `IInv` adds what the code maintains
on the way:

- `Shape`: between the start-of-page and the end-of-page checkpoint the saved row
  *is* the walk's position, and the folder being read is not visited;
- `Offsets`: a saved or current offset lies inside its folder, or the folder is
  visited (so no resume asks past the end);
- `Depths`: every queued or current folder carries its true depth, in memory and in
  the checkpoint (so rows written after a resume agree with those before);
- `CpCovers` and `WalkCovers`: for the saved position and for the walk's own, every
  page counted as done has its rows in the index or was withheld, and its folders
  are known (visited, queued or current), and the root is known;
- `Finished`: when the walk is over, the saved row has an empty queue and a visited
  root, so `CpCovers` says that the known folders, all visited, are closed under
  listing, and contain every reachable folder.

Each conjunct has a lemma with one step per action; `Covers` has lemmas of its own
(monotone in rows and known folders; what one more page, one more visited folder, a
move to another folder do to it), which the steps cite. `PauseIsPrompt` needs a
small invariant of its own about the page in flight.

`Refinement` maps every action to a step of `ShareIndex` or to a stutter, and needs
three more invariants:

- `Origins`: every folder that the walk or its checkpoint knows of is the root, or
  was listed on a page that is done and not withheld. So the page being read is on
  the frontier (`PageOnFrontier`), and, with `Finished`, a finished walk has
  emptied the frontier (`NothingLeft`);
- `AtMostOneAhead`: between two pages, the walk's position counts as done exactly
  the pages that the checkpoint does, or one more: the empty last page of the folder
  it has left, which is marked in memory only (`crawler.go:190-194`). So a
  checkpoint commits one page at a time;
- `WithheldPages`: withheld pages are pages of the share.

### ShareLifecycle

`CompletedIsIndexed` says something of a share when its status is written, many calls
after its pages were. The conjuncts that carry it there:

- `Shape`: which calls have a current share, an outcome, a page to come; a crawl that
  returned without error is at its last page;
- `RunBacked`: the pages that the run counts as done have their rows, at "save" the
  page under way too; with `CheckpointBacked` this survives a crash and a resume, the
  one becoming the other at `StartPage` and `EndPage`;
- `CutInRun`: a share of the running cycle whose row is gone is in `cut`. A purge
  therefore meets only shares of `cut`, and the exception of the property is as small
  as it looks;
- `OrphansInRun`: rows of a deleted share are those of the run that goes on with it,
  which will purge them: `NoOrphanFiles`, said between any two calls;
- `StatusMatchesFailures` is inductive when each verdict is: lemmas on what a step may
  do to one row (`RowStep`) and on the counts a verdict can produce say so.

### SnapClient

`NoCookieOfLeftProxy` speaks of the request that goes out. `LeftBehind` adds that, at
any time during a call, neither the stored cookie nor the proxy of the last request is
of a proxy that this call has left: an answer saves a cookie of that proxy only, and
going on to another clears the store before the next request. The cookie in memory is
the operator's, of no proxy. `SuspectDropped` says that after an
empty first page there is no cookie in either place until the retry is answered.

### ShareTitles

`DedupeIdempotent` looks two ways: back to the plan, made at one moment for the whole
table, and on to a second plan, which must be empty. What lies between is `PlansFit`: as
long as nobody else writes, what is *left* of a plan fits the table (`Fits`): none of its
titles is held by a share or given twice, and the shares that it leaves alone have
different titles. A new plan fits (`NewPlanFits`), a rename makes the rest fit
(`OneRenameLess`), and where the empty plan fits there is nothing to rename
(`NothingToRename`).

That a new plan fits is about `planShareRenames` alone, for any table:

- the loop for a suffix ends, because of one number more than there are titles in use
  one is free (`CandidateIsFree`, by the pigeonhole principle, from `WithNumber`:
  different numbers make different titles). This needs `strconv.Itoa` to be injective
  (`ItoaInjective`), so it is defined by its digits and not by an assumption; that the
  recursion defines a function is `ItoaIs`;
- the shares to rename can be listed in the order of the code's loops, each once
  (`LosersInOrder`), and each title given depends on all before it (`TitlesAreGiven`,
  `PlanIs`), by the least number of renames for which there is none.

As stated before it was proved, the property was too strong: two rows of one share are
renamed by one statement (`WHERE share_code=?`), so it holds only where each share has
one row. `OneRowPerCode` is now part of it, and the exception is among the
[known limits](#known-limits).

### SizeDedup

Three parties act on a table that each has read at another time, so most of the
invariant says what a party may still rely on when it acts:

- `Rows`: ids are unique and a recorded size is the true one, so that a group by size
  is what it says, and `Older` a total order on registered shares (lemmas on `Oldest`
  show that it names one, and that the oldest of the rest takes its place);
- `Planned`: whoever is to be marked, by the crawl or by the plan, has another share of
  its size to be marked with;
- `Keeper`: where a share of some size is marked or about to be, another of this size
  is *kept*: registered, not marked, not to be marked, and, if it is crawlable, older
  than all that are to be marked, so that neither a new scan nor a first page picks it.
  `KeepsACopy` follows. The statement had to be found: "the canonical stays" is
  false, since the canonical changes when it is completed or listed again;
- `Untouched`: sizes outside `touched` have all their shares, none of them dead;
- `PlanComplete`: left alone, one of any two crawlable shares of a size is in the plan;
- `CutInRun`, `CheckpointBacked`, `RunBacked`, `CompletedSaved`, `FirstPageClean`: as in
  `ShareLifecycle`, with `holed` in the place of `cut`.

`Once` and `InOrder` say what `ListSharesForCrawl` returns: each crawlable share at most
once, the oldest first. The first ids (`FirstIds`) are any numbering of the shares.

### Release

The lemmas about the plan (`SearchPlan`) are about any finite, well-formed set of rows:
`LeastOfRows` (a set of rows has a first one), `PlanShape` (each document stands for a
folder, a row without a hash, or the first of a group), `OneDocForEachId`,
`PlanIsFinite`, `EveryRowIsFound`, `NoNameIsFalse`. The second to last finds each row by
what is `Sought` of it: the terms of its name as they are, or, where the row is rolled up,
its words, and for that `StemsFit` counts the names that a rolled-up folder keeps. That
ids are unique in a plan matters: bleve keeps one document for each id, and `Indexed` is
written as it works, the last one of a batch wins.

The invariant follows an index from its rows to the package:

- `InHand`: an index under construction and the documents still to come are together the
  plan of the rows that were read (`SplitBatch` and `BatchIsAdded` say so of one batch);
- `ReadyWhole`: the index of a directory that is in place is the plan of its rows;
- `Standing`: outside `again` such a directory has all of its files, and no rebuild of its
  second is clearing it or building another. So it does not change any more;
- `Exporting`: an export of such a version finds at every path what was there when it
  began (`Walking`), and what it has copied and what it still has to copy are together
  every file of that one build (`Copied`). `PackageWhole` is `Copied` at the end of the
  walk.

### Daemon

- `Channel`: a loop is done exactly when its message waits in `errCh` or was read, and
  no loop has sent two. So the channel's capacity, one for each loop, is never
  exceeded;
- `Cancellation` and `Cause`: nobody says nil or `context.Canceled` before the context
  is cancelled, and it is cancelled for a signal or for the error that is then
  returned: the echoes of a cancellation are never taken for its cause;
- `Clock`: no time has passed for a server that has not begun to close, and no more than
  `ShutdownWait` for one that has not finished, so the grace period can only run
  out on the scheduler;
- `Streak` and `Contacts`: the loop's counter is the number of cycles without contact.

### ShareGroups

`ParseGroups` keeps two maps, moves a code when another header names it, and warns
once; `OverlayInForce` says what this must come to, from the lines alone: each code of
the last overlay is in the group of the last header above any of its lines, in the
table as in the list. The proof goes in two halves.

What the parser computes is proved of its result after n lines, `SharesLineByLine` and
`GroupsLineByLine`: the recursive functions of `ShareLists` exist and their value after
a line is that of the loop's body (`AddShare`, `AddLine`) on the one before. There is no
induction over data here, so `OverlayIsRead` and `AllSharesAreRead` argue by the least
number of lines (`NatMin`) after which the claim fails: it is not zero, and one line more
keeps it, be it a header (`HeaderRead`), a code (`CodeRead`) or neither. The proof found
that the loop body, written as a `CASE`, had two guards that overlap, where TLA+ leaves
the value open.

What the table then keeps is an invariant (`OverlayStays`): a later write of a share of
the overlay finds its row, whose group the upsert leaves alone (`sqlite.go:730`), and a
row that was deleted comes back with no group until the next overlay, which is what
`OverlayInForce` allows. `ImportCovers` says of an import under way what
`ImportComplete` says at its end: every share of the list is active, is still to come,
or was marked or deleted since its turn.

### Only model-checked

- Liveness (`EventuallySettled`, `EventuallyDecided`, `EventuallyDistinct`,
  `CappedCallReturns`, `EventuallyEnds`): no prover here handles fairness.

## Findings

Each is a run in which TLC refutes what a comment, document or test says; the exact
quotation is in `PROJECT.json`.

1. `crawler_reactivate`: `ReactivateShare` leaves the final checkpoint, so the
   "fresh re-crawl" of a COMPLETED share lists nothing and completes at once.
2. `snap_false_end`: a proxy that expires between two calls of `List` is replaced
   without clearing its cookie; the empty page that 115 answers is taken for the end
   of the folder.
3. `sizes_indexed_twice`: the duplicate check looks among ACTIVE, STALE and
   QUARANTINE shares only, so once a share is COMPLETED the next one of its size is
   indexed too, and `dedupe-shares-by-size` does not see either of them. The README
   and the design ("a duplicate crawled later sees the earlier share's persisted
   size and aborts") say otherwise.
4. `package_docs`: `planDocs` does not look at the status of a share, so the rows of
   one that is DEAD or DUPLICATE represent their content in the index and are pruned
   from the database. The design reckons with a representative that dies between
   rebuild and export, "until next rebuild"; but the next rebuild picks it again.

## Known limits

Met while modelling, in the code and in the models, and excepted in the properties
where they would violate them:

- A rename between `ListSharesForCrawl` and the share's first page is overwritten by
  115's title: the guard reads the batch snapshot (`crawler.go:184`), although its
  comment says "overwriting here would undo a manual rename". A later
  `backfill-share-meta` overwrites any rename.
- A share deleted and added again during its crawl is marked COMPLETED at the end of
  the old crawl, with rows missing: `MarkShareCrawled` goes by `share_code`
  (`sqlite.go:839`; the comment: "completely indexed"). `CompletedIsIndexed` excepts
  the shares in `cut`.
- A share deleted during its first page and then found a duplicate leaves its
  checkpoint: duplicates skip `PurgeIfOrphan` (`scheduler.go:86`).
  `cleanup-orphans` removes it.
- Resumed before the scheduler looks at the gate again, a paused crawl is recorded as
  a failure (`scheduler.go:107`; README.md:115: "nothing is recorded as a failure").
- Files indexed between the handler's count and its delete go without `force`
  (`server.go:318-332`), and a share with folders only counts as empty
  (`sqlite.go:768`).
- `PurgeIfOrphan` looks before it deletes (`store/share_race.go:15`): a share added again in
  between loses its checkpoint and the rows of its first pages. `CompletedIsIndexed` and
  `CheckpointBacked` except it as `cut`.
- `RecordShareFailure` reads a row and writes it back (`sqlite.go:852`): a reactivation in
  between is lost. And shelving counts failures in the batch snapshot
  (`scheduler.go:112`): a share reactivated since is shelved on its first new failure.
  The row stays consistent (`StatusMatchesFailures`), which is all that is checked.
- A share registered under two receive codes has two rows that
  `RenameShareTitle` changes together (`store/dedupe.go:76`): every cycle finds them
  colliding and appends a digit.
- A crawl of a share that is deleted and has no title brings its row back
  (`sqlite.go:730`), ACTIVE and without its group; the checkpoint then counts on files
  that are gone (`HolesHaveCauses` excepts it as `holed`).
- When the canonical of a size dies or is deleted its duplicates stay DUPLICATE:
  nothing but an operator's reactivation brings the content back. `KeepsACopy` excepts
  it as `touched`. So does a request of the operator between the check and the mark,
  after which two shares may be each other's duplicate.
- `dedupe-shares-by-size` deletes the files of a loser and leaves its checkpoint
  (`dedup.go:91`): reactivated, the share resumes past the missing pages and is
  COMPLETED without them.
- The pruning of an export goes by the rows of `share`: files without a row (orphans)
  are shipped (`sqlite.go:128`).
- A failed `export-db` has already emptied the old package, and leaves a zip that opens
  but has no `version.txt`; an error of the deferred `Close` (`package.go:29`) is lost.
  `PackageWhole` therefore speaks of packages that are closed and stamped.
- A second rebuild in the same second removes the index the manifest points to, and until
  it is done, or should it fail, the manifest points nowhere. An export that walks the
  directory meanwhile may find half of it, pack and stamp what it found, or join files of
  both builds: nothing locks the directory, and the walk only fails on a name it has read
  and no longer finds (`package.go:34-46`). `ManifestResolves` and `PackageWhole` except
  such versions (`again`).
- The names of a rolled-up folder are normalised, the query is not (`indexer.go:148`): a
  search for the full dotted name of an absorbed episode (`Show.S01E01`), which is one
  term, finds nothing, while its words do. `EveryNameFound` promises the words, as
  `dedupe.go:92-95` and the roll-up design do.
- A row whose representative is not shipped is not found in the package, and when the
  representative is DEAD or DUPLICATE every rebuild picks it again (finding 4).
- A cycle whose shares are all duplicates counts as one of proxy failures
  (`scheduler.go:86` skips the reset), and escalates the sleep to an hour.
- `backoffSeconds` wraps from 59 failures on, and the share is then due at once.

## What is not modelled, and why

- Clock times and the length of a share's backoff (`backoffSeconds`): time is a step
  that lets a deadline pass. The wrap of the doubling needs integers wider than TLC's.
- How bleve analyses text, beyond dots that join words; how bytes lie on the disk: a file
  is removed or copied in one step, and so is the database, which is one snapshot.
- That a line of a list yields its codes (URLs, tokens, columns): string parsing.
- `ApplyGroups`' list of dormant codes, which is only logged.
- JSON, HTTP, logging, metrics, GET endpoints, `validate-share-counts`: no state.
- The provider's and the validator's requests: pure I/O, modelled as outcomes of
  `Acquire`.
- Schema migration: one-time SQL at start-up.
- Deployment scripts, except the restart policy.
- In `Crawler` and `ShareLifecycle` a share code has one row. Two rows of one code
  (two receive codes) appear in `ShareGroups`, and may in `ShareTitles`.

## Plan

Done: `Crawler` and `ShareIndex` (the core), `ShareLifecycle`, `SnapClient`,
`ShareTitles`, `SizeDedup`, `SearchPlan` and `Release`, `ShareLists` and `ShareGroups`,
`Daemon`, each with its proofs. What is left:

1. A theorem for the pieces that only whole properties use now, where a reader of the
   code would want it by itself: what `planShareRenames` returns, what `planDocs` keeps.
2. Titles of shares with two receive codes: what `RenameShareTitle` leaves of a plan.
