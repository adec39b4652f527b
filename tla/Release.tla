-------------------------------- MODULE Release --------------------------------
(***************************************************************************)
(* What reaches the consumers: the commands rebuild-index (internal/       *)
(* searchindex) and export-db (cmd/115-indexer/package.go, ExportTrimmed), *)
(* two processes beside a database that the crawler and the operator keep  *)
(* changing. The index is built under a directory of its own, named for    *)
(* the second it was begun in, and moved into place; the manifest then     *)
(* points to it; an export joins one index with the database of the day.   *)
(*                                                                         *)
(* SearchPlan says what documents an index holds. A finished index is a    *)
(* directory of files, removed one by one and copied one by one.           *)
(*                                                                         *)
(* Abstracted: a share that is neither DEAD nor DUPLICATE is LIVE; the     *)
(* trimmed copy and an index still being built, which only their own       *)
(* process touches, are packed, and removed, in one step; one rebuild and  *)
(* one export run at a time.                                               *)
(***************************************************************************)
EXTENDS SearchPlan

CONSTANTS
  Shares,      \* share codes, naturals
  Pages,       \* the pages of the shares on 115, each a set of rows
  Segments,    \* names of the files in an index's store
  BatchSize,   \* rebuildBatchSize
  MaxClock,    \* bound on the seconds that pass
  MaxOps,      \* bound on deaths, duplicates and deletions of shares
  Unsteady,    \* bound on the shares they befall
  MaxRebuilds, \* bound on runs of rebuild-index
  MaxExports,  \* bound on runs of export-db
  MaxFaults    \* bound on crashes and write errors

ASSUME ReleaseAssumption ==
  /\ Shares \subseteq Nat \ {0} /\ Unsteady \subseteq Shares /\ BatchSize \in Nat \ {0}
  /\ MaxClock \in Nat \ {0} /\ MaxOps \in Nat /\ MaxRebuilds \in Nat
  /\ MaxExports \in Nat /\ MaxFaults \in Nat

Rows == UNION Pages

ASSUME PagesAssumption == WellFormed(Rows) /\ \A r \in Rows : r.share \in Shares

\* What an index directory holds: a file of its own, and the store.
Meta    == "index_meta.json"
Store   == "store"
Entries == Segments \cup {Meta, Store}
IndexFiles == Entries \ {Store}

ASSUME SegmentsAssumption == Segments \cap {Meta, Store} = {}

VARIABLES
  \* --- the database
  files,      \* table file: a set of rows
  share,      \* table share: the status of each share, "none" without a row
  manifest,   \* table index_manifest: the version it points to, or NoVersion
  \* --- the disk
  building,   \* index_<v>_building, by v
  ready,      \* index_<v>, by v
  package,    \* the file at -out
  \* --- the processes
  now,        \* the clock, in seconds
  deleted,    \* a share deleted while its crawl goes on, or NoShare
  builder,    \* rebuild-index
  exporter,   \* export-db
  \* --- bookkeeping of the model
  again,      \* versions a second rebuild has started over
  ops, rebuilds, exports, faults

database == <<files, share, manifest>>
disk     == <<building, ready, package>>
counts   == <<ops, rebuilds, exports, faults>>
vars     == <<database, disk, now, deleted, builder, exporter, again, counts>>

NoShare   == 0
NoVersion == 0
Versions  == 1..MaxClock

\* An index: what is left of its directory and, for the properties, the run
\* that built it, the documents that run put there, the rows they were made
\* from and the shares an export would have left out then.
NoIndex   == [made |-> FALSE, left |-> {}, build |-> 0, docs |-> {}, rows |-> {},
              pruned |-> {}]
NewIndex(run) == [NoIndex EXCEPT !.made = TRUE, !.left = Entries, !.build = run]

\* A zip: readable once it is closed, with version.txt once it is stamped. Its
\* bleve part is the files copied, each with the build it was taken from; index
\* is the one found when the copying began, and version its directory's.
NoPackage == [closed |-> FALSE, stamped |-> FALSE, bleve |-> {}, index |-> NoIndex,
              version |-> NoVersion, rows |-> {}, pruned |-> {}]

BuilderOff  == [pc |-> "off", version |-> NoVersion, todo |-> {}]
ExporterOff == [pc |-> "off", path |-> <<>>, todo |-> {}]

-----------------------------------------------------------------------------
Init ==
  /\ files = {} /\ share = [s \in Shares |-> "LIVE"] /\ manifest = NoVersion
  /\ building = [v \in Versions |-> NoIndex]
  /\ ready = [v \in Versions |-> NoIndex]
  /\ package = NoPackage
  /\ now = 1 /\ deleted = NoShare
  /\ builder = BuilderOff /\ exporter = ExporterOff
  /\ again = {} /\ ops = 0 /\ rebuilds = 0 /\ exports = 0 /\ faults = 0

-----------------------------------------------------------------------------
\* The database, as the daemon and the operator change it

\* UpsertFiles, the next page of a share; its row may be gone by now.
CrawlPage ==
  /\ \E page \in Pages :
       /\ \A r \in page : share[r.share] = "LIVE" \/ r.share = deleted
       /\ ~(page \subseteq files)
       /\ files' = files \cup page
  /\ UNCHANGED <<share, deleted, ops>>

\* The statuses a crawl may end in that keep a share from the consumers: both
\* are strings in the table, compared as such by the export.
Verdicts_Cased == {"dead", "DUPLICATE"}
Verdicts       == {"DEAD", "DUPLICATE"}

\* The verdict on a share, however much of it is crawled.
MarkShare(s) ==
  /\ ops < MaxOps /\ s \in Unsteady /\ ops' = ops + 1
  /\ share[s] = "LIVE" /\ \E verdict \in Verdicts : share' = [share EXCEPT ![s] = verdict]
  /\ UNCHANGED <<files, deleted>>

\* The crawl of a deleted share ends with PurgeIfOrphan, or with the daemon.
EndCrawl ==
  /\ deleted # NoShare /\ deleted' = NoShare
  /\ \/ UNCHANGED files
     \/ /\ share[deleted] = "none"
        /\ files' = { r \in files : r.share # deleted }
  /\ UNCHANGED <<share, ops>>

\* import-shares, POST /shares: the share is back, whatever it was.
UpsertShare(s) ==
  /\ share[s] # "LIVE" /\ share' = [share EXCEPT ![s] = "LIVE"]
  /\ UNCHANGED <<files, deleted, ops>>

DeleteShare(s) ==
  /\ ops < MaxOps /\ s \in Unsteady /\ ops' = ops + 1
  /\ share[s] # "none" /\ share' = [share EXCEPT ![s] = "none"]
  /\ files' = { r \in files : r.share # s }
  /\ deleted' \in IF share[s] = "LIVE" THEN {deleted, s} ELSE {deleted}

\* DedupeSharesBySize and DeleteOrphans: the files of a share that is marked or
\* gone. (A cleaned share that comes back is crawled anew.)
CleanUp(s) ==
  /\ share[s] \in {"DUPLICATE", "none"} /\ \E r \in files : r.share = s
  /\ files' = { r \in files : r.share # s }
  /\ UNCHANGED <<share, deleted, ops>>

-----------------------------------------------------------------------------
\* rebuild-index

\* The version is the second, and both of its directories are removed: first
\* the one left half-built, which nobody else reads.
Cleared_AllOlder(v) == 1..v
Cleared(v) == {v}

StartRebuild ==
  /\ builder.pc = "off" /\ rebuilds < MaxRebuilds /\ rebuilds' = rebuilds + 1
  /\ builder' = [BuilderOff EXCEPT !.pc = "clear", !.version = now]
  /\ building' = [v \in Versions |-> IF v \in Cleared(now) THEN NoIndex ELSE building[v]]
  /\ again' = IF ready[now].made THEN again \cup {now} ELSE again
  /\ UNCHANGED <<manifest, ready, faults>>

\* RemoveAll of the finished one goes file by file, in any order, a directory
\* after what it holds.
RemoveEntry(v) ==
  \/ \E e \in ready[v].left :
       /\ e = Store => ready[v].left \cap Segments = {}
       /\ ready' = [ready EXCEPT ![v].left = @ \ {e}]
  \/ /\ ready[v].made /\ ready[v].left = {}
     /\ ready' = [ready EXCEPT ![v] = NoIndex]

RemoveAll ==
  /\ builder.pc = "clear"
  /\ \E v \in Cleared(builder.version) : RemoveEntry(v)
  /\ UNCHANGED <<manifest, building, builder, again, rebuilds, faults>>

\* bleve.New: an empty index.
CreateIndex ==
  /\ builder.pc = "clear" /\ \A v \in Cleared(builder.version) : ~ready[v].made
  /\ builder' = [builder EXCEPT !.pc = "read"]
  /\ building' = [building EXCEPT ![builder.version] = NewIndex(rebuilds)]
  /\ UNCHANGED <<manifest, ready, again, rebuilds, faults>>

\* Shares an export leaves out, and what it keeps of the files.
Pruned == { s \in Shares : share[s] \in {"DEAD", "DUPLICATE"} }

\* AllFiles, whatever the shares' status; then planDocs.
AllFiles ==
  /\ builder.pc = "read"
  /\ builder' = [builder EXCEPT !.pc = "batch", !.todo = PlanDocs(files)]
  /\ building' = [building EXCEPT ![builder.version].rows = files,
                                  ![builder.version].pruned = Pruned]
  /\ UNCHANGED <<manifest, ready, again, rebuilds, faults>>

\* A batch holds one document for each id, and puts it in the place of the one
\* in the index.
Indexed(docs, batch) ==
  { d \in docs : \A doc \in batch : doc.id # d.id } \cup
  { d \in batch : d = CHOOSE doc \in batch : doc.id = d.id }

\* One flush: a full batch, or what is left. In which order they come is of no
\* consequence to documents that have an id each.
NextBatch(docs) ==
  CHOOSE batch \in SUBSET docs :
    Cardinality(batch) = IF Cardinality(docs) < BatchSize THEN Cardinality(docs) ELSE BatchSize

IndexBatch ==
  /\ builder.pc = "batch" /\ builder.todo # {}
  /\ LET batch == NextBatch(builder.todo)
     IN  /\ building' = [building EXCEPT ![builder.version].docs = Indexed(@, batch)]
         /\ builder' = [builder EXCEPT !.todo = @ \ batch]
  /\ UNCHANGED <<manifest, ready, again, rebuilds, faults>>

\* Close, and rename the directory into its place.
RenameIndex ==
  /\ builder.pc = "batch" /\ builder.todo = {}
  /\ ready' = [ready EXCEPT ![builder.version] = building[builder.version]]
  /\ building' = [building EXCEPT ![builder.version] = NoIndex]
  /\ builder' = [builder EXCEPT !.pc = "manifest"]
  /\ UNCHANGED <<manifest, again, rebuilds, faults>>

UpdateManifest ==
  /\ builder.pc = "manifest"
  /\ manifest' = builder.version
  /\ builder' = BuilderOff
  /\ UNCHANGED <<building, ready, again, rebuilds, faults>>

\* An error (a full disk) or a kill: what is on the disk stays there.
RebuildFails ==
  /\ builder.pc # "off" /\ faults < MaxFaults /\ faults' = faults + 1
  /\ builder' = BuilderOff
  /\ UNCHANGED <<manifest, building, ready, again, rebuilds>>

-----------------------------------------------------------------------------
\* export-db

\* newestBleveIndex: the last of the sorted names. A directory still being
\* built is none; were it one, it would sort right after its own version.
IndexNamed(path) == IF path[2] = 0 THEN ready[path[1]] ELSE building[path[1]]
NewestBleveIndex_Any ==
  LET made == { p \in Versions \X {0, 1} : IndexNamed(p).made }
  IN  IF made = {} THEN <<>>
      ELSE CHOOSE p \in made : \A q \in made :
             q[1] < p[1] \/ (q[1] = p[1] /\ q[2] <= p[2])
NewestBleveIndex ==
  LET made == { v \in Versions : ready[v].made }
  IN  IF made = {} THEN <<>> ELSE <<CHOOSE v \in made : \A w \in made : w <= v, 0>>

\* The directory the export takes its index from; it dies without one.
ChooseIndex ==
  /\ exporter.pc = "off" /\ exports < MaxExports /\ exports' = exports + 1
  /\ LET path == IF manifest # NoVersion THEN <<manifest, 0>> ELSE NewestBleveIndex
     IN  exporter' = IF path = <<>> THEN ExporterOff
                     ELSE [ExporterOff EXCEPT !.pc = "trim", !.path = path]
  /\ UNCHANGED <<package, faults>>

\* The pruning of the copy: files first, as they are found through the shares.
Trimmed(rows, out) == { r \in rows : r.share \notin out }

\* ExportTrimmed copies one snapshot of the database; os.Create empties the
\* package that is there, and the copy goes in first.
AddIndexDb ==
  /\ exporter.pc = "trim"
  /\ package' = [NoPackage EXCEPT !.rows = Trimmed(files, Pruned), !.pruned = Pruned]
  /\ exporter' = [exporter EXCEPT !.pc = "bleve"]
  /\ UNCHANGED <<exports, faults>>

\* An error: the zip is closed all the same. (What is in a zip without a
\* version.txt, of use to nobody, is forgotten.)
GiveUp ==
  /\ package' = [NoPackage EXCEPT !.closed = TRUE]
  /\ exporter' = ExporterOff

\* filepath.Walk reads the names in a directory, then goes through them: those
\* of the directory itself ...
OpenIndex ==
  /\ exporter.pc = "bleve"
  /\ LET index == IndexNamed(exporter.path)
     IN  IF index.made
         THEN /\ package' = [package EXCEPT !.index = index, !.version = exporter.path[1]]
              /\ exporter' = [exporter EXCEPT !.pc = "walk", !.todo = index.left \ Segments]
         ELSE GiveUp
  /\ UNCHANGED <<exports, faults>>

\* ... and those of its store, which comes last. Whatever is at a path by then
\* is taken; the walk fails only when nothing is.
CopyEntry ==
  /\ exporter.pc = "walk"
  /\ LET index == IndexNamed(exporter.path)
     IN  \E e \in exporter.todo :
           /\ e = Store => exporter.todo = {Store}
           /\ \/ e \notin index.left /\ GiveUp
              \/ /\ e \in index.left /\ e = Store
                 /\ exporter' = [exporter EXCEPT !.todo = index.left \cap Segments]
                 /\ UNCHANGED package
              \/ /\ e \in index.left /\ e # Store
                 /\ exporter' = [exporter EXCEPT !.todo = @ \ {e}]
                 /\ package' = [package EXCEPT !.bleve = @ \cup {<<e, index.build>>}]
  /\ UNCHANGED <<exports, faults>>

\* version.txt, and the deferred Close, whose error nobody looks at.
AddVersion ==
  /\ exporter.pc = "walk" /\ exporter.todo = {}
  /\ \/ package' = [package EXCEPT !.stamped = TRUE, !.closed = TRUE] /\ UNCHANGED faults
     \/ /\ faults < MaxFaults /\ faults' = faults + 1
        /\ package' = [package EXCEPT !.stamped = TRUE]
  /\ exporter' = ExporterOff
  /\ UNCHANGED exports

\* A write error, once the zip is there, or a kill, which leaves it open.
ExportFails ==
  /\ exporter.pc # "off" /\ faults < MaxFaults /\ faults' = faults + 1
  /\ \/ exporter.pc # "trim" /\ GiveUp
     \/ exporter.pc # "trim" /\ package' = NoPackage /\ exporter' = ExporterOff
     \/ exporter.pc = "trim" /\ exporter' = ExporterOff /\ UNCHANGED package
  /\ UNCHANGED exports

-----------------------------------------------------------------------------
Database ==
  /\ \/ CrawlPage \/ EndCrawl
     \/ \E s \in Shares : MarkShare(s) \/ UpsertShare(s) \/ DeleteShare(s) \/ CleanUp(s)
  /\ UNCHANGED <<manifest, disk, now, builder, exporter, again,
                 rebuilds, exports, faults>>

Rebuild ==
  /\ \/ StartRebuild \/ RemoveAll \/ CreateIndex \/ AllFiles \/ IndexBatch
     \/ RenameIndex \/ UpdateManifest \/ RebuildFails
  /\ UNCHANGED <<files, share, package, now, deleted, exporter, ops, exports>>

Export ==
  /\ \/ ChooseIndex \/ AddIndexDb \/ OpenIndex \/ CopyEntry
     \/ AddVersion \/ ExportFails
  /\ UNCHANGED <<database, building, ready, now, deleted, builder, again,
                 ops, rebuilds>>

Tick ==
  /\ now < MaxClock /\ now' = now + 1
  /\ UNCHANGED <<database, disk, deleted, builder, exporter, again, counts>>

Next == Database \/ Rebuild \/ Export \/ Tick

Spec == Init /\ [][Next]_vars

-----------------------------------------------------------------------------
\* Properties

Doc     == [id : Nat \X Nat, names : SUBSET Names]
Index   == [made : BOOLEAN, left : SUBSET Entries, build : Nat, docs : SUBSET Doc,
            rows : SUBSET Rows, pruned : SUBSET Shares]
Package == [closed : BOOLEAN, stamped : BOOLEAN, bleve : SUBSET (IndexFiles \X Nat),
            index : Index, version : Versions \cup {NoVersion},
            rows : SUBSET Rows, pruned : SUBSET Shares]

DatabaseOK ==
  /\ files \subseteq Rows
  /\ share \in [Shares -> {"none", "LIVE", "DEAD", "DUPLICATE"}]
  /\ manifest \in Versions \cup {NoVersion} /\ now \in Versions
  /\ deleted \in Shares \cup {NoShare} /\ again \subseteq Versions

DiskOK ==
  /\ building \in [Versions -> Index] /\ ready \in [Versions -> Index]
  /\ package \in Package

ProcessesOK ==
  /\ builder \in [pc : {"off", "clear", "read", "batch", "manifest"},
                   version : Versions \cup {NoVersion}, todo : SUBSET Doc]
  /\ exporter \in [pc : {"off", "trim", "bleve", "walk"},
                    path : {<<>>} \cup (Versions \X {0, 1}), todo : SUBSET Entries]
  /\ rebuilds \in Nat

\* The type invariant of the database, the disk and the two commands.
TypeOK == DatabaseOK /\ DiskOK /\ ProcessesOK

\* A package a consumer may take: readable, with version.txt in it.
Shipped == package.closed /\ package.stamped

\* The package has every file of the index it was begun with, and no other's.
Unbroken == package.bleve = IndexFiles \X {package.index.build}

\* main.go:332-346: "no READY bleve index". Rebuilds may run and die beside the
\* export: what ships with a version.txt holds every file of one rebuild, and
\* one that finished. Only a second rebuild of the very second the index is
\* named for, which clears its directory, may tear it or put another's in.
PackageWhole ==
  Shipped /\ package.version \notin again =>
    Unbroken /\ package.index.docs = PlanDocs(package.index.rows)

\* The manifest is written after the rename: it points to an index that is
\* there, unless a second rebuild of the same second has removed it.
ManifestResolves ==
  manifest = NoVersion \/ manifest \in again \/ ready[manifest].made

\* An index that is in its place, none of it removed again.
Finished(index) == index.made /\ index.left = Entries

\* dedupe.go:92-95, 121-134: merging copies and rolling episodes up loses no
\* row. Each row a finished index was made from is found by the terms of its
\* name, as itself or as a copy, or by every word of it under its folder, unless
\* the folder has more names than a document may carry.
EveryNameFound ==
  \A v \in Versions : Finished(ready[v]) =>
    \A r \in ready[v].rows :
      Findable(ready[v], ready[v].rows, r) \/ Overflows(ready[v].rows, r)

\* Nothing is found under a name that is not its own: each name of a document
\* is that of a row the document's row may stand for. Episodes keep theirs
\* apart, and rows without a hash are never merged.
NoFalseHit ==
  \A v \in Versions : Finished(ready[v]) =>
    \A doc \in ready[v].docs : \A n \in doc.names :
      \E q, r \in ready[v].rows :
        DocId(q) = doc.id /\ Stands(q, r) /\ n \in {r.name, Norm(r.name)}

\* Join of the two halves, made at different times: a shipped row that the
\* index knows is found in the package, and the answer is in it too, unless a
\* row with a smaller id that holds the same content, or its folder, was left
\* out or deleted (the one the index names).
ShippedAreFound ==
  Shipped /\ Unbroken => \A r \in package.rows \cap package.index.rows :
    \/ Findable(package.index, package.rows, r)
    \/ Overflows(package.index.rows, r)
    \/ \E q \in package.index.rows \ package.rows :
         Stands(q, r) /\ (Before(q, r) \/ q.dir)

\* Design 2026-06-25-search-content-dedup, 117-119: an entry whose
\* representative dies "vanishes from search until next rebuild": when no share
\* has died, and no row has gone, since the rebuild, every row is found.
FoundAfterRebuild ==
  /\ Shipped /\ Unbroken /\ package.pruned \subseteq package.index.pruned
  /\ \A r \in package.index.rows \ package.rows : r.share \in package.pruned
  => \A r \in package.rows \cap package.index.rows :
      \/ Findable(package.index, package.rows, r)
      \/ Overflows(package.index.rows, r)
=============================================================================
