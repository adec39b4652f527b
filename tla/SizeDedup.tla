------------------------------- MODULE SizeDedup -------------------------------
(***************************************************************************)
(* Duplicates by size (internal/store: FindDuplicateShare,                 *)
(* MarkShareDuplicate, DedupeSharesBySize) and orphans (DeleteOrphans), as *)
(* three parties use the share table at once: the scheduler's cycle, whose *)
(* crawl asks about a share on the first page of every run; the commands   *)
(* dedupe-shares-by-size and cleanup-orphans, processes of their own; and  *)
(* the operator. Every call to the store is one action.                    *)
(*                                                                         *)
(* CrawlShare is the chain of pages of ShareLifecycle. Abstracted:         *)
(* failure counts and backoff (a cycle lists any part of the crawlable     *)
(* shares), pauses, and titles (recorded with the size, and only then).    *)
(***************************************************************************)
EXTENDS Naturals, FiniteSets, SequencesExt

CONSTANTS
  Shares,      \* share codes
  Sizings,     \* the possible total sizes on 115, functions from Shares to Nat
  MinSize,     \* -dedupe-min-size
  Pages,       \* pages of a share
  MaxCycles,   \* bound on the scheduler's cycles
  MaxFaults,   \* bound on failed crawls and on crashes of either process
  MaxOps       \* bound on requests of the operator and on commands

ASSUME BoundsAssumption ==
  /\ IsFiniteSet(Shares)
  /\ Sizings \subseteq [Shares -> Nat \ {0}]
  /\ MinSize \in Nat \ {0} /\ Pages \in Nat \ {0}
  /\ MaxCycles \in Nat /\ MaxFaults \in Nat /\ MaxOps \in Nat

None == "none"
ASSUME NoneAssumption == None \notin Shares

VARIABLES
  size,       \* total size of each share on 115, which never changes
  \* --- the database
  share,      \* table share: share[s] is its row, or Absent
  nextId,     \* the id the next new row gets
  files,      \* table file: the pages of s whose rows are there
  cp,         \* table crawl_checkpoint: 1 + pages done, or NoCheckpoint
  \* --- the scheduler
  pc,         \* the call that comes next, "idle" between cycles
  cycle,      \* RunOnce's now, one per cycle
  batch,      \* the shares of this cycle still to crawl, in their order
  known,      \* the shares that had a title when the cycle listed them
  cur,        \* the share being crawled, or None
  pos,        \* pages of cur that are done
  firstPage,  \* this run has not finished a page: dedupChecked, metaPersisted
  found,      \* the canonical FindDuplicateShare named, or None
  outcome,    \* what CrawlShare returned
  \* --- dedupe-shares-by-size -apply
  command,    \* "off", "running" or "done"
  plan,       \* actions still to apply: pairs of a loser and its canonical
  marked,     \* the loser that is marked and still has its files, or None
  \* --- bookkeeping of the model
  before,     \* files of cur when its run started
  alone,      \* nothing else has changed the database since the command's scan
  touched,    \* sizes whose group an operator or a death has interfered with
  holed,      \* shares that lost their files with a run or a checkpoint in hand
  faults, ops \* failed crawls and crashes, requests and commands so far

database == <<share, nextId, files, cp>>
run      == <<batch, known, cur, pos, firstPage, found, outcome, before>>
cleaner  == <<command, plan, marked>>
bounds   == <<faults, ops>>
history  == <<alone, touched, holed>>
vars     == <<size, database, pc, cycle, run, cleaner, history, bounds>>

-----------------------------------------------------------------------------
\* Rows of the share table

Absent == [id |-> 0, status |-> "none", size |-> 0, crawled |-> 0,
           duplicate_of |-> None]

Registered(s) == share[s].status # "none"
Crawlable(s)  == share[s].status \in {"ACTIVE", "STALE", "QUARANTINE"}

NoCheckpoint == 0
Saved(n)       == n + 1
ResumePoint_NextPage(c) == c
ResumePoint(c) == IF c = NoCheckpoint THEN 0 ELSE c - 1
AllPages       == 1..Pages

\* UPDATE share SET ... WHERE share_code = s: no row, no effect.
Update(s, row) == IF Registered(s) THEN [share EXCEPT ![s] = row] ELSE share

\* The row an INSERT creates; the id is never used again.
NewRow == [Absent EXCEPT !.id = nextId, !.status = "ACTIVE"]
IdAfter(s) == IF Registered(s) THEN nextId ELSE nextId + 1

\* ORDER BY COALESCE(last_crawled_at,0), id: a share never crawled is the oldest.
Older(s, t) ==
  \/ share[s].crawled < share[t].crawled
  \/ share[s].crawled = share[t].crawled /\ share[s].id < share[t].id

InOrder(seq) == \A i, j \in DOMAIN seq : i < j => Older(seq[i], seq[j])

\* The crawlable shares recorded with size n, and the oldest of them.
SizeGroup(n) == { s \in Shares : Crawlable(s) /\ share[s].size = n }
Oldest(S)    == CHOOSE s \in S : \A t \in S \ {s} : Older(s, t)

\* FindDuplicateShare of a share that reports n on its page.
Canonical_SelfToo(s, n) ==
  IF n >= MinSize /\ SizeGroup(n) # {} THEN Oldest(SizeGroup(n)) ELSE None
Canonical_AnySize(s, n) ==
  LET group == { t \in Shares : Crawlable(t) /\ share[t].size >= MinSize }
  IN  IF n >= MinSize /\ group \ {s} # {} THEN Oldest(group \ {s}) ELSE None
Canonical(s, n) ==
  IF n >= MinSize /\ SizeGroup(n) \ {s} # {} /\ Oldest(SizeGroup(n)) # s
  THEN Oldest(SizeGroup(n)) ELSE None

\* The scan of DedupeSharesBySize: all but the oldest of every size group.
Losers_ButTheLast(S) == { s \in S \ {Oldest(S)} : \E t \in S : Older(s, t) }
Losers(S) == S \ {Oldest(S)}
DedupePlan ==
  UNION { LET group == SizeGroup(n) IN
            { <<s, Oldest(group)>> : s \in Losers(group) } :
          n \in { share[s].size : s \in { t \in Shares :
                    Crawlable(t) /\ share[t].size >= MinSize } } }

\* The share is in the running cycle: being crawled or still to come.
InRun(s) == s = cur \/ s \in ToSet(batch)

\* Somebody has looked at the size group of s and not yet acted on it.
Pending(s) ==
  \/ pc = "duplicate" /\ size[cur] = size[s]
  \/ \E a \in plan : size[a[1]] = size[s]

-----------------------------------------------------------------------------
\* The shares are registered, with one id each; nothing is crawled yet.
FirstIds == CHOOSE f \in Injection(Shares, 1..Cardinality(Shares)) : TRUE

Init ==
  /\ size \in Sizings
  /\ share = [s \in Shares |-> [Absent EXCEPT !.status = "ACTIVE", !.id = FirstIds[s]]]
  /\ nextId = Cardinality(Shares) + 1
  /\ files = [s \in Shares |-> {}] /\ cp = [s \in Shares |-> NoCheckpoint]
  /\ pc = "idle" /\ cycle = 0 /\ batch = <<>> /\ known = {}
  /\ cur = None /\ pos = 0 /\ firstPage = FALSE /\ found = None
  /\ outcome = "none" /\ before = {}
  /\ command = "off" /\ plan = {} /\ marked = None
  /\ alone = FALSE /\ touched = {} /\ holed = {} /\ faults = 0 /\ ops = 0

-----------------------------------------------------------------------------
\* The scheduler's cycle and its crawl

ListSharesForCrawl ==
  /\ pc = "idle" /\ cycle < MaxCycles
  /\ \E due \in SUBSET { s \in Shares : Crawlable(s) } :
       /\ due # {}
       /\ \E order \in Injection(1..Cardinality(due), due) : InOrder(order) /\ batch' = order
       /\ known' = { s \in due : share[s].size # 0 }
  /\ cycle' = cycle + 1 /\ pc' = "batch"
  /\ UNCHANGED <<database, cur, pos, firstPage, found, outcome, before,
                 touched, holed, faults>>

NextShare ==
  /\ cur' = None /\ pos' = 0 /\ firstPage' = FALSE /\ found' = None
  /\ outcome' = "none" /\ before' = {}
  /\ pc' = IF batch = <<>> THEN "idle" ELSE "batch"
  /\ known' = IF batch = <<>> THEN {} ELSE known
  /\ UNCHANGED batch

TakeShare ==
  /\ pc = "batch"
  /\ cur' = Head(batch) /\ batch' = Tail(batch)
  /\ pos' = ResumePoint(cp[Head(batch)]) /\ before' = files[Head(batch)]
  /\ firstPage' = TRUE /\ pc' = "page"
  /\ UNCHANGED <<database, cycle, known, found, outcome, touched, holed, faults>>

\* The checkpoint at the start of a page, then ListPage.
ListPage ==
  /\ pc = "page" /\ pos < Pages
  /\ cp' = [cp EXCEPT ![cur] = Saved(pos)]
  /\ pc' = IF firstPage THEN "check" ELSE "index"
  /\ UNCHANGED <<share, nextId, files, cycle, run, touched, holed, faults>>

\* ListPage fails: the share is gone from 115, or an error.
ListPageError ==
  /\ pc = "page" /\ pos < Pages /\ faults < MaxFaults
  /\ \E r \in {"dead", "error"} : outcome' = r
  /\ cp' = [cp EXCEPT ![cur] = Saved(pos)]
  /\ faults' = faults + 1 /\ pc' = "purge"
  /\ UNCHANGED <<share, nextId, files, cycle, batch, known, cur, pos,
                 firstPage, found, before, touched, holed>>

\* Once per run: is the size this page reports that of an older share?
FindDuplicateShare ==
  /\ pc = "check"
  /\ found' = Canonical(cur, size[cur])
  /\ pc' = IF found' = None THEN "meta" ELSE "duplicate"
  /\ UNCHANGED <<database, cycle, batch, known, cur, pos, firstPage, outcome,
                 before, touched, holed, faults>>

\* RunOnce's verdict on a duplicate; files and checkpoint stay.
MarkShareDuplicate ==
  /\ pc = "duplicate"
  /\ share' = Update(cur, [share[cur] EXCEPT !.status = "DUPLICATE",
                                             !.duplicate_of = found])
  /\ NextShare
  /\ UNCHANGED <<nextId, files, cp, cycle, touched, holed, faults>>

\* Only for a share that had no title when listed; a deleted one comes back.
RecordMeta(s) ==
  /\ share' = [share EXCEPT ![s] = [(IF Registered(s) THEN @ ELSE NewRow)
                                      EXCEPT !.size = size[s]]]
  /\ nextId' = IdAfter(s)

UpdateShareMeta ==
  /\ pc = "meta"
  /\ IF cur \in known THEN UNCHANGED <<share, nextId>> ELSE RecordMeta(cur)
  /\ pc' = "index"
  /\ UNCHANGED <<files, cp, cycle, run, touched, holed, faults>>

UpsertFiles ==
  /\ pc = "index"
  /\ files' = [files EXCEPT ![cur] = @ \cup {pos + 1}]
  /\ pc' = "save"
  /\ UNCHANGED <<share, nextId, cp, cycle, run, touched, holed, faults>>

\* The checkpoint at the end of a page. The next page asks no more questions.
FirstPageAfter_Again == TRUE
FirstPageAfter       == FALSE

EndPage ==
  /\ pc = "save"
  /\ cp' = [cp EXCEPT ![cur] = Saved(pos + 1)]
  /\ pos' = pos + 1 /\ firstPage' = FirstPageAfter /\ pc' = "page"
  /\ UNCHANGED <<share, nextId, files, cycle, batch, known, cur, found,
                 outcome, before, touched, holed, faults>>

SaveFinal ==
  /\ pc = "page" /\ pos = Pages
  /\ cp' = [cp EXCEPT ![cur] = Saved(pos)]
  /\ outcome' = "ok" /\ pc' = "purge"
  /\ UNCHANGED <<share, nextId, files, cycle, batch, known, cur, pos,
                 firstPage, found, before, touched, holed, faults>>

PurgeIfOrphan ==
  /\ pc = "purge"
  /\ pc' = IF Registered(cur) THEN "verdict" ELSE "purging"
  /\ UNCHANGED <<database, cycle, run, touched, holed, faults>>

PurgeRows ==
  /\ pc = "purging"
  /\ files' = [files EXCEPT ![cur] = {}]
  /\ cp' = [cp EXCEPT ![cur] = NoCheckpoint]
  /\ pc' = "verdict"
  /\ UNCHANGED <<share, nextId, cycle, run, touched, holed, faults>>

\* MarkShareCrawled with the cycle's now, MarkShareDead, or RecordShareFailure.
Verdict ==
  /\ pc = "verdict" /\ (outcome = "error" => Registered(cur))
  /\ share' = Update(cur,
       CASE outcome = "ok"   -> [share[cur] EXCEPT !.status = "COMPLETED",
                                                   !.crawled = cycle]
         [] outcome = "dead" -> [share[cur] EXCEPT !.status = "DEAD"]
         [] OTHER            -> [share[cur] EXCEPT !.status = "STALE"])
  /\ touched' = IF outcome = "dead" THEN touched \cup {size[cur]} ELSE touched
  /\ NextShare
  /\ UNCHANGED <<nextId, files, cp, cycle, holed, faults>>

\* The daemon dies and starts over; so it does when RecordShareFailure finds no
\* row, an error that RunOnce and RunLoop return.
Crash ==
  /\ \/ pc # "idle" /\ faults < MaxFaults /\ faults' = faults + 1
     \/ /\ pc = "verdict" /\ outcome = "error" /\ ~Registered(cur)
        /\ UNCHANGED faults
  /\ pc' = "idle" /\ batch' = <<>> /\ known' = {}
  /\ cur' = None /\ pos' = 0 /\ firstPage' = FALSE /\ found' = None
  /\ outcome' = "none" /\ before' = {}
  /\ UNCHANGED <<database, cycle, touched, holed>>

-----------------------------------------------------------------------------
\* dedupe-shares-by-size -apply

DedupeScan ==
  /\ command = "off" /\ ops < MaxOps
  /\ ops' = ops + 1
  /\ plan' = DedupePlan
  /\ command' = "running" /\ alone' = TRUE
  /\ UNCHANGED <<database, marked, holed, faults>>

DedupeMark ==
  /\ command = "running" /\ marked = None
  /\ \E a \in plan :
       /\ share' = Update(a[1], [share[a[1]] EXCEPT !.status = "DUPLICATE",
                                                    !.duplicate_of = a[2]])
       /\ marked' = a[1]
       /\ plan' = plan \ {a}
  /\ UNCHANGED <<nextId, files, cp, command, alone, holed, bounds>>

\* DELETE FROM file; the checkpoint, if there is one, is left alone.
DedupeDelete ==
  /\ marked # None
  /\ files' = [files EXCEPT ![marked] = {}]
  /\ holed' = IF cp[marked] # NoCheckpoint \/ InRun(marked)
              THEN holed \cup {marked} ELSE holed
  /\ marked' = None
  /\ UNCHANGED <<share, nextId, cp, command, plan, alone, bounds>>

DedupeDone ==
  /\ command = "running" /\ plan = {} /\ marked = None
  /\ command' = "done"
  /\ UNCHANGED <<database, plan, marked, alone, holed, bounds>>

\* The process exits, or dies on the way; it may be started again.
DedupeExit ==
  /\ \/ command = "done" /\ UNCHANGED faults
     \/ command = "running" /\ faults < MaxFaults /\ faults' = faults + 1
  /\ command' = "off" /\ plan' = {} /\ marked' = None /\ alone' = FALSE
  /\ UNCHANGED <<database, holed, ops>>

-----------------------------------------------------------------------------
\* The operator

Request(s) ==
  /\ ops < MaxOps /\ ops' = ops + 1
  /\ touched' = IF Pending(s) THEN touched \cup {size[s]} ELSE touched

\* POST /shares, import-shares, register-share: UpsertShare.
UpsertShare(s) ==
  /\ Request(s)
  /\ share' = [share EXCEPT ![s] =
       [(IF Registered(s) THEN @ ELSE NewRow)
          EXCEPT !.status = "ACTIVE", !.crawled = 0]]
  /\ nextId' = IdAfter(s)
  /\ UNCHANGED <<files, cp, holed>>

\* backfill-share-meta, one share of the list.
BackfillShareMeta(s) ==
  /\ Request(s)
  /\ RecordMeta(s)
  /\ UNCHANGED <<files, cp, holed>>

ReactivateShare(s) ==
  /\ Request(s) /\ Registered(s)
  /\ share' = [share EXCEPT ![s].status = "ACTIVE", ![s].duplicate_of = None]
  /\ UNCHANGED <<nextId, files, cp, holed>>

\* DELETE /shares/{code}?force=true
DeleteShare(s) ==
  /\ ops < MaxOps /\ ops' = ops + 1 /\ Registered(s)
  /\ touched' = touched \cup {size[s]}
  /\ share' = [share EXCEPT ![s] = Absent]
  /\ files' = [files EXCEPT ![s] = {}]
  /\ cp' = [cp EXCEPT ![s] = NoCheckpoint]
  /\ holed' = IF InRun(s) THEN holed \cup {s} ELSE holed
  /\ UNCHANGED nextId

\* cleanup-orphans -apply: one transaction over the two tables.
Orphan_OfCrawlable(s) == ~Crawlable(s)
Orphan(s) == ~Registered(s)

DeleteOrphans ==
  /\ ops < MaxOps /\ ops' = ops + 1
  /\ \E s \in Shares : Orphan(s) /\ (files[s] # {} \/ cp[s] # NoCheckpoint)
  /\ files' = [s \in Shares |-> IF Orphan(s) THEN {} ELSE files[s]]
  /\ cp' = [s \in Shares |-> IF Orphan(s) THEN NoCheckpoint ELSE cp[s]]
  /\ UNCHANGED <<share, nextId, touched, holed>>

-----------------------------------------------------------------------------
Daemon ==
  /\ \/ ListSharesForCrawl \/ TakeShare \/ ListPage \/ ListPageError
     \/ FindDuplicateShare \/ MarkShareDuplicate \/ UpdateShareMeta
     \/ UpsertFiles \/ EndPage \/ SaveFinal \/ PurgeIfOrphan \/ PurgeRows
     \/ Verdict \/ Crash
  /\ alone' = (alone /\ UNCHANGED database)
  /\ UNCHANGED <<size, cleaner, ops>>

Dedupe ==
  /\ DedupeScan \/ DedupeMark \/ DedupeDelete \/ DedupeDone \/ DedupeExit
  /\ UNCHANGED <<size, pc, cycle, run, touched>>

Operator ==
  /\ \/ \E s \in Shares : \/ UpsertShare(s) \/ BackfillShareMeta(s)
                          \/ ReactivateShare(s) \/ DeleteShare(s)
     \/ DeleteOrphans
  /\ alone' = FALSE
  /\ UNCHANGED <<size, pc, cycle, run, cleaner, faults>>

Next == Daemon \/ Dedupe \/ Operator

Spec == Init /\ [][Next]_vars

-----------------------------------------------------------------------------
\* Properties

Row == [id : Nat, status : {"none", "ACTIVE", "STALE", "QUARANTINE", "DEAD",
                            "COMPLETED", "DUPLICATE"},
        size : Nat, crawled : 0..MaxCycles, duplicate_of : Shares \cup {None}]

TablesOK ==
  /\ size \in Sizings
  /\ share \in [Shares -> Row] /\ nextId \in Nat
  /\ files \in [Shares -> SUBSET AllPages]
  /\ cp \in [Shares -> 0..Saved(Pages)]

RunOK ==
  /\ pc \in {"idle", "batch", "page", "check", "duplicate", "meta", "index",
             "save", "purge", "purging", "verdict"}
  /\ cycle \in 0..MaxCycles /\ batch \in Seq(Shares)
  /\ known \subseteq Shares /\ cur \in Shares \cup {None} /\ pos \in 0..Pages
  /\ found \in Shares \cup {None}
  /\ outcome \in {"none", "ok", "dead", "error"} /\ before \subseteq AllPages

CommandOK ==
  /\ command \in {"off", "running", "done"}
  /\ plan \subseteq Shares \X Shares /\ marked \in Shares \cup {None}
  /\ holed \subseteq Shares

FlagsOK == firstPage \in BOOLEAN /\ alone \in BOOLEAN

\* The type invariant of the tables and of the processes that share them.
TypeOK == TablesOK /\ RunOK /\ CommandOK /\ FlagsOK

Duplicate(s) == share[s].status = "DUPLICATE"
SameSize(s)  == { t \in Shares : size[t] = size[s] }

\* share-dedup-by-size-design.md:32-33: "The canonical share stays". Marking
\* never takes the last copy of a size: while some share of it is a DUPLICATE,
\* another one is registered and is not, whatever the scheduler and the command
\* do to each other. The exceptions are a share that died or was deleted, and
\* a request of the operator between a look at the group and its mark.
KeepsACopy ==
  \A s \in Shares : Duplicate(s) /\ size[s] \notin touched =>
    \E t \in SameSize(s) : Registered(t) /\ ~Duplicate(t)

\* dedup.go:9-10: a share is only a duplicate of one of its own size, above
\* the threshold, although its own size is not in the table when it is asked.
DuplicateOfItsSize ==
  \A s \in Shares : Duplicate(s) =>
    /\ share[s].duplicate_of \in SameSize(s) \ {s}
    /\ size[s] >= MinSize

\* crawler.go:166-167: "before any file is indexed. A duplicate returns
\* immediately and writes nothing." A run that ends in a duplicate has added
\* no row, whichever page it resumed at.
DuplicateIndexesNothing == pc = "duplicate" => files[cur] \subseteq before

\* README.md:63: the command, left alone, cleans what it set out to clean: no
\* two shares it could see are left with one size. (Files that earlier runs of
\* the crawler left to a share marked before are not in its sight.)
DedupeComplete ==
  command = "done" /\ alone =>
    \A s \in Shares : \A t \in Shares \ {s} :
      Crawlable(s) /\ Crawlable(t) /\ share[s].size >= MinSize =>
        share[s].size # share[t].size

\* Completed shares are completely indexed, resumed, cleaned and re-added as
\* they may be, except for those whose files went while a checkpoint or a run
\* still counted on them; cleanup-orphans is not among the causes.
HolesHaveCauses ==
  \A s \in Shares \ holed :
    share[s].status = "COMPLETED" => files[s] = AllPages

\* README.md:60-62: shares of one size are "detected on the first crawl page
\* and marked DUPLICATE without indexing": two are never both indexed.
IndexedOnce ==
  \A s \in Shares : \A t \in SameSize(s) \ {s} :
    size[s] >= MinSize /\ share[s].status = "COMPLETED" =>
      share[t].status # "COMPLETED"
=============================================================================
