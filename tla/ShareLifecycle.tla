---------------------------- MODULE ShareLifecycle ----------------------------
(***************************************************************************)
(* The share table's life: the scheduler's cycle (internal/scheduler:      *)
(* RunOnce and RunLoop) over a snapshot of the shares that are due, the    *)
(* verdict it writes after each crawl, and the admin API                   *)
(* (internal/adminhttp) that adds, reactivates, deletes and pauses under   *)
(* its feet. Every call to the store is one action: the store has a single *)
(* connection, so a call is atomic and handlers interleave between calls.  *)
(*                                                                         *)
(* CrawlShare is reduced to a chain of pages with the same calls in the    *)
(* same order; module Crawler has its tree, its resume point and its       *)
(* retries. Abstracted: the order of a batch (any), clock times            *)
(* (retry_after_unix is past, in backoff, or ten years away), the sleep    *)
(* between cycles with its proxy backoff, and titles (set or not).         *)
(***************************************************************************)
EXTENDS Naturals, FiniteSets

CONSTANTS
  Shares,        \* share codes
  Pages,         \* Pages[s]: how many pages share s has
  FolderPages,   \* FolderPages[s]: those of them that list folders only
  QuarantineAt,  \* failures that turn STALE into QUARANTINE (3)
  GiveUp,        \* emptyDataGiveUpFailures (4)
  MaxFaults,     \* bound on deaths and on failed crawls, "empty data" apart
  MaxOps         \* bound on requests to the admin API, Resume excepted

ASSUME BoundsAssumption ==
  /\ Pages \in [Shares -> Nat \ {0}]
  /\ QuarantineAt \in Nat \ {0} /\ GiveUp \in Nat \ {0}
  /\ MaxFaults \in Nat /\ MaxOps \in Nat

None == "none"
ASSUME NoneAssumption == None \notin Shares

VARIABLES
  \* --- the database
  share,      \* table share: share[s] is its row, or Absent
  files,      \* table file: the pages of s whose rows are there
  cp,         \* table crawl_checkpoint: 1 + pages done, or NoCheckpoint
  \* --- the scheduler
  pc,         \* the call that comes next, "idle" between cycles
  batch,      \* the shares of this cycle still to crawl
  snap,       \* what ListSharesForCrawl returned for them
  cur,        \* the share being crawled, or None
  pos,        \* pages of cur that are done
  firstPage,  \* this run has not finished a page: dedupChecked, metaPersisted
  outcome,    \* what CrawlShare returned
  seen,       \* failure_count as RecordShareFailure read it
  \* --- the admin API
  paused,     \* PauseGate
  delShare,   \* the share of a DELETE request past its file count, or None
  delForce,   \* ... and its force parameter
  \* --- bookkeeping of the model
  failed,     \* failed crawls so far, "empty data" apart
  crashes,    \* deaths of the process so far
  ops,        \* requests to the admin API so far
  cut         \* shares whose row was last deleted in the middle of a run

database  == <<share, files, cp>>
run       == <<batch, snap, cur, pos, firstPage, outcome, seen>>
api       == <<paused, delShare, delForce>>
history   == <<failed, crashes, ops, cut>>
vars      == <<database, pc, run, api, history>>

-----------------------------------------------------------------------------
\* Rows of the share table

Absent == [status |-> "none", failures |-> 0, retry |-> "due", titled |-> FALSE]

Statuses == {"ACTIVE", "STALE", "QUARANTINE", "DEAD", "COMPLETED", "DUPLICATE"}

\* failure_count saturates where no comparison tells larger values apart.
FailureCap == IF QuarantineAt > GiveUp THEN QuarantineAt ELSE GiveUp
Increment(n) == IF n < FailureCap THEN n + 1 ELSE n

Registered(s) == share[s].status # "none"
Crawlable(s)  == share[s].status \in {"ACTIVE", "STALE", "QUARANTINE"}

NoCheckpoint == 0
Saved(n)     == n + 1

\* The first page CrawlShare asks for, given the saved checkpoint.
ResumePoint_NextPage(c) == c
ResumePoint(c) == IF c = NoCheckpoint THEN 0 ELSE c - 1
AllPages(s)  == 1..Pages[s]

\* UPDATE share SET ... WHERE share_code = s: no row, no effect.
Update(s, row) == IF Registered(s) THEN [share EXCEPT ![s] = row] ELSE share

NoSnap == [failures |-> 0, titled |-> FALSE]

\* The share is in the running cycle: being crawled or still to come.
InRun(s) == s \in batch \/ s = cur

-----------------------------------------------------------------------------
Init ==
  /\ share = [s \in Shares |-> [Absent EXCEPT !.status = "ACTIVE"]]
  /\ files = [s \in Shares |-> {}] /\ cp = [s \in Shares |-> NoCheckpoint]
  /\ pc = "idle" /\ batch = {} /\ snap = [s \in Shares |-> NoSnap]
  /\ cur = None /\ pos = 0 /\ firstPage = FALSE
  /\ outcome = "none" /\ seen = 0
  /\ paused = FALSE /\ delShare = None /\ delForce = FALSE
  /\ failed = 0 /\ crashes = 0 /\ ops = 0 /\ cut = {}

-----------------------------------------------------------------------------
\* RunOnce

\* ListSharesForCrawl: the snapshot the whole cycle works from.
ListSharesForCrawl ==
  /\ pc = "idle" /\ ~paused
  /\ LET due == { s \in Shares : Crawlable(s) /\ share[s].retry = "due" }
     IN  /\ batch' = due
         /\ snap' = [s \in Shares |->
              IF s \in due THEN [failures |-> share[s].failures,
                                 titled |-> share[s].titled]
                           ELSE NoSnap]
  /\ pc' = "batch"
  /\ UNCHANGED <<database, cur, pos, firstPage, outcome, seen, api, history>>

\* The next share of the batch; CrawlShare loads its checkpoint.
TakeShare(s) ==
  /\ pc = "batch" /\ s \in batch /\ ~paused
  /\ batch' = batch \ {s} /\ cur' = s
  /\ pos' = ResumePoint(cp[s])
  /\ firstPage' = TRUE
  /\ pc' = "page"
  /\ UNCHANGED <<database, snap, outcome, seen, api, history>>

\* The gate is on before a share: errPaused abandons the cycle.
AbandonCycle ==
  /\ pc = "batch" /\ batch # {} /\ paused
  /\ batch' = {} /\ snap' = [s \in Shares |-> NoSnap]
  /\ pc' = "idle"
  /\ UNCHANGED <<database, cur, pos, firstPage, outcome, seen, api, history>>

EndCycle ==
  /\ pc = "batch" /\ batch = {}
  /\ snap' = [s \in Shares |-> NoSnap]
  /\ pc' = "idle"
  /\ UNCHANGED <<database, batch, cur, pos, firstPage, outcome, seen, api, history>>

-----------------------------------------------------------------------------
\* CrawlShare of cur

CrawlReturns(r) ==
  /\ outcome' = r
  /\ pc' = IF r = "duplicate" THEN "duplicate" ELSE "purge"

ErrPaused ==
  /\ pc = "page" /\ pos < Pages[cur] /\ paused
  /\ CrawlReturns("paused")
  /\ UNCHANGED <<database, batch, snap, cur, pos, firstPage, seen, api, history>>

\* The checkpoint at the start of a page.
StartCheckpoint_Ahead(n) == Saved(n + 1)
StartCheckpoint(n)       == Saved(n)

StartPage ==
  /\ pc = "page" /\ pos < Pages[cur] /\ ~paused
  /\ cp' = [cp EXCEPT ![cur] = StartCheckpoint(pos)]
  /\ pc' = "list"
  /\ UNCHANGED <<share, files, run, api, history>>

\* ListPage answers, and the duplicate check lets the share through.
ListPage ==
  /\ pc = "list"
  /\ pc' = "meta"
  /\ UNCHANGED <<database, run, api, history>>

\* FindDuplicateShare, on the run's first page, names another crawlable share
\* whose size is known, that is, whose title and size have been recorded. All
\* shares may have the same size, and either of two may be the older.
FindDuplicateShare ==
  /\ pc = "list" /\ firstPage
  /\ \E o \in Shares \ {cur} : Crawlable(o) /\ share[o].titled
  /\ CrawlReturns("duplicate")
  /\ UNCHANGED <<database, batch, snap, cur, pos, firstPage, seen, api, history>>

\* ListPage gives up: the share is gone from 115, or its listing stays empty.
ListPageError ==
  /\ pc = "list"
  /\ \E r \in {"dead", "empty"} : CrawlReturns(r)
  /\ UNCHANGED <<database, batch, snap, cur, pos, firstPage, seen, api, history>>

\* UpdateShareMeta once per run when the snapshot had no title. It INSERTs the
\* row if a DELETE request removed it.
UpdateShareMeta ==
  /\ pc = "meta"
  /\ share' = IF firstPage /\ ~snap[cur].titled
              THEN [share EXCEPT ![cur] =
                     IF Registered(cur) THEN [@ EXCEPT !.titled = TRUE]
                     ELSE [Absent EXCEPT !.status = "ACTIVE", !.titled = TRUE]]
              ELSE share
  /\ pc' = "index"
  /\ UNCHANGED <<files, cp, run, api, history>>

UpsertFiles ==
  /\ pc = "index"
  /\ files' = [files EXCEPT ![cur] = @ \cup {pos + 1}]
  /\ pc' = "save"
  /\ UNCHANGED <<share, cp, run, api, history>>

\* The checkpoint at the end of a page.
EndPage ==
  /\ pc = "save"
  /\ cp' = [cp EXCEPT ![cur] = Saved(pos + 1)]
  /\ pos' = pos + 1 /\ firstPage' = FALSE
  /\ pc' = "page"
  /\ UNCHANGED <<share, files, batch, snap, cur, outcome, seen, api, history>>

\* Nothing left: the final checkpoint, and CrawlShare returns nil.
SaveFinal ==
  /\ pc = "page" /\ pos = Pages[cur]
  /\ cp' = [cp EXCEPT ![cur] = Saved(pos)]
  /\ CrawlReturns("ok")
  /\ UNCHANGED <<share, files, batch, snap, cur, pos, firstPage, seen, api, history>>

\* Any other error of the lister or of the store, before the call takes effect.
CrawlError ==
  /\ pc \in {"page", "list", "meta", "index", "save"}
  /\ failed + crashes < MaxFaults
  /\ failed' = failed + 1
  /\ CrawlReturns("error")
  /\ UNCHANGED <<database, batch, snap, cur, pos, firstPage, seen, api, crashes,
                 ops, cut>>

-----------------------------------------------------------------------------
\* The verdict on cur

NextShare ==
  /\ pc' = "batch"
  /\ snap' = [snap EXCEPT ![cur] = NoSnap]
  /\ cur' = None /\ pos' = 0 /\ firstPage' = FALSE /\ outcome' = "none"
  /\ seen' = 0

\* The process is gone: its memory, and every request it was serving.
Down ==
  /\ pc' = "down"
  /\ batch' = {} /\ snap' = [s \in Shares |-> NoSnap]
  /\ cur' = None /\ pos' = 0 /\ firstPage' = FALSE /\ outcome' = "none"
  /\ seen' = 0
  /\ paused' = FALSE /\ delShare' = None /\ delForce' = FALSE

\* A duplicate goes on to the next share without PurgeIfOrphan.
MarkShareDuplicate ==
  /\ pc = "duplicate"
  /\ share' = Update(cur, [share[cur] EXCEPT !.status = "DUPLICATE",
                                             !.retry = "due", !.failures = 0])
  /\ NextShare
  /\ UNCHANGED <<files, cp, batch, api, history>>

\* PurgeIfOrphan looks the row up, and removes files and checkpoint if it is gone.
PurgeCheck_Never == FALSE
PurgeCheck       == ~Registered(cur)

PurgeIfOrphan ==
  /\ pc = "purge"
  /\ pc' = IF PurgeCheck THEN "purging" ELSE "verdict"
  /\ UNCHANGED <<database, run, api, history>>

PurgeRows ==
  /\ pc = "purging"
  /\ files' = [files EXCEPT ![cur] = {}]
  /\ cp' = [cp EXCEPT ![cur] = NoCheckpoint]
  /\ pc' = "verdict"
  /\ UNCHANGED <<share, run, api, history>>

MarkShareCrawled ==
  /\ pc = "verdict" /\ outcome = "ok"
  /\ share' = Update(cur, [share[cur] EXCEPT !.status = "COMPLETED",
                                             !.failures = 0, !.retry = "due"])
  /\ NextShare
  /\ UNCHANGED <<files, cp, batch, api, history>>

MarkShareDead ==
  /\ pc = "verdict" /\ outcome = "dead"
  /\ share' = Update(cur, [share[cur] EXCEPT !.status = "DEAD", !.retry = "due"])
  /\ NextShare
  /\ UNCHANGED <<files, cp, batch, api, history>>

Failure == pc = "verdict" /\ outcome \in {"paused", "empty", "error"}

\* A crawl that failed while the gate is on: errPaused, nothing is recorded.
PauseVerdict ==
  /\ Failure /\ paused
  /\ batch' = {} /\ snap' = [s \in Shares |-> NoSnap]
  /\ cur' = None /\ pos' = 0 /\ firstPage' = FALSE /\ outcome' = "none"
  /\ seen' = 0
  /\ pc' = "idle"
  /\ UNCHANGED <<database, api, history>>

\* The snapshot's failure count, this failure included, has reached the limit.
Hopeless_Never == FALSE
Hopeless == outcome = "empty" /\ snap[cur].failures + 1 >= GiveUp

MarkShareShelved ==
  /\ Failure /\ ~paused /\ Hopeless
  /\ share' = Update(cur, [share[cur] EXCEPT !.status = "QUARANTINE",
                                             !.retry = "shelved"])
  /\ NextShare
  /\ UNCHANGED <<files, cp, batch, api, history>>

\* RecordShareFailure reads the row; without one RunOnce and RunLoop return
\* sql.ErrNoRows and the daemon stops.
RecordShareFailure ==
  /\ Failure /\ ~paused /\ ~Hopeless
  /\ \/ /\ Registered(cur)
        /\ seen' = share[cur].failures
        /\ pc' = "record"
        /\ UNCHANGED <<batch, snap, cur, pos, firstPage, outcome, api>>
     \/ ~Registered(cur) /\ Down
  /\ UNCHANGED <<database, history>>

\* ... and writes back what it has read, plus one.
FailureStatus_OffByOne(n) == IF n > QuarantineAt THEN "QUARANTINE" ELSE "STALE"
FailureStatus(n) == IF n >= QuarantineAt THEN "QUARANTINE" ELSE "STALE"

WriteFailure ==
  /\ pc = "record"
  /\ LET n == Increment(seen)
     IN  share' = Update(cur, [share[cur] EXCEPT !.status = FailureStatus(n),
                                 !.failures = n, !.retry = "backoff"])
  /\ NextShare
  /\ UNCHANGED <<files, cp, batch, api, history>>

-----------------------------------------------------------------------------
\* Time, crashes, systemd

\* retry_after_unix passes; the ten years of a shelved share do not.
BackoffElapses(s) ==
  /\ share[s].retry = "backoff"
  /\ share' = [share EXCEPT ![s].retry = "due"]
  /\ UNCHANGED <<files, cp, pc, run, api, history>>

Crash ==
  /\ pc # "down" /\ failed + crashes < MaxFaults
  /\ crashes' = crashes + 1
  /\ Down
  /\ UNCHANGED <<database, failed, ops, cut>>

\* install.sh: Restart=on-failure.
Restart ==
  /\ pc = "down"
  /\ pc' = "idle"
  /\ UNCHANGED <<database, run, api, history>>

-----------------------------------------------------------------------------
\* The admin API, served by the same process

Request == pc # "down" /\ ops < MaxOps /\ ops' = ops + 1

\* POST /shares: UpsertShare inserts the row or resets its bookkeeping.
UpsertShare(s) ==
  /\ Request
  /\ share' = [share EXCEPT ![s] =
       [Absent EXCEPT !.status = "ACTIVE", !.titled = share[s].titled]]
  /\ UNCHANGED <<files, cp, pc, run, api, failed, crashes, cut>>

\* POST /shares/{code}/reactivate
ReactivateShare(s) ==
  /\ Request /\ Registered(s)
  /\ share' = [share EXCEPT ![s].status = "ACTIVE", ![s].failures = 0,
                            ![s].retry = "due"]
  /\ UNCHANGED <<files, cp, pc, run, api, failed, crashes, cut>>

\* DELETE /shares/{code}: first ShareFileStats, which counts no folders; files
\* mean 409 ...
HandleDelete(s, force) ==
  /\ Request /\ delShare = None
  /\ files[s] \subseteq FolderPages[s] \/ force
  /\ delShare' = s /\ delForce' = force
  /\ UNCHANGED <<database, pc, run, paused, failed, crashes, cut>>

\* ... then DeleteShare, one transaction over the three tables.
Deleted_KeepsCheckpoint(c, s) == c
Deleted(c, s) == [c EXCEPT ![s] = NoCheckpoint]

DeleteShare ==
  /\ delShare # None
  /\ share' = [share EXCEPT ![delShare] = Absent]
  /\ files' = [files EXCEPT ![delShare] = {}]
  /\ cp' = Deleted(cp, delShare)
  /\ cut' = IF InRun(delShare) THEN cut \cup {delShare} ELSE cut \ {delShare}
  /\ delShare' = None /\ delForce' = FALSE
  /\ UNCHANGED <<pc, run, paused, failed, crashes, ops>>

PauseCrawler ==
  /\ Request /\ ~paused
  /\ paused' = TRUE
  /\ UNCHANGED <<database, pc, run, delShare, delForce, failed, crashes, cut>>

ResumeCrawler ==
  /\ paused
  /\ paused' = FALSE
  /\ UNCHANGED <<database, pc, run, delShare, delForce, history>>

-----------------------------------------------------------------------------
Cycle ==
  \/ ListSharesForCrawl \/ AbandonCycle \/ EndCycle
  \/ \E s \in Shares : TakeShare(s)

CrawlShare ==
  \/ ErrPaused \/ StartPage \/ ListPage \/ FindDuplicateShare \/ ListPageError
  \/ UpdateShareMeta \/ UpsertFiles \/ EndPage \/ SaveFinal \/ CrawlError

Verdict ==
  \/ MarkShareDuplicate \/ PurgeIfOrphan \/ PurgeRows
  \/ MarkShareCrawled \/ MarkShareDead \/ PauseVerdict
  \/ MarkShareShelved \/ RecordShareFailure \/ WriteFailure

Admin ==
  \/ \E s \in Shares :
       \/ UpsertShare(s) \/ ReactivateShare(s)
       \/ \E force \in BOOLEAN : HandleDelete(s, force)
  \/ DeleteShare \/ PauseCrawler \/ ResumeCrawler

Next ==
  \/ Cycle \/ CrawlShare \/ Verdict
  \/ (\E s \in Shares : BackoffElapses(s))
  \/ Crash \/ Restart
  \/ Admin

\* The scheduler's goroutine keeps running, backoffs pass, systemd restarts the
\* process. Nothing is assumed of the operator.
Fairness ==
  /\ WF_vars(Cycle) /\ WF_vars(CrawlShare) /\ WF_vars(Verdict)
  /\ WF_vars(Restart)
  /\ \A s \in Shares : WF_vars(BackoffElapses(s))

Spec == Init /\ [][Next]_vars /\ Fairness

-----------------------------------------------------------------------------
\* Properties

Row == [status : Statuses \cup {"none"}, failures : 0..FailureCap,
        retry : {"due", "backoff", "shelved"}, titled : BOOLEAN]

TablesOK ==
  /\ share \in [Shares -> Row]
  /\ files \in [Shares -> SUBSET Nat]
  /\ \A s \in Shares : files[s] \subseteq AllPages(s)
  /\ cp \in [Shares -> Nat]
  /\ \A s \in Shares : cp[s] \in 0..Saved(Pages[s])

RunOK ==
  /\ pc \in {"idle", "batch", "page", "list", "meta", "index", "save",
             "duplicate", "purge", "purging", "verdict", "record", "down"}
  /\ batch \subseteq Shares /\ cur \in Shares \cup {None}
  /\ cur = None => pos = 0
  /\ cur # None => pos \in 0..Pages[cur]
  /\ outcome \in {"none", "ok", "dead", "duplicate", "paused", "empty", "error"}
  /\ seen \in 0..FailureCap /\ delShare \in Shares \cup {None}
  /\ cut \subseteq Shares
  /\ failed \in 0..MaxFaults /\ crashes \in 0..MaxFaults

\* The type invariant of the tables and of the two processes that share them.
TypeOK ==
  /\ TablesOK /\ RunOK
  /\ firstPage \in BOOLEAN /\ paused \in BOOLEAN /\ delForce \in BOOLEAN

Completed(s) == share[s].status = "COMPLETED"

\* "completely indexed" (MarkShareCrawled, sqlite.go:833-834): a COMPLETED
\* share has every page in the index, whatever failed, crashed, was paused,
\* re-added or reactivated on the way. A share deleted and added again while a
\* cycle had it is excepted: the old crawl's verdict falls on the new row.
CompletedIsIndexed ==
  \A s \in Shares \ cut : Completed(s) => files[s] = AllPages(s)

\* The resume point never claims a page that is not in the index: otherwise a
\* later run would skip it for good.
CheckpointBacked ==
  \A s \in Shares \ cut : 1..ResumePoint(cp[s]) \subseteq files[s]

\* scheduler.go:88-92: once a cycle is over, no deleted share has rows in the
\* file table, wherever in the cycle the DELETE fell. (A crash between the
\* crawl and the purge does leave some, for cleanup-orphans.)
NoOrphanFiles ==
  pc = "idle" /\ crashes = 0 =>
    \A s \in Shares : ~Registered(s) => files[s] = {}

\* Status and failure count tell one story, although RecordShareFailure reads
\* and writes in two calls and shelving works from a stale snapshot.
StatusMatchesFailures ==
  \A s \in Shares : LET r == share[s] IN
    /\ r.status \in {"ACTIVE", "COMPLETED", "DUPLICATE"} =>
         r.failures = 0 /\ r.retry = "due"
    /\ r.status = "STALE" => r.failures \in 1..(QuarantineAt - 1)
    /\ r.status = "QUARANTINE" =>
         r.retry = "shelved" \/ r.failures >= QuarantineAt

\* scheduler.go:195-199: no share is retried forever, not even one whose
\* listing stays empty; each comes to a status the scheduler leaves alone.
Decided(s) ==
  \/ share[s].status \in {"none", "COMPLETED", "DEAD", "DUPLICATE"}
  \/ share[s].retry = "shelved"

EventuallyDecided == <>[]~paused => \A s \in Shares : <>[]Decided(s)
=============================================================================
