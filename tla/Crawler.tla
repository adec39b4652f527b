------------------------------- MODULE Crawler -------------------------------
(***************************************************************************)
(* Crawler.CrawlShare of internal/crawler/crawler.go: the resumable        *)
(* breadth-first walk over the folders of ONE 115 share, page by page,     *)
(* with a checkpoint in the database before and after every page.          *)
(*                                                                         *)
(* One action per call the walk makes to the lister or to the store, so a  *)
(* crash, a failed call or an operator's pause can fall between any two.   *)
(* The database (rows, cp, title) survives a crash; the walk's locals and  *)
(* the operator's pause flag do not.                                       *)
(*                                                                         *)
(* Abstracted: an offset counts pages (NextOffset / PageSize), a file name *)
(* or extension is only "folder", "media" or "other", and time does not    *)
(* appear: the retry_after delay before the next run is a step not taken.  *)
(***************************************************************************)
EXTENDS Naturals, Sequences

CONSTANTS
  Dirs,         \* the share's folders (cids)
  Media,        \* its media files: what isIndexableMediaExt accepts
  Root,         \* RootCID
  Pages,        \* Pages[d]: the snap pages of folder d, in listing order
  Level,        \* Level[d]: the depth of folder d below the root
  RetryCount,   \* Config.RetryCount: extra attempts per page
  BigShare,     \* the share's size reaches Config.DedupeMinFileSize
  MayWithhold,  \* 115 may answer list=[] past the first page of a folder
  MaxFaults     \* bound on failed runs and crashes

\* A page of a folder: its sub-folders in listing order and its media files.
\* A page that holds only other files is [dirs |-> << >>, media |-> {}].
Page == [dirs : Seq(Dirs), media : SUBSET Media]

ASSUME TreeAssumption ==
  /\ Root \in Dirs
  /\ Dirs \cap Media = {}
  /\ Pages \in [Dirs -> Seq(Page)]
  /\ Level \in [Dirs -> Nat]
  /\ Level[Root] = 0
  /\ \A d \in Dirs : \A k \in 1..Len(Pages[d]) :
       \A i \in 1..Len(Pages[d][k].dirs) :
          Level[Pages[d][k].dirs[i]] = Level[d] + 1

ASSUME ConfigAssumption ==
  /\ RetryCount \in Nat
  /\ MaxFaults \in Nat
  /\ BigShare \in BOOLEAN
  /\ MayWithhold \in BOOLEAN

None == "none"
ASSUME NoneAssumption == None \notin Dirs

VARIABLES
  \* --- the database
  rows,          \* table file: this share's rows [node, parent, depth]
  cp,            \* table crawl_checkpoint: this share's row, or NoCheckpoint
  title,         \* share.share_title: "unset" (empty) | "remote" | "manual"
  result,        \* how the last run ended, as the scheduler sees it
  \* --- the daemon's memory
  paused,        \* scheduler's pause flag, polled through PauseChecker
  pc,            \* the call of CrawlShare that comes next
  queue,         \* folders still to visit
  visited,       \* folders fully read
  task,          \* the folder being read, or NoTask
  offset,        \* the page of task to read
  attempt,       \* failed tries of this page
  served,        \* the page just listed has nodes
  dedupChecked,  \* the run has listed a page
  sawTitle,      \* share.ShareTitle in the batch snapshot is not empty
  metaPersisted, \* the run has written title and size
  \* --- bookkeeping of the model
  faults,        \* failed runs and crashes so far
  withheld,      \* pages that 115 answered with list=[] (history)
  sincePause     \* pages fetched since the operator paused (history)

durable  == <<rows, cp, title>>
position == <<queue, visited, task, offset>>
perRun   == <<attempt, served, dedupChecked, sawTitle, metaPersisted>>
history  == <<faults, withheld, sincePause>>
vars     == <<durable, result, paused, pc, position, perRun, history>>

-----------------------------------------------------------------------------
\* Values

Task(d, n)   == [cid |-> d, depth |-> n]
NoTask       == Task(None, 0)
Tasks        == [cid : Dirs, depth : Nat]
NoCheckpoint == [cid |-> None, offset |-> 0, depth |-> 0,
                 queue |-> << >>, visited |-> {}]
Checkpoints  == [cid : Dirs, offset : Nat, depth : Nat,
                 queue : Seq(Tasks), visited : SUBSET Dirs]
Rows         == [node : Dirs \cup Media, parent : Dirs, depth : Nat]

RangeOf(s)   == { s[i] : i \in DOMAIN s }
Cids(q)      == { q[i].cid : i \in DOMAIN q }

\* apiLister.ListPage: HasMore is offset+limit < count. An empty folder has
\* no page, and the answer at offset 0 then has no nodes.
HasMore(d, o) == o + 1 < Len(Pages[d])

ThePage       == Pages[task.cid][offset + 1]

\* filterIndexableFiles, with the parent and depth stamped on every node.
RowsOfPage(t, k) ==
  { [node |-> n, parent |-> t.cid, depth |-> t.depth + 1] :
      n \in RangeOf(Pages[t.cid][k].dirs) \cup Pages[t.cid][k].media }

\* The queue entries for the page's folders; every node has depth task+1.
TasksOfPage(t, k) ==
  [i \in 1..Len(Pages[t.cid][k].dirs) |->
     Task(Pages[t.cid][k].dirs[i], t.depth + 1)]

Checkpoint(t, o, q, v) ==
  [cid |-> t.cid, offset |-> o, depth |-> t.depth, queue |-> q, visited |-> v]

-----------------------------------------------------------------------------
Init ==
  /\ rows = {} /\ cp = NoCheckpoint /\ title = "unset" /\ result = "new"
  /\ paused = FALSE /\ pc = "idle"
  /\ queue = << >> /\ visited = {} /\ task = NoTask /\ offset = 0
  /\ attempt = 0 /\ served = FALSE /\ dedupChecked = FALSE
  /\ sawTitle = FALSE /\ metaPersisted = FALSE
  /\ faults = 0 /\ withheld = {} /\ sincePause = 0

\* Statuses ListSharesForCrawl never returns.
Settled == result \in {"done", "dead", "duplicate"}

\* CrawlShare's prologue: load the checkpoint, resume the page it names
\* first, and start at the root when there is nothing to resume.
Resumes      == cp # NoCheckpoint /\ cp.cid \notin cp.visited

ResumeTask_Dropped   == NoTask
ResumeTask_DepthLost == IF Resumes THEN Task(cp.cid, 0) ELSE NoTask
ResumeTask           == IF Resumes THEN Task(cp.cid, cp.depth) ELSE NoTask

ResumeOffset_First == 0
ResumeOffset       == IF Resumes THEN cp.offset ELSE 0

Start ==
  /\ pc = "idle" /\ ~Settled /\ ~paused
  /\ visited' = cp.visited
  /\ task' = ResumeTask
  /\ offset' = ResumeOffset
  /\ queue' = IF cp.queue = << >> /\ ~Resumes THEN <<Task(Root, 0)>> ELSE cp.queue
  /\ sawTitle' = (title # "unset")
  /\ dedupChecked' = FALSE /\ metaPersisted' = FALSE
  /\ attempt' = 0 /\ served' = FALSE
  /\ pc' = "next"
  /\ UNCHANGED <<durable, result, paused, history>>

\* Head of the outer loop: the resumed folder, else the head of the queue; a
\* folder already visited is skipped.
NextTask ==
  /\ pc = "next" /\ (task # NoTask \/ queue # << >>)
  /\ LET t == IF task # NoTask THEN task ELSE Head(queue)
     IN  /\ queue' = IF task # NoTask THEN queue ELSE Tail(queue)
         /\ IF t.cid \in visited
              THEN task' = NoTask /\ offset' = 0 /\ pc' = "next"
              ELSE /\ task' = t
                   /\ offset' = IF task # NoTask THEN offset ELSE 0
                   /\ pc' = "page"
  /\ UNCHANGED <<durable, result, paused, visited, perRun, history>>

\* Config.PauseChecker, the scheduler's flag.
PauseChecker_Nil == FALSE
PauseChecker     == paused

\* Head of the page loop, not paused: the start-of-page checkpoint.
StartPage ==
  /\ pc = "page" /\ ~PauseChecker
  /\ cp' = Checkpoint(task, offset, queue, visited)
  /\ attempt' = 0
  /\ pc' = "list"
  /\ UNCHANGED <<rows, title, result, paused, position, served, dedupChecked,
                 sawTitle, metaPersisted, history>>

\* ListPage succeeds. Past the first page 115 may return list=[] with a
\* positive count; listOnce passes that on as an empty page.
ListPage ==
  /\ pc = "list"
  /\ \E s \in BOOLEAN :
       /\ s => offset < Len(Pages[task.cid])
       /\ ~s => offset >= Len(Pages[task.cid]) \/ (MayWithhold /\ offset > 0)
       /\ served' = s
       /\ withheld' = IF s \/ offset >= Len(Pages[task.cid])
                      THEN withheld \ {<<task.cid, offset + 1>>}
                      ELSE withheld \cup {<<task.cid, offset + 1>>}
  /\ sincePause' = IF paused THEN sincePause + 1 ELSE sincePause
  /\ pc' = "dedup"
  /\ UNCHANGED <<durable, result, paused, position, attempt, dedupChecked,
                 sawTitle, metaPersisted, faults>>

\* A retryable or proxy failure: the same page again, at most RetryCount times.
MayRetry_OnceMore == attempt <= RetryCount
MayRetry          == attempt < RetryCount

ListRetry ==
  /\ pc = "list" /\ MayRetry
  /\ attempt' = attempt + 1
  /\ UNCHANGED <<durable, result, paused, pc, position, served, dedupChecked,
                 sawTitle, metaPersisted, history>>

\* The duplicate check of the run's first page lets the share through.
PassDedup ==
  /\ pc = "dedup"
  /\ dedupChecked' = TRUE
  /\ pc' = "meta"
  /\ UNCHANGED <<durable, result, paused, position, attempt, served, sawTitle,
                 metaPersisted, history>>

\* UpdateShareMeta, once per run and only if the SNAPSHOT has no title; a page
\* may carry none either.
PersistMeta ==
  /\ pc = "meta"
  /\ \/ ~metaPersisted /\ ~sawTitle /\ title' = "remote" /\ metaPersisted' = TRUE
     \/ UNCHANGED <<title, metaPersisted>>
  /\ pc' = "index"
  /\ UNCHANGED <<rows, cp, result, paused, position, attempt, served,
                 dedupChecked, sawTitle, history>>

\* No nodes and nothing more: the folder is read, and nothing is saved.
EmptyPage_NoBreak ==
  /\ pc = "index" /\ ~served /\ ~HasMore(task.cid, offset)
  /\ pc' = "page"
  /\ UNCHANGED <<durable, result, paused, position, perRun, history>>

EmptyPage ==
  /\ pc = "index" /\ ~served /\ ~HasMore(task.cid, offset)
  /\ visited' = visited \cup {task.cid}
  /\ task' = NoTask /\ offset' = 0
  /\ pc' = "next"
  /\ UNCHANGED <<durable, result, paused, queue, perRun, history>>

\* UpsertFiles of the folders and media files of the page.
UpsertFiles ==
  /\ pc = "index" /\ (served \/ HasMore(task.cid, offset))
  /\ rows' = IF served THEN rows \cup RowsOfPage(task, offset + 1) ELSE rows
  /\ pc' = "commit"
  /\ UNCHANGED <<cp, title, result, paused, position, perRun, history>>

\* The end-of-page checkpoint, given the queue and the visited set after it.
EndCheckpoint_OldQueue(q, v)   == Checkpoint(task, offset + 1, queue, v)
EndCheckpoint_OldVisited(q, v) == Checkpoint(task, offset + 1, q, visited)
EndCheckpoint(q, v)            == Checkpoint(task, offset + 1, q, v)

\* The page's folders join the queue, a folder whose last page this was is
\* visited, and the end-of-page checkpoint saves both with the next offset.
EndPage ==
  /\ pc = "commit"
  /\ LET more == HasMore(task.cid, offset)
         q == IF served THEN queue \o TasksOfPage(task, offset + 1) ELSE queue
         v == IF more THEN visited ELSE visited \cup {task.cid}
     IN  /\ queue' = q /\ visited' = v
         /\ cp' = EndCheckpoint(q, v)
         /\ task' = IF more THEN task ELSE NoTask
         /\ offset' = IF more THEN offset + 1 ELSE 0
         /\ pc' = IF more THEN "page" ELSE "next"
  /\ UNCHANGED <<rows, title, result, paused, perRun, history>>

\* The outer loop is over: the final checkpoint.
SaveFinal ==
  /\ pc = "next" /\ task = NoTask /\ queue = << >>
  /\ cp' = Checkpoint(Task(Root, 0), 0, << >>, visited)
  /\ pc' = "return"
  /\ UNCHANGED <<rows, title, result, paused, position, perRun, history>>

-----------------------------------------------------------------------------
\* Ways out of CrawlShare. The locals are gone; the database stays.

LeaveWith(r) ==
  /\ pc' = "idle" /\ result' = r
  /\ queue' = << >> /\ visited' = {} /\ task' = NoTask /\ offset' = 0
  /\ attempt' = 0 /\ served' = FALSE /\ dedupChecked' = FALSE
  /\ sawTitle' = FALSE /\ metaPersisted' = FALSE

Fault == faults < MaxFaults /\ faults' = faults + 1

\* nil: the scheduler marks the share COMPLETED.
Return ==
  /\ pc = "return"
  /\ LeaveWith("done")
  /\ UNCHANGED <<durable, paused, history>>

\* FindDuplicateShare, asked on the first page of the run only, names a keeper.
Duplicate ==
  /\ pc = "dedup" /\ ~dedupChecked /\ BigShare
  /\ LeaveWith("duplicate")
  /\ UNCHANGED <<durable, paused, history>>

\* ErrDeadShare from ListPage: not retryable.
Dead ==
  /\ pc = "list"
  /\ LeaveWith("dead")
  /\ UNCHANGED <<durable, paused, history>>

\* ErrPaused at the top of the page loop.
PausedOut ==
  /\ pc = "page" /\ PauseChecker
  /\ LeaveWith("paused")
  /\ UNCHANGED <<durable, paused, history>>

\* A store call fails, the context is cancelled, or the last attempt of a page
\* fails: the error returns before the call had an effect.
Fail ==
  /\ pc # "idle" /\ Fault
  /\ LeaveWith("failed")
  /\ UNCHANGED <<durable, paused, withheld, sincePause>>

\* The process dies: the pause flag is memory too.
Crash ==
  /\ pc # "idle" /\ Fault
  /\ LeaveWith("crashed")
  /\ paused' = FALSE /\ sincePause' = 0
  /\ UNCHANGED <<durable, withheld>>

-----------------------------------------------------------------------------
\* The operator: pause and resume, reactivate a settled share, rename it.

Pause ==
  /\ ~paused
  /\ paused' = TRUE /\ sincePause' = 0
  /\ UNCHANGED <<durable, result, pc, position, perRun, faults, withheld>>

Resume ==
  /\ paused
  /\ paused' = FALSE /\ sincePause' = 0
  /\ UNCHANGED <<durable, result, pc, position, perRun, faults, withheld>>

\* ReactivateShare: the row becomes ACTIVE; the checkpoint stays.
Reactivate ==
  /\ pc = "idle" /\ Settled
  /\ result' = "reactivated"
  /\ UNCHANGED <<durable, paused, pc, position, perRun, history>>

\* PATCH /shares/{code}: at any time, also while a run is under way.
Rename ==
  /\ title # "manual"
  /\ title' = "manual"
  /\ UNCHANGED <<rows, cp, result, paused, pc, position, perRun, history>>

-----------------------------------------------------------------------------
CrawlStep ==
  \/ NextTask \/ StartPage \/ ListPage \/ ListRetry \/ PassDedup \/ PersistMeta
  \/ EmptyPage \/ UpsertFiles \/ EndPage \/ SaveFinal
  \/ Return \/ Duplicate \/ Dead \/ PausedOut

Environment == Fail \/ Crash \/ Pause \/ Resume \/ Reactivate \/ Rename

Next == Start \/ CrawlStep \/ Environment

\* The daemon's loop runs a share that is due again and again, and a run that
\* is under way keeps stepping. Nothing is assumed of the operator.
Fairness == WF_vars(Start) /\ WF_vars(CrawlStep)

Spec == Init /\ [][Next]_vars /\ Fairness

-----------------------------------------------------------------------------
\* Properties

PCs == {"idle", "next", "page", "list", "dedup", "meta", "index", "commit",
        "return"}

Results == {"new", "done", "dead", "duplicate", "failed", "crashed", "paused",
            "reactivated"}

\* The type invariant of the walk and of the rows it keeps.
FlagsOK ==
  /\ paused \in BOOLEAN /\ served \in BOOLEAN /\ dedupChecked \in BOOLEAN
  /\ sawTitle \in BOOLEAN /\ metaPersisted \in BOOLEAN

DataOK ==
  /\ rows \subseteq Rows
  /\ cp \in Checkpoints \cup {NoCheckpoint}
  /\ title \in {"unset", "remote", "manual"} /\ result \in Results
  /\ pc \in PCs
  /\ queue \in Seq(Tasks) /\ visited \subseteq Dirs
  /\ task \in Tasks \cup {NoTask} /\ offset \in Nat
  /\ pc \in {"page", "list", "dedup", "meta", "index", "commit"} => task \in Tasks
  /\ pc \in {"dedup", "meta", "index", "commit"} /\ served =>
       offset + 1 \in 1..Len(Pages[task.cid])
  /\ attempt \in 0..RetryCount /\ faults \in 0..MaxFaults
  /\ sincePause \in Nat /\ withheld \subseteq Dirs \X Nat

TypeOK == FlagsOK /\ DataOK

AllPages == UNION { {d} \X (1..Len(Pages[d])) : d \in Dirs }

TreeRows(d, k) == RowsOfPage(Task(d, Level[d]), k)

\* The folders a walk can get to: the least set with the root and every folder
\* listed on a page of the set that 115 did not withhold.
Closed(S) ==
  /\ Root \in S
  /\ \A d \in S : \A k \in 1..Len(Pages[d]) :
       <<d, k>> \notin withheld => RangeOf(Pages[d][k].dirs) \subseteq S

Reachable == { d \in Dirs : \A S \in SUBSET Dirs : Closed(S) => d \in S }

\* "completely indexed" (MarkShareCrawled, sqlite.go:833-834): a share is
\* COMPLETED only when every page that 115 gave out, of every folder that can
\* be reached, has its folders and media files in the index. Whatever
\* crashes, failures, pauses and reactivations the runs before it met.
CompleteWhenDone ==
  result = "done" =>
    \A d \in Reachable : \A k \in 1..Len(Pages[d]) :
      <<d, k>> \notin withheld => TreeRows(d, k) \subseteq rows

\* Every row is a node of the share, under its own parent and at its own depth:
\* a resumed walk stamps the depth it saved (ActiveDepth), not the depth of
\* wherever it restarts.
RowsFaithful ==
  \A r \in rows : \E k \in 1..Len(Pages[r.parent]) : r \in TreeRows(r.parent, k)

\* The pages the saved checkpoint will never have fetched again.
DonePages ==
  { p \in AllPages : p[1] \in cp.visited \/ (p[1] = cp.cid /\ p[2] <= cp.offset) }

\* No folder is lost by dying at the wrong moment: a folder whose row is in the
\* index is visited, current or queued in the saved checkpoint, or the page
\* that lists it is still to be fetched.
NoFolderForgotten ==
  \A r \in rows :
    r.node \in Dirs =>
      \/ r.node \in cp.visited \cup {cp.cid} \cup Cids(cp.queue)
      \/ \E k \in 1..Len(Pages[r.parent]) :
           /\ r \in TreeRows(r.parent, k)
           /\ <<r.parent, k>> \notin DonePages \/ <<r.parent, k>> \in withheld

\* The page that CrawlShare's comment on the end-of-page checkpoint fears: no
\* run asks for a page past the end of a folder.
NeverPastEnd ==
  pc = "list" => offset = 0 \/ offset < Len(Pages[task.cid])

\* "the crawl stops at the next page boundary": after the operator paused, at
\* most the page in flight is fetched.
PauseStopsSoon == sincePause <= 1

\* The daemon comes to a verdict on the share, however often a run failed.
\* The operator must not keep it paused.
EventuallySettled == <>[]~paused => <>Settled

\* A walk over the share implements the abstract index.
Index ==
  INSTANCE ShareIndex WITH
    PageRows <- TreeRows,
    skipped <- withheld,
    done <- DonePages,
    complete <- (result = "done")

ImplementsShareIndex == Index!SSpec

\* share_status.go:33: reactivating makes the crawler index the share again
\* from scratch. A run that completes straight after it has listed a page.
ReactivationRefetches ==
  [][result = "reactivated" /\ result' = "done" => dedupChecked]_vars

=============================================================================
