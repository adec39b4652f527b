------------------------- MODULE ShareLifecycleProofs -------------------------
(***************************************************************************)
(* Proofs about ShareLifecycle for every set of shares, number of pages,   *)
(* threshold and bound.                                                    *)
(*                                                                         *)
(* The argument: the run's position claims no page that is not indexed,    *)
(* and every checkpoint is a position of a run. The exceptions are shares  *)
(* deleted under a run: exactly those are in cut, and only of those can a  *)
(* run purge the rows. A deleted share's rows, in turn, exist only while   *)
(* the run that wrote them has not purged.                                 *)
(***************************************************************************)
EXTENDS ShareLifecycle, TLAPS

\* What the scheduler's program counter says about the run.
Shape ==
  /\ cur = None <=> pc \in {"idle", "batch", "down"}
  /\ pc \in {"idle", "down"} => batch = {}
  /\ pc \in {"list", "meta", "index", "save"} => pos < Pages[cur]
  /\ outcome # "none" <=> pc \in {"duplicate", "purge", "purging", "verdict", "record"}
  /\ outcome = "ok" => pos = Pages[cur]

\* A share of the running cycle whose row is gone was cut, and so was one whose
\* rows are about to be purged.
CutInRun ==
  /\ \A s \in Shares : InRun(s) /\ ~Registered(s) => s \in cut
  /\ pc = "purging" => cur \in cut

\* The pages that the run counts as done are in the index, at "save" the one
\* under way too.
RunBacked ==
  cur # None /\ cur \notin cut =>
    /\ 1..pos \subseteq files[cur]
    /\ pc = "save" => pos + 1 \in files[cur]

\* Without a crash, the rows of a deleted share are those of the run that goes
\* on with it: it has indexed a page, and it has not purged yet.
OrphansInRun ==
  crashes = 0 => \A s \in Shares : ~Registered(s) /\ files[s] # {} =>
    /\ s = cur
    /\ \/ pc \in {"page", "list", "meta", "index"} /\ ~firstPage
       \/ pc \in {"save", "purge", "purging"}

\* The inductive invariant.
IInv ==
  /\ TypeOK /\ Shape /\ CutInRun /\ CheckpointBacked /\ RunBacked
  /\ CompletedIsIndexed /\ OrphansInRun /\ StatusMatchesFailures
-----------------------------------------------------------------------------
\* Facts about the rows of the share table

\* The failure counts that can occur include those of every verdict.
LEMMA FailureCounts ==
  /\ FailureCap \in Nat /\ FailureCap >= 1 /\ FailureCap >= QuarantineAt
  /\ \A n \in 0..FailureCap : /\ Increment(n) \in 1..FailureCap
                              /\ n >= QuarantineAt => Increment(n) >= QuarantineAt
BY BoundsAssumption DEF FailureCap, Increment

\* A failure count starts at 0.
LEMMA NoFailures == 0 \in 0..FailureCap
BY FailureCounts

\* The row of a share that is not in the table.
LEMMA AbsentRow == Absent \in Row
BY FailureCounts DEF Absent, Row, Statuses

\* UPDATE ... WHERE share_code = s changes the row of s, if there is one.
LEMMA UpdateRow ==
  ASSUME share \in [Shares -> Row], NEW s \in Shares, NEW row \in Row
  PROVE  /\ Update(s, row) \in [Shares -> Row]
         /\ \A t \in Shares : Update(s, row)[t] =
              IF t = s /\ Registered(s) THEN row ELSE share[t]
BY DEF Update

-----------------------------------------------------------------------------
\* The share table, step by step

\* A step that leaves the table alone.
ShareIdle ==
  \/ Cycle \/ ErrPaused \/ StartPage \/ ListPage \/ FindDuplicateShare
  \/ ListPageError \/ UpsertFiles \/ EndPage \/ SaveFinal \/ CrawlError
  \/ PurgeIfOrphan \/ PurgeRows \/ PauseVerdict \/ RecordShareFailure
  \/ Crash \/ Restart \/ (\E s \in Shares, force \in BOOLEAN : HandleDelete(s, force))
  \/ PauseCrawler \/ ResumeCrawler \/ UNCHANGED vars

LEMMA ShareIdleSame == ShareIdle => UNCHANGED share
BY DEF ShareIdle, Cycle, ListSharesForCrawl, TakeShare, AbandonCycle, EndCycle,
       ErrPaused, StartPage, ListPage, FindDuplicateShare, ListPageError,
       UpsertFiles, EndPage, SaveFinal, CrawlError, PurgeIfOrphan, PurgeRows,
       PauseVerdict, RecordShareFailure, Crash, Restart, HandleDelete,
       PauseCrawler, ResumeCrawler, vars, database

\* What a step may leave of the row q of a share that has one.
RowVerdict(q, r) ==
  \/ r = [q EXCEPT !.titled = TRUE]
  \/ r = [q EXCEPT !.status = "DUPLICATE", !.retry = "due", !.failures = 0]
  \/ r = [q EXCEPT !.status = "DEAD", !.retry = "due"]
  \/ r = [q EXCEPT !.status = "QUARANTINE", !.retry = "shelved"]
  \/ \E n \in 1..FailureCap :
       r = [q EXCEPT !.status = FailureStatus(n), !.failures = n, !.retry = "backoff"]
  \/ r = [q EXCEPT !.status = "ACTIVE", !.failures = 0, !.retry = "due"]

\* What a step may do to the row of share s, which becomes r.
RowStep(s, r) ==
  \/ r = share[s]
  \/ \E t \in BOOLEAN : r = [Absent EXCEPT !.status = "ACTIVE", !.titled = t]
  \/ r = Absent /\ DeleteShare /\ s = delShare
  \/ share[s].retry = "backoff" /\ r = [share[s] EXCEPT !.retry = "due"]
  \/ /\ MarkShareCrawled /\ s = cur /\ Registered(s)
     /\ r = [share[s] EXCEPT !.status = "COMPLETED", !.failures = 0, !.retry = "due"]
  \/ Registered(s) /\ RowVerdict(share[s], r)

\* Every step keeps the domain of the table and changes a row in one of those ways.
LEMMA ShareStep ==
  ASSUME TypeOK, Shape, [Next]_vars
  PROVE  /\ DOMAIN share' = Shares /\ share' = [s \in Shares |-> share'[s]]
         /\ \A s \in Shares : RowStep(s, share'[s])
<1> USE DEF TypeOK, TablesOK, RunOK
<1>0. share \in [Shares -> Row] /\ \A s \in Shares : share[s] \in Row
  OBVIOUS
<1>1. CASE ShareIdle
  BY <1>0, <1>1, ShareIdleSame DEF RowStep
<1>2. CASE MarkShareDuplicate
  <2>1. cur \in Shares
    BY <1>2 DEF MarkShareDuplicate, Shape
  <2>2. QED
    BY <1>0, <1>2, <2>1 DEF MarkShareDuplicate, Update, RowStep, RowVerdict
<1>3. CASE UpdateShareMeta
  <2>1. cur \in Shares
    BY <1>3 DEF UpdateShareMeta, Shape
  <2>2. QED
    BY <1>0, <1>3, <2>1 DEF UpdateShareMeta, RowStep, RowVerdict
<1>4. CASE MarkShareCrawled
  <2>1. cur \in Shares
    BY <1>4 DEF MarkShareCrawled, Shape
  <2>2. share' = Update(cur, [share[cur] EXCEPT !.status = "COMPLETED", !.failures = 0, !.retry = "due"])
    BY <1>4 DEF MarkShareCrawled
  <2>3. QED
    BY <1>0, <1>4, <2>1, <2>2 DEF Update, RowStep, RowVerdict
<1>5. CASE MarkShareDead
  <2>1. cur \in Shares
    BY <1>5 DEF MarkShareDead, Shape
  <2>2. QED
    BY <1>0, <1>5, <2>1 DEF MarkShareDead, Update, RowStep, RowVerdict
<1>6. CASE MarkShareShelved
  <2>1. cur \in Shares
    BY <1>6 DEF MarkShareShelved, Failure, Shape
  <2>2. QED
    BY <1>0, <1>6, <2>1 DEF MarkShareShelved, Update, RowStep, RowVerdict
<1>7. CASE WriteFailure
  <2>1. cur \in Shares
    BY <1>7 DEF WriteFailure, Shape
  <2>2. PICK n \in 1..FailureCap : share' = Update(cur, [share[cur] EXCEPT
            !.status = FailureStatus(n), !.failures = n, !.retry = "backoff"])
    BY <1>7, FailureCounts DEF WriteFailure
  <2>3. QED
    BY <1>0, <2>1, <2>2 DEF Update, RowStep, RowVerdict
<1>8. ASSUME NEW s \in Shares, BackoffElapses(s)
      PROVE  /\ DOMAIN share' = Shares /\ share' = [t \in Shares |-> share'[t]]
             /\ \A t \in Shares : RowStep(t, share'[t])
  BY <1>0, <1>8 DEF BackoffElapses, RowStep
<1>9. ASSUME NEW s \in Shares, UpsertShare(s) \/ ReactivateShare(s)
      PROVE  /\ DOMAIN share' = Shares /\ share' = [t \in Shares |-> share'[t]]
             /\ \A t \in Shares : RowStep(t, share'[t])
  BY <1>0, <1>9 DEF UpsertShare, ReactivateShare, RowStep, RowVerdict, Row
<1>10. CASE DeleteShare
  BY <1>0, <1>10 DEF DeleteShare, RowStep
<1>11. QED
  BY <1>1, <1>2, <1>3, <1>4, <1>5, <1>6, <1>7, <1>8, <1>9, <1>10
     DEF Next, CrawlShare, Verdict, Admin, ShareIdle

\* Status and failure count of a row tell one story.
Agrees(r) ==
  /\ r.status \in {"ACTIVE", "COMPLETED", "DUPLICATE"} =>
       r.failures = 0 /\ r.retry = "due"
  /\ r.status = "STALE" => r.failures \in 1..(QuarantineAt - 1)
  /\ r.status = "QUARANTINE" => r.retry = "shelved" \/ r.failures >= QuarantineAt

\* The rows a verdict may leave.
LEMMA VerdictRow ==
  ASSUME NEW q \in Row, q.status # "none", NEW r, RowVerdict(q, r)
  PROVE  /\ r \in Row /\ r.status # "none"
         /\ r.status = "COMPLETED" => q.status = "COMPLETED"
         /\ Agrees(q) => Agrees(r)
<1> DEFINE Good == /\ r \in Row /\ r.status # "none"
                   /\ r.status = "COMPLETED" => q.status = "COMPLETED"
                   /\ Agrees(q) => Agrees(r)
<1> USE NoFailures DEF Row, Statuses, Agrees
<1>1. ASSUME r = [q EXCEPT !.titled = TRUE] PROVE Good
  <2>1. r \in Row
    BY <1>1
  <2>2. r.status = q.status /\ r.failures = q.failures /\ r.retry = q.retry
    BY <1>1
  <2>3. QED
    BY <2>1, <2>2
<1>2. CASE r = [q EXCEPT !.status = "DUPLICATE", !.retry = "due", !.failures = 0]
  BY <1>2
<1>3. CASE r = [q EXCEPT !.status = "DEAD", !.retry = "due"]
  BY <1>3
<1>4. CASE r = [q EXCEPT !.status = "QUARANTINE", !.retry = "shelved"]
  BY <1>4
<1>5. ASSUME NEW n \in 1..FailureCap,
             r = [q EXCEPT !.status = FailureStatus(n), !.failures = n, !.retry = "backoff"]
      PROVE  Good
  <2>1. \/ FailureStatus(n) = "STALE" /\ n \in 1..(QuarantineAt - 1)
        \/ FailureStatus(n) = "QUARANTINE" /\ n >= QuarantineAt
    BY BoundsAssumption DEF FailureStatus
  <2>2. n \in 0..FailureCap
    OBVIOUS
  <2>3. QED
    BY <1>5, <2>1, <2>2
<1>6. CASE r = [q EXCEPT !.status = "ACTIVE", !.failures = 0, !.retry = "due"]
  BY <1>6
<1>7. QED
  BY <1>1, <1>2, <1>3, <1>4, <1>5, <1>6 DEF RowVerdict

\* The rows a step may leave: they keep their type, status and failure count
\* agree, only DELETE removes one and only MarkShareCrawled completes a share.
LEMMA StepRow ==
  ASSUME TypeOK, Shape, [Next]_vars, NEW s \in Shares
  PROVE  /\ share'[s] \in Row
         /\ Agrees(share[s]) => Agrees(share'[s])
         /\ Registered(s) => share'[s].status # "none" \/ (DeleteShare /\ s = delShare)
         /\ share'[s].status = "COMPLETED" => Completed(s) \/ (MarkShareCrawled /\ s = cur)
<1> SUFFICES ASSUME NEW r, r = share'[s]
             PROVE  /\ r \in Row
                    /\ Agrees(share[s]) => Agrees(r)
                    /\ Registered(s) => r.status # "none" \/ (DeleteShare /\ s = delShare)
                    /\ r.status = "COMPLETED" => Completed(s) \/ (MarkShareCrawled /\ s = cur)
  OBVIOUS
<1> DEFINE Good == /\ r \in Row
                   /\ Agrees(share[s]) => Agrees(r)
                   /\ Registered(s) => r.status # "none" \/ (DeleteShare /\ s = delShare)
                   /\ r.status = "COMPLETED" => Completed(s) \/ (MarkShareCrawled /\ s = cur)
<1>1. RowStep(s, r) /\ share[s] \in Row
  BY ShareStep DEF TypeOK, TablesOK
<1> USE <1>1 DEF Registered, Completed
<1>2. CASE r = share[s]
  BY <1>2
<1>3. ASSUME NEW t \in BOOLEAN, r = [Absent EXCEPT !.status = "ACTIVE", !.titled = t]
      PROVE  Good
  <2>1. r \in Row
    BY <1>3, NoFailures DEF Absent, Row, Statuses
  <2>2. r.status = "ACTIVE" /\ r.failures = 0 /\ r.retry = "due"
    BY <1>3 DEF Absent
  <2>3. QED
    BY <2>1, <2>2 DEF Agrees
<1>4. CASE r = Absent /\ DeleteShare /\ s = delShare
  BY <1>4, AbsentRow DEF Absent, Agrees
<1>5. CASE share[s].retry = "backoff" /\ r = [share[s] EXCEPT !.retry = "due"]
  BY <1>5 DEF Row, Agrees
<1>6. CASE /\ MarkShareCrawled /\ s = cur /\ Registered(s)
           /\ r = [share[s] EXCEPT !.status = "COMPLETED", !.failures = 0, !.retry = "due"]
  BY <1>6, NoFailures DEF Row, Statuses, Agrees
<1>7. CASE Registered(s) /\ RowVerdict(share[s], r)
  BY <1>7, VerdictRow
<1>8. QED
  BY <1>2, <1>3, <1>4, <1>5, <1>6, <1>7 DEF RowStep

-----------------------------------------------------------------------------
\* The file and checkpoint tables, step by step

\* A step that leaves both tables alone.
FilesIdle ==
  \/ Cycle \/ ErrPaused \/ ListPage \/ FindDuplicateShare \/ ListPageError
  \/ UpdateShareMeta \/ CrawlError
  \/ MarkShareDuplicate \/ PurgeIfOrphan \/ MarkShareCrawled \/ MarkShareDead
  \/ PauseVerdict \/ MarkShareShelved \/ RecordShareFailure \/ WriteFailure
  \/ (\E s \in Shares : BackoffElapses(s)) \/ Crash \/ Restart
  \/ (\E s \in Shares : UpsertShare(s) \/ ReactivateShare(s))
  \/ (\E s \in Shares, force \in BOOLEAN : HandleDelete(s, force))
  \/ PauseCrawler \/ ResumeCrawler \/ UNCHANGED vars

LEMMA FilesIdleSame == FilesIdle => UNCHANGED <<files, cp>>
BY DEF FilesIdle, Cycle, ListSharesForCrawl, TakeShare, AbandonCycle, EndCycle,
       ErrPaused, ListPage, FindDuplicateShare, ListPageError, UpdateShareMeta,
       CrawlError, MarkShareDuplicate, PurgeIfOrphan, MarkShareCrawled,
       MarkShareDead, PauseVerdict, MarkShareShelved, RecordShareFailure,
       WriteFailure, BackoffElapses, Crash, Restart, UpsertShare,
       ReactivateShare, HandleDelete, PauseCrawler, ResumeCrawler, vars, database

\* What a step may do to the files F and the checkpoint c of share s.
FilesStep(s, F, c) ==
  \/ F = files[s] /\ c = cp[s]
  \/ UpsertFiles /\ s = cur /\ F = files[s] \cup {pos + 1} /\ c = cp[s]
  \/ (StartPage \/ SaveFinal) /\ s = cur /\ F = files[s] /\ c = Saved(pos)
  \/ EndPage /\ s = cur /\ F = files[s] /\ c = Saved(pos + 1)
  \/ PurgeRows /\ s = cur /\ F = {} /\ c = NoCheckpoint
  \/ DeleteShare /\ s = delShare /\ F = {} /\ c = NoCheckpoint

LEMMA FilesSteps ==
  ASSUME TypeOK, Shape, [Next]_vars
  PROVE  /\ files' \in [Shares -> SUBSET Nat] /\ cp' \in [Shares -> Nat]
         /\ \A s \in Shares : FilesStep(s, files'[s], cp'[s])
<1> USE DEF TypeOK, TablesOK, RunOK
<1>1. CASE FilesIdle
  BY <1>1, FilesIdleSame DEF FilesStep
<1>2. CASE StartPage
  <2>1. cur \in Shares /\ pos \in Nat
    BY <1>2, BoundsAssumption DEF StartPage, Shape
  <2>2. cp' = [cp EXCEPT ![cur] = Saved(pos)] /\ UNCHANGED files
    BY <1>2 DEF StartPage, StartCheckpoint
  <2>3. QED
    BY <1>2, <2>1, <2>2 DEF FilesStep, Saved
<1>3. CASE UpsertFiles
  <2>1. cur \in Shares /\ pos \in Nat
    BY <1>3, BoundsAssumption DEF UpsertFiles, Shape
  <2>2. files' = [files EXCEPT ![cur] = @ \cup {pos + 1}] /\ UNCHANGED cp
    BY <1>3 DEF UpsertFiles
  <2>3. QED
    BY <1>3, <2>1, <2>2 DEF FilesStep
<1>4. CASE EndPage
  <2>1. cur \in Shares /\ pos \in Nat
    BY <1>4, BoundsAssumption DEF EndPage, Shape
  <2>2. cp' = [cp EXCEPT ![cur] = Saved(pos + 1)] /\ UNCHANGED files
    BY <1>4 DEF EndPage
  <2>3. QED
    BY <1>4, <2>1, <2>2 DEF FilesStep, Saved
<1>5. CASE SaveFinal
  <2>1. cur \in Shares /\ pos \in Nat
    BY <1>5, BoundsAssumption DEF SaveFinal, Shape
  <2>2. cp' = [cp EXCEPT ![cur] = Saved(pos)] /\ UNCHANGED files
    BY <1>5 DEF SaveFinal
  <2>3. QED
    BY <1>5, <2>1, <2>2 DEF FilesStep, Saved
<1>6. CASE PurgeRows
  <2>1. cur \in Shares
    BY <1>6 DEF PurgeRows, Shape
  <2>2. QED
    BY <1>6, <2>1 DEF PurgeRows, FilesStep, NoCheckpoint
<1>7. CASE DeleteShare
  <2>1. delShare \in Shares
    BY <1>7 DEF DeleteShare
  <2>2. files' = [files EXCEPT ![delShare] = {}] /\ cp' = [cp EXCEPT ![delShare] = NoCheckpoint]
    BY <1>7 DEF DeleteShare, Deleted
  <2>3. QED
    BY <1>7, <2>1, <2>2 DEF FilesStep, NoCheckpoint
<1>8. QED
  BY <1>1, <1>2, <1>3, <1>4, <1>5, <1>6, <1>7
     DEF Next, CrawlShare, Verdict, Admin, FilesIdle

\* Both tables keep their types.
LEMMA TablesType ==
  ASSUME TypeOK, Shape, [Next]_vars
  PROVE  TablesOK'
<1>1. share' \in [Shares -> Row]
  BY ShareStep, StepRow
<1>2. ASSUME NEW s \in Shares
      PROVE  files'[s] \subseteq AllPages(s) /\ cp'[s] \in 0..Saved(Pages[s])
  <2>1. /\ files[s] \subseteq AllPages(s) /\ cp[s] \in 0..Saved(Pages[s])
        /\ Pages[s] \in Nat
    BY BoundsAssumption DEF TypeOK, TablesOK
  <2>2. s = cur => pos \in 0..Pages[s]
    BY NoneAssumption DEF TypeOK, RunOK
  <2>3. UpsertFiles \/ EndPage => pc \in {"index", "save"}
    BY DEF UpsertFiles, EndPage
  <2>4. (UpsertFiles \/ EndPage) /\ s = cur => pos < Pages[s]
    BY <2>3 DEF Shape
  <2>5. FilesStep(s, files'[s], cp'[s])
    BY FilesSteps
  <2>6. QED
    BY <2>1, <2>2, <2>4, <2>5 DEF FilesStep, AllPages, Saved, NoCheckpoint
<1>3. QED
  BY <1>1, <1>2, FilesSteps DEF TablesOK, AllPages

-----------------------------------------------------------------------------
\* The scheduler's run, step by step

\* A step of the admin API or of time: the run goes on where it was.
RunIdle ==
  \/ (\E s \in Shares : BackoffElapses(s) \/ UpsertShare(s) \/ ReactivateShare(s))
  \/ (\E s \in Shares, force \in BOOLEAN : HandleDelete(s, force))
  \/ DeleteShare \/ PauseCrawler \/ ResumeCrawler \/ UNCHANGED vars

LEMMA RunIdleSame == RunIdle => UNCHANGED <<pc, run>>
BY DEF RunIdle, BackoffElapses, UpsertShare, ReactivateShare, HandleDelete,
       DeleteShare, PauseCrawler, ResumeCrawler, vars

\* The steps after a run share what they forget.
RunEnds == cur' = None /\ pos' = 0 /\ outcome' = "none" /\ seen' = 0

\* The parts of RunOK that only the run's own steps change.
Position ==
  /\ pc \in {"idle", "batch", "page", "list", "meta", "index", "save",
             "duplicate", "purge", "purging", "verdict", "record", "down"}
  /\ batch \subseteq Shares /\ cur \in Shares \cup {None}
  /\ cur = None => pos = 0
  /\ cur # None => pos \in 0..Pages[cur]
  /\ outcome \in {"none", "ok", "dead", "duplicate", "paused", "empty", "error"}
  /\ seen \in 0..FailureCap

LEMMA RunEndsShape ==
  ASSUME TypeOK, Shape, RunEnds,
         \/ pc' = "batch" /\ batch' = batch
         \/ pc' \in {"idle", "down"} /\ batch' = {}
  PROVE  Position' /\ Shape'
BY NoFailures DEF TypeOK, RunOK, Shape, RunEnds, Position

\* Every step keeps the run's type and shape.
LEMMA RunStep ==
  ASSUME TypeOK, Shape, [Next]_vars
  PROVE  Position' /\ Shape'
<1>0. Position /\ TablesOK
  BY DEF TypeOK, RunOK, Position
<1>pages. cur # None => Pages[cur] \in Nat /\ Pages[cur] >= 1
  BY <1>0, BoundsAssumption DEF Position
<1> USE <1>0, NoneAssumption
<1>1. CASE RunIdle
  BY <1>1, RunIdleSame DEF run, Position, Shape
<1>2. CASE ListSharesForCrawl
  BY <1>2 DEF ListSharesForCrawl, Position, Shape
<1>3. ASSUME NEW s \in Shares, TakeShare(s) PROVE Position' /\ Shape'
  <2>1. Pages[s] \in Nat /\ cp[s] \in 0..Saved(Pages[s])
    BY BoundsAssumption DEF TablesOK
  <2>2. ResumePoint(cp[s]) \in 0..Pages[s]
    BY <2>1 DEF ResumePoint, Saved, NoCheckpoint
  <2>3. /\ pc' = "page" /\ cur' = s /\ batch' = batch \ {s} /\ pc = "batch"
        /\ pos' = ResumePoint(cp[s]) /\ UNCHANGED <<outcome, seen>>
    BY <1>3 DEF TakeShare
  <2>4. outcome = "none"
    BY <2>3 DEF Shape
  <2>5. QED
    BY <2>2, <2>3, <2>4 DEF Position, Shape
<1>4. CASE AbandonCycle \/ EndCycle
  BY <1>4 DEF AbandonCycle, EndCycle, Position, Shape
<1>5. CASE ErrPaused \/ FindDuplicateShare \/ ListPageError \/ CrawlError
  <2>1. /\ pc \in {"page", "list", "meta", "index", "save"}
        /\ outcome' \in {"dead", "duplicate", "paused", "empty", "error"}
        /\ pc' \in {"duplicate", "purge"}
        /\ UNCHANGED <<batch, cur, pos, seen>>
    BY <1>5 DEF ErrPaused, FindDuplicateShare, ListPageError, CrawlError, CrawlReturns
  <2>2. QED
    BY <2>1 DEF Position, Shape
<1>6. CASE StartPage \/ ListPage \/ UpdateShareMeta \/ UpsertFiles
  <2>1. /\ (pc = "page" /\ pos < Pages[cur]) \/ pc \in {"list", "meta", "index"}
        /\ pc' \in {"list", "meta", "index", "save"}
        /\ UNCHANGED <<batch, cur, pos, outcome, seen>>
    BY <1>6 DEF StartPage, ListPage, UpdateShareMeta, UpsertFiles, run
  <2>2. QED
    BY <2>1 DEF Position, Shape
<1>7. CASE EndPage
  BY <1>7, <1>pages DEF EndPage, Position, Shape
<1>8. CASE SaveFinal
  BY <1>8, <1>pages DEF SaveFinal, CrawlReturns, Position, Shape
<1>9. CASE \/ MarkShareDuplicate \/ MarkShareCrawled \/ MarkShareDead
           \/ MarkShareShelved \/ WriteFailure
  BY <1>9, RunEndsShape
     DEF MarkShareDuplicate, MarkShareCrawled, MarkShareDead, MarkShareShelved,
         WriteFailure, NextShare, RunEnds
<1>10. CASE PauseVerdict
  BY <1>10, RunEndsShape DEF PauseVerdict, RunEnds
<1>11. CASE Crash
  BY <1>11, RunEndsShape DEF Crash, Down, RunEnds
<1>12. CASE PurgeIfOrphan \/ PurgeRows
  <2>1. /\ pc \in {"purge", "purging"} /\ pc' \in {"purging", "verdict"}
        /\ UNCHANGED <<batch, cur, pos, outcome, seen>>
    BY <1>12 DEF PurgeIfOrphan, PurgeRows, run
  <2>2. QED
    BY <2>1 DEF Position, Shape
<1>13. CASE RecordShareFailure
  <2>1. CASE Registered(cur)
    <3>1. /\ pc = "verdict" /\ pc' = "record" /\ seen' = share[cur].failures
          /\ UNCHANGED <<batch, cur, pos, outcome>>
      BY <1>13, <2>1 DEF RecordShareFailure, Failure
    <3>2. cur \in Shares
      BY <3>1 DEF Position, Shape
    <3>3. share[cur].failures \in 0..FailureCap
      BY <3>2 DEF TablesOK, Row
    <3>4. QED
      BY <3>1, <3>2, <3>3 DEF Position, Shape
  <2>2. CASE ~Registered(cur)
    BY <1>13, <2>2, RunEndsShape DEF RecordShareFailure, Down, RunEnds
  <2>3. QED
    BY <2>1, <2>2
<1>14. CASE Restart
  BY <1>14 DEF Restart, run, Position, Shape
<1>15. QED
  BY <1>1, <1>2, <1>3, <1>4, <1>5, <1>6, <1>7, <1>8, <1>9, <1>10, <1>11, <1>12,
     <1>13, <1>14
     DEF Next, Cycle, CrawlShare, Verdict, Admin, RunIdle

\* Only DELETE touches cut, and only a new cycle brings a share into the run.
LEMMA CutStep ==
  ASSUME TypeOK, Shape, [Next]_vars, ~DeleteShare
  PROVE  cut' = cut
BY DEF Next, Cycle, CrawlShare, Verdict, Admin, vars, history,
       ListSharesForCrawl, TakeShare, AbandonCycle, EndCycle, ErrPaused,
       StartPage, ListPage, FindDuplicateShare, ListPageError, UpdateShareMeta,
       UpsertFiles, EndPage, SaveFinal, CrawlError, MarkShareDuplicate,
       PurgeIfOrphan, PurgeRows, MarkShareCrawled, MarkShareDead, PauseVerdict,
       MarkShareShelved, RecordShareFailure, WriteFailure, BackoffElapses,
       Crash, Restart, UpsertShare, ReactivateShare, HandleDelete,
       PauseCrawler, ResumeCrawler

LEMMA InRunStep ==
  ASSUME TypeOK, Shape, [Next]_vars, NEW s \in Shares, InRun(s)'
  PROVE  InRun(s) \/ (ListSharesForCrawl /\ Registered(s))
<1> USE NoneAssumption
<1>0. batch' = batch /\ cur' = cur => InRun(s)
  BY DEF InRun
<1>1. CASE RunIdle
  BY <1>0, <1>1, RunIdleSame DEF run
<1>2. CASE ListSharesForCrawl
  BY <1>2 DEF ListSharesForCrawl, InRun, Crawlable, Registered
<1>3. ASSUME NEW t \in Shares, TakeShare(t) PROVE InRun(s)
  BY <1>3 DEF TakeShare, InRun
<1>4. CASE AbandonCycle \/ EndCycle \/ PauseVerdict \/ Crash
  BY <1>4 DEF AbandonCycle, EndCycle, PauseVerdict, Crash, Down, InRun, Shape
<1>5. CASE \/ CrawlShare \/ PurgeIfOrphan \/ PurgeRows \/ Restart
  BY <1>0, <1>5 DEF CrawlShare, ErrPaused, StartPage, ListPage,
       FindDuplicateShare, ListPageError, UpdateShareMeta, UpsertFiles, EndPage,
       SaveFinal, CrawlError, PurgeIfOrphan, PurgeRows, Restart, run
<1>6. CASE \/ MarkShareDuplicate \/ MarkShareCrawled \/ MarkShareDead
           \/ MarkShareShelved \/ WriteFailure
  BY <1>6 DEF MarkShareDuplicate, MarkShareCrawled, MarkShareDead,
       MarkShareShelved, WriteFailure, NextShare, InRun
<1>7. CASE RecordShareFailure
  BY <1>0, <1>7 DEF RecordShareFailure, Down, InRun
<1>8. QED
  BY <1>1, <1>2, <1>3, <1>4, <1>5, <1>6, <1>7
     DEF Next, Cycle, Verdict, Admin, RunIdle

\* Only a crash counts as one, and only an error of the crawl as another.
LEMMA FaultStep ==
  ASSUME TypeOK, Shape, [Next]_vars
  PROVE  \/ UNCHANGED <<failed, crashes>>
         \/ Crash /\ crashes' = crashes + 1 /\ failed' = failed
         \/ CrawlError /\ failed' = failed + 1 /\ crashes' = crashes
BY DEF Next, Cycle, CrawlShare, Verdict, Admin, vars, history, Request,
       ListSharesForCrawl, TakeShare, AbandonCycle, EndCycle, ErrPaused,
       StartPage, ListPage, FindDuplicateShare, ListPageError, UpdateShareMeta,
       UpsertFiles, EndPage, SaveFinal, CrawlError, MarkShareDuplicate,
       PurgeIfOrphan, PurgeRows, MarkShareCrawled, MarkShareDead, PauseVerdict,
       MarkShareShelved, RecordShareFailure, WriteFailure, BackoffElapses,
       Crash, Restart, UpsertShare, ReactivateShare, HandleDelete, DeleteShare,
       PauseCrawler, ResumeCrawler

LEMMA FaultsType ==
  ASSUME TypeOK, Shape, [Next]_vars
  PROVE  failed' \in 0..MaxFaults /\ crashes' \in 0..MaxFaults
<1>1. Crash \/ CrawlError => failed + crashes < MaxFaults
  BY DEF Crash, CrawlError
<1>2. QED
  BY <1>1, BoundsAssumption, FaultStep DEF TypeOK, RunOK

\* The flags keep their type, and so do the admin request and cut.
LEMMA FlagsType ==
  ASSUME TypeOK, Shape, [Next]_vars
  PROVE  firstPage' \in BOOLEAN /\ paused' \in BOOLEAN /\ delForce' \in BOOLEAN
<1> USE DEF TypeOK
<1>1. CASE RunIdle
  BY <1>1 DEF RunIdle, BackoffElapses, UpsertShare, ReactivateShare,
       HandleDelete, DeleteShare, PauseCrawler, ResumeCrawler, vars, run, api
<1>2. CASE Cycle
  BY <1>2 DEF Cycle, ListSharesForCrawl, TakeShare, AbandonCycle, EndCycle, api
<1>3. CASE CrawlShare
  BY <1>3 DEF CrawlShare, ErrPaused, StartPage, ListPage, FindDuplicateShare,
       ListPageError, UpdateShareMeta, UpsertFiles, EndPage, SaveFinal,
       CrawlError, run, api
<1>4. CASE Verdict
  BY <1>4 DEF Verdict, MarkShareDuplicate, PurgeIfOrphan, PurgeRows,
       MarkShareCrawled, MarkShareDead, PauseVerdict, MarkShareShelved,
       RecordShareFailure, WriteFailure, NextShare, Down, run, api
<1>5. CASE Crash \/ Restart
  BY <1>5 DEF Crash, Restart, Down, run, api
<1>6. QED
  BY <1>1, <1>2, <1>3, <1>4, <1>5 DEF Next, Admin, RunIdle

LEMMA RequestType ==
  ASSUME TypeOK, Shape, [Next]_vars
  PROVE  delShare' \in Shares \cup {None} /\ cut' \subseteq Shares
<1> USE DEF TypeOK, RunOK
<1>1. CASE RunIdle
  BY <1>1 DEF RunIdle, BackoffElapses, UpsertShare, ReactivateShare,
       HandleDelete, DeleteShare, PauseCrawler, ResumeCrawler, vars, api, history
<1>2. CASE ~RunIdle
  <2>1. cut' = cut
    BY <1>2, CutStep DEF RunIdle
  <2>2. CASE Cycle \/ CrawlShare \/ Restart
    BY <2>1, <2>2 DEF Cycle, ListSharesForCrawl, TakeShare, AbandonCycle,
         EndCycle, CrawlShare, ErrPaused, StartPage, ListPage,
         FindDuplicateShare, ListPageError, UpdateShareMeta, UpsertFiles,
         EndPage, SaveFinal, CrawlError, Restart, api
  <2>3. CASE Verdict \/ Crash
    BY <2>1, <2>3 DEF Verdict, MarkShareDuplicate, PurgeIfOrphan, PurgeRows,
         MarkShareCrawled, MarkShareDead, PauseVerdict, MarkShareShelved,
         RecordShareFailure, WriteFailure, Crash, Down, api
  <2>4. QED
    BY <1>2, <2>2, <2>3 DEF Next, Admin, RunIdle
<1>3. QED
  BY <1>1, <1>2

\* Every step keeps the types.
LEMMA TypeStep ==
  ASSUME TypeOK, Shape, [Next]_vars
  PROVE  TypeOK'
<1>1. RunOK'
  BY RunStep, RequestType, FaultsType DEF Position, RunOK
<1>2. QED
  BY <1>1, TablesType, FlagsType DEF TypeOK

-----------------------------------------------------------------------------
\* The properties, step by step

\* A share of the cycle that loses its row is cut on the spot.
LEMMA CutInRunStep ==
  ASSUME TypeOK, Shape, CutInRun, [Next]_vars
  PROVE  CutInRun'
<1>1. ASSUME NEW s \in Shares, InRun(s)', ~Registered(s)'
      PROVE  s \in cut'
  <2>1. CASE DeleteShare
    <3>1. UNCHANGED <<batch, cur>> /\ cut' = IF InRun(delShare) THEN cut \cup {delShare} ELSE cut \ {delShare}
      BY <2>1 DEF DeleteShare, run
    <3>2. InRun(s)
      BY <1>1, <3>1 DEF InRun
    <3>3. s = delShare \/ ~Registered(s)
      BY <1>1, StepRow DEF Registered
    <3>4. QED
      BY <3>1, <3>2, <3>3 DEF CutInRun
  <2>2. CASE ~DeleteShare
    <3>1. ~Registered(s)
      BY <1>1, <2>2, StepRow DEF Registered
    <3>2. InRun(s)
      BY <1>1, <3>1, InRunStep
    <3>3. QED
      BY <2>2, <3>1, <3>2, CutStep DEF CutInRun
  <2>3. QED
    BY <2>1, <2>2
<1>2. ASSUME pc' = "purging" PROVE cur' \in cut'
  <2>1. CASE RunIdle
    <3>1. pc = "purging" /\ cur' = cur /\ cur \in cut
      BY <1>2, <2>1, RunIdleSame DEF CutInRun, run
    <3>2. DeleteShare => delShare # cur \/ InRun(delShare)
      BY DEF InRun
    <3>3. QED
      BY <3>1, <3>2, CutStep DEF DeleteShare
  <2>2. CASE PurgeIfOrphan
    <3>1. pc = "purge" /\ cur' = cur /\ ~Registered(cur)
      BY <1>2, <2>2 DEF PurgeIfOrphan, PurgeCheck, run
    <3>2. cur \in Shares /\ InRun(cur)
      BY <3>1 DEF TypeOK, RunOK, Shape, InRun
    <3>3. ~DeleteShare
      BY <1>2, <3>1 DEF DeleteShare
    <3>4. QED
      BY <3>1, <3>2, <3>3, CutStep DEF CutInRun
  <2>3. CASE ~RunIdle /\ ~PurgeIfOrphan
    BY <1>2, <2>3 DEF Next, Cycle, CrawlShare, Verdict, Admin, RunIdle,
         ListSharesForCrawl, TakeShare, AbandonCycle, EndCycle, ErrPaused,
         StartPage, ListPage, FindDuplicateShare, ListPageError,
         UpdateShareMeta, UpsertFiles, EndPage, SaveFinal, CrawlError,
         CrawlReturns, MarkShareDuplicate, PurgeRows, MarkShareCrawled,
         MarkShareDead, PauseVerdict, MarkShareShelved, RecordShareFailure,
         WriteFailure, NextShare, Down, Crash, Restart
  <2>4. QED
    BY <2>1, <2>2, <2>3
<1>3. QED
  BY <1>1, <1>2 DEF CutInRun

\* A share that is not cut after a step was not cut before, unless the step was
\* the DELETE of a share outside the run.
LEMMA NotCut ==
  ASSUME TypeOK, Shape, [Next]_vars, NEW s \in Shares, s \notin cut'
  PROVE  \/ s \notin cut /\ ~(DeleteShare /\ s = delShare)
         \/ DeleteShare /\ s = delShare /\ ~InRun(s)
<1>1. CASE DeleteShare
  BY <1>1 DEF DeleteShare
<1>2. CASE ~DeleteShare
  BY <1>2, CutStep
<1>3. QED
  BY <1>1, <1>2

\* Every checkpoint written is the position of a run.
LEMMA CheckpointStep ==
  ASSUME TypeOK, Shape, CheckpointBacked, RunBacked, [Next]_vars
  PROVE  CheckpointBacked'
<1> SUFFICES ASSUME NEW s \in Shares, s \notin cut'
             PROVE  1..ResumePoint(cp'[s]) \subseteq files'[s]
  BY DEF CheckpointBacked
<1>1. FilesStep(s, files'[s], cp'[s])
  BY FilesSteps
<1>2. 1..ResumePoint(NoCheckpoint) = {}
  BY DEF ResumePoint
<1>3. CASE DeleteShare /\ s = delShare
  <2>1. cp'[s] = NoCheckpoint
    BY <1>3 DEF DeleteShare, Deleted, TypeOK, TablesOK
  <2>2. QED
    BY <1>2, <2>1
<1>4. CASE s \notin cut /\ ~(DeleteShare /\ s = delShare)
  <2>1. 1..ResumePoint(cp[s]) \subseteq files[s]
    BY <1>4 DEF CheckpointBacked
  <2>2. CASE files[s] \subseteq files'[s] /\ cp'[s] = cp[s]
    BY <2>1, <2>2
  <2>3. CASE PurgeRows /\ cp'[s] = NoCheckpoint
    BY <1>2, <2>3
  <2>4. ASSUME s = cur, files'[s] = files[s], pos \in Nat,
               \/ cp'[s] = Saved(pos)
               \/ cp'[s] = Saved(pos + 1) /\ pc = "save"
        PROVE  1..ResumePoint(cp'[s]) \subseteq files'[s]
    <3>1. 1..pos \subseteq files[s] /\ (pc = "save" => pos + 1 \in files[s])
      BY <1>4, <2>4, NoneAssumption DEF RunBacked
    <3>2. ResumePoint(cp'[s]) = pos \/ (ResumePoint(cp'[s]) = pos + 1 /\ pc = "save")
      BY <2>4 DEF ResumePoint, Saved, NoCheckpoint
    <3>3. QED
      BY <2>4, <3>1, <3>2
  <2>5. s = cur => pos \in Nat
    BY NoneAssumption, BoundsAssumption DEF TypeOK, RunOK
  <2>6. EndPage => pc = "save"
    BY DEF EndPage
  <2>7. QED
    BY <1>1, <1>4, <2>2, <2>3, <2>4, <2>5, <2>6 DEF FilesStep
<1>5. QED
  BY <1>3, <1>4, NotCut

\* The run's position stays backed by the index.
LEMMA RunBackedStep ==
  ASSUME TypeOK, Shape, CutInRun, CheckpointBacked, RunBacked, [Next]_vars
  PROVE  RunBacked'
<1> SUFFICES ASSUME cur' # None, cur' \notin cut'
             PROVE  /\ 1..pos' \subseteq files'[cur']
                    /\ pc' = "save" => pos' + 1 \in files'[cur']
  BY DEF RunBacked
<1> USE NoneAssumption
<1>1. cur' \in Shares
  BY RunStep DEF Position
<1>2. ASSUME cur' = cur, pos' = pos, pc' = "save" => pc = "save", ~PurgeRows
      PROVE  /\ 1..pos' \subseteq files'[cur']
             /\ pc' = "save" => pos' + 1 \in files'[cur']
  <2>1. InRun(cur) /\ cur \in Shares
    BY <1>1, <1>2 DEF InRun
  <2>2. cur \notin cut /\ ~(DeleteShare /\ cur = delShare)
    BY <1>2, <2>1, NotCut
  <2>3. files[cur] \subseteq files'[cur]
    BY <1>2, <2>1, <2>2, FilesSteps DEF FilesStep
  <2>4. QED
    BY <1>2, <2>1, <2>2, <2>3 DEF RunBacked
<1>3. CASE RunIdle
  BY <1>2, <1>3, RunIdleSame DEF run, RunIdle, PurgeRows
<1>4. ASSUME NEW s \in Shares, TakeShare(s)
      PROVE  /\ 1..pos' \subseteq files'[cur']
             /\ pc' = "save" => pos' + 1 \in files'[cur']
  <2>1. /\ cur' = s /\ pos' = ResumePoint(cp[s]) /\ pc' = "page"
        /\ UNCHANGED <<files, cp, cut>>
    BY <1>4 DEF TakeShare, database, history
  <2>2. QED
    BY <2>1 DEF CheckpointBacked
<1>5. CASE UpsertFiles
  <2>1. /\ pc = "index" /\ files' = [files EXCEPT ![cur] = @ \cup {pos + 1}]
        /\ UNCHANGED <<cur, pos, cut>>
    BY <1>5 DEF UpsertFiles, run, history
  <2>2. QED
    BY <1>1, <2>1 DEF RunBacked, TypeOK, TablesOK
<1>6. CASE EndPage
  <2>1. pc = "save" /\ pos' = pos + 1 /\ pc' = "page" /\ UNCHANGED <<files, cur, cut>>
    BY <1>6 DEF EndPage, history
  <2>2. 1..pos \subseteq files[cur] /\ pos + 1 \in files[cur] /\ pos \in Nat
    BY <1>1, <2>1, BoundsAssumption DEF RunBacked, TypeOK, RunOK
  <2>3. QED
    BY <2>1, <2>2
<1>7. CASE PurgeRows
  BY <1>7 DEF PurgeRows, run, history, CutInRun
<1>8. CASE \/ ErrPaused \/ StartPage \/ ListPage \/ FindDuplicateShare
           \/ ListPageError \/ UpdateShareMeta \/ SaveFinal \/ CrawlError
           \/ PurgeIfOrphan
  BY <1>2, <1>8
     DEF ErrPaused, StartPage, ListPage, FindDuplicateShare, ListPageError,
         UpdateShareMeta, SaveFinal, CrawlError, CrawlReturns, PurgeIfOrphan,
         PurgeRows, run
<1>9. CASE RecordShareFailure
  BY <1>2, <1>9 DEF RecordShareFailure, Failure, Down, PurgeRows
<1>10. CASE \/ ListSharesForCrawl \/ AbandonCycle \/ EndCycle \/ Restart
  BY <1>10 DEF ListSharesForCrawl, AbandonCycle, EndCycle, Restart, run, Shape
<1>11. CASE \/ MarkShareDuplicate \/ MarkShareCrawled \/ MarkShareDead
            \/ PauseVerdict \/ MarkShareShelved \/ WriteFailure \/ Crash
  BY <1>11 DEF MarkShareDuplicate, MarkShareCrawled, MarkShareDead,
       PauseVerdict, MarkShareShelved, WriteFailure, NextShare, Crash, Down
<1>12. QED
  BY <1>3, <1>4, <1>5, <1>6, <1>7, <1>8, <1>9, <1>10, <1>11
     DEF Next, Cycle, CrawlShare, Verdict, Admin, RunIdle

\* A completed share keeps its pages, and only a run at its last page completes one.
LEMMA CompletedStep ==
  ASSUME TypeOK, Shape, CutInRun, RunBacked, CompletedIsIndexed, [Next]_vars
  PROVE  CompletedIsIndexed'
<1> SUFFICES ASSUME NEW s \in Shares, s \notin cut', Completed(s)'
             PROVE  files'[s] = AllPages(s)
  BY DEF CompletedIsIndexed, AllPages
<1>1. ~(DeleteShare /\ s = delShare)
  BY DEF DeleteShare, Completed, Absent, TypeOK, TablesOK
<1>2. s \notin cut
  BY <1>1, NotCut
<1>3. PurgeRows => s # cur
  BY <1>2 DEF PurgeRows, CutInRun
<1>4. files[s] \subseteq files'[s]
  BY <1>1, <1>3, FilesSteps DEF FilesStep
<1>5. files'[s] \subseteq AllPages(s)
  BY TablesType DEF TablesOK, AllPages
<1>6. CASE Completed(s)
  BY <1>2, <1>4, <1>5, <1>6 DEF CompletedIsIndexed
<1>7. CASE MarkShareCrawled /\ s = cur
  <2>1. pos = Pages[s] /\ cur # None
    BY <1>7, NoneAssumption DEF MarkShareCrawled, Shape
  <2>2. QED
    BY <1>2, <1>4, <1>5, <1>7, <2>1 DEF RunBacked, AllPages
<1>8. QED
  BY <1>6, <1>7, StepRow DEF Completed

\* Rows without a share are those of the run that has still to purge them.
LEMMA OrphansStep ==
  ASSUME TypeOK, Shape, OrphansInRun, [Next]_vars
  PROVE  OrphansInRun'
<1> SUFFICES ASSUME crashes' = 0, NEW s \in Shares, ~Registered(s)', files'[s] # {}
             PROVE  /\ s = cur'
                    /\ \/ pc' \in {"page", "list", "meta", "index"} /\ ~firstPage'
                       \/ pc' \in {"save", "purge", "purging"}
  BY DEF OrphansInRun
<1>1. crashes = 0 /\ ~Crash
  BY FaultStep DEF TypeOK, RunOK, Crash
<1>2. ~Registered(s) /\ ~(DeleteShare /\ s = delShare)
  BY StepRow DEF Registered, DeleteShare, TypeOK, TablesOK
<1>3. CASE UpsertFiles /\ s = cur
  BY <1>3 DEF UpsertFiles, run
<1>4. CASE files'[s] = files[s] /\ ~(UpsertFiles /\ s = cur)
  <2>1. /\ s = cur /\ cur # None
        /\ \/ pc \in {"page", "list", "meta", "index"} /\ ~firstPage
           \/ pc \in {"save", "purge", "purging"}
    BY <1>1, <1>2, <1>4, NoneAssumption DEF OrphansInRun
  <2>2. CASE RunIdle
    BY <2>1, <2>2, RunIdleSame DEF run
  <2>3. CASE CrawlShare
    BY <1>4, <2>1, <2>3
       DEF CrawlShare, ErrPaused, StartPage, ListPage, FindDuplicateShare,
           ListPageError, UpdateShareMeta, EndPage, SaveFinal, CrawlError,
           CrawlReturns, run
  <2>4. CASE PurgeIfOrphan
    BY <1>2, <2>1, <2>4 DEF PurgeIfOrphan, PurgeCheck, run
  <2>5. CASE PurgeRows
    BY <2>1, <2>5 DEF PurgeRows, TypeOK, TablesOK
  <2>6. ~Cycle /\ ~Restart
    BY <2>1 DEF Cycle, ListSharesForCrawl, TakeShare, AbandonCycle, EndCycle, Restart
  <2>7. CASE Verdict /\ ~PurgeIfOrphan /\ ~PurgeRows
    BY <2>1, <2>7
       DEF Verdict, MarkShareDuplicate, MarkShareCrawled, MarkShareDead, Failure,
           PauseVerdict, MarkShareShelved, RecordShareFailure, WriteFailure
  <2>8. QED
    BY <1>1, <2>2, <2>3, <2>4, <2>5, <2>6, <2>7 DEF Next, Admin, RunIdle
<1>5. QED
  BY <1>2, <1>3, <1>4, FilesSteps DEF FilesStep

-----------------------------------------------------------------------------
\* The invariant, and the properties that follow from it

LEMMA InitIInv == Init => IInv
<1> SUFFICES ASSUME Init PROVE IInv
  OBVIOUS
<1> USE NoneAssumption, BoundsAssumption DEF Init
<1>1. share \in [Shares -> Row] /\ \A s \in Shares : Agrees(share[s]) /\ Registered(s)
  BY NoFailures DEF Absent, Row, Statuses, Agrees, Registered
<1>2. TablesOK
  BY <1>1 DEF TablesOK, Saved, NoCheckpoint
<1>3. RunOK
  BY NoFailures DEF RunOK
<1>types. TypeOK
  BY <1>2, <1>3 DEF TypeOK
<1>4. Shape /\ CutInRun /\ RunBacked
  BY <1>1 DEF Shape, CutInRun, RunBacked
<1>5. CheckpointBacked
  BY DEF CheckpointBacked, ResumePoint
<1>6. CompletedIsIndexed
  BY DEF CompletedIsIndexed, Completed, Absent
<1>7. OrphansInRun /\ StatusMatchesFailures
  BY <1>1 DEF OrphansInRun, StatusMatchesFailures, Agrees
<1>8. QED
  BY <1>types, <1>4, <1>5, <1>6, <1>7 DEF IInv

LEMMA NextIInv == IInv /\ [Next]_vars => IInv'
<1> SUFFICES ASSUME IInv, [Next]_vars PROVE IInv'
  OBVIOUS
<1>1. StatusMatchesFailures'
  BY StepRow DEF IInv, StatusMatchesFailures, Agrees
<1>2. QED
  BY <1>1, TypeStep, RunStep, CutInRunStep, CheckpointStep, RunBackedStep,
     CompletedStep, OrphansStep
     DEF IInv

\* The inductive invariant holds in every reachable state.
THEOREM Inductive == Spec => []IInv
BY InitIInv, NextIInv, PTL DEF Spec

\* The tables and the run keep their types.
THEOREM TypeCorrect == Spec => []TypeOK
<1>1. IInv => TypeOK
  BY DEF IInv
<1>2. QED
  BY Inductive, <1>1, PTL

\* A COMPLETED share is completely indexed, however its runs were interrupted.
THEOREM CompletedShares == Spec => []CompletedIsIndexed
<1>1. IInv => CompletedIsIndexed
  BY DEF IInv
<1>2. QED
  BY Inductive, <1>1, PTL

\* A checkpoint never claims a page that is not in the index.
THEOREM CheckpointsHonest == Spec => []CheckpointBacked
<1>1. IInv => CheckpointBacked
  BY DEF IInv
<1>2. QED
  BY Inductive, <1>1, PTL

\* Between cycles no deleted share has rows in the file table.
THEOREM NoOrphans == Spec => []NoOrphanFiles
<1>1. IInv => NoOrphanFiles
  BY DEF IInv, OrphansInRun, NoOrphanFiles
<1>2. QED
  BY Inductive, <1>1, PTL

\* Status and failure count of every share tell one story.
THEOREM StatusesAgree == Spec => []StatusMatchesFailures
<1>1. IInv => StatusMatchesFailures
  BY DEF IInv
<1>2. QED
  BY Inductive, <1>1, PTL
=============================================================================
