----------------------------- MODULE CrawlerProofs -----------------------------
(***************************************************************************)
(* Proofs about Crawler for every share, page list and configuration.      *)
(*                                                                         *)
(* The argument: a position of the walk (visited folders, queue, current   *)
(* folder and offset) COVERS the share when every page it counts as done   *)
(* is in the index and every folder listed on such a page is visited,      *)
(* queued or current. Both the saved checkpoint and the walk's own         *)
(* position always cover the share, so a walk with nothing left has read   *)
(* a set of folders that is closed under listing and contains the root.    *)
(***************************************************************************)
EXTENDS Crawler, SequenceTheorems, TLAPS

-----------------------------------------------------------------------------
\* Facts about the operators of the model

\* A page number of a folder names a page.
LEMMA PageType ==
  ASSUME NEW d \in Dirs, NEW k \in 1..Len(Pages[d])
  PROVE  /\ Pages[d][k] \in Page
         /\ Pages[d][k].dirs \in Seq(Dirs)
         /\ Pages[d][k].media \subseteq Media
<1>1. Pages[d] \in Seq(Page)
  BY TreeAssumption
<1>2. Pages[d][k] \in Page
  BY <1>1
<1>3. QED
  BY <1>2 DEF Page

\* The tasks for a page's sub-folders are tasks.
LEMMA TasksOfPageType ==
  ASSUME NEW t \in Tasks, NEW k \in 1..Len(Pages[t.cid])
  PROVE  TasksOfPage(t, k) \in Seq(Tasks)
<1>1. t.cid \in Dirs /\ t.depth + 1 \in Nat
  BY DEF Tasks
<1>2. Pages[t.cid][k].dirs \in Seq(Dirs)
  BY <1>1, PageType
<1>3. \A i \in 1..Len(Pages[t.cid][k].dirs) :
        Task(Pages[t.cid][k].dirs[i], t.depth + 1) \in Tasks
  BY <1>1, <1>2 DEF Task, Tasks
<1>4. QED
  BY <1>2, <1>3 DEF TasksOfPage

\* What a resumed walk reads from the checkpoint row, if there is one.
LEMMA CheckpointParts ==
  ASSUME cp \in Checkpoints \cup {NoCheckpoint}
  PROVE  /\ cp.visited \subseteq Dirs
         /\ cp.queue \in Seq(Tasks)
         /\ cp.offset \in Nat
         /\ cp.depth \in Nat
         /\ cp.cid \in Dirs \cup {None}
         /\ cp # NoCheckpoint => cp.cid \in Dirs
         /\ cp = NoCheckpoint => cp.visited = {} /\ cp.queue = << >> /\ cp.cid = None
<1>1. CASE cp = NoCheckpoint
  BY <1>1 DEF NoCheckpoint
<1>2. CASE cp # NoCheckpoint
  <2>1. cp \in Checkpoints
    BY <1>2
  <2>2. QED
    BY <1>2, <2>1 DEF Checkpoints
<1>3. QED
  BY <1>1, <1>2

\* The rows of a page are rows.
LEMMA RowsOfPageType ==
  ASSUME NEW t \in Tasks, NEW k \in 1..Len(Pages[t.cid])
  PROVE  RowsOfPage(t, k) \subseteq Rows
<1>1. t.cid \in Dirs
  BY DEF Tasks
<1>2. RangeOf(Pages[t.cid][k].dirs) \subseteq Dirs /\ Pages[t.cid][k].media \subseteq Media
  BY <1>1, PageType DEF RangeOf
<1>3. QED
  BY <1>2 DEF RowsOfPage, Rows, Tasks

\* The i-th element of the queue after the page's folders were appended.
LEMMA QueueElements ==
  ASSUME NEW q \in Seq(Tasks), NEW t \in Tasks, NEW k \in 1..Len(Pages[t.cid])
  PROVE  /\ q \o TasksOfPage(t, k) \in Seq(Tasks)
         /\ \A i \in DOMAIN (q \o TasksOfPage(t, k)) :
              \/ i \in DOMAIN q /\ (q \o TasksOfPage(t, k))[i] = q[i]
              \/ \E j \in 1..Len(Pages[t.cid][k].dirs) :
                   (q \o TasksOfPage(t, k))[i] =
                     Task(Pages[t.cid][k].dirs[j], t.depth + 1)
         /\ \A i \in DOMAIN q : (q \o TasksOfPage(t, k))[i] = q[i]
                                /\ i \in DOMAIN (q \o TasksOfPage(t, k))
         /\ \A j \in 1..Len(Pages[t.cid][k].dirs) :
              /\ Len(q) + j \in DOMAIN (q \o TasksOfPage(t, k))
              /\ (q \o TasksOfPage(t, k))[Len(q) + j] =
                   Task(Pages[t.cid][k].dirs[j], t.depth + 1)
<1> DEFINE n == TasksOfPage(t, k)
<1>1. t.cid \in Dirs
  BY DEF Tasks
<1>2. Pages[t.cid][k].dirs \in Seq(Dirs)
  BY <1>1, PageType
<1>3. n \in Seq(Tasks) /\ Len(n) = Len(Pages[t.cid][k].dirs)
  <2>1. n \in Seq(Tasks)
    BY TasksOfPageType
  <2>2. Len(n) = Len(Pages[t.cid][k].dirs)
    BY <1>2 DEF TasksOfPage
  <2>3. QED
    BY <2>1, <2>2
<1>4. \A j \in 1..Len(n) : n[j] = Task(Pages[t.cid][k].dirs[j], t.depth + 1)
  BY <1>2 DEF TasksOfPage
<1> HIDE DEF n
<1>5. /\ q \o n \in Seq(Tasks)
      /\ Len(q \o n) = Len(q) + Len(n)
      /\ \A i \in 1..(Len(q) + Len(n)) :
           (q \o n)[i] = IF i <= Len(q) THEN q[i] ELSE n[i - Len(q)]
  BY <1>3, ConcatProperties
<1>6. /\ Len(q) \in Nat /\ Len(n) \in Nat
      /\ DOMAIN q = 1..Len(q) /\ DOMAIN (q \o n) = 1..(Len(q) + Len(n))
  BY <1>3, <1>5
<1>7. ASSUME NEW i \in DOMAIN (q \o n)
      PROVE  \/ i \in DOMAIN q /\ (q \o n)[i] = q[i]
             \/ \E j \in 1..Len(n) : (q \o n)[i] = n[j]
  <2>1. CASE i <= Len(q)
    BY <1>5, <1>6, <2>1
  <2>2. CASE ~(i <= Len(q))
    <3>1. i - Len(q) \in 1..Len(n) /\ (q \o n)[i] = n[i - Len(q)]
      BY <1>5, <1>6, <2>2
    <3>2. QED
      BY <3>1
  <2>3. QED
    BY <2>1, <2>2
<1>8. \A i \in DOMAIN q : (q \o n)[i] = q[i] /\ i \in DOMAIN (q \o n)
  BY <1>5, <1>6
<1>9. ASSUME NEW j \in 1..Len(n)
      PROVE  Len(q) + j \in DOMAIN (q \o n) /\ (q \o n)[Len(q) + j] = n[j]
  <2>1. Len(q) + j \in 1..(Len(q) + Len(n)) /\ ~(Len(q) + j <= Len(q))
        /\ (Len(q) + j) - Len(q) = j
    BY <1>6
  <2>2. QED
    BY <1>5, <1>6, <2>1
<1>10. QED
  BY <1>3, <1>4, <1>5, <1>7, <1>8, <1>9 DEF n

\* Appending the page's folders to the queue adds exactly their cids.
LEMMA CidsConcat ==
  ASSUME NEW q \in Seq(Tasks), NEW t \in Tasks, NEW k \in 1..Len(Pages[t.cid])
  PROVE  Cids(q \o TasksOfPage(t, k)) = Cids(q) \cup RangeOf(Pages[t.cid][k].dirs)
<1>1. Pages[t.cid][k].dirs \in Seq(Dirs)
  BY PageType DEF Tasks
<1>2. DOMAIN Pages[t.cid][k].dirs = 1..Len(Pages[t.cid][k].dirs)
  BY <1>1
<1> DEFINE r == q \o TasksOfPage(t, k)
<1>3. Cids(r) \subseteq Cids(q) \cup RangeOf(Pages[t.cid][k].dirs)
  <2>1. ASSUME NEW i \in DOMAIN r
        PROVE  r[i].cid \in Cids(q) \cup RangeOf(Pages[t.cid][k].dirs)
    <3>1. \/ i \in DOMAIN q /\ r[i] = q[i]
          \/ \E j \in 1..Len(Pages[t.cid][k].dirs) :
               r[i] = Task(Pages[t.cid][k].dirs[j], t.depth + 1)
      BY <2>1, QueueElements
    <3>2. CASE i \in DOMAIN q /\ r[i] = q[i]
      BY <3>2 DEF Cids
    <3>3. ASSUME NEW j \in 1..Len(Pages[t.cid][k].dirs),
                 r[i] = Task(Pages[t.cid][k].dirs[j], t.depth + 1)
          PROVE  r[i].cid \in RangeOf(Pages[t.cid][k].dirs)
      <4>1. r[i].cid = Pages[t.cid][k].dirs[j]
        BY <3>3 DEF Task
      <4>2. QED
        BY <1>2, <4>1 DEF RangeOf
    <3>4. QED
      BY <3>1, <3>2, <3>3
  <2>2. QED
    BY <2>1 DEF Cids
<1>4. Cids(q) \subseteq Cids(q \o TasksOfPage(t, k))
  BY QueueElements DEF Cids
<1>5. RangeOf(Pages[t.cid][k].dirs) \subseteq Cids(r)
  <2>1. ASSUME NEW j \in 1..Len(Pages[t.cid][k].dirs)
        PROVE  Pages[t.cid][k].dirs[j] \in Cids(r)
    <3>1. Len(q) + j \in DOMAIN r
          /\ r[Len(q) + j] = Task(Pages[t.cid][k].dirs[j], t.depth + 1)
      BY QueueElements
    <3>2. r[Len(q) + j].cid = Pages[t.cid][k].dirs[j]
      BY <3>1 DEF Task
    <3>3. QED
      BY <3>1, <3>2 DEF Cids
  <2>2. QED
    BY <1>2, <2>1 DEF RangeOf
<1>6. QED
  BY <1>3, <1>4, <1>5

\* Taking the head of a queue takes one cid.
LEMMA CidsHeadTail ==
  ASSUME NEW q \in Seq(Tasks), q # << >>
  PROVE  /\ Cids(q) = {Head(q).cid} \cup Cids(Tail(q))
         /\ \A i \in DOMAIN Tail(q) : i + 1 \in DOMAIN q /\ Tail(q)[i] = q[i + 1]
<1>1. /\ Len(q) \in Nat \ {0} /\ DOMAIN q = 1..Len(q)
      /\ DOMAIN Tail(q) = 1..(Len(q) - 1)
      /\ Head(q) = q[1]
      /\ \A i \in 1..(Len(q) - 1) : Tail(q)[i] = q[i + 1]
  OBVIOUS
<1>2. Cids(q) \subseteq {Head(q).cid} \cup Cids(Tail(q))
  <2> SUFFICES ASSUME NEW i \in DOMAIN q, i # 1
               PROVE  \E j \in DOMAIN Tail(q) : Tail(q)[j] = q[i]
    BY <1>1 DEF Cids
  <2>1. i - 1 \in 1..(Len(q) - 1) /\ (i - 1) + 1 = i
    BY <1>1
  <2>2. QED
    BY <1>1, <2>1
<1>3. {Head(q).cid} \cup Cids(Tail(q)) \subseteq Cids(q)
  BY <1>1 DEF Cids
<1>4. QED
  BY <1>1, <1>2, <1>3

\* A queue holds folders.
LEMMA CidsInDirs ==
  ASSUME NEW q \in Seq(Tasks) PROVE Cids(q) \subseteq Dirs
<1>1. \A i \in DOMAIN q : q[i] \in Tasks
  OBVIOUS
<1>2. QED
  BY <1>1 DEF Cids, Tasks

\* A folder listed by a folder is one level below it.
LEMMA LevelOfChild ==
  ASSUME NEW d \in Dirs, NEW k \in 1..Len(Pages[d]),
         NEW j \in 1..Len(Pages[d][k].dirs)
  PROVE  Level[Pages[d][k].dirs[j]] = Level[d] + 1
  BY TreeAssumption

\* A row of a task at its folder's own depth is a row of the tree.
LEMMA RowsOfTask ==
  ASSUME NEW t \in Tasks, t.depth = Level[t.cid], NEW k
  PROVE  RowsOfPage(t, k) = TreeRows(t.cid, k)
  BY DEF RowsOfPage, TreeRows, Task

-----------------------------------------------------------------------------
\* Type correctness

\* Every action keeps the flags Boolean.
LEMMA FlagsStep ==
  ASSUME FlagsOK, [Next]_vars PROVE FlagsOK'
<1>1. CASE UNCHANGED vars
  BY <1>1 DEF FlagsOK, vars, perRun
<1>2. CASE Start \/ CrawlStep
  BY <1>2
     DEF FlagsOK, vars, perRun, CrawlStep, Start, NextTask, StartPage, ListPage, ListRetry,
         PassDedup, PersistMeta, EmptyPage, UpsertFiles, EndPage, SaveFinal,
         Return, Duplicate, Dead, PausedOut, LeaveWith
<1>3. CASE Environment
  BY <1>3
     DEF FlagsOK, perRun, Environment, Fail, Crash, Pause, Resume, Reactivate, Rename, LeaveWith
<1>4. QED
  BY <1>1, <1>2, <1>3 DEF Next

\* Every reachable state is well typed.
THEOREM TypeCorrect == Spec => []TypeOK
<1>1. Init => TypeOK
  <2>1. Init => FlagsOK
    BY DEF Init, FlagsOK
  <2>2. Init => DataOK
    BY ConfigAssumption DEF Init, DataOK, PCs, Results
  <2>3. QED
    BY <2>1, <2>2 DEF TypeOK
<1>2. ASSUME DataOK, UNCHANGED vars PROVE DataOK'
  BY <1>2 DEF DataOK, vars, durable, position, perRun, history
<1>3. ASSUME DataOK, Next PROVE DataOK'
  <2> USE <1>3
  <2> USE DEF DataOK, PCs, Results, durable, position, perRun, history
  <2>1. CASE Start
    <3>1. cp.visited \subseteq Dirs /\ cp.queue \in Seq(Tasks)
      BY CheckpointParts
    <3>2. ResumeTask \in Tasks \cup {NoTask} /\ ResumeOffset \in Nat
      BY CheckpointParts DEF Resumes, ResumeTask, ResumeOffset, Task, Tasks
    <3>3. <<Task(Root, 0)>> \in Seq(Tasks)
      BY TreeAssumption DEF Task, Tasks
    <3>4. QED
      BY <2>1, <3>1, <3>2, <3>3, ConfigAssumption DEF Start
  <2>2. CASE NextTask
    <3>1. queue # << >> => Head(queue) \in Tasks /\ Tail(queue) \in Seq(Tasks)
      OBVIOUS
    <3>2. QED
      BY <2>2, <3>1 DEF NextTask
  <2>3. CASE StartPage
    <3>1. Checkpoint(task, offset, queue, visited) \in Checkpoints
      BY <2>3 DEF StartPage, Checkpoint, Checkpoints, Tasks
    <3>2. QED
      BY <2>3, <3>1, ConfigAssumption DEF StartPage
  <2>4. CASE ListPage
    BY <2>4 DEF ListPage, Tasks
  <2>5. CASE ListRetry
    BY <2>5, ConfigAssumption DEF ListRetry, MayRetry
  <2>6. CASE PassDedup
    BY <2>6 DEF PassDedup
  <2>7. CASE PersistMeta
    BY <2>7 DEF PersistMeta
  <2>8. CASE EmptyPage
    BY <2>8 DEF EmptyPage, Tasks
  <2>9. CASE UpsertFiles
    <3>1. task \in Tasks /\ task.cid \in Dirs
      BY <2>9 DEF UpsertFiles, Tasks
    <3>2. rows' \subseteq Rows
      BY <2>9, <3>1, RowsOfPageType DEF UpsertFiles
    <3>3. QED
      BY <2>9, <3>2 DEF UpsertFiles
  <2>10. CASE EndPage
    <3>1. task \in Tasks /\ task.cid \in Dirs
      BY <2>10 DEF EndPage, Tasks
    <3>2. served => TasksOfPage(task, offset + 1) \in Seq(Tasks)
      BY <2>10, <3>1, TasksOfPageType DEF EndPage
    <3>3. queue' \in Seq(Tasks) /\ visited' \subseteq Dirs
      BY <2>10, <3>1, <3>2 DEF EndPage
    <3>4. cp' \in Checkpoints
      BY <2>10, <3>1, <3>3 DEF EndPage, EndCheckpoint, Checkpoint, Checkpoints, Tasks
    <3>5. QED
      BY <2>10, <3>1, <3>3, <3>4 DEF EndPage
  <2>11. CASE SaveFinal
    BY <2>11, TreeAssumption DEF SaveFinal, Checkpoint, Checkpoints, Task
  <2>12. ASSUME NEW r \in Results, LeaveWith(r), UNCHANGED durable,
                faults' \in 0..MaxFaults,
                sincePause' \in Nat, withheld' = withheld
         PROVE  DataOK'
    BY <2>12, ConfigAssumption DEF LeaveWith
  <2>13. CASE Return \/ Duplicate \/ Dead \/ PausedOut \/ Fail \/ Crash
    BY <2>12, <2>13, ConfigAssumption
       DEF Return, Duplicate, Dead, PausedOut, Fail, Crash, Fault
  <2>14. CASE Pause \/ Resume \/ Reactivate \/ Rename
    BY <2>14 DEF Pause, Resume, Reactivate, Rename
  <2>15. QED
    BY <2>1, <2>2, <2>3, <2>4, <2>5, <2>6, <2>7, <2>8, <2>9, <2>10, <2>11,
       <2>13, <2>14 DEF Next, CrawlStep, Environment
<1>4. QED
  BY <1>1, <1>2, <1>3, FlagsStep, PTL DEF Spec, TypeOK

-----------------------------------------------------------------------------
\* The inductive invariant

InPage  == {"page", "list", "dedup", "meta", "index", "commit"}
Saved   == {"list", "dedup", "meta", "index", "commit"}
Fetched == {"dedup", "meta", "index", "commit"}

\* Between the start-of-page and the end-of-page checkpoint the saved row IS
\* the position of the walk; a folder being read is not visited.
Shape ==
  /\ pc \in InPage => task.cid \notin visited
  /\ pc \in Saved => cp = Checkpoint(task, offset, queue, visited)
  /\ result = "done" => pc = "idle"
  /\ pc \in Fetched /\ ~served =>
       \/ offset >= Len(Pages[task.cid])
       \/ <<task.cid, offset + 1>> \in withheld
  /\ pc \in Fetched /\ served => <<task.cid, offset + 1>> \notin withheld
  /\ pc = "commit" /\ served => RowsOfPage(task, offset + 1) \subseteq rows

\* The offset of a folder that is still to be read is not past its end.
OffsetOK(v, c, o) == c \in Dirs \ v => o = 0 \/ o < Len(Pages[c])

\* Every task, in memory and in the checkpoint, carries the folder's depth.
DepthOK(q, t) ==
  /\ \A i \in DOMAIN q : q[i].depth = Level[q[i].cid]
  /\ t.cid \in Dirs => t.depth = Level[t.cid]

Offsets ==
  /\ OffsetOK(cp.visited, cp.cid, cp.offset)
  /\ OffsetOK(visited, task.cid, offset)

Depths == DepthOK(queue, task) /\ DepthOK(cp.queue, cp)

\* The folders a position knows of.
Known(v, q, c) == v \cup Cids(q) \cup ({c} \ {None})

PageOK(R, W, K, d, k) ==
  \/ <<d, k>> \in W
  \/ TreeRows(d, k) \subseteq R /\ RangeOf(Pages[d][k].dirs) \subseteq K

\* With rows R and withheld pages W, a position that has read the folders V
\* and the first o pages of c, and knows the folders K, has lost nothing.
Covers(R, W, V, K, c, o) ==
  /\ Root \in K
  /\ \A d \in V : \A k \in 1..Len(Pages[d]) : PageOK(R, W, K, d, k)
  /\ c \in Dirs => \A k \in 1..Len(Pages[c]) : k <= o => PageOK(R, W, K, c, k)

CpCovers ==
  cp # NoCheckpoint =>
    Covers(rows, withheld, cp.visited, Known(cp.visited, cp.queue, cp.cid),
           cp.cid, cp.offset)

WalkCovers ==
  pc # "idle" =>
    Covers(rows, withheld, visited, Known(visited, queue, task.cid),
           task.cid, offset)

\* The final checkpoint: nothing left to resume.
Finished ==
  pc = "return" \/ result = "done" =>
    /\ cp # NoCheckpoint
    /\ cp.queue = << >> /\ cp.cid = Root /\ Root \in cp.visited

IInv ==
  /\ TypeOK /\ Shape /\ Offsets /\ Depths
  /\ RowsFaithful /\ CpCovers /\ WalkCovers /\ Finished

-----------------------------------------------------------------------------
\* Shape, offsets and depths

\* Leaving CrawlShare establishes what the invariant says of an idle walk.
LEMMA ShapeStep ==
  ASSUME DataOK, Shape, Next PROVE Shape'
<1> USE DEF Shape, InPage, Saved, Fetched, durable, position, perRun, history
<1>1. CASE Start
  BY <1>1 DEF Start, Settled
<1>2. CASE NextTask
  BY <1>2 DEF NextTask, DataOK
<1>3. CASE StartPage
  BY <1>3 DEF StartPage
<1>4. CASE ListPage
  BY <1>4 DEF ListPage
<1>5. CASE ListRetry \/ PassDedup \/ PersistMeta
  BY <1>5 DEF ListRetry, PassDedup, PersistMeta
<1>6. CASE EmptyPage
  BY <1>6 DEF EmptyPage
<1>7. CASE UpsertFiles
  BY <1>7 DEF UpsertFiles
<1>8. CASE EndPage
  BY <1>8 DEF EndPage
<1>9. CASE SaveFinal
  BY <1>9 DEF SaveFinal
<1>10. CASE Return \/ Duplicate \/ Dead \/ PausedOut \/ Fail \/ Crash
  BY <1>10 DEF Return, Duplicate, Dead, PausedOut, Fail, Crash, LeaveWith
<1>11. CASE Pause \/ Resume \/ Reactivate \/ Rename
  BY <1>11 DEF Pause, Resume, Reactivate, Rename, Settled
<1>12. QED
  BY <1>1, <1>2, <1>3, <1>4, <1>5, <1>6, <1>7, <1>8, <1>9, <1>10, <1>11
     DEF Next, CrawlStep, Environment

\* No position points past the end of a folder that is still to be read.
LEMMA OffsetsStep ==
  ASSUME DataOK, Shape, Offsets, Next PROVE Offsets'
<1> USE DEF Offsets, OffsetOK, durable, position, perRun, history
<1>1. CASE Start
  BY <1>1, NoneAssumption DEF Start, ResumeTask, ResumeOffset, Resumes, NoTask, Task
<1>2. CASE NextTask
  BY <1>2, NoneAssumption DEF NextTask, NoTask, Task
<1>3. CASE StartPage
  BY <1>3 DEF StartPage, Checkpoint
<1>4. CASE EmptyPage
  BY <1>4, NoneAssumption DEF EmptyPage, NoTask, Task
<1>5. CASE EndPage
  <2>1. task \in Tasks /\ task.cid \in Dirs
    BY <1>5 DEF EndPage, DataOK, Tasks
  <2>2. offset \in Nat
    BY DEF DataOK
  <2>3. QED
    BY <1>5, <2>1, <2>2, NoneAssumption DEF EndPage, EndCheckpoint, Checkpoint, HasMore, NoTask, Task
<1>6. CASE SaveFinal
  BY <1>6 DEF SaveFinal, Checkpoint, Task
<1>7. CASE ListPage \/ ListRetry \/ PassDedup \/ PersistMeta \/ UpsertFiles
  BY <1>7 DEF ListPage, ListRetry, PassDedup, PersistMeta, UpsertFiles
<1>8. CASE Return \/ Duplicate \/ Dead \/ PausedOut \/ Fail \/ Crash
  BY <1>8, NoneAssumption
     DEF Return, Duplicate, Dead, PausedOut, Fail, Crash, LeaveWith, NoTask, Task
<1>9. CASE Pause \/ Resume \/ Reactivate \/ Rename
  BY <1>9 DEF Pause, Resume, Reactivate, Rename
<1>10. QED
  BY <1>1, <1>2, <1>3, <1>4, <1>5, <1>6, <1>7, <1>8, <1>9
     DEF Next, CrawlStep, Environment

\* Every task, queued or current, in memory or saved, has its folder's depth.
LEMMA DepthsStep ==
  ASSUME DataOK, Shape, Depths, Next PROVE Depths'
<1> USE DEF Depths, DepthOK, durable, position, perRun, history
<1>1. CASE Start
  <2>1. \A i \in DOMAIN <<Task(Root, 0)>> :
          <<Task(Root, 0)>>[i].depth = Level[<<Task(Root, 0)>>[i].cid]
    BY TreeAssumption DEF Task
  <2>2. task'.cid \in Dirs => task'.depth = Level[task'.cid]
    BY <1>1, NoneAssumption DEF Start, ResumeTask, Resumes, NoTask, Task
  <2>3. QED
    BY <1>1, <2>1, <2>2 DEF Start
<1>2. CASE NextTask
  <2>1. queue # << >> => /\ Head(queue).depth = Level[Head(queue).cid]
                         /\ \A i \in DOMAIN Tail(queue) :
                              Tail(queue)[i].depth = Level[Tail(queue)[i].cid]
    <3>1. SUFFICES ASSUME queue # << >>
                   PROVE  /\ Head(queue).depth = Level[Head(queue).cid]
                          /\ \A i \in DOMAIN Tail(queue) :
                               Tail(queue)[i].depth = Level[Tail(queue)[i].cid]
      OBVIOUS
    <3>2. queue \in Seq(Tasks)
      BY DEF DataOK
    <3>3. Head(queue) = queue[1] /\ 1 \in DOMAIN queue
      BY <3>1, <3>2
    <3>4. QED
      BY <3>1, <3>2, <3>3, CidsHeadTail
  <2>2. QED
    BY <1>2, <2>1, NoneAssumption DEF NextTask, NoTask, Task
<1>3. CASE StartPage
  BY <1>3 DEF StartPage, Checkpoint
<1>4. CASE EmptyPage
  BY <1>4, NoneAssumption DEF EmptyPage, NoTask, Task
<1>5. CASE EndPage
  <2>1. task \in Tasks /\ task.cid \in Dirs /\ queue \in Seq(Tasks)
    BY <1>5 DEF EndPage, DataOK, Tasks
  <2>2. ASSUME served
        PROVE  \A i \in DOMAIN (queue \o TasksOfPage(task, offset + 1)) :
                 (queue \o TasksOfPage(task, offset + 1))[i].depth =
                    Level[(queue \o TasksOfPage(task, offset + 1))[i].cid]
    <3>1. offset + 1 \in 1..Len(Pages[task.cid])
      BY <1>5, <2>2 DEF EndPage, DataOK
    <3>2. \A j \in 1..Len(Pages[task.cid][offset + 1].dirs) :
            Level[Pages[task.cid][offset + 1].dirs[j]] = task.depth + 1
      BY <2>1, <3>1, LevelOfChild
    <3>3. ASSUME NEW i \in DOMAIN (queue \o TasksOfPage(task, offset + 1))
          PROVE  (queue \o TasksOfPage(task, offset + 1))[i].depth =
                    Level[(queue \o TasksOfPage(task, offset + 1))[i].cid]
      <4>1. CASE i \in DOMAIN queue
                 /\ (queue \o TasksOfPage(task, offset + 1))[i] = queue[i]
        BY <4>1
      <4>2. CASE \E j \in 1..Len(Pages[task.cid][offset + 1].dirs) :
                   (queue \o TasksOfPage(task, offset + 1))[i] =
                      Task(Pages[task.cid][offset + 1].dirs[j], task.depth + 1)
        BY <3>2, <4>2 DEF Task
      <4>3. QED
        BY <2>1, <3>1, <4>1, <4>2, QueueElements
    <3>4. QED
      BY <3>3
  <2>3. \A i \in DOMAIN queue' : queue'[i].depth = Level[queue'[i].cid]
    BY <1>5, <2>2 DEF EndPage
  <2>4. QED
    BY <1>5, <2>1, <2>3, NoneAssumption DEF EndPage, EndCheckpoint, Checkpoint, NoTask, Task
<1>6. CASE SaveFinal
  BY <1>6, TreeAssumption DEF SaveFinal, Checkpoint, Task
<1>7. CASE ListPage \/ ListRetry \/ PassDedup \/ PersistMeta \/ UpsertFiles
  BY <1>7 DEF ListPage, ListRetry, PassDedup, PersistMeta, UpsertFiles
<1>8. CASE Return \/ Duplicate \/ Dead \/ PausedOut \/ Fail \/ Crash
  BY <1>8, NoneAssumption
     DEF Return, Duplicate, Dead, PausedOut, Fail, Crash, LeaveWith, NoTask, Task
<1>9. CASE Pause \/ Resume \/ Reactivate \/ Rename
  BY <1>9 DEF Pause, Resume, Reactivate, Rename
<1>10. QED
  BY <1>1, <1>2, <1>3, <1>4, <1>5, <1>6, <1>7, <1>8, <1>9
     DEF Next, CrawlStep, Environment

\* Only UpsertFiles writes rows, and it writes rows of the tree.
LEMMA RowsStep ==
  ASSUME DataOK, Depths, RowsFaithful, Next PROVE RowsFaithful'
<1>1. CASE UpsertFiles
  <2>1. task \in Tasks /\ task.cid \in Dirs /\ task.depth = Level[task.cid]
    BY <1>1 DEF UpsertFiles, DataOK, Tasks, Depths, DepthOK
  <2>2. ASSUME served, NEW r \in RowsOfPage(task, offset + 1)
        PROVE  \E k \in 1..Len(Pages[r.parent]) : r \in TreeRows(r.parent, k)
    <3>1. offset + 1 \in 1..Len(Pages[task.cid])
      BY <1>1, <2>2 DEF UpsertFiles, DataOK
    <3>2. r.parent = task.cid
      BY <2>2 DEF RowsOfPage
    <3>3. QED
      BY <2>1, <2>2, <3>1, <3>2, RowsOfTask
  <2>3. QED
    BY <1>1, <2>2 DEF UpsertFiles, RowsFaithful
<1>2. CASE ~UpsertFiles
  <2>1. rows' = rows
    BY <1>2 DEF Next, CrawlStep, Environment, durable, Start, NextTask, StartPage, ListPage,
         ListRetry, PassDedup, PersistMeta, EmptyPage, EndPage, SaveFinal,
         Return, Duplicate, Dead, PausedOut, Fail, Crash, Pause, Resume, Reactivate, Rename
  <2>2. QED
    BY <2>1 DEF RowsFaithful
<1>3. QED
  BY <1>1, <1>2

-----------------------------------------------------------------------------
\* Covering positions

\* A position stays covering when rows are added, folders become known, and no
\* page it relies on stops counting as withheld.
LEMMA CoversMono ==
  ASSUME NEW R, NEW R2, NEW W, NEW W2, NEW V, NEW K, NEW K2, NEW c, NEW o \in Nat,
         Covers(R, W, V, K, c, o),
         R \subseteq R2, K \subseteq K2,
         \A p \in W \ W2 : p[1] \notin V /\ (p[1] = c => ~(p[2] <= o))
  PROVE  Covers(R2, W2, V, K2, c, o)
<1>1. ASSUME NEW d, NEW k, PageOK(R, W, K, d, k), <<d, k>> \notin W \ W2
      PROVE  PageOK(R2, W2, K2, d, k)
  BY <1>1 DEF PageOK
<1>2. ASSUME NEW d \in V, NEW k PROVE <<d, k>> \notin W \ W2
  <2>1. <<d, k>>[1] = d
    OBVIOUS
  <2>2. QED
    BY <2>1
<1>3. ASSUME NEW k, k <= o PROVE <<c, k>> \notin W \ W2
  <2>1. <<c, k>>[1] = c /\ <<c, k>>[2] = k
    OBVIOUS
  <2>2. QED
    BY <1>3, <2>1
<1>4. QED
  BY <1>1, <1>2, <1>3 DEF Covers

\* Reading one more page: its rows are in the index and its folders known, or
\* it was withheld.
LEMMA CoversPage ==
  ASSUME NEW R, NEW W, NEW V, NEW K, NEW c \in Dirs, NEW o \in Nat,
         Covers(R, W, V, K, c, o),
         o + 1 \in 1..Len(Pages[c]) => PageOK(R, W, K, c, o + 1)
  PROVE  Covers(R, W, V, K, c, o + 1)
<1>1. Len(Pages[c]) \in Nat
  BY TreeAssumption
<1>2. ASSUME NEW k \in 1..Len(Pages[c]), k <= o + 1
      PROVE  PageOK(R, W, K, c, k)
  <2>1. CASE k <= o
    BY <2>1 DEF Covers
  <2>2. CASE ~(k <= o)
    BY <1>1, <1>2, <2>2
  <2>3. QED
    BY <2>1, <2>2
<1>3. QED
  BY <1>2 DEF Covers

\* A folder whose last page was read may be called visited, and the position
\* may move on to any folder at its start.
LEMMA CoversVisited ==
  ASSUME NEW R, NEW W, NEW V, NEW K, NEW c \in Dirs, NEW o \in Nat,
         Covers(R, W, V, K, c, o), o >= Len(Pages[c]),
         NEW c2
  PROVE  /\ Covers(R, W, V \cup {c}, K, c, o)
         /\ Covers(R, W, V \cup {c}, K, c2, 0)
<1>1. Len(Pages[c]) \in Nat
  BY TreeAssumption
<1>2. \A k \in 1..Len(Pages[c]) : k <= o
  BY <1>1
<1>3. \A k \in 1..Len(Pages[c]) : PageOK(R, W, K, c, k)
  BY <1>2 DEF Covers
<1>4. c2 \in Dirs => \A k \in 1..Len(Pages[c2]) : ~(k <= 0)
  BY TreeAssumption
<1>5. QED
  BY <1>3, <1>4 DEF Covers

\* A position may move to the start of any folder.
LEMMA CoversMove ==
  ASSUME NEW R, NEW W, NEW V, NEW K, NEW c, NEW o, NEW c2,
         Covers(R, W, V, K, c, o)
  PROVE  Covers(R, W, V, K, c2, 0)
<1>1. c2 \in Dirs => \A k \in 1..Len(Pages[c2]) : ~(k <= 0)
  BY TreeAssumption
<1>2. QED
  BY <1>1 DEF Covers

\* Listing a page only changes what is known of that page, which no position
\* relies on yet.
LEMMA ListPageCovers ==
  ASSUME DataOK, Shape, WalkCovers, ListPage
  PROVE  Covers(rows, withheld', visited, Known(visited, queue, task.cid),
                task.cid, offset)
<1>1. offset \in Nat /\ task.cid \notin visited
  BY DEF DataOK, Shape, InPage, ListPage
<1>2. Covers(rows, withheld, visited, Known(visited, queue, task.cid), task.cid, offset)
  BY DEF WalkCovers, ListPage
<1>3. ASSUME NEW p \in withheld \ withheld'
      PROVE  p[1] \notin visited /\ (p[1] = task.cid => ~(p[2] <= offset))
  <2>1. p = <<task.cid, offset + 1>>
    BY <1>3 DEF ListPage
  <2>2. QED
    BY <1>1, <2>1
<1>4. QED
  BY <1>1, <1>2, <1>3, CoversMono

\* The end-of-page checkpoint covers, with the next offset and with the new
\* visited set, and so does moving on when the folder is finished.
LEMMA EndPageCovers ==
  ASSUME DataOK, Shape, Depths, WalkCovers, EndPage
  PROVE  /\ Covers(rows, withheld, visited', Known(visited', queue', task.cid),
                   task.cid, offset + 1)
         /\ Covers(rows, withheld, visited', Known(visited', queue', task'.cid),
                   task'.cid, offset')
<1> DEFINE K == Known(visited, queue, task.cid)
           K2 == Known(visited', queue', task.cid)
<1>1. /\ task \in Tasks /\ task.cid \in Dirs /\ task.depth = Level[task.cid]
      /\ queue \in Seq(Tasks) /\ offset \in Nat /\ Len(Pages[task.cid]) \in Nat
  BY TreeAssumption DEF DataOK, EndPage, Tasks, Depths, DepthOK
<1>2. Covers(rows, withheld, visited, K, task.cid, offset)
  BY DEF WalkCovers, EndPage
<1>3. Cids(queue) \subseteq Cids(queue')
      /\ (served => RangeOf(Pages[task.cid][offset + 1].dirs) \subseteq Cids(queue'))
  <2>1. CASE served
    <3>1. offset + 1 \in 1..Len(Pages[task.cid])
      BY <2>1 DEF EndPage, DataOK
    <3>2. queue' = queue \o TasksOfPage(task, offset + 1)
      BY <2>1 DEF EndPage
    <3>3. QED
      BY <1>1, <3>1, <3>2, CidsConcat
  <2>2. CASE ~served
    BY <2>2 DEF EndPage
  <2>3. QED
    BY <2>1, <2>2
<1>4. visited \subseteq visited' /\ visited' \subseteq visited \cup {task.cid}
  BY DEF EndPage
<1>5. K \subseteq K2 /\ (served => RangeOf(Pages[task.cid][offset + 1].dirs) \subseteq K2)
  BY <1>3, <1>4 DEF Known
<1>6. Covers(rows, withheld, visited, K2, task.cid, offset)
  BY <1>1, <1>2, <1>5, CoversMono
<1>7. offset + 1 \in 1..Len(Pages[task.cid]) =>
        PageOK(rows, withheld, K2, task.cid, offset + 1)
  <2>1. CASE served
    <3>1. TreeRows(task.cid, offset + 1) \subseteq rows
      BY <1>1, <2>1, RowsOfTask DEF EndPage, Shape
    <3>2. QED
      BY <1>5, <2>1, <3>1 DEF PageOK
  <2>2. CASE ~served
    <3>1. offset >= Len(Pages[task.cid]) \/ <<task.cid, offset + 1>> \in withheld
      BY <2>2 DEF EndPage, Shape, Fetched
    <3>2. QED
      BY <1>1, <3>1 DEF PageOK
  <2>3. QED
    BY <2>1, <2>2
<1>8. Covers(rows, withheld, visited, K2, task.cid, offset + 1)
  BY <1>1, <1>6, <1>7, CoversPage
<1>9. CASE HasMore(task.cid, offset)
  <2>1. visited' = visited /\ task' = task /\ offset' = offset + 1
    BY <1>9 DEF EndPage
  <2>2. QED
    BY <1>8, <2>1
<1>10. CASE ~HasMore(task.cid, offset)
  <2>1. visited' = visited \cup {task.cid} /\ task' = NoTask /\ offset' = 0
    BY <1>10 DEF EndPage
  <2>2. offset + 1 \in Nat /\ offset + 1 >= Len(Pages[task.cid])
    BY <1>1, <1>10 DEF HasMore
  <2>3. /\ Covers(rows, withheld, visited', K2, task.cid, offset + 1)
        /\ Covers(rows, withheld, visited', K2, task'.cid, 0)
    BY <1>1, <1>8, <2>1, <2>2, CoversVisited
  <2>4. Known(visited', queue', task'.cid) = K2
    BY <2>1, <1>1, NoneAssumption DEF Known, NoTask, Task
  <2>5. QED
    BY <2>1, <2>3, <2>4
<1>11. QED
  BY <1>9, <1>10

\* The walk's own position keeps covering.
LEMMA WalkStep ==
  ASSUME DataOK, Shape, Depths, CpCovers, WalkCovers, Next
  PROVE  WalkCovers'
<1> USE DEF durable, position, perRun, history
<1>1. CASE Start
  <2>1. /\ visited' = cp.visited /\ task' = ResumeTask /\ offset' = ResumeOffset
        /\ rows' = rows /\ withheld' = withheld
        /\ queue' = IF cp.queue = << >> /\ ~Resumes THEN <<Task(Root, 0)>> ELSE cp.queue
    BY <1>1 DEF Start
  <2>2. /\ cp.visited \subseteq Dirs /\ cp.queue \in Seq(Tasks) /\ cp.offset \in Nat
        /\ cp.cid \in Dirs \cup {None} /\ (cp # NoCheckpoint => cp.cid \in Dirs)
        /\ cp = NoCheckpoint => cp.visited = {} /\ cp.queue = << >> /\ cp.cid = None
    BY CheckpointParts DEF DataOK
  <2>3. Cids(<<Task(Root, 0)>>) = {Root} /\ Cids(<< >>) = {}
    BY DEF Cids, Task
  <2>4. CASE Resumes
    <3>1. task'.cid = cp.cid /\ offset' = cp.offset /\ queue' = cp.queue
      BY <2>1, <2>4 DEF ResumeTask, ResumeOffset, Task
    <3>2. QED
      BY <2>1, <2>4, <3>1 DEF CpCovers, WalkCovers, Resumes
  <2>5. CASE ~Resumes /\ cp # NoCheckpoint
    <3>1. task'.cid = None /\ offset' = 0 /\ cp.cid \in cp.visited
      BY <2>1, <2>5 DEF ResumeTask, ResumeOffset, Resumes, NoTask, Task
    <3>2. Covers(rows, withheld, cp.visited, Known(cp.visited, cp.queue, cp.cid), None, 0)
      BY <2>5, CoversMove DEF CpCovers
    <3>3. Known(cp.visited, cp.queue, cp.cid) \subseteq Known(visited', queue', task'.cid)
      BY <2>1, <2>3, <3>1 DEF Known
    <3>4. Covers(rows, withheld, cp.visited, Known(visited', queue', task'.cid), None, 0)
      BY <3>2, <3>3, CoversMono
    <3>5. QED
      BY <2>1, <3>1, <3>4 DEF WalkCovers
  <2>6. CASE cp = NoCheckpoint
    <3>1. task'.cid = None /\ offset' = 0 /\ visited' = {} /\ queue' = <<Task(Root, 0)>>
      BY <2>1, <2>2, <2>6 DEF ResumeTask, ResumeOffset, Resumes, NoTask, Task
    <3>2. Covers(rows, withheld, {}, {Root}, None, 0)
      BY NoneAssumption DEF Covers
    <3>3. Known(visited', queue', task'.cid) = {Root}
      BY <2>3, <3>1 DEF Known
    <3>4. QED
      BY <2>1, <3>1, <3>2, <3>3 DEF WalkCovers
  <2>7. QED
    BY <2>4, <2>5, <2>6
<1>2. CASE NextTask
  <2>1. /\ pc = "next" /\ rows' = rows /\ withheld' = withheld /\ visited' = visited
        /\ queue \in Seq(Tasks) /\ task \in Tasks \cup {NoTask}
    BY <1>2 DEF NextTask, DataOK
  <2>2. Covers(rows, withheld, visited, Known(visited, queue, task.cid), task.cid, offset)
    BY <2>1 DEF WalkCovers
  <2>3. CASE task # NoTask
    <3>1. queue' = queue
      BY <1>2, <2>3 DEF NextTask
    <3>2. CASE task.cid \in visited
      <4>1. task'.cid = None /\ offset' = 0
        BY <1>2, <2>3, <3>2 DEF NextTask, NoTask, Task
      <4>2. Known(visited, queue, task.cid) \subseteq Known(visited, queue, None)
        BY <3>2 DEF Known
      <4>3. Covers(rows, withheld, visited, Known(visited, queue, task.cid), None, 0)
        BY <2>2, CoversMove
      <4>4. Covers(rows, withheld, visited, Known(visited, queue, None), None, 0)
        BY <4>2, <4>3, CoversMono
      <4>5. QED
        BY <2>1, <3>1, <4>1, <4>4 DEF WalkCovers
    <3>3. CASE task.cid \notin visited
      BY <1>2, <2>1, <2>2, <2>3, <3>1, <3>3 DEF NextTask, WalkCovers
    <3>4. QED
      BY <3>2, <3>3
  <2>4. CASE task = NoTask
    <3>1. /\ queue # << >> /\ queue' = Tail(queue)
          /\ task' = IF Head(queue).cid \in visited THEN NoTask ELSE Head(queue)
          /\ offset' = 0
      BY <1>2, <2>4 DEF NextTask
    <3>2. Cids(queue) = {Head(queue).cid} \cup Cids(Tail(queue))
      BY <2>1, <3>1, CidsHeadTail
    <3>3. task.cid = None /\ Head(queue).cid # None
      <4>1. Head(queue) \in Tasks
        BY <2>1, <3>1
      <4>2. QED
        BY <2>4, <4>1, NoneAssumption DEF NoTask, Task, Tasks
    <3>4. Known(visited, queue, task.cid) \subseteq Known(visited, queue', task'.cid)
      BY <3>1, <3>2, <3>3 DEF Known
    <3>5. Covers(rows, withheld, visited, Known(visited, queue, task.cid), task'.cid, 0)
      BY <2>2, CoversMove
    <3>6. Covers(rows, withheld, visited, Known(visited, queue', task'.cid), task'.cid, 0)
      BY <3>4, <3>5, CoversMono
    <3>7. QED
      BY <2>1, <3>1, <3>6 DEF WalkCovers
  <2>5. QED
    BY <2>3, <2>4
<1>3. CASE ListPage
  <2>1. UNCHANGED <<rows, visited, queue, task, offset>> /\ pc = "list"
    BY <1>3 DEF ListPage
  <2>2. QED
    BY <1>3, <2>1, ListPageCovers DEF WalkCovers
<1>4. CASE EmptyPage
  <2>1. /\ task \in Tasks /\ task.cid \in Dirs /\ offset \in Nat
        /\ Len(Pages[task.cid]) \in Nat /\ pc = "index"
        /\ visited' = visited \cup {task.cid} /\ task'.cid = None /\ offset' = 0
        /\ queue' = queue /\ rows' = rows /\ withheld' = withheld
    BY <1>4, TreeAssumption DEF DataOK, EmptyPage, Tasks, NoTask, Task
  <2>2. offset >= Len(Pages[task.cid]) \/ <<task.cid, offset + 1>> \in withheld
    BY <1>4 DEF EmptyPage, Shape, Fetched
  <2>3. offset + 1 \in 1..Len(Pages[task.cid]) =>
          PageOK(rows, withheld, Known(visited, queue, task.cid), task.cid, offset + 1)
    BY <2>1, <2>2 DEF PageOK
  <2>4. Covers(rows, withheld, visited, Known(visited, queue, task.cid),
               task.cid, offset + 1)
    BY <2>1, <2>3, CoversPage DEF WalkCovers
  <2>5. offset + 1 \in Nat /\ offset + 1 >= Len(Pages[task.cid])
    BY <1>4, <2>1 DEF EmptyPage, HasMore
  <2>6. Covers(rows, withheld, visited', Known(visited, queue, task.cid), None, 0)
    BY <2>1, <2>4, <2>5, CoversVisited
  <2>7. Known(visited', queue', task'.cid) = Known(visited, queue, task.cid)
    BY <2>1, NoneAssumption DEF Known
  <2>8. QED
    BY <2>1, <2>6, <2>7 DEF WalkCovers
<1>5. CASE UpsertFiles
  <2>1. /\ UNCHANGED <<withheld, visited, queue, task, offset>>
        /\ rows \subseteq rows' /\ pc = "index" /\ offset \in Nat
    BY <1>5 DEF UpsertFiles, DataOK
  <2>2. Covers(rows, withheld, visited, Known(visited, queue, task.cid), task.cid, offset)
    BY <2>1 DEF WalkCovers
  <2>3. Covers(rows', withheld, visited, Known(visited, queue, task.cid), task.cid, offset)
    BY <2>1, <2>2, CoversMono
  <2>4. QED
    BY <2>1, <2>3 DEF WalkCovers
<1>6. CASE EndPage
  <2>1. rows' = rows /\ withheld' = withheld
    BY <1>6 DEF EndPage
  <2>2. QED
    BY <1>6, <2>1, EndPageCovers DEF WalkCovers
<1>7. CASE StartPage \/ ListRetry \/ PassDedup \/ PersistMeta \/ SaveFinal
  <2>1. UNCHANGED <<rows, withheld, visited, queue, task, offset>> /\ pc # "idle"
    BY <1>7 DEF StartPage, ListRetry, PassDedup, PersistMeta, SaveFinal
  <2>2. QED
    BY <2>1 DEF WalkCovers
<1>8. CASE Return \/ Duplicate \/ Dead \/ PausedOut \/ Fail \/ Crash
  BY <1>8 DEF Return, Duplicate, Dead, PausedOut, Fail, Crash, LeaveWith, WalkCovers
<1>9. CASE Pause \/ Resume \/ Reactivate \/ Rename
  <2>1. UNCHANGED <<rows, withheld, visited, queue, task, offset, pc>>
    BY <1>9 DEF Pause, Resume, Reactivate, Rename
  <2>2. QED
    BY <2>1 DEF WalkCovers
<1>10. QED
  BY <1>1, <1>2, <1>3, <1>4, <1>5, <1>6, <1>7, <1>8, <1>9
     DEF Next, CrawlStep, Environment

\* The saved checkpoint keeps covering.
LEMMA CpStep ==
  ASSUME DataOK, Shape, Depths, CpCovers, WalkCovers, Finished, Next
  PROVE  CpCovers'
<1> USE DEF durable, position, perRun, history
<1>1. CASE StartPage
  <2>1. /\ UNCHANGED <<rows, withheld>> /\ pc = "page"
        /\ cp' = Checkpoint(task, offset, queue, visited)
    BY <1>1 DEF StartPage
  <2>2. QED
    BY <2>1 DEF WalkCovers, CpCovers, Checkpoint
<1>2. CASE EndPage
  <2>1. /\ UNCHANGED <<rows, withheld>>
        /\ cp' = Checkpoint(task, offset + 1, queue', visited')
    BY <1>2 DEF EndPage, EndCheckpoint
  <2>2. Covers(rows, withheld, visited', Known(visited', queue', task.cid),
               task.cid, offset + 1)
    BY <1>2, EndPageCovers
  <2>3. QED
    BY <2>1, <2>2 DEF CpCovers, Checkpoint
<1>3. CASE SaveFinal
  <2>1. /\ UNCHANGED <<rows, withheld>> /\ pc = "next"
        /\ task = NoTask /\ queue = << >>
        /\ cp' = Checkpoint(Task(Root, 0), 0, << >>, visited)
    BY <1>3 DEF SaveFinal
  <2>2. Covers(rows, withheld, visited, Known(visited, queue, task.cid), task.cid, offset)
    BY <2>1 DEF WalkCovers
  <2>3. Covers(rows, withheld, visited, Known(visited, queue, task.cid), Root, 0)
    BY <2>2, CoversMove
  <2>4. Known(visited, queue, task.cid) \subseteq Known(visited, << >>, Root)
    BY <2>1 DEF Known, NoTask, Task
  <2>5. Covers(rows, withheld, visited, Known(visited, << >>, Root), Root, 0)
    BY <2>3, <2>4, CoversMono
  <2>6. QED
    BY <2>1, <2>5 DEF CpCovers, Checkpoint, Task
<1>4. CASE ListPage
  <2>1. UNCHANGED <<rows, cp>> /\ cp = Checkpoint(task, offset, queue, visited)
    BY <1>4 DEF ListPage, Shape, Saved
  <2>2. QED
    BY <1>4, <2>1, ListPageCovers DEF CpCovers, Checkpoint
<1>5. CASE UpsertFiles
  <2>1. /\ UNCHANGED <<withheld, cp>> /\ rows \subseteq rows' /\ cp.offset \in Nat
    BY <1>5, CheckpointParts DEF UpsertFiles, DataOK
  <2>2. SUFFICES ASSUME cp # NoCheckpoint
                 PROVE  Covers(rows', withheld, cp.visited,
                               Known(cp.visited, cp.queue, cp.cid), cp.cid, cp.offset)
    BY <2>1 DEF CpCovers
  <2>3. Covers(rows, withheld, cp.visited, Known(cp.visited, cp.queue, cp.cid),
               cp.cid, cp.offset)
    BY <2>2 DEF CpCovers
  <2>4. QED
    BY <2>1, <2>3, CoversMono
<1>6. CASE \/ Start \/ NextTask \/ ListRetry \/ PassDedup \/ PersistMeta \/ EmptyPage
           \/ Return \/ Duplicate \/ Dead \/ PausedOut \/ Environment
  <2>1. UNCHANGED <<rows, withheld, cp>>
    BY <1>6 DEF Start, NextTask, ListRetry, PassDedup, PersistMeta, EmptyPage,
         Return, Duplicate, Dead, PausedOut,
         Environment, Fail, Crash, Pause, Resume, Reactivate, Rename
  <2>2. QED
    BY <2>1 DEF CpCovers
<1>7. QED
  BY <1>1, <1>2, <1>3, <1>4, <1>5, <1>6 DEF Next, CrawlStep

\* Once the outer loop is over, the checkpoint says that nothing is left.
LEMMA FinishedStep ==
  ASSUME DataOK, Shape, WalkCovers, Finished, Next
  PROVE  Finished'
<1> USE DEF durable, position, perRun, history
<1>1. CASE SaveFinal
  <2>1. /\ pc = "next" /\ task = NoTask /\ queue = << >>
        /\ cp' = Checkpoint(Task(Root, 0), 0, << >>, visited)
    BY <1>1 DEF SaveFinal
  <2>2. Root \in Known(visited, queue, task.cid)
    BY <2>1 DEF WalkCovers, Covers
  <2>3. Root \in visited
    BY <2>1, <2>2 DEF Known, Cids, NoTask, Task
  <2>4. cp' # NoCheckpoint
    BY <2>1, TreeAssumption, NoneAssumption DEF Checkpoint, NoCheckpoint, Task
  <2>5. QED
    BY <2>1, <2>3, <2>4 DEF Finished, Checkpoint, Task
<1>2. CASE \/ Start \/ NextTask \/ StartPage \/ ListPage \/ ListRetry \/ PassDedup
           \/ PersistMeta \/ EmptyPage \/ UpsertFiles \/ EndPage
  BY <1>2 DEF Finished, Shape, Settled, Start, NextTask, StartPage, ListPage, ListRetry,
       PassDedup, PersistMeta, EmptyPage, UpsertFiles, EndPage
<1>3. CASE Return \/ Duplicate \/ Dead \/ PausedOut \/ Environment
  BY <1>3 DEF Finished, Return, Duplicate, Dead, PausedOut, LeaveWith,
       Environment, Fail, Crash, Pause, Resume, Reactivate, Rename
<1>4. QED
  BY <1>1, <1>2, <1>3 DEF Next, CrawlStep

-----------------------------------------------------------------------------
\* The invariant and what follows from it

\* The inductive invariant holds in every reachable state.
THEOREM Inductive == Spec => []IInv
<1>1. Init => Shape /\ Offsets /\ Depths /\ RowsFaithful /\ CpCovers /\ WalkCovers /\ Finished
  BY NoneAssumption
     DEF Init, Shape, InPage, Saved, Fetched, Offsets, OffsetOK, Depths, DepthOK,
         RowsFaithful, CpCovers, WalkCovers, Finished, NoTask, Task, NoCheckpoint
<1>2. ASSUME TypeOK, Shape /\ Offsets /\ Depths /\ RowsFaithful /\ CpCovers
             /\ WalkCovers /\ Finished, Next
      PROVE  (Shape /\ Offsets /\ Depths /\ RowsFaithful /\ CpCovers
              /\ WalkCovers /\ Finished)'
  BY <1>2, ShapeStep, OffsetsStep, DepthsStep, RowsStep, CpStep, WalkStep, FinishedStep
     DEF TypeOK
<1>3. ASSUME Shape /\ Offsets /\ Depths /\ RowsFaithful /\ CpCovers
             /\ WalkCovers /\ Finished, UNCHANGED vars
      PROVE  (Shape /\ Offsets /\ Depths /\ RowsFaithful /\ CpCovers
              /\ WalkCovers /\ Finished)'
  BY <1>3 DEF vars, durable, position, perRun, history, Shape, Offsets, Depths,
              RowsFaithful, CpCovers, WalkCovers, Finished
<1>4. QED
  BY <1>1, <1>2, <1>3, TypeCorrect, PTL DEF Spec, IInv

\* Whatever interrupted the runs before, a share is reported done only when
\* every page that 115 gave out, of every reachable folder, is in the index.
THEOREM Completeness == Spec => []CompleteWhenDone
<1>1. IInv => CompleteWhenDone
  <2> SUFFICES ASSUME IInv, result = "done",
                      NEW d \in Reachable, NEW k \in 1..Len(Pages[d]),
                      <<d, k>> \notin withheld
               PROVE  TreeRows(d, k) \subseteq rows
    BY DEF CompleteWhenDone
  <2>1. /\ cp # NoCheckpoint /\ cp.queue = << >> /\ cp.cid = Root
        /\ Root \in cp.visited
    BY DEF IInv, Finished
  <2>2. Known(cp.visited, cp.queue, cp.cid) = cp.visited
    BY <2>1 DEF Known, Cids
  <2>3. Covers(rows, withheld, cp.visited, cp.visited, Root, cp.offset)
    BY <2>1, <2>2 DEF IInv, CpCovers
  <2>4. Closed(cp.visited)
    BY <2>1, <2>3 DEF Closed, Covers, PageOK
  <2>5. cp.visited \in SUBSET Dirs
    BY CheckpointParts DEF IInv, TypeOK, DataOK
  <2>6. d \in cp.visited
    BY <2>4, <2>5 DEF Reachable
  <2>7. QED
    BY <2>3, <2>6 DEF Covers, PageOK
<1>2. QED
  BY <1>1, Inductive, PTL

\* Rows keep their folder and their depth through every resume.
THEOREM Faithfulness == Spec => []RowsFaithful
  BY Inductive, PTL DEF IInv

\* No run asks for a page past the end of a folder.
THEOREM InsideFolders == Spec => []NeverPastEnd
<1>1. IInv => NeverPastEnd
  BY DEF IInv, TypeOK, DataOK, Shape, InPage, Offsets, OffsetOK, NeverPastEnd, Tasks
<1>2. QED
  BY <1>1, Inductive, PTL

\* A crash at any moment loses no folder: the checkpoint still leads to it.
THEOREM NothingForgotten == Spec => []NoFolderForgotten
<1>1. IInv => NoFolderForgotten
  <2> SUFFICES ASSUME IInv, NEW r \in rows, r.node \in Dirs, NEW k \in 1..Len(Pages[r.parent]),
                      r \in TreeRows(r.parent, k),
                      <<r.parent, k>> \in DonePages, <<r.parent, k>> \notin withheld
               PROVE  r.node \in cp.visited \cup {cp.cid} \cup Cids(cp.queue)
    BY DEF NoFolderForgotten, IInv, RowsFaithful
  <2>1. r.parent \in Dirs
    BY DEF IInv, TypeOK, DataOK, Rows
  <2>2. r.parent \in cp.visited \/ (r.parent = cp.cid /\ k <= cp.offset)
    BY DEF DonePages
  <2>3. cp # NoCheckpoint
    BY <2>1, <2>2, NoneAssumption DEF NoCheckpoint
  <2>4. PageOK(rows, withheld, Known(cp.visited, cp.queue, cp.cid), r.parent, k)
    BY <2>1, <2>2, <2>3 DEF IInv, CpCovers, Covers
  <2>5. RangeOf(Pages[r.parent][k].dirs) \subseteq Known(cp.visited, cp.queue, cp.cid)
    BY <2>4 DEF PageOK
  <2>6. r.node \in RangeOf(Pages[r.parent][k].dirs)
    <3>1. r.node \in RangeOf(Pages[r.parent][k].dirs) \cup Pages[r.parent][k].media
      BY DEF TreeRows, RowsOfPage, Task
    <3>2. Pages[r.parent][k].media \subseteq Media
      BY <2>1, PageType
    <3>3. QED
      BY <3>1, <3>2, TreeAssumption
  <2>7. QED
    BY <2>5, <2>6 DEF Known
<1>2. QED
  BY <1>1, Inductive, PTL

-----------------------------------------------------------------------------
\* Pause

\* While the operator's pause is on, the page that was past the poll may still
\* be fetched; nothing else was.
PauseInv ==
  /\ sincePause \in {0, 1}
  /\ ~paused => sincePause = 0
  /\ pc = "list" => sincePause = 0

\* After a pause at most the page in flight is fetched, however the walk, the
\* failures and the operator interleave.
THEOREM PauseIsPrompt == Spec => []PauseStopsSoon
<1>1. Init => PauseInv
  BY DEF Init, PauseInv
<1>2. ASSUME PauseInv, Next PROVE PauseInv'
  <2> USE <1>2 DEF PauseInv, durable, position, perRun, history
  <2>1. CASE Start \/ NextTask \/ StartPage
    BY <2>1 DEF Start, NextTask, StartPage, PauseChecker
  <2>2. CASE ListPage
    BY <2>2 DEF ListPage
  <2>3. CASE ListRetry \/ PassDedup \/ PersistMeta \/ EmptyPage \/ UpsertFiles
    BY <2>3 DEF ListRetry, PassDedup, PersistMeta, EmptyPage, UpsertFiles
  <2>4. CASE EndPage \/ SaveFinal
    BY <2>4 DEF EndPage, SaveFinal
  <2>5. CASE Return \/ Duplicate \/ Dead \/ PausedOut \/ Fail \/ Crash
    BY <2>5 DEF Return, Duplicate, Dead, PausedOut, Fail, Crash, LeaveWith
  <2>6. CASE Pause \/ Resume \/ Reactivate \/ Rename
    BY <2>6 DEF Pause, Resume, Reactivate, Rename
  <2>7. QED
    BY <2>1, <2>2, <2>3, <2>4, <2>5, <2>6 DEF Next, CrawlStep, Environment
<1>3. ASSUME PauseInv, UNCHANGED vars PROVE PauseInv'
  BY <1>3 DEF PauseInv, vars, history
<1>4. PauseInv => PauseStopsSoon
  BY DEF PauseInv, PauseStopsSoon
<1>5. QED
  BY <1>1, <1>2, <1>3, <1>4, PTL DEF Spec

-----------------------------------------------------------------------------
\* Refinement
\*
\* The walk implements ShareIndex: DonePages of the checkpoint grow by one page
\* of the frontier at a time, a page's rows are written only while the page is
\* on the frontier, and the share is declared done only when it is empty.

\* A folder the walk may know of: the root, or listed on a page that is done.
Origin(d) ==
  \/ d = Root
  \/ \E q \in DonePages : q \notin withheld /\ d \in Index!Listed(q[1], q[2])

\* The pages that the walk's own position counts as done.
WalkDone ==
  { p \in AllPages : p[1] \in visited \/ (p[1] = task.cid /\ p[2] <= offset) }

Origins ==
  /\ \A d \in Known(cp.visited, cp.queue, cp.cid) : Origin(d)
  /\ \A d \in Known(visited, queue, task.cid) : Origin(d)

\* Between two pages the walk is at most one page ahead of the checkpoint: the
\* empty last page of the folder it has just left.
AtMostOneAhead ==
  pc \in {"next", "page"} =>
    \/ WalkDone = DonePages
    \/ \E p \in withheld : p \in Index!Frontier /\ WalkDone = DonePages \cup {p}

\* Only pages that exist are withheld.
WithheldPages == withheld \subseteq AllPages

-----------------------------------------------------------------------------
\* The page being read

\* Listed is the range of a page's folders.
LEMMA ListedIsRange ==
  ASSUME NEW d, NEW k PROVE Index!Listed(d, k) = RangeOf(Pages[d][k].dirs)
  BY DEF Index!Listed, RangeOf

\* The page being read is on the frontier, unless the folder has no such page.
LEMMA PageOnFrontier ==
  ASSUME DataOK, Shape, Origins, pc \in Saved, offset + 1 \in 1..Len(Pages[task.cid])
  PROVE  <<task.cid, offset + 1>> \in Index!Frontier
<1> DEFINE p == <<task.cid, offset + 1>>
<1>1. /\ task \in Tasks /\ task.cid \in Dirs /\ offset \in Nat
      /\ task.cid \notin visited
      /\ cp = Checkpoint(task, offset, queue, visited)
  BY DEF DataOK, Shape, InPage, Saved, Tasks
<1>2. p[1] = task.cid /\ p[2] = offset + 1
  OBVIOUS
<1>3. p \in AllPages
  BY <1>1 DEF AllPages
<1>4. p \notin DonePages
  BY <1>1, <1>2 DEF DonePages, Checkpoint
<1>5. ASSUME NEW j \in 1..offset PROVE <<task.cid, j>> \in DonePages
  <2>1. <<task.cid, j>> \in AllPages
    BY <1>1 DEF AllPages
  <2>2. QED
    BY <1>1, <2>1 DEF DonePages, Checkpoint
<1>6. Origin(task.cid)
  BY <1>1, NoneAssumption DEF Origins, Known
<1>7. p[2] - 1 = offset
  BY <1>1
<1>8. QED
  BY <1>1, <1>2, <1>3, <1>4, <1>5, <1>6, <1>7 DEF Index!Frontier, AllPages, Origin

-----------------------------------------------------------------------------
\* Pages done

\* A page is a folder with a page number of it.
LEMMA PageParts ==
  ASSUME NEW p \in AllPages
  PROVE  /\ p[1] \in Dirs /\ p[2] \in 1..Len(Pages[p[1]]) /\ p[2] \in Nat \ {0}
         /\ p = <<p[1], p[2]>>
<1>1. PICK d \in Dirs : p \in {d} \X (1..Len(Pages[d]))
  BY DEF AllPages
<1>2. QED
  BY <1>1

\* Between the two checkpoints of a page the saved row has the walk's pages.
LEMMA SavedDone ==
  ASSUME Shape, pc \in Saved PROVE WalkDone = DonePages
  BY DEF Shape, Checkpoint, WalkDone, DonePages

\* A saved position that is the walk's makes the walk's pages the done ones.
LEMMA CheckpointDone ==
  ASSUME DataOK, cp' = Checkpoint(task, offset, queue, visited)
  PROVE  DonePages' = WalkDone
  BY DEF Checkpoint, WalkDone, DonePages, AllPages

\* The final checkpoint has the pages of the visited folders.
LEMMA SaveFinalDone ==
  ASSUME DataOK, SaveFinal PROVE DonePages' = WalkDone
<1>1. /\ cp'.visited = visited /\ cp'.offset = 0 /\ task.cid = None
  BY DEF SaveFinal, Checkpoint, NoTask, Task
<1>2. AllPages' = AllPages
  BY DEF AllPages
<1>3. ASSUME NEW p \in AllPages PROVE ~(p[2] <= 0) /\ p[1] # None
  BY <1>3, PageParts, NoneAssumption
<1>4. QED
  BY <1>1, <1>2, <1>3 DEF DonePages, WalkDone

\* The end-of-page checkpoint adds the page just read, if there is one.
LEMMA EndPageDone ==
  ASSUME DataOK, Shape, EndPage
  PROVE  /\ DonePages' = DonePages \cup ({<<task.cid, offset + 1>>} \cap AllPages)
         /\ WalkDone' = DonePages'
<1>1. /\ task \in Tasks /\ task.cid \in Dirs /\ offset \in Nat
      /\ Len(Pages[task.cid]) \in Nat /\ task.cid # None
      /\ cp = Checkpoint(task, offset, queue, visited)
  BY TreeAssumption, NoneAssumption DEF DataOK, EndPage, Shape, Saved, Tasks
<1>2. /\ cp.visited = visited /\ cp.cid = task.cid /\ cp.offset = offset
      /\ cp'.visited = visited' /\ cp'.cid = task.cid /\ cp'.offset = offset + 1
  BY <1>1 DEF EndPage, EndCheckpoint, Checkpoint
<1>3. AllPages' = AllPages
  BY DEF AllPages
<1>4. CASE HasMore(task.cid, offset)
  <2>1. visited' = visited /\ task' = task /\ offset' = offset + 1
    BY <1>4 DEF EndPage
  <2>2. ASSUME NEW p \in AllPages, p[1] = task.cid
        PROVE  p[2] <= offset + 1 <=> p[2] <= offset \/ p = <<task.cid, offset + 1>>
    BY <1>1, <2>2, PageParts
  <2>3. QED
    BY <1>1, <1>2, <1>3, <2>1, <2>2 DEF DonePages, WalkDone
<1>5. CASE ~HasMore(task.cid, offset)
  <2>1. visited' = visited \cup {task.cid} /\ task' = NoTask /\ offset' = 0
    BY <1>5 DEF EndPage
  <2>2. offset + 1 >= Len(Pages[task.cid])
    BY <1>1, <1>5 DEF HasMore
  <2>3. ASSUME NEW p \in AllPages, p[1] = task.cid
        PROVE  p[2] <= offset \/ p = <<task.cid, offset + 1>>
    BY <1>1, <2>2, <2>3, PageParts
  <2>4. ASSUME NEW p \in AllPages PROVE ~(p[2] <= 0) /\ p[1] # None
    BY <2>4, PageParts, NoneAssumption
  <2>5. task'.cid = None
    BY <2>1 DEF NoTask, Task
  <2>6. ASSUME NEW p \in AllPages, p = <<task.cid, offset + 1>> PROVE p[1] = task.cid
    BY <2>6
  <2>7. WalkDone' = {p \in AllPages : p[1] \in visited \cup {task.cid}}
    BY <1>3, <2>1, <2>4, <2>5 DEF WalkDone
  <2>8. DonePages' = {p \in AllPages : p[1] \in visited \cup {task.cid}}
    BY <1>2, <1>3, <2>1 DEF DonePages
  <2>9. QED
    BY <1>1, <1>2, <2>3, <2>6, <2>7, <2>8 DEF DonePages
<1>6. QED
  BY <1>4, <1>5

\* What an action does to the pages done: nothing, the walk's pages, or one more.
LEMMA DoneSteps ==
  ASSUME DataOK, Shape, Next
  PROVE  \/ UNCHANGED cp /\ DonePages' = DonePages
         \/ pc \in {"page", "next"} /\ DonePages' = WalkDone /\ UNCHANGED withheld
         \/ EndPage
<1> USE DEF durable, history
<1>1. CASE UNCHANGED cp
  BY <1>1 DEF DonePages, AllPages
<1>2. CASE StartPage
  BY <1>2, CheckpointDone DEF StartPage
<1>3. CASE SaveFinal
  BY <1>3, SaveFinalDone DEF SaveFinal
<1>4. CASE EndPage
  BY <1>4
<1>5. ASSUME Next, ~StartPage, ~SaveFinal, ~EndPage PROVE UNCHANGED cp
  BY <1>5 DEF Next, CrawlStep, Environment, Start, NextTask, ListPage, ListRetry,
     PassDedup, PersistMeta, EmptyPage, UpsertFiles, Return, Duplicate, Dead,
     PausedOut, Fail, Crash, Pause, Resume, Reactivate, Rename
<1>6. QED
  BY <1>1, <1>2, <1>3, <1>4, <1>5

\* Pages done stay done.
LEMMA DoneGrows ==
  ASSUME DataOK, Shape, AtMostOneAhead, Next PROVE DonePages \subseteq DonePages'
<1>1. CASE pc \in {"page", "next"} /\ DonePages' = WalkDone
  BY <1>1 DEF AtMostOneAhead
<1>2. CASE EndPage
  BY <1>2, EndPageDone
<1>3. QED
  BY <1>1, <1>2, DoneSteps

\* Whether a done page was withheld is settled.
LEMMA WithheldSettled ==
  ASSUME DataOK, Shape, Next, NEW q \in DonePages
  PROVE  q \in withheld <=> q \in withheld'
<1>1. CASE ListPage
  <2>1. /\ task \in Tasks /\ offset \in Nat /\ task.cid \notin visited
        /\ cp = Checkpoint(task, offset, queue, visited)
    BY <1>1 DEF DataOK, Shape, InPage, Saved, ListPage
  <2>2. <<task.cid, offset + 1>> \notin DonePages
    <3>1. <<task.cid, offset + 1>>[1] = task.cid /\ <<task.cid, offset + 1>>[2] = offset + 1
      OBVIOUS
    <3>2. QED
      BY <2>1, <3>1 DEF DonePages, Checkpoint
  <2>3. QED
    BY <1>1, <2>2 DEF ListPage
<1>2. CASE ~ListPage
  <2>1. UNCHANGED withheld
    BY <1>2 DEF Next, CrawlStep, Environment, Start, NextTask, StartPage, ListRetry,
       PassDedup, PersistMeta, EmptyPage, UpsertFiles, EndPage, SaveFinal, Return,
       Duplicate, Dead, PausedOut, Fail, Crash, Pause, Resume, Reactivate, Rename, history
  <2>2. QED
    BY <2>1
<1>3. QED
  BY <1>1, <1>2

\* An origin is kept: pages done stay done, and stay not withheld.
LEMMA OriginStays ==
  ASSUME DataOK, Shape, AtMostOneAhead, Next, NEW d, Origin(d) PROVE Origin(d)'
<1>1. CASE d = Root
  BY <1>1 DEF Origin
<1>2. CASE d # Root
  <2>1. PICK q \in DonePages : q \notin withheld /\ d \in Index!Listed(q[1], q[2])
    BY <1>2 DEF Origin
  <2>2. q \in DonePages' /\ q \notin withheld'
    BY <2>1, DoneGrows, WithheldSettled
  <2>3. Index!Listed(q[1], q[2])' = Index!Listed(q[1], q[2])
    BY DEF Index!Listed
  <2>4. QED
    BY <2>1, <2>2, <2>3 DEF Origin
<1>3. QED
  BY <1>1, <1>2

-----------------------------------------------------------------------------
\* The folders a walk knows of

\* What a run starts with comes from the checkpoint, or is the root.
LEMMA KnownOfCp ==
  ASSUME DataOK, Origins, Start
  PROVE  \A d \in Known(visited', queue', task'.cid) : Origin(d)
<1>1. cp.visited = visited' /\ Origin(Root)
  BY DEF Start, Origin
<1>2. \A d \in Cids(queue') : Origin(d)
  <2>1. CASE queue' = cp.queue
    BY <2>1 DEF Origins, Known
  <2>2. CASE queue' = <<Task(Root, 0)>>
    BY <1>1, <2>2 DEF Cids, Task
  <2>3. QED
    BY <2>1, <2>2 DEF Start
<1>3. task'.cid # None => Origin(task'.cid)
  <2>1. CASE Resumes
    <3>1. task'.cid = cp.cid
      BY <2>1 DEF Start, ResumeTask, Task
    <3>2. QED
      BY <3>1 DEF Origins, Known
  <2>2. CASE ~Resumes
    BY <2>2 DEF Start, ResumeTask, NoTask, Task
  <2>3. QED
    BY <2>1, <2>2
<1>4. QED
  BY <1>1, <1>2, <1>3 DEF Origins, Known

\* Taking the next task teaches the walk no new folder.
LEMMA KnownOfNextTask ==
  ASSUME DataOK, NextTask
  PROVE  Known(visited', queue', task'.cid) \subseteq Known(visited, queue, task.cid)
<1>1. CASE task # NoTask
  BY <1>1, NoneAssumption DEF NextTask, Known, NoTask, Task
<1>2. CASE task = NoTask
  <2>1. queue # << >> /\ queue \in Seq(Tasks)
    BY <1>2 DEF NextTask, DataOK
  <2>2. Cids(queue) = {Head(queue).cid} \cup Cids(Tail(queue))
    BY <2>1, CidsHeadTail
  <2>3. visited' = visited /\ queue' = Tail(queue) /\ (task' = NoTask \/ task' = Head(queue))
    BY <1>2 DEF NextTask
  <2>4. QED
    BY <2>2, <2>3 DEF Known, NoTask, Task
<1>3. QED
  BY <1>1, <1>2

\* The folders that join the queue are listed on the page that is now done.
LEMMA KnownOfEndPage ==
  ASSUME DataOK, Shape, Origins, AtMostOneAhead, EndPage
  PROVE  /\ \A d \in Known(visited', queue', task'.cid) : Origin(d)'
         /\ \A d \in Known(cp'.visited, cp'.queue, cp'.cid) : Origin(d)'
<1>1. /\ task \in Tasks /\ task.cid \in Dirs /\ offset \in Nat
      /\ queue \in Seq(Tasks) /\ Next
  BY DEF DataOK, EndPage, Tasks, Next, CrawlStep
<1>2. \A d \in Known(visited, queue, task.cid) : Origin(d)'
  BY <1>1, OriginStays DEF Origins
<1>3. \A d \in Cids(queue') : Origin(d)'
  <2>1. CASE served
    <3>1. offset + 1 \in 1..Len(Pages[task.cid])
      BY <2>1 DEF EndPage, DataOK
    <3>2. Cids(queue') = Cids(queue) \cup RangeOf(Pages[task.cid][offset + 1].dirs)
      BY <1>1, <2>1, <3>1, CidsConcat DEF EndPage
    <3>3. <<task.cid, offset + 1>> \in DonePages'
      BY <1>1, <3>1, EndPageDone DEF AllPages
    <3>4. <<task.cid, offset + 1>> \notin withheld'
      BY <2>1 DEF EndPage, Shape, Fetched, history
    <3>5. ASSUME NEW d \in RangeOf(Pages[task.cid][offset + 1].dirs) PROVE Origin(d)'
      <4>1. d \in Index!Listed(task.cid, offset + 1)
        BY ListedIsRange
      <4>2. <<task.cid, offset + 1>>[1] = task.cid /\ <<task.cid, offset + 1>>[2] = offset + 1
        OBVIOUS
      <4>3. \E q \in DonePages' : q \notin withheld' /\ d \in Index!Listed(q[1], q[2])
        BY <3>3, <3>4, <4>1, <4>2
      <4>4. Index!Listed(task.cid, offset + 1)' = Index!Listed(task'.cid, offset' + 1)
        BY DEF Index!Listed
      <4>5. QED
        BY <4>3 DEF Origin, Index!Listed
    <3>6. QED
      BY <1>2, <3>2, <3>5 DEF Known
  <2>2. CASE ~served
    BY <1>2, <2>2 DEF EndPage, Known
  <2>3. QED
    BY <2>1, <2>2
<1>4. visited' \subseteq visited \cup {task.cid}
  BY DEF EndPage
<1>5. \A d \in visited' \cup {task.cid} : Origin(d)'
  BY <1>1, <1>2, <1>4, NoneAssumption DEF Known
<1>6. task' = task \/ task' = NoTask
  BY DEF EndPage
<1>7. cp'.visited = visited' /\ cp'.queue = queue' /\ cp'.cid = task.cid
  BY DEF EndPage, EndCheckpoint, Checkpoint
<1>8. QED
  BY <1>3, <1>5, <1>6, <1>7 DEF Known, NoTask, Task

\* Every action keeps an origin for every folder the walk knows of.
LEMMA OriginsStep ==
  ASSUME DataOK, Shape, Origins, AtMostOneAhead, Next PROVE Origins'
<1> USE DEF durable, position, perRun, history
<1>1. /\ \A d \in Known(cp.visited, cp.queue, cp.cid) : Origin(d)'
      /\ \A d \in Known(visited, queue, task.cid) : Origin(d)'
  BY OriginStays DEF Origins
<1>2. ASSUME UNCHANGED cp,
             Known(visited', queue', task'.cid) \subseteq Known(visited, queue, task.cid)
      PROVE  Origins'
  BY <1>1, <1>2 DEF Origins
<1>3. CASE Start
  <2>1. \A d \in Known(visited', queue', task'.cid) : Origin(d)'
    BY <1>3, KnownOfCp, OriginStays
  <2>2. UNCHANGED cp
    BY <1>3 DEF Start
  <2>3. QED
    BY <1>1, <2>1, <2>2 DEF Origins
<1>4. CASE NextTask
  BY <1>2, <1>4, KnownOfNextTask DEF NextTask
<1>5. CASE StartPage
  <2>1. UNCHANGED <<visited, queue, task>>
        /\ cp'.visited = visited /\ cp'.queue = queue /\ cp'.cid = task.cid
    BY <1>5 DEF StartPage, Checkpoint
  <2>2. QED
    BY <1>1, <2>1 DEF Origins
<1>6. CASE EmptyPage
  <2>1. UNCHANGED <<cp, queue>> /\ visited' = visited \cup {task.cid} /\ task'.cid = None
        /\ task.cid \in Dirs
    BY <1>6 DEF EmptyPage, NoTask, Task, DataOK, Tasks
  <2>2. QED
    BY <1>2, <2>1, NoneAssumption DEF Known
<1>7. CASE EndPage
  BY <1>7, KnownOfEndPage DEF Origins
<1>8. CASE SaveFinal
  <2>1. UNCHANGED <<visited, queue, task>> /\ queue = << >>
        /\ cp'.visited = visited /\ cp'.queue = << >> /\ cp'.cid = Root
    BY <1>8 DEF SaveFinal, Checkpoint, Task
  <2>2. Origin(Root)'
    BY DEF Origin
  <2>3. QED
    BY <1>1, <2>1, <2>2 DEF Origins, Known
<1>9. ASSUME LeaveWith(result'), UNCHANGED cp PROVE Origins'
  <2>1. Known(visited', queue', task'.cid) = {}
    BY <1>9 DEF LeaveWith, Known, Cids, NoTask, Task
  <2>2. QED
    BY <1>2, <1>9, <2>1
<1>10. CASE Return \/ Duplicate \/ Dead \/ PausedOut \/ Fail \/ Crash
  BY <1>9, <1>10 DEF Return, Duplicate, Dead, PausedOut, Fail, Crash, LeaveWith
<1>11. CASE ListPage \/ ListRetry \/ PassDedup \/ PersistMeta \/ UpsertFiles
            \/ Pause \/ Resume \/ Reactivate \/ Rename
  BY <1>2, <1>11 DEF ListPage, ListRetry, PassDedup, PersistMeta, UpsertFiles,
     Pause, Resume, Reactivate, Rename
<1>12. QED
  BY <1>3, <1>4, <1>5, <1>6, <1>7, <1>8, <1>10, <1>11 DEF Next, CrawlStep, Environment

-----------------------------------------------------------------------------
\* The walk is never more than an empty page ahead

\* A page of the share is no page of "no folder", and has a number above 0.
LEMMA NoPageZero ==
  \A p \in AllPages : ~(p[2] <= 0) /\ p[1] # None
  BY PageParts, NoneAssumption

\* A run starts with the pages that the checkpoint counts as done.
LEMMA StartDone ==
  ASSUME DataOK, Start PROVE WalkDone' = DonePages'
<1>1. AllPages' = AllPages /\ cp' = cp /\ visited' = cp.visited
  BY DEF AllPages, Start, durable
<1>2. CASE Resumes
  <2>1. task'.cid = cp.cid /\ offset' = cp.offset
    BY <1>2 DEF Start, ResumeTask, ResumeOffset, Task
  <2>2. QED
    BY <1>1, <2>1 DEF WalkDone, DonePages
<1>3. CASE ~Resumes
  <2>1. task'.cid = None /\ offset' = 0
    BY <1>3 DEF Start, ResumeTask, ResumeOffset, NoTask, Task
  <2>2. cp.cid \in cp.visited \/ cp.cid = None
    BY <1>3, CheckpointParts DEF Resumes, DataOK
  <2>3. WalkDone' = {p \in AllPages : p[1] \in cp.visited}
    BY <1>1, <2>1, NoPageZero DEF WalkDone
  <2>4. DonePages' = {p \in AllPages : p[1] \in cp.visited}
    BY <1>1, <2>2, NoPageZero DEF DonePages
  <2>5. QED
    BY <2>3, <2>4
<1>4. QED
  BY <1>2, <1>3

\* Skipping a visited folder, or opening a new one, does no page.
LEMMA NextTaskDone ==
  ASSUME DataOK, Offsets, NextTask PROVE WalkDone' = WalkDone
<1>1. AllPages' = AllPages /\ visited' = visited
  BY DEF AllPages, NextTask
<1>2. CASE task # NoTask
  <2>1. CASE task.cid \in visited
    <3>1. task'.cid = None /\ offset' = 0
      BY <1>2, <2>1 DEF NextTask, NoTask, Task
    <3>2. QED
      BY <1>1, <2>1, <3>1, NoPageZero DEF WalkDone
  <2>2. CASE task.cid \notin visited
    <3>1. task' = task /\ offset' = offset
      BY <1>2, <2>2 DEF NextTask
    <3>2. QED
      BY <1>1, <3>1 DEF WalkDone
  <2>3. QED
    BY <2>1, <2>2
<1>3. CASE task = NoTask
  <2>1. task.cid = None /\ offset' = 0
    BY <1>3 DEF NextTask, NoTask, Task
  <2>2. WalkDone' = {p \in AllPages : p[1] \in visited}
    BY <1>1, <2>1, NoPageZero DEF WalkDone
  <2>3. WalkDone = {p \in AllPages : p[1] \in visited}
    BY <2>1, NoPageZero DEF WalkDone
  <2>4. QED
    BY <2>2, <2>3
<1>4. QED
  BY <1>2, <1>3

\* A folder left at an empty page: that page, if it exists, was withheld.
LEMMA EmptyPageDone ==
  ASSUME DataOK, Shape, Origins, EmptyPage
  PROVE  \/ WalkDone' = DonePages
         \/ \E p \in withheld : p \in Index!Frontier /\ WalkDone' = DonePages \cup {p}
<1> DEFINE p == <<task.cid, offset + 1>>
<1>1. /\ task \in Tasks /\ task.cid \in Dirs /\ offset \in Nat
      /\ Len(Pages[task.cid]) \in Nat /\ pc = "index" /\ pc \in Saved
      /\ visited' = visited \cup {task.cid} /\ task'.cid = None /\ offset' = 0
  BY TreeAssumption DEF DataOK, EmptyPage, Tasks, NoTask, Task, Saved
<1>2. AllPages' = AllPages
  BY DEF AllPages
<1>3. offset + 1 >= Len(Pages[task.cid])
  BY <1>1 DEF EmptyPage, HasMore
<1>4. WalkDone' = {q \in AllPages : q[1] \in visited \cup {task.cid}}
  BY <1>1, <1>2, NoPageZero DEF WalkDone
<1>5. DonePages = {q \in AllPages : q[1] \in visited \/ (q[1] = task.cid /\ q[2] <= offset)}
  BY <1>1, SavedDone DEF WalkDone
<1>6. CASE offset >= Len(Pages[task.cid])
  <2>1. ASSUME NEW q \in AllPages, q[1] = task.cid PROVE q[2] <= offset
    BY <1>1, <1>6, <2>1, PageParts
  <2>2. QED
    BY <1>4, <1>5, <2>1
<1>7. CASE ~(offset >= Len(Pages[task.cid]))
  <2>1. p \in withheld
    BY <1>1, <1>7 DEF EmptyPage, Shape, Fetched
  <2>2. offset + 1 \in 1..Len(Pages[task.cid])
    BY <1>1, <1>7
  <2>3. p \in Index!Frontier
    BY <1>1, <2>2, PageOnFrontier
  <2>4. p \in AllPages /\ p[1] = task.cid
    BY <1>1, <2>2 DEF AllPages
  <2>5. ASSUME NEW q \in AllPages, q[1] = task.cid PROVE q[2] <= offset \/ q = p
    BY <1>1, <1>3, <2>5, PageParts
  <2>6. WalkDone' = DonePages \cup {p}
    BY <1>1, <1>4, <1>5, <2>4, <2>5
  <2>7. QED
    BY <2>1, <2>3, <2>6
<1>8. QED
  BY <1>6, <1>7

\* The frontier depends on the pages done and the pages withheld only.
LEMMA SameFrontier ==
  ASSUME DonePages' = DonePages, UNCHANGED withheld
  PROVE  Index!Frontier' = Index!Frontier
  BY DEF Index!Frontier, Index!Listed

\* Every action keeps the walk at most one page ahead.
LEMMA AheadStep ==
  ASSUME DataOK, Shape, Offsets, Origins, AtMostOneAhead, Next PROVE AtMostOneAhead'
<1> USE DEF durable, position, perRun, history
<1>1. ASSUME UNCHANGED <<cp, withheld>>, pc' \in {"next", "page"} => pc \in {"next", "page"},
             pc' \in {"next", "page"} => WalkDone' = WalkDone
      PROVE  AtMostOneAhead'
  <2>1. DonePages' = DonePages
    BY <1>1 DEF DonePages, AllPages
  <2>2. Index!Frontier' = Index!Frontier
    BY <1>1, <2>1, SameFrontier
  <2>3. QED
    BY <1>1, <2>1, <2>2 DEF AtMostOneAhead
<1>2. CASE Start
  BY <1>2, StartDone DEF AtMostOneAhead
<1>3. CASE NextTask
  <2>1. UNCHANGED <<cp, withheld>> /\ pc = "next"
    BY <1>3 DEF NextTask
  <2>2. QED
    BY <1>1, <1>3, <2>1, NextTaskDone
<1>4. CASE EmptyPage
  <2>1. UNCHANGED <<cp, withheld>>
    BY <1>4 DEF EmptyPage
  <2>2. DonePages' = DonePages
    BY <2>1 DEF DonePages, AllPages
  <2>3. Index!Frontier' = Index!Frontier
    BY <2>1, <2>2, SameFrontier
  <2>4. QED
    BY <1>4, <2>1, <2>2, <2>3, EmptyPageDone DEF AtMostOneAhead
<1>5. CASE EndPage
  BY <1>5, EndPageDone DEF AtMostOneAhead
<1>6. ASSUME pc' \notin {"next", "page"} PROVE AtMostOneAhead'
  BY <1>6 DEF AtMostOneAhead
<1>7. CASE \/ StartPage \/ ListPage \/ ListRetry \/ PassDedup \/ PersistMeta \/ UpsertFiles
           \/ SaveFinal \/ Return \/ Duplicate \/ Dead \/ PausedOut \/ Fail \/ Crash
  BY <1>6, <1>7 DEF StartPage, ListPage, ListRetry, PassDedup, PersistMeta, UpsertFiles,
     SaveFinal, Return, Duplicate, Dead, PausedOut, Fail, Crash, LeaveWith
<1>8. CASE Pause \/ Resume \/ Reactivate \/ Rename
  <2>1. UNCHANGED <<cp, withheld, pc, visited, task, offset>>
    BY <1>8 DEF Pause, Resume, Reactivate, Rename
  <2>2. WalkDone' = WalkDone
    BY <2>1 DEF WalkDone, AllPages
  <2>3. QED
    BY <1>1, <2>1, <2>2
<1>9. QED
  BY <1>2, <1>3, <1>4, <1>5, <1>7, <1>8 DEF Next, CrawlStep, Environment

-----------------------------------------------------------------------------
\* Every step is a step of the abstract index, or none

\* Every action keeps the withheld pages pages of the share.
LEMMA WithheldStep ==
  ASSUME DataOK, WithheldPages, Next PROVE WithheldPages'
<1>1. AllPages' = AllPages
  BY DEF AllPages
<1>2. CASE ListPage
  <2>1. task \in Tasks /\ task.cid \in Dirs /\ offset \in Nat /\ Len(Pages[task.cid]) \in Nat
    BY <1>2, TreeAssumption DEF DataOK, ListPage, Tasks
  <2>2. CASE withheld' \subseteq withheld
    BY <1>1, <2>2 DEF WithheldPages
  <2>3. CASE ~(withheld' \subseteq withheld)
    <3>1. /\ withheld' = withheld \cup {<<task.cid, offset + 1>>}
          /\ ~(offset >= Len(Pages[task.cid]))
      BY <1>2, <2>3 DEF ListPage
    <3>2. <<task.cid, offset + 1>> \in AllPages
      BY <2>1, <3>1 DEF AllPages
    <3>3. QED
      BY <1>1, <3>1, <3>2 DEF WithheldPages
  <2>4. QED
    BY <2>2, <2>3
<1>3. CASE ~ListPage
  <2>1. UNCHANGED withheld
    BY <1>3 DEF Next, CrawlStep, Environment, Start, NextTask, StartPage, ListRetry,
       PassDedup, PersistMeta, EmptyPage, UpsertFiles, EndPage, SaveFinal, Return,
       Duplicate, Dead, PausedOut, Fail, Crash, Pause, Resume, Reactivate, Rename, history
  <2>2. QED
    BY <1>1, <2>1 DEF WithheldPages
<1>4. QED
  BY <1>2, <1>3

\* A step that keeps the four abstract variables is a stuttering step.
LEMMA Stutters ==
  ASSUME UNCHANGED <<rows, withheld>>, DonePages' = DonePages,
         (result' = "done") <=> (result = "done")
  PROVE  UNCHANGED Index!svars
  BY DEF Index!svars

\* The walk's position is saved: at most the withheld page it is ahead by.
LEMMA SaveMaps ==
  ASSUME AtMostOneAhead, pc \in {"next", "page"}, DonePages' = WalkDone,
         UNCHANGED <<rows, withheld, result>>
  PROVE  [Index!SNext]_(Index!svars)
<1>1. CASE WalkDone = DonePages
  BY <1>1, Stutters
<1>2. CASE WalkDone # DonePages
  <2>1. PICK p \in withheld : p \in Index!Frontier /\ WalkDone = DonePages \cup {p}
    BY <1>2 DEF AtMostOneAhead
  <2>2. Index!Commit(p)
    BY <2>1 DEF Index!Commit
  <2>3. QED
    BY <2>1, <2>2 DEF Index!SNext
<1>3. QED
  BY <1>1, <1>2

\* The page read is saved as done.
LEMMA EndPageMaps ==
  ASSUME DataOK, Shape, Depths, Origins, EndPage PROVE [Index!SNext]_(Index!svars)
<1> DEFINE p == <<task.cid, offset + 1>>
<1>1. /\ task \in Tasks /\ task.cid \in Dirs /\ offset \in Nat
      /\ Len(Pages[task.cid]) \in Nat /\ pc \in Saved /\ pc = "commit"
      /\ UNCHANGED <<rows, withheld, result>>
  BY TreeAssumption DEF DataOK, EndPage, Tasks, Saved, history
<1>2. p[1] = task.cid /\ p[2] = offset + 1
  OBVIOUS
<1>3. DonePages' = DonePages \cup ({p} \cap AllPages)
  BY EndPageDone
<1>4. CASE p \notin AllPages
  BY <1>1, <1>3, <1>4, Stutters
<1>5. CASE p \in AllPages
  <2>1. offset + 1 \in 1..Len(Pages[task.cid])
    BY <1>2, <1>5, PageParts
  <2>2. p \in Index!Frontier
    BY <1>1, <2>1, PageOnFrontier
  <2>3. p \in withheld \/ TreeRows(p[1], p[2]) \subseteq rows
    <3>1. CASE served
      <4>1. RowsOfPage(task, offset + 1) \subseteq rows
        BY <1>1, <3>1 DEF Shape
      <4>2. task.depth = Level[task.cid]
        BY <1>1 DEF Depths, DepthOK
      <4>3. QED
        BY <1>1, <1>2, <4>1, <4>2, RowsOfTask
    <3>2. CASE ~served
      BY <1>1, <2>1, <3>2 DEF Shape, Fetched
    <3>3. QED
      BY <3>1, <3>2
  <2>4. DonePages' = DonePages \cup {p}
    BY <1>3, <1>5
  <2>5. Index!Commit(p)
    BY <1>1, <2>2, <2>3, <2>4 DEF Index!Commit
  <2>6. QED
    BY <2>2, <2>5 DEF Index!SNext
<1>6. QED
  BY <1>4, <1>5

\* The server answers for a page of the frontier, or for a page past the end.
LEMMA ListPageMaps ==
  ASSUME DataOK, Shape, Origins, WithheldPages, ListPage
  PROVE  [Index!SNext]_(Index!svars)
<1> DEFINE p == <<task.cid, offset + 1>>
<1>1. /\ task \in Tasks /\ task.cid \in Dirs /\ offset \in Nat
      /\ Len(Pages[task.cid]) \in Nat /\ pc \in Saved
      /\ UNCHANGED <<rows, cp, result>>
  BY TreeAssumption DEF DataOK, ListPage, Tasks, Saved, durable
<1>2. p[1] = task.cid /\ p[2] = offset + 1
  OBVIOUS
<1>3. DonePages' = DonePages
  BY <1>1 DEF DonePages, AllPages
<1>4. CASE p \notin AllPages
  <2>1. offset >= Len(Pages[task.cid])
    BY <1>1, <1>4 DEF AllPages
  <2>2. withheld' = withheld \ {p}
    BY <2>1 DEF ListPage
  <2>3. withheld' = withheld
    BY <1>4, <2>2 DEF WithheldPages
  <2>4. QED
    BY <1>1, <1>3, <2>3, Stutters
<1>5. CASE p \in AllPages
  <2>1. offset + 1 \in 1..Len(Pages[task.cid])
    BY <1>2, <1>5, PageParts
  <2>2. p \in Index!Frontier
    BY <1>1, <2>1, PageOnFrontier
  <2>3. withheld' \in {withheld \cup {p}, withheld \ {p}}
    BY DEF ListPage
  <2>4. Index!Ask(p)
    BY <1>1, <1>3, <2>2, <2>3 DEF Index!Ask
  <2>5. QED
    BY <2>2, <2>4 DEF Index!SNext
<1>6. QED
  BY <1>4, <1>5

\* The rows of the page read are written.
LEMMA UpsertMaps ==
  ASSUME DataOK, Shape, Depths, Origins, UpsertFiles
  PROVE  [Index!SNext]_(Index!svars)
<1> DEFINE p == <<task.cid, offset + 1>>
<1>1. /\ task \in Tasks /\ task.cid \in Dirs /\ offset \in Nat
      /\ pc \in Saved /\ pc = "index" /\ pc \in Fetched
      /\ UNCHANGED <<withheld, cp, result>>
  BY DEF DataOK, UpsertFiles, Tasks, Saved, Fetched, history
<1>2. p[1] = task.cid /\ p[2] = offset + 1
  OBVIOUS
<1>3. DonePages' = DonePages
  BY <1>1 DEF DonePages, AllPages
<1>4. CASE ~served
  <2>1. rows' = rows
    BY <1>4 DEF UpsertFiles
  <2>2. QED
    BY <1>1, <1>3, <2>1, Stutters
<1>5. CASE served
  <2>1. offset + 1 \in 1..Len(Pages[task.cid])
    BY <1>1, <1>5 DEF DataOK
  <2>2. p \in Index!Frontier
    BY <1>1, <2>1, PageOnFrontier
  <2>3. p \notin withheld
    BY <1>1, <1>5 DEF Shape
  <2>4. task.depth = Level[task.cid]
    BY <1>1 DEF Depths, DepthOK
  <2>5. rows' = rows \cup TreeRows(p[1], p[2])
    BY <1>1, <1>2, <1>5, <2>4, RowsOfTask DEF UpsertFiles
  <2>6. Index!Write(p)
    BY <1>1, <1>3, <2>2, <2>3, <2>5 DEF Index!Write
  <2>7. QED
    BY <2>2, <2>6 DEF Index!SNext
<1>6. QED
  BY <1>4, <1>5

\* A walk with nothing left has emptied the frontier: every folder with an
\* origin is visited.
LEMMA NothingLeft ==
  ASSUME CpCovers, Finished, pc = "return" PROVE Index!Frontier = {}
<1>1. /\ cp # NoCheckpoint /\ cp.queue = << >> /\ cp.cid = Root /\ Root \in cp.visited
  BY DEF Finished
<1>2. Known(cp.visited, cp.queue, cp.cid) = cp.visited
  BY <1>1 DEF Known, Cids
<1>3. Covers(rows, withheld, cp.visited, cp.visited, Root, cp.offset)
  BY <1>1, <1>2 DEF CpCovers
<1>4. SUFFICES ASSUME NEW p \in AllPages, p \notin DonePages, p[1] # Root,
                      NEW q \in DonePages, q \notin withheld,
                      p[1] \in Index!Listed(q[1], q[2])
               PROVE  FALSE
  BY <1>1 DEF Index!Frontier, AllPages, DonePages
<1>5. q \in AllPages /\ q[1] \in cp.visited
  BY <1>1 DEF DonePages
<1>6. q[2] \in 1..Len(Pages[q[1]]) /\ <<q[1], q[2]>> \notin withheld
  BY <1>4, <1>5, PageParts
<1>7. RangeOf(Pages[q[1]][q[2]].dirs) \subseteq cp.visited
  BY <1>3, <1>5, <1>6 DEF Covers, PageOK
<1>8. p[1] \in cp.visited
  BY <1>4, <1>7, ListedIsRange
<1>9. QED
  BY <1>4, <1>8 DEF DonePages

\* The steps that change none of what the index shows.
LEMMA QuietMaps ==
  ASSUME UNCHANGED <<rows, cp, withheld>>, (result' = "done") <=> (result = "done")
  PROVE  UNCHANGED Index!svars
<1>1. DonePages' = DonePages
  BY DEF DonePages, AllPages
<1>2. QED
  BY <1>1, Stutters

\* One case per action of the walk.
LEMMA NextMaps ==
  ASSUME DataOK, Shape, Depths, CpCovers, Finished, Origins, AtMostOneAhead,
         WithheldPages, Next
  PROVE  [Index!SNext]_(Index!svars)
<1> USE DEF durable, position, perRun, history
<1>1. CASE StartPage
  <2>1. /\ cp' = Checkpoint(task, offset, queue, visited) /\ pc = "page"
        /\ UNCHANGED <<rows, withheld, result>>
    BY <1>1 DEF StartPage
  <2>2. QED
    BY <2>1, CheckpointDone, SaveMaps
<1>2. CASE SaveFinal
  <2>1. pc = "next" /\ UNCHANGED <<rows, withheld, result>>
    BY <1>2 DEF SaveFinal
  <2>2. QED
    BY <1>2, <2>1, SaveFinalDone, SaveMaps
<1>3. CASE EndPage
  BY <1>3, EndPageMaps
<1>4. CASE ListPage
  BY <1>4, ListPageMaps
<1>5. CASE UpsertFiles
  BY <1>5, UpsertMaps
<1>6. CASE Return
  <2>1. UNCHANGED <<rows, cp, withheld>> /\ result' = "done" /\ pc = "return"
    BY <1>6 DEF Return, LeaveWith
  <2>2. DonePages' = DonePages
    BY <2>1 DEF DonePages, AllPages
  <2>3. Index!Declare
    BY <2>1, <2>2, NothingLeft DEF Index!Declare
  <2>4. QED
    BY <2>3 DEF Index!SNext
<1>7. CASE Reactivate
  <2>1. UNCHANGED <<rows, cp, withheld>> /\ result' # "done"
    BY <1>7 DEF Reactivate
  <2>2. DonePages' = DonePages
    BY <2>1 DEF DonePages, AllPages
  <2>3. Index!Reopen
    BY <2>1, <2>2 DEF Index!Reopen
  <2>4. QED
    BY <2>3 DEF Index!SNext
<1>8. CASE Duplicate \/ Dead \/ PausedOut \/ Fail \/ Crash
  <2>1. UNCHANGED <<rows, cp, withheld>> /\ result' # "done" /\ pc # "idle"
    BY <1>8 DEF Duplicate, Dead, PausedOut, Fail, Crash, LeaveWith
  <2>2. result # "done"
    BY <2>1 DEF Shape
  <2>3. QED
    BY <2>1, <2>2, QuietMaps
<1>9. CASE \/ Start \/ NextTask \/ ListRetry \/ PassDedup \/ PersistMeta \/ EmptyPage
           \/ Pause \/ Resume \/ Rename
  <2>1. UNCHANGED <<rows, cp, withheld, result>>
    BY <1>9 DEF Start, NextTask, ListRetry, PassDedup, PersistMeta, EmptyPage,
       Pause, Resume, Rename
  <2>2. QED
    BY <2>1, QuietMaps
<1>10. QED
  BY <1>1, <1>2, <1>3, <1>4, <1>5, <1>6, <1>7, <1>8, <1>9
     DEF Next, CrawlStep, Environment

\* The initial states are initial states of the abstract index.
LEMMA InitMaps ==
  ASSUME Init PROVE Index!SInit /\ Origins /\ AtMostOneAhead /\ WithheldPages
<1>1. /\ cp.visited = {} /\ cp.cid = None /\ cp.queue = << >>
      /\ visited = {} /\ task.cid = None /\ queue = << >>
      /\ rows = {} /\ withheld = {} /\ result # "done" /\ pc = "idle"
  BY DEF Init, NoCheckpoint, NoTask, Task
<1>2. DonePages = {}
  BY <1>1, NoPageZero DEF DonePages
<1>3. Index!SInit
  BY <1>1, <1>2 DEF Index!SInit
<1>4. Origins
  BY <1>1 DEF Origins, Known, Cids
<1>5. QED
  BY <1>1, <1>3, <1>4 DEF AtMostOneAhead, WithheldPages

\* CrawlShare, with all its crashes, failures, pauses and resumes, does no more
\* than bring pages into the index one by one, each after the page before it
\* and after the page that lists its folder, and it declares the share crawled
\* only when no page is left.
THEOREM Refinement == Spec => ImplementsShareIndex
<1>1. ASSUME Origins, AtMostOneAhead, WithheldPages, UNCHANGED vars
      PROVE  /\ Origins' /\ AtMostOneAhead' /\ WithheldPages'
             /\ UNCHANGED Index!svars
  <2>1. UNCHANGED <<rows, cp, withheld, result, visited, queue, task, offset, pc>>
    BY <1>1 DEF vars, durable, position, history
  <2>2. DonePages' = DonePages /\ WalkDone' = WalkDone /\ AllPages' = AllPages
    BY <2>1 DEF DonePages, WalkDone, AllPages
  <2>3. Index!Frontier' = Index!Frontier
    BY <2>1, <2>2, SameFrontier
  <2>4. Origins'
    BY <1>1, <2>1, <2>2 DEF Origins, Origin, Index!Listed
  <2>5. QED
    BY <1>1, <2>1, <2>2, <2>3, <2>4, QuietMaps DEF AtMostOneAhead, WithheldPages
<1>2. ASSUME IInv, Origins, AtMostOneAhead, WithheldPages, Next
      PROVE  /\ Origins' /\ AtMostOneAhead' /\ WithheldPages'
             /\ [Index!SNext]_(Index!svars)
  BY <1>2, OriginsStep, AheadStep, WithheldStep, NextMaps DEF IInv, TypeOK
<1>3. QED
  BY <1>1, <1>2, InitMaps, Inductive, PTL DEF Spec, ImplementsShareIndex, Index!SSpec

=============================================================================
