---------------------------- MODULE SizeDedupProofs ----------------------------
(***************************************************************************)
(* Proofs about SizeDedup for every finite set of shares, every sizing,    *)
(* number of pages, threshold and bound.                                   *)
(*                                                                         *)
(* The argument for the last copy of a size: while anybody is about to     *)
(* mark a share of that size, the crawl or the command, there is a share   *)
(* that neither will mark, and it is crawled, or older than all they will. *)
(* Whoever looks at the group then finds that share or an older one. For   *)
(* the files: a run and a checkpoint count no page that is not indexed,    *)
(* but of shares whose files went while they did.                          *)
(***************************************************************************)
EXTENDS SizeDedup, SequenceTheorems, FiniteSetTheorems, FunctionTheorems, WellFoundedInduction, TLAPS

\* The call in hand, and what the cycle has still to do.
Shape ==
  /\ cur = None <=> pc \in {"idle", "batch"}
  /\ batch = <<>> => pc # "batch"
  /\ pc \in {"check", "meta", "index", "save"} => pos < Pages
  /\ outcome = "ok" => pos = Pages
  /\ pc \notin {"purge", "purging", "verdict"} => outcome = "none"
  /\ pc \in {"check", "duplicate"} => firstPage

\* A cycle takes each share once.
Once ==
  /\ \A i, j \in DOMAIN batch : batch[i] = batch[j] => i = j
  /\ cur \notin ToSet(batch)

\* Ids are unique, and recorded sizes are true.
Rows ==
  /\ \A s \in Shares : share[s].id < nextId \/ ~Registered(s)
  /\ \A s, t \in Shares : Registered(s) /\ Registered(t) /\ share[s].id = share[t].id => s = t
  /\ \A s \in Shares : share[s].size \in {0, size[s]}

\* A run's shares are registered, but for those deleted under it: a purge only
\* meets such a one.
CutInRun ==
  /\ \A s \in Shares : InRun(s) /\ ~Registered(s) => s \in holed
  /\ pc = "purging" => cur \in holed

\* The pages that a checkpoint and the run count as done are in the index.
CheckpointBacked ==
  \A s \in Shares \ holed : 1..ResumePoint(cp[s]) \subseteq files[s]

RunBacked ==
  cur # None /\ cur \notin holed =>
    /\ 1..pos \subseteq files[cur]
    /\ pc = "save" => pos + 1 \in files[cur]

\* A completed share has a checkpoint, and so has a share about to be.
CompletedSaved ==
  /\ \A s \in Shares \ holed : share[s].status = "COMPLETED" => cp[s] # NoCheckpoint
  /\ cur \notin holed /\ outcome = "ok" => cp[cur] # NoCheckpoint

\* Before the first answer of a run nothing is written.
FirstPageClean ==
  (pc = "page" /\ firstPage) \/ pc \in {"check", "duplicate"} => files[cur] \subseteq before

\* Whoever is to be marked has a share of its size to be marked with.
Planned ==
  /\ pc = "duplicate" => found \in SameSize(cur) \ {cur} /\ size[cur] >= MinSize
  /\ \A a \in plan : a[2] \in SameSize(a[1]) \ {a[1]} /\ size[a[1]] >= MinSize
  /\ \A a, b \in plan : a[1] = b[1] => a = b
  /\ command \in {"off", "done"} => plan = {}

\* Left alone, the command has one of every two shares of a size in its plan.
PlanComplete ==
  alone /\ command # "off" =>
    \A s, t \in Shares :
      /\ s # t /\ Crawlable(s) /\ Crawlable(t)
      /\ share[s].size >= MinSize /\ share[s].size = share[t].size
      => \E a \in plan : a[1] \in {s, t}

\* Registered, and neither crawled nor dead.
Standing(s) == Crawlable(s) \/ Duplicate(s)

\* The sizes in touched are those of which a share was deleted or has died.
Untouched ==
  /\ \A s \in Shares : ~Registered(s) => size[s] \in touched
  /\ \A s \in Shares : InRun(s) /\ size[s] \notin touched => Standing(s)

\* The command, or the crawl, is about to mark s.
Losing(s) == \E a \in plan : a[1] = s
Found(s)  == pc = "duplicate" /\ s = cur

\* t keeps the size n: nobody is to mark it, nor will, since it is crawled, or
\* older than all that are to be marked.
Keeps(t, n) ==
  /\ size[t] = n /\ Registered(t) /\ ~Duplicate(t) /\ ~Losing(t) /\ ~Found(t)
  /\ Crawlable(t) => \A s \in Shares : size[s] = n =>
       /\ Losing(s) => share[t].size = n /\ (Standing(s) => Older(t, s))
       /\ Found(s)  => share[t].size = n /\ (s \in SizeGroup(n) => Older(t, s))

\* Where a share of some size is marked or to be marked, another keeps the size.
Keeper ==
  \A s \in Shares : size[s] \notin touched /\ (Duplicate(s) \/ Losing(s) \/ Found(s)) =>
    \E t \in Shares : Keeps(t, size[s])

\* The inductive invariant.
IInv ==
  /\ TypeOK /\ Shape /\ Once /\ Rows
  /\ CutInRun /\ CheckpointBacked /\ RunBacked /\ CompletedSaved /\ HolesHaveCauses
  /\ FirstPageClean /\ Planned /\ DuplicateOfItsSize /\ PlanComplete
  /\ Untouched /\ Keeper
-----------------------------------------------------------------------------
\* What SizeDedup's operators return

\* Every set of numbers has a least one.
LEMMA NatMin ==
  ASSUME NEW S \in SUBSET Nat, S # {}
  PROVE  \E n \in S : \A m \in S : n <= m
<1> DEFINE R == { p \in Nat \X Nat : p[1] < p[2] }
<1>1. IsWellFoundedOn(R, Nat)
  BY NatLessThanWellFounded DEF OpToRel
<1>2. \A x, y \in Nat : x < y => <<x, y>> \in R
  OBVIOUS
<1> HIDE DEF R
<1>3. PICK n \in S : \A y \in S : ~ (<<y, n>> \in R)
  BY <1>1, WFMin
<1>4. ASSUME NEW m \in S PROVE n <= m
  <2>1. m \in Nat /\ n \in Nat
    OBVIOUS
  <2>2. ~ (<<m, n>> \in R)
    BY <1>3
  <2>3. ~ (m < n)
    BY <1>2, <2>1, <2>2
  <2>4. QED
    BY <2>1, <2>3
<1>5. QED
  BY <1>4

\* The oldest of a group is one of it, and older than the others.
LEMMA OldestOfGroup ==
  ASSUME TablesOK, Rows, NEW S \in SUBSET Shares, S # {}, \A s \in S : Registered(s)
  PROVE  Oldest(S) \in S /\ \A t \in S \ {Oldest(S)} : Older(Oldest(S), t)
<1>1. \A s \in S : share[s].crawled \in Nat /\ share[s].id \in Nat
  BY DEF TablesOK, Row
<1> DEFINE C == { share[s].crawled : s \in S }
<1>2. PICK c \in C : \A d \in C : c <= d
  <2>1. C \in SUBSET Nat /\ C # {}
    BY <1>1
  <2> HIDE DEF C
  <2>2. QED
    BY <2>1, NatMin
<1> DEFINE T == { s \in S : share[s].crawled = c }
<1> DEFINE I == { share[s].id : s \in T }
<1>3. PICK i \in I : \A j \in I : i <= j
  <2>1. I \in SUBSET Nat /\ I # {}
    BY <1>1, <1>2
  <2> HIDE DEF I
  <2>2. QED
    BY <2>1, NatMin
<1>4. PICK s \in T : share[s].id = i
  BY <1>3
<1>5. ASSUME NEW t \in S \ {s} PROVE Older(s, t)
  <2>1. share[s].id # share[t].id
    BY DEF Rows
  <2>2. share[s].crawled = c /\ c <= share[t].crawled
    BY <1>2
  <2>3. share[t].crawled = c => share[s].id <= share[t].id
    BY <1>3, <1>4
  <2>4. QED
    BY <1>1, <2>1, <2>2, <2>3 DEF Older
<1>6. QED
  BY <1>5 DEF Oldest

\* Older is transitive.
LEMMA OlderTransitive ==
  ASSUME TablesOK, NEW s \in Shares, NEW t \in Shares, NEW u \in Shares, Older(s, t), Older(t, u)
  PROVE  Older(s, u)
<1>1. \A x \in Shares : share[x].crawled \in Nat /\ share[x].id \in Nat
  BY DEF TablesOK, Row
<1>2. QED
  BY <1>1 DEF Older

\* It orders two shares one way only.
LEMMA OlderAsymmetric ==
  ASSUME TablesOK, NEW s \in Shares, NEW t \in Shares, Older(s, t)
  PROVE  ~Older(t, s)
<1>1. \A x \in Shares : share[x].crawled \in Nat /\ share[x].id \in Nat
  BY DEF TablesOK, Row
<1>2. QED
  BY <1>1 DEF Older

\* A group above the threshold: all of one size on 115.
LEMMA GroupFacts ==
  ASSUME TablesOK, Rows, NEW n \in Nat, n >= MinSize, SizeGroup(n) # {}
  PROVE  /\ Oldest(SizeGroup(n)) \in SizeGroup(n)
         /\ \A t \in SizeGroup(n) \ {Oldest(SizeGroup(n))} : Older(Oldest(SizeGroup(n)), t)
         /\ \A t \in SizeGroup(n) : size[t] = n /\ Crawlable(t) /\ Registered(t)
<1>1. SizeGroup(n) \in SUBSET Shares /\ \A s \in SizeGroup(n) : Crawlable(s) /\ Registered(s)
  BY DEF SizeGroup, Crawlable, Registered
<1>2. n # 0
  BY BoundsAssumption
<1>3. \A t \in SizeGroup(n) : size[t] = n
  BY <1>2 DEF SizeGroup, Rows
<1>4. QED
  BY <1>1, <1>3, OldestOfGroup

\* What FindDuplicateShare names is another share of the size asked for.
LEMMA CanonicalFacts ==
  ASSUME TablesOK, Rows, NEW s \in Shares, NEW n \in Nat, Canonical(s, n) # None
  PROVE  /\ n >= MinSize /\ Canonical(s, n) = Oldest(SizeGroup(n))
         /\ Canonical(s, n) \in SizeGroup(n) \ {s}
         /\ \A t \in SizeGroup(n) \ {Canonical(s, n)} : Older(Canonical(s, n), t)
         /\ \A t \in SizeGroup(n) : size[t] = n /\ Crawlable(t) /\ Registered(t)
<1>1. /\ n >= MinSize /\ SizeGroup(n) # {} /\ Canonical(s, n) = Oldest(SizeGroup(n))
      /\ Oldest(SizeGroup(n)) # s
  BY DEF Canonical
<1>2. QED
  BY <1>1, GroupFacts

\* The scan plans all but the oldest of a group, one pair for each.
LEMMA PlanFacts ==
  ASSUME TablesOK, Rows
  PROVE  /\ \A a \in DedupePlan : \E n \in Nat :
              /\ n >= MinSize /\ a[1] \in SizeGroup(n) /\ a[2] = Oldest(SizeGroup(n))
              /\ a[1] # a[2] /\ a = <<a[1], a[2]>>
         /\ \A n \in Nat : \A s \in SizeGroup(n) : n >= MinSize /\ s # Oldest(SizeGroup(n)) =>
              <<s, Oldest(SizeGroup(n))>> \in DedupePlan
<1>1. \A s \in Shares : share[s].size \in Nat
  BY DEF TablesOK, Row
<1>2. ASSUME NEW a \in DedupePlan
      PROVE  \E n \in Nat : /\ n >= MinSize /\ a[1] \in SizeGroup(n) /\ a[2] = Oldest(SizeGroup(n))
                            /\ a[1] # a[2] /\ a = <<a[1], a[2]>>
  <2>1. PICK n \in { share[s].size : s \in { t \in Shares : Crawlable(t) /\ share[t].size >= MinSize } } :
          a \in { <<s, Oldest(SizeGroup(n))>> : s \in Losers(SizeGroup(n)) }
    BY DEF DedupePlan
  <2>2. n \in Nat /\ n >= MinSize
    BY <1>1, <2>1
  <2>3. PICK s \in Losers(SizeGroup(n)) : a = <<s, Oldest(SizeGroup(n))>>
    BY <2>1
  <2>4. s \in SizeGroup(n) /\ s # Oldest(SizeGroup(n))
    BY DEF Losers
  <2>5. QED
    BY <2>2, <2>3, <2>4
<1>3. ASSUME NEW n \in Nat, NEW s \in SizeGroup(n), n >= MinSize, s # Oldest(SizeGroup(n))
      PROVE  <<s, Oldest(SizeGroup(n))>> \in DedupePlan
  <2>1. s \in Shares /\ Crawlable(s) /\ share[s].size = n
    BY DEF SizeGroup
  <2>2. n \in { share[t].size : t \in { t \in Shares : Crawlable(t) /\ share[t].size >= MinSize } }
    BY <1>3, <2>1
  <2>3. <<s, Oldest(SizeGroup(n))>> \in { <<t, Oldest(SizeGroup(n))>> : t \in Losers(SizeGroup(n)) }
    BY <1>3 DEF Losers
  <2>4. QED
    BY <2>2, <2>3 DEF DedupePlan
<1>4. QED
  BY <1>2, <1>3

-----------------------------------------------------------------------------
\* The share table, step by step

\* The row an UPSERT of s changes: its own, or a new one.
Base(s) == IF Registered(s) THEN share[s] ELSE NewRow

\* What a step may make of the row of share s.
RowStep(s, row) ==
  \/ /\ (UpdateShareMeta /\ s = cur) \/ (Operator /\ BackfillShareMeta(s))
     /\ row = [Base(s) EXCEPT !.size = size[s]] /\ nextId' = IdAfter(s)
  \/ /\ MarkShareDuplicate /\ s = cur /\ Registered(s) /\ nextId' = nextId
     /\ row = [share[s] EXCEPT !.status = "DUPLICATE", !.duplicate_of = found]
  \/ /\ Dedupe /\ DedupeMark /\ Registered(s) /\ nextId' = nextId
     /\ \E a \in plan : /\ s = a[1] /\ plan' = plan \ {a}
                        /\ row = [share[s] EXCEPT !.status = "DUPLICATE", !.duplicate_of = a[2]]
  \/ /\ Verdict /\ s = cur /\ Registered(s) /\ nextId' = nextId
     /\ \/ outcome = "ok" /\ row = [share[s] EXCEPT !.status = "COMPLETED", !.crawled = cycle]
        \/ outcome = "dead" /\ row = [share[s] EXCEPT !.status = "DEAD"]
        \/ outcome \notin {"ok", "dead"} /\ row = [share[s] EXCEPT !.status = "STALE"]
  \/ /\ Operator /\ UpsertShare(s) /\ nextId' = IdAfter(s)
     /\ row = [Base(s) EXCEPT !.status = "ACTIVE", !.crawled = 0]
  \/ /\ Operator /\ ReactivateShare(s) /\ nextId' = nextId
     /\ row = [share[s] EXCEPT !.status = "ACTIVE", !.duplicate_of = None]
  \/ DeleteShare(s) /\ nextId' = nextId /\ row = Absent

\* A step that leaves the table alone.
ShareIdle ==
  \/ ListSharesForCrawl \/ TakeShare \/ ListPage \/ ListPageError \/ FindDuplicateShare
  \/ UpsertFiles \/ EndPage \/ SaveFinal \/ PurgeIfOrphan \/ PurgeRows \/ Crash
  \/ DedupeScan \/ DedupeDelete \/ DedupeDone \/ DedupeExit \/ DeleteOrphans
  \/ UNCHANGED vars

LEMMA ShareIdleSame == ShareIdle => UNCHANGED <<share, nextId>>
BY DEF ShareIdle, ListSharesForCrawl, TakeShare, ListPage, ListPageError,
       FindDuplicateShare, UpsertFiles, EndPage, SaveFinal, PurgeIfOrphan, PurgeRows,
       Crash, DedupeScan, DedupeDelete, DedupeDone, DedupeExit, DeleteOrphans,
       vars, database

\* The row of a share that is not there yet is one of the table's.
LEMMA BaseRow ==
  ASSUME TablesOK, NEW s \in Shares
  PROVE  Base(s) \in Row
<1>1. 0 \in 0..MaxCycles
  BY BoundsAssumption
<1>2. Absent \in Row
  BY <1>1 DEF Absent, Row
<1>3. nextId \in Nat /\ share[s] \in Row
  BY DEF TablesOK
<1>4. NewRow \in Row
  BY <1>2, <1>3 DEF NewRow, Row
<1>5. QED
  BY <1>3, <1>4 DEF Base

\* UPDATE ... WHERE share_code = s.
LEMMA UpdateRow ==
  ASSUME NEW s \in Shares, NEW row
  PROVE  \/ Update(s, row) = share
         \/ Registered(s) /\ Update(s, row) = [share EXCEPT ![s] = row]
BY DEF Update

\* A share is changed in one of those ways, or none is.
LEMMA RowSteps ==
  ASSUME TypeOK, Shape, [Next]_vars
  PROVE  \/ UNCHANGED <<share, nextId>>
         \/ \E s \in Shares, row \in Row :
              share' = [share EXCEPT ![s] = row] /\ RowStep(s, row)
<1> USE DEF TypeOK, TablesOK
<1>0. /\ \A s \in Shares : share[s] \in Row /\ Base(s) \in Row /\ size[s] \in Nat
      /\ share \in [Shares -> Row]
  BY BaseRow, BoundsAssumption
<1>1. CASE ShareIdle
  BY <1>1, ShareIdleSame
<1>2. CASE MarkShareDuplicate
  <2>1. cur \in Shares
    BY <1>2 DEF MarkShareDuplicate, Shape, RunOK
  <2> DEFINE row == [share[cur] EXCEPT !.status = "DUPLICATE", !.duplicate_of = found]
  <2>2. row \in Row
    BY <1>0, <2>1 DEF Row, RunOK
  <2>3. share' = Update(cur, row) /\ nextId' = nextId
    BY <1>2 DEF MarkShareDuplicate
  <2>4. Registered(cur) => RowStep(cur, row)
    BY <1>2, <2>3 DEF RowStep
  <2> HIDE DEF row
  <2>5. QED
    BY <2>1, <2>2, <2>3, <2>4, UpdateRow
<1>3. CASE UpdateShareMeta
  <2>1. cur \in Shares
    BY <1>3 DEF UpdateShareMeta, Shape, RunOK
  <2>2. CASE cur \in known
    BY <1>3, <2>2 DEF UpdateShareMeta
  <2>3. CASE cur \notin known
    <3> DEFINE row == [Base(cur) EXCEPT !.size = size[cur]]
    <3>1. row \in Row
      BY <1>0, <2>1 DEF Row
    <3>2. share' = [share EXCEPT ![cur] = row] /\ nextId' = IdAfter(cur)
      BY <1>3, <2>3 DEF UpdateShareMeta, RecordMeta, Base
    <3>3. RowStep(cur, row)
      BY <1>3, <3>2 DEF RowStep
    <3> HIDE DEF row
    <3>4. QED
      BY <2>1, <3>1, <3>2, <3>3
  <2>4. QED
    BY <2>2, <2>3
<1>4. CASE Verdict
  <2>1. cur \in Shares
    BY <1>4 DEF Verdict, Shape, RunOK
  <2> DEFINE row == CASE outcome = "ok"   -> [share[cur] EXCEPT !.status = "COMPLETED", !.crawled = cycle]
                      [] outcome = "dead" -> [share[cur] EXCEPT !.status = "DEAD"]
                      [] OTHER            -> [share[cur] EXCEPT !.status = "STALE"]
  <2>2. row \in Row
    BY <1>0, <2>1 DEF Row, RunOK
  <2>3. share' = Update(cur, row) /\ nextId' = nextId
    BY <1>4 DEF Verdict
  <2>4. Registered(cur) => RowStep(cur, row)
    BY <1>4, <2>3 DEF RowStep
  <2> HIDE DEF row
  <2>5. QED
    BY <2>1, <2>2, <2>3, <2>4, UpdateRow
<1>5. CASE Dedupe /\ DedupeMark
  <2>1. PICK a \in plan :
          /\ share' = Update(a[1], [share[a[1]] EXCEPT !.status = "DUPLICATE", !.duplicate_of = a[2]])
          /\ plan' = plan \ {a}
    BY <1>5 DEF DedupeMark
  <2>2. a[1] \in Shares /\ a[2] \in Shares /\ nextId' = nextId
    BY <1>5 DEF CommandOK, DedupeMark
  <2> DEFINE row == [share[a[1]] EXCEPT !.status = "DUPLICATE", !.duplicate_of = a[2]]
  <2>3. row \in Row
    BY <1>0, <2>2 DEF Row
  <2>4. Registered(a[1]) => RowStep(a[1], row)
    BY <1>5, <2>1, <2>2 DEF RowStep
  <2>5. share' = Update(a[1], row)
    BY <2>1
  <2> HIDE DEF row
  <2>6. QED
    BY <2>2, <2>3, <2>4, <2>5, UpdateRow
<1>6. ASSUME Operator, NEW s \in Shares, UpsertShare(s)
      PROVE  \E row \in Row : share' = [share EXCEPT ![s] = row] /\ RowStep(s, row)
  <2> DEFINE row == [Base(s) EXCEPT !.status = "ACTIVE", !.crawled = 0]
  <2>1. row \in Row
    <3>1. Base(s) \in Row /\ 0 \in 0..MaxCycles
      BY <1>0, BoundsAssumption
    <3>2. QED
      BY <3>1 DEF Row
  <2>2. share' = [share EXCEPT ![s] = row] /\ RowStep(s, row)
    BY <1>6 DEF UpsertShare, Base, RowStep
  <2>3. QED
    BY <2>1, <2>2
<1>7. ASSUME Operator, NEW s \in Shares, BackfillShareMeta(s)
      PROVE  \E row \in Row : share' = [share EXCEPT ![s] = row] /\ RowStep(s, row)
  <2> DEFINE row == [Base(s) EXCEPT !.size = size[s]]
  <2>1. row \in Row
    BY <1>0 DEF Row
  <2>2. share' = [share EXCEPT ![s] = row] /\ RowStep(s, row)
    BY <1>7 DEF BackfillShareMeta, RecordMeta, Base, RowStep
  <2>3. QED
    BY <2>1, <2>2
<1>8. ASSUME Operator, NEW s \in Shares, ReactivateShare(s)
      PROVE  \E row \in Row : share' = [share EXCEPT ![s] = row] /\ RowStep(s, row)
  <2> DEFINE row == [share[s] EXCEPT !.status = "ACTIVE", !.duplicate_of = None]
  <2>1. row \in Row
    BY <1>0 DEF Row
  <2>2. share' = [share EXCEPT ![s] = row]
    BY <1>0, <1>8 DEF ReactivateShare
  <2>3. RowStep(s, row)
    BY <1>8 DEF ReactivateShare, RowStep
  <2>4. QED
    BY <2>1, <2>2, <2>3
<1>9. ASSUME Operator, NEW s \in Shares, DeleteShare(s)
      PROVE  \E row \in Row : share' = [share EXCEPT ![s] = row] /\ RowStep(s, row)
  <2>1. Absent \in Row
    BY BoundsAssumption DEF Row, Absent
  <2>2. share' = [share EXCEPT ![s] = Absent] /\ RowStep(s, Absent)
    BY <1>9 DEF DeleteShare, RowStep
  <2>3. QED
    BY <2>1, <2>2
<1>10. QED
  BY <1>1, <1>2, <1>3, <1>4, <1>5, <1>6, <1>7, <1>8, <1>9
     DEF Next, Daemon, Dedupe, Operator, ShareIdle

\* A row keeps its id, gets a new one, or goes; its size is the recorded one.
LEMMA RowIdentity ==
  ASSUME TablesOK, NEW s \in Shares, NEW row \in Row, RowStep(s, row)
  PROVE  /\ \/ Registered(s) /\ row.id = share[s].id /\ nextId' = nextId
            \/ ~Registered(s) /\ row.id = nextId /\ nextId' = nextId + 1
            \/ row.status = "none" /\ nextId' = nextId
         /\ row.size \in {0, size[s], share[s].size}
<1>1. share[s] \in Row /\ nextId \in Nat
  BY DEF TablesOK
<1>2. ASSUME row = [Base(s) EXCEPT !.size = size[s]] \/ row = [Base(s) EXCEPT !.status = "ACTIVE", !.crawled = 0],
             nextId' = IdAfter(s)
      PROVE  /\ \/ Registered(s) /\ row.id = share[s].id /\ nextId' = nextId
                \/ ~Registered(s) /\ row.id = nextId /\ nextId' = nextId + 1
             /\ row.size \in {0, size[s], share[s].size}
  <2>1. CASE Registered(s)
    BY <1>1, <1>2, <2>1 DEF Base, IdAfter, Row
  <2>2. CASE ~Registered(s)
    BY <1>2, <2>2 DEF Base, IdAfter, NewRow, Absent
  <2>3. QED
    BY <2>1, <2>2
<1>3. CASE row = Absent /\ nextId' = nextId
  BY <1>3 DEF Absent
<1>4. QED
  BY <1>1, <1>2, <1>3 DEF RowStep, Row, ReactivateShare

LEMMA RowsKept ==
  ASSUME TypeOK, Shape, Rows, [Next]_vars
  PROVE  Rows' /\ share' \in [Shares -> Row] /\ nextId' \in Nat /\ size' = size
<1> USE DEF TypeOK, TablesOK
<1>0. size' = size
  BY DEF Next, vars, Daemon, Dedupe, Operator
<1>1. CASE UNCHANGED <<share, nextId>>
  BY <1>0, <1>1 DEF Rows, Registered
<1>2. ASSUME NEW s \in Shares, NEW row \in Row, share' = [share EXCEPT ![s] = row], RowStep(s, row)
      PROVE  Rows' /\ share' \in [Shares -> Row] /\ nextId' \in Nat
  <2>1. /\ share' \in [Shares -> Row] /\ share'[s] = row
        /\ \A t \in Shares \ {s} : share'[t] = share[t]
    BY <1>2
  <2>2. /\ \/ Registered(s) /\ row.id = share[s].id /\ nextId' = nextId
           \/ ~Registered(s) /\ row.id = nextId /\ nextId' = nextId + 1
           \/ row.status = "none" /\ nextId' = nextId
        /\ row.size \in {0, size[s], share[s].size}
    BY <1>2, RowIdentity
  <2>3. nextId' \in Nat /\ nextId <= nextId'
    BY <2>2
  <2>4. \A t \in Shares : share'[t].id < nextId' \/ ~Registered(t)'
    <3>1. \A t \in Shares : share[t].id \in Nat
      BY DEF Row
    <3>2. QED
      BY <2>1, <2>2, <2>3, <3>1 DEF Rows, Registered
  <2>5. \A t, u \in Shares :
          Registered(t)' /\ Registered(u)' /\ share'[t].id = share'[u].id => t = u
    <3>1. \A t \in Shares : Registered(t) => share[t].id < nextId /\ share[t].id \in Nat
      BY DEF Rows, Row
    <3>2. \A t \in Shares \ {s} : Registered(t)' => Registered(t) /\ share'[t].id = share[t].id
      BY <2>1 DEF Registered
    <3>3. Registered(s)' => \A t \in Shares \ {s} : Registered(t) => share[t].id # row.id
      BY <2>1, <2>2, <3>1 DEF Registered, Rows
    <3>4. QED
      BY <2>1, <3>2, <3>3 DEF Rows
  <2>6. \A t \in Shares : share'[t].size \in {0, size'[t]}
    BY <1>0, <2>1, <2>2 DEF Rows
  <2>7. QED
    BY <2>1, <2>3, <2>4, <2>5, <2>6 DEF Rows
<1>3. QED
  BY <1>0, <1>1, <1>2, RowSteps

-----------------------------------------------------------------------------
\* The run and the command

\* A sorted list of shares names each once.
LEMMA NewBatch ==
  ASSUME NEW due \in SUBSET Shares, due # {}, NEW order \in Injection(1..Cardinality(due), due)
  PROVE  /\ order \in Seq(Shares) /\ order # <<>> /\ ToSet(order) \subseteq due
         /\ \A i, j \in DOMAIN order : order[i] = order[j] => i = j
<1>1. Cardinality(due) \in Nat /\ Cardinality(due) # 0
  BY BoundsAssumption, FS_Subset, FS_CardinalityType, FS_EmptySet
<1>2. order \in [1..Cardinality(due) -> due] /\ IsInjective(order)
  BY DEF Injection
<1>3. order \in Seq(due) /\ order # <<>>
  BY <1>1, <1>2
<1>4. QED
  BY <1>2, <1>3 DEF IsInjective, ToSet

\* The head of the list is taken off, and is not in the rest.
LEMMA TakeHead ==
  ASSUME batch \in Seq(Shares), batch # <<>>, batch' = Tail(batch),
         \A i, j \in DOMAIN batch : batch[i] = batch[j] => i = j
  PROVE  /\ Head(batch) \in Shares /\ Head(batch) \in ToSet(batch)
         /\ batch' \in Seq(Shares) /\ ToSet(batch') \subseteq ToSet(batch)
         /\ \A i, j \in DOMAIN batch' : batch'[i] = batch'[j] => i = j
         /\ Head(batch) \notin ToSet(batch')
<1>1. Len(batch) \in Nat /\ Len(batch) > 0 /\ DOMAIN batch = 1..Len(batch)
  BY EmptySeq
<1>2. /\ Head(batch) = batch[1] /\ 1 \in DOMAIN batch
      /\ batch' \in Seq(Shares) /\ Len(batch') = Len(batch) - 1
      /\ \A i \in 1..Len(batch') : batch'[i] = batch[i + 1]
  BY <1>1, HeadTailProperties
<1>3. DOMAIN batch' = 1..(Len(batch) - 1)
  BY <1>1, <1>2
<1>4. \A i \in DOMAIN batch' : i + 1 \in DOMAIN batch /\ i + 1 # 1 /\ batch'[i] = batch[i + 1]
  BY <1>1, <1>2, <1>3
<1>5. ToSet(batch') \subseteq ToSet(batch) /\ Head(batch) \in ToSet(batch)
  BY <1>2, <1>4 DEF ToSet
<1>6. Head(batch) \notin ToSet(batch')
  BY <1>2, <1>4 DEF ToSet
<1>7. ASSUME NEW i \in DOMAIN batch', NEW j \in DOMAIN batch', batch'[i] = batch'[j]
      PROVE  i = j
  <2>1. i + 1 = j + 1
    BY <1>4, <1>7
  <2>2. QED
    BY <1>1, <1>3, <2>1
<1>8. Head(batch) \in Shares
  BY <1>1, <1>2
<1>9. QED
  BY <1>2, <1>5, <1>6, <1>7, <1>8

\* The steps that leave the run alone.
RunIdle == Dedupe \/ Operator \/ UNCHANGED vars

LEMMA RunIdleSame == RunIdle => UNCHANGED <<pc, cycle, run>>
BY DEF RunIdle, Dedupe, Operator, vars

\* A run whose share is done with leaves nothing behind.
LEMMA NextShareKept ==
  ASSUME TypeOK, Shape, Once, NextShare, UNCHANGED cycle
  PROVE  RunOK' /\ Shape' /\ Once'
<1> USE DEF TypeOK, RunOK
<1>1. /\ cur' = None /\ pos' = 0 /\ found' = None /\ outcome' = "none" /\ before' = {}
      /\ batch' = batch /\ known' \subseteq Shares
      /\ pc' = IF batch = <<>> THEN "idle" ELSE "batch"
  BY DEF NextShare
<1>2. RunOK'
  BY <1>1, BoundsAssumption
<1>3. None \notin ToSet(batch)
  BY NoneAssumption DEF ToSet
<1>4. Shape' /\ Once'
  BY <1>1, <1>3 DEF Shape, Once
<1>5. QED
  BY <1>2, <1>4

\* The run keeps its shape, and takes each share once.
LEMMA RunKept ==
  ASSUME TypeOK, Shape, Once, Rows, [Next]_vars
  PROVE  RunOK' /\ Shape' /\ Once'
<1> USE DEF TypeOK
<1>0. MaxCycles \in Nat /\ Pages \in Nat /\ 0 \in 0..Pages /\ None \notin Shares
  BY BoundsAssumption, NoneAssumption
<1>1. CASE RunIdle
  BY <1>1, RunIdleSame DEF run, RunOK, Shape, Once
<1>2. CASE ListSharesForCrawl
  <2>1. PICK due \in SUBSET Shares :
          /\ due # {} /\ known' = { s \in due : share[s].size # 0 }
          /\ batch' \in Injection(1..Cardinality(due), due)
    BY <1>2 DEF ListSharesForCrawl
  <2>2. /\ batch' \in Seq(Shares) /\ batch' # <<>> /\ ToSet(batch') \subseteq Shares
        /\ \A i, j \in DOMAIN batch' : batch'[i] = batch'[j] => i = j
    BY <2>1, NewBatch
  <2>3. /\ pc = "idle" /\ pc' = "batch" /\ cycle' = cycle + 1 /\ cycle < MaxCycles
        /\ UNCHANGED <<cur, pos, firstPage, found, outcome, before>>
    BY <1>2 DEF ListSharesForCrawl
  <2>4. RunOK'
    BY <1>0, <2>1, <2>2, <2>3 DEF RunOK
  <2>5. Shape' /\ Once'
    BY <1>0, <2>2, <2>3 DEF Shape, Once
  <2>6. QED
    BY <2>4, <2>5
<1>3. CASE TakeShare
  <2>1. /\ pc = "batch" /\ pc' = "page" /\ cur' = Head(batch) /\ batch' = Tail(batch)
        /\ firstPage' = TRUE /\ before' = files[Head(batch)] /\ pos' = ResumePoint(cp[Head(batch)])
        /\ UNCHANGED <<cycle, known, found, outcome>>
    BY <1>3 DEF TakeShare
  <2>2. /\ Head(batch) \in Shares /\ batch' \in Seq(Shares) /\ Head(batch) \notin ToSet(batch')
        /\ \A i, j \in DOMAIN batch' : batch'[i] = batch'[j] => i = j
    BY <2>1, TakeHead DEF Shape, Once, RunOK
  <2>3. pos' \in 0..Pages
    BY <1>0, <2>1, <2>2 DEF TablesOK, ResumePoint, Saved, NoCheckpoint
  <2>4. before' \subseteq AllPages
    BY <2>1, <2>2 DEF TablesOK
  <2>5. RunOK'
    BY <2>1, <2>2, <2>3, <2>4 DEF RunOK
  <2>6. Shape' /\ Once'
    BY <1>0, <2>1, <2>2 DEF Shape, Once
  <2>7. QED
    BY <2>5, <2>6
<1>4. CASE ListPage \/ ListPageError \/ SaveFinal
  BY <1>0, <1>4 DEF ListPage, ListPageError, SaveFinal, run, RunOK, Shape, Once
<1>5. CASE FindDuplicateShare
  <2>1. cur \in Shares /\ size[cur] \in Nat
    BY <1>5, BoundsAssumption DEF FindDuplicateShare, Shape, RunOK, TablesOK
  <2>2. found' \in Shares \cup {None}
    BY <1>5, <2>1, CanonicalFacts DEF FindDuplicateShare, SizeGroup
  <2>3. QED
    BY <1>5, <2>2 DEF FindDuplicateShare, RunOK, Shape, Once
<1>6. CASE MarkShareDuplicate \/ Verdict
  BY <1>6, NextShareKept DEF MarkShareDuplicate, Verdict
<1>7. CASE UpdateShareMeta \/ UpsertFiles \/ PurgeIfOrphan \/ PurgeRows
  BY <1>0, <1>7 DEF UpdateShareMeta, UpsertFiles, PurgeIfOrphan, PurgeRows, run, RunOK, Shape, Once
<1>8. CASE EndPage
  BY <1>0, <1>8 DEF EndPage, FirstPageAfter, RunOK, Shape, Once
<1>9. CASE Crash
  <2>1. /\ pc' = "idle" /\ batch' = <<>> /\ known' = {} /\ cur' = None /\ pos' = 0
        /\ found' = None /\ outcome' = "none" /\ before' = {} /\ cycle' = cycle
    BY <1>9 DEF Crash
  <2>2. RunOK'
    BY <1>0, <2>1 DEF RunOK
  <2>3. Shape' /\ Once'
    BY <2>1 DEF Shape, Once, ToSet
  <2>4. QED
    BY <2>2, <2>3
<1>10. QED
  BY <1>1, <1>2, <1>3, <1>4, <1>5, <1>6, <1>7, <1>8, <1>9 DEF Next, Daemon, RunIdle

-----------------------------------------------------------------------------
\* The files and the checkpoints

\* What a step may do to the files and the checkpoint of share s.
FilesStep(s) ==
  \/ files'[s] = files[s] /\ cp'[s] = cp[s]
  \/ /\ s = cur /\ pc = "page" /\ cp'[s] = Saved(pos)
     /\ files'[s] = files[s] /\ UNCHANGED <<cur, pos, share, holed>>
  \/ s = cur /\ EndPage /\ files'[s] = files[s] /\ cp'[s] = Saved(pos + 1)
  \/ s = cur /\ UpsertFiles /\ files'[s] = files[s] \cup {pos + 1} /\ cp'[s] = cp[s]
  \/ /\ files'[s] = {} /\ cp'[s] = NoCheckpoint
     /\ \/ PurgeRows /\ s = cur
        \/ DeleteShare(s)
        \/ DeleteOrphans /\ ~Registered(s)
  \/ DedupeDelete /\ s = marked /\ files'[s] = {} /\ cp'[s] = cp[s]

\* A step that leaves both tables alone.
FilesIdle ==
  \/ ListSharesForCrawl \/ TakeShare \/ FindDuplicateShare \/ MarkShareDuplicate
  \/ UpdateShareMeta \/ PurgeIfOrphan \/ Verdict \/ Crash
  \/ DedupeScan \/ DedupeMark \/ DedupeDone \/ DedupeExit
  \/ (\E s \in Shares : UpsertShare(s) \/ BackfillShareMeta(s) \/ ReactivateShare(s))
  \/ UNCHANGED vars

LEMMA FilesIdleSame == FilesIdle => UNCHANGED <<files, cp>>
BY DEF FilesIdle, ListSharesForCrawl, TakeShare, FindDuplicateShare, MarkShareDuplicate,
       UpdateShareMeta, PurgeIfOrphan, Verdict, Crash, DedupeScan, DedupeMark, DedupeDone,
       DedupeExit, UpsertShare, BackfillShareMeta, ReactivateShare, vars, database

LEMMA FilesSteps ==
  ASSUME TypeOK, Shape, [Next]_vars
  PROVE  /\ files' \in [Shares -> SUBSET AllPages] /\ cp' \in [Shares -> 0..Saved(Pages)]
         /\ \A s \in Shares : FilesStep(s)
<1> USE DEF TypeOK, TablesOK
<1>0. /\ Pages \in Nat /\ pos \in 0..Pages
      /\ files \in [Shares -> SUBSET AllPages] /\ cp \in [Shares -> 0..Saved(Pages)]
      /\ \A n \in 0..Pages : Saved(n) \in 0..Saved(Pages)
      /\ NoCheckpoint \in 0..Saved(Pages)
  BY BoundsAssumption DEF RunOK, Saved, NoCheckpoint
<1>1. CASE FilesIdle
  BY <1>1, FilesIdleSame DEF FilesStep
<1>2. CASE ListPage \/ ListPageError \/ SaveFinal
  <2>1. /\ cp' = [cp EXCEPT ![cur] = Saved(pos)] /\ pc = "page"
        /\ UNCHANGED <<files, cur, pos, share, holed>>
    BY <1>2 DEF ListPage, ListPageError, SaveFinal, run
  <2>2. QED
    BY <1>0, <2>1 DEF FilesStep
<1>3. CASE EndPage
  <2>1. cp' = [cp EXCEPT ![cur] = Saved(pos + 1)] /\ files' = files /\ pos + 1 \in 0..Pages
    BY <1>0, <1>3 DEF EndPage, Shape
  <2>2. QED
    BY <1>0, <1>3, <2>1 DEF FilesStep
<1>4. CASE UpsertFiles
  <2>1. files' = [files EXCEPT ![cur] = @ \cup {pos + 1}] /\ cp' = cp /\ pos + 1 \in AllPages
    BY <1>0, <1>4 DEF UpsertFiles, Shape, AllPages
  <2>2. QED
    BY <1>0, <1>4, <2>1 DEF FilesStep
<1>5. CASE PurgeRows
  <2>1. files' = [files EXCEPT ![cur] = {}] /\ cp' = [cp EXCEPT ![cur] = NoCheckpoint]
    BY <1>5 DEF PurgeRows
  <2>2. QED
    BY <1>0, <1>5, <2>1 DEF FilesStep
<1>6. ASSUME NEW s \in Shares, DeleteShare(s)
      PROVE  /\ files' \in [Shares -> SUBSET AllPages] /\ cp' \in [Shares -> 0..Saved(Pages)]
             /\ \A t \in Shares : FilesStep(t)
  <2>1. files' = [files EXCEPT ![s] = {}] /\ cp' = [cp EXCEPT ![s] = NoCheckpoint]
    BY <1>6 DEF DeleteShare
  <2>2. QED
    BY <1>0, <1>6, <2>1 DEF FilesStep
<1>7. CASE DeleteOrphans
  <2>1. /\ files' = [s \in Shares |-> IF Orphan(s) THEN {} ELSE files[s]]
        /\ cp' = [s \in Shares |-> IF Orphan(s) THEN NoCheckpoint ELSE cp[s]]
    BY <1>7 DEF DeleteOrphans
  <2>2. QED
    BY <1>0, <1>7, <2>1 DEF FilesStep, Orphan
<1>8. CASE DedupeDelete
  <2>1. files' = [files EXCEPT ![marked] = {}] /\ cp' = cp
    BY <1>8 DEF DedupeDelete
  <2>2. QED
    BY <1>0, <1>8, <2>1 DEF FilesStep
<1>9. QED
  BY <1>1, <1>2, <1>3, <1>4, <1>5, <1>6, <1>7, <1>8
     DEF Next, Daemon, Dedupe, Operator, FilesIdle

\* Shares in holed stay there.
LEMMA HoledGrows ==
  ASSUME [Next]_vars
  PROVE  holed \subseteq holed'
BY DEF Next, vars, history, Daemon, Dedupe, Operator, ListSharesForCrawl, TakeShare, ListPage,
       ListPageError, FindDuplicateShare, MarkShareDuplicate, UpdateShareMeta, UpsertFiles,
       EndPage, SaveFinal, PurgeIfOrphan, PurgeRows, Verdict, Crash, DedupeScan, DedupeMark,
       DedupeDelete, DedupeDone, DedupeExit, UpsertShare, BackfillShareMeta, ReactivateShare,
       DeleteShare, DeleteOrphans

\* The statuses that a step brings about.
LEMMA RowStatus ==
  ASSUME TablesOK, NEW s \in Shares, NEW row \in Row, RowStep(s, row)
  PROVE  \/ /\ Registered(s) /\ row.status = share[s].status
            /\ row.duplicate_of = share[s].duplicate_of
         \/ row.status = "ACTIVE"
         \/ /\ row.status = "DUPLICATE" /\ Registered(s)
            /\ \/ MarkShareDuplicate /\ s = cur /\ row.duplicate_of = found
               \/ \E a \in plan : DedupeMark /\ s = a[1] /\ row.duplicate_of = a[2]
         \/ /\ Verdict /\ s = cur /\ Registered(s)
            /\ \/ outcome = "ok" /\ row.status = "COMPLETED"
               \/ outcome = "dead" /\ row.status = "DEAD"
               \/ row.status = "STALE"
         \/ DeleteShare(s) /\ row.status = "none"
<1>1. share[s] \in Row
  BY DEF TablesOK
<1>2. CASE row = [Base(s) EXCEPT !.size = size[s]]
  <2>1. row.status = Base(s).status /\ row.duplicate_of = Base(s).duplicate_of
    BY <1>1, <1>2 DEF Base, NewRow, Absent, Row
  <2>2. QED
    BY <2>1 DEF Base, NewRow, Absent
<1>3. CASE row = [Base(s) EXCEPT !.status = "ACTIVE", !.crawled = 0]
  BY <1>1, <1>3 DEF Base, NewRow, Absent, Row
<1>4. CASE ReactivateShare(s) /\ row = [share[s] EXCEPT !.status = "ACTIVE", !.duplicate_of = None]
  BY <1>1, <1>4 DEF Row
<1>5. CASE /\ MarkShareDuplicate /\ s = cur /\ Registered(s)
           /\ row = [share[s] EXCEPT !.status = "DUPLICATE", !.duplicate_of = found]
  BY <1>1, <1>5 DEF Row
<1>6. ASSUME DedupeMark, Registered(s), NEW a \in plan, s = a[1],
             row = [share[s] EXCEPT !.status = "DUPLICATE", !.duplicate_of = a[2]]
      PROVE  row.status = "DUPLICATE" /\ row.duplicate_of = a[2]
  BY <1>1, <1>6 DEF Row
<1>7. CASE /\ Verdict /\ s = cur /\ Registered(s)
           /\ \/ outcome = "ok" /\ row = [share[s] EXCEPT !.status = "COMPLETED", !.crawled = cycle]
              \/ outcome = "dead" /\ row = [share[s] EXCEPT !.status = "DEAD"]
              \/ outcome \notin {"ok", "dead"} /\ row = [share[s] EXCEPT !.status = "STALE"]
  BY <1>1, <1>7 DEF Row
<1>8. CASE DeleteShare(s) /\ row = Absent
  BY <1>8 DEF Absent
<1>9. QED
  BY <1>2, <1>3, <1>4, <1>5, <1>6, <1>7, <1>8 DEF RowStep

LEMMA StatusSteps ==
  ASSUME TypeOK, Shape, [Next]_vars, NEW s \in Shares
  PROVE  /\ Registered(s) /\ ~Registered(s)' => DeleteShare(s)
         /\ share'[s].status = "COMPLETED" =>
              \/ share[s].status = "COMPLETED"
              \/ Verdict /\ s = cur /\ outcome = "ok"
<1>1. CASE share'[s] = share[s]
  BY <1>1 DEF Registered
<1>2. CASE share'[s] # share[s]
  <2>1. PICK t \in Shares, row \in Row : share' = [share EXCEPT ![t] = row] /\ RowStep(t, row)
    BY <1>2, RowSteps
  <2>2. share \in [Shares -> Row]
    BY DEF TypeOK, TablesOK
  <2>3. t = s /\ share'[s] = row
    BY <1>2, <2>1, <2>2
  <2>4. QED
    BY <2>1, <2>3, RowStatus DEF Registered, TypeOK
<1>3. QED
  BY <1>1, <1>2

\* A cycle's shares are listed while they are crawlable.
LEMMA InRunSteps ==
  ASSUME TypeOK, Shape, Once, [Next]_vars, NEW s \in Shares, InRun(s)'
  PROVE  InRun(s) \/ (ListSharesForCrawl /\ Crawlable(s) /\ share' = share)
<1>1. CASE UNCHANGED <<cur, batch>>
  BY <1>1 DEF InRun, ToSet
<1>2. CASE ListSharesForCrawl
  <2>1. PICK due \in SUBSET { t \in Shares : Crawlable(t) } :
          due # {} /\ batch' \in Injection(1..Cardinality(due), due)
    BY <1>2 DEF ListSharesForCrawl
  <2>2. ToSet(batch') \subseteq due /\ UNCHANGED <<cur, share>>
    BY <1>2, <2>1, NewBatch DEF ListSharesForCrawl, database
  <2>3. QED
    BY <1>2, <2>1, <2>2 DEF InRun
<1>3. CASE TakeShare
  <2>1. cur' = Head(batch) /\ batch' = Tail(batch) /\ batch # <<>> /\ batch \in Seq(Shares)
    BY <1>3 DEF TakeShare, Shape, TypeOK, RunOK
  <2>2. Head(batch) \in ToSet(batch) /\ ToSet(batch') \subseteq ToSet(batch)
    BY <2>1, TakeHead DEF Once
  <2>3. QED
    BY <2>1, <2>2 DEF InRun
<1>4. CASE NextShare \/ Crash
  <2>1. cur' = None /\ (batch' = batch \/ batch' = <<>>)
    BY <1>4 DEF NextShare, Crash
  <2>2. QED
    BY <2>1, NoneAssumption DEF InRun, ToSet
<1>5. QED
  BY <1>1, <1>2, <1>3, <1>4 DEF Next, Daemon, Dedupe, Operator, vars, run, ListPage,
     ListPageError, FindDuplicateShare, MarkShareDuplicate, UpdateShareMeta, UpsertFiles,
     EndPage, SaveFinal, PurgeIfOrphan, PurgeRows, Verdict

LEMMA CutKept ==
  ASSUME TypeOK, Shape, Once, CutInRun, [Next]_vars
  PROVE  CutInRun'
<1>1. ASSUME NEW s \in Shares, InRun(s)', ~Registered(s)' PROVE s \in holed'
  <2>1. CASE ListSharesForCrawl /\ Crawlable(s) /\ share' = share
    BY <1>1, <2>1 DEF Crawlable, Registered
  <2>2. CASE InRun(s) /\ ~Registered(s)
    BY <2>2, HoledGrows DEF CutInRun
  <2>3. CASE InRun(s) /\ Registered(s)
    <3>1. DeleteShare(s)
      BY <1>1, <2>3, StatusSteps
    <3>2. QED
      BY <2>3, <3>1 DEF DeleteShare
  <2>4. QED
    BY <1>1, <2>1, <2>2, <2>3, InRunSteps
<1>2. ASSUME pc' = "purging" PROVE cur' \in holed'
  <2>1. CASE pc = "purging" /\ cur' = cur
    BY <2>1, HoledGrows DEF CutInRun
  <2>2. CASE PurgeIfOrphan
    <3>1. cur \in Shares /\ ~Registered(cur) /\ cur' = cur
      BY <1>2, <2>2 DEF PurgeIfOrphan, run, Shape, TypeOK, RunOK
    <3>2. QED
      BY <3>1, HoledGrows DEF CutInRun, InRun
  <2>3. QED
    BY <1>2, <2>1, <2>2 DEF Next, Daemon, Dedupe, Operator, vars, run, ListSharesForCrawl,
       TakeShare, ListPage, ListPageError, FindDuplicateShare, MarkShareDuplicate, NextShare,
       UpdateShareMeta, UpsertFiles, EndPage, SaveFinal, PurgeRows, Verdict, Crash
<1>3. QED
  BY <1>1, <1>2 DEF CutInRun

\* A step that leaves less of the files of a share than a run or a checkpoint
\* counts on puts the share into holed.
LEMMA Counted ==
  ASSUME TypeOK, Shape, CutInRun, [Next]_vars, NEW s \in Shares, s \notin holed'
  PROVE  /\ files[s] \subseteq files'[s] \/ cp'[s] = NoCheckpoint
         /\ InRun(s) => files[s] \subseteq files'[s]
         /\ InRun(s) => cp'[s] # NoCheckpoint \/ cp'[s] = cp[s]
         /\ DedupeDelete /\ s = marked => cp[s] = NoCheckpoint
<1>1. s \notin holed /\ FilesStep(s)
  BY FilesSteps, HoledGrows
<1>2. CASE DedupeDelete /\ s = marked
  BY <1>1, <1>2 DEF DedupeDelete, DeleteShare, FilesStep
<1>3. CASE files'[s] = {} /\ cp'[s] = NoCheckpoint /\ PurgeRows /\ s = cur
  BY <1>1, <1>3 DEF PurgeRows, CutInRun
<1>4. CASE files'[s] = {} /\ cp'[s] = NoCheckpoint /\ DeleteShare(s)
  BY <1>1, <1>4 DEF DeleteShare, DedupeDelete, Dedupe
<1>5. CASE files'[s] = {} /\ cp'[s] = NoCheckpoint /\ DeleteOrphans /\ ~Registered(s)
  BY <1>1, <1>5 DEF DeleteOrphans, CutInRun, DedupeDelete
<1>6. \A n \in Nat : Saved(n) # NoCheckpoint
  BY DEF Saved, NoCheckpoint
<1>7. pos \in Nat
  BY BoundsAssumption DEF TypeOK, RunOK
<1>8. CASE s = cur /\ (pc = "page" \/ EndPage) /\ files'[s] = files[s] /\ cp'[s] # NoCheckpoint
  BY <1>2, <1>8
<1>9. CASE s = cur /\ UpsertFiles /\ files'[s] = files[s] \cup {pos + 1} /\ cp'[s] = cp[s]
  BY <1>2, <1>9
<1>10. CASE files'[s] = files[s] /\ cp'[s] = cp[s]
  BY <1>2, <1>10
<1>11. QED
  BY <1>1, <1>2, <1>3, <1>4, <1>5, <1>6, <1>7, <1>8, <1>9, <1>10 DEF FilesStep

LEMMA CheckpointKept ==
  ASSUME TypeOK, Shape, CutInRun, CheckpointBacked, RunBacked, [Next]_vars
  PROVE  CheckpointBacked'
<1> SUFFICES ASSUME NEW s \in Shares, s \notin holed'
             PROVE  1..ResumePoint(cp'[s]) \subseteq files'[s]
  BY DEF CheckpointBacked, ResumePoint
<1>1. s \notin holed /\ FilesStep(s) /\ 1..ResumePoint(cp[s]) \subseteq files[s]
  BY FilesSteps, HoledGrows DEF CheckpointBacked
<1>2. pos \in Nat /\ \A n \in Nat : ResumePoint(Saved(n)) = n
  BY BoundsAssumption DEF TypeOK, RunOK, ResumePoint, Saved, NoCheckpoint
<1>3. 1..ResumePoint(NoCheckpoint) = {}
  BY DEF ResumePoint
<1>4. CASE cp'[s] = cp[s]
  BY <1>1, <1>3, <1>4, Counted, BoundsAssumption
<1>5. CASE s = cur /\ pc = "page" /\ cp'[s] = Saved(pos) /\ files'[s] = files[s]
  <2>1. 1..pos \subseteq files[s]
    BY <1>1, <1>5, NoneAssumption DEF RunBacked
  <2>2. QED
    BY <1>2, <1>5, <2>1
<1>6. CASE s = cur /\ EndPage /\ files'[s] = files[s] /\ cp'[s] = Saved(pos + 1)
  <2>1. 1..pos \subseteq files[s] /\ pos + 1 \in files[s]
    BY <1>1, <1>6, NoneAssumption DEF RunBacked, EndPage
  <2>2. 1..(pos + 1) = 1..pos \cup {pos + 1} /\ ResumePoint(cp'[s]) = pos + 1
    BY <1>2, <1>6
  <2>3. QED
    BY <1>6, <2>1, <2>2
<1>7. CASE cp'[s] = NoCheckpoint
  BY <1>3, <1>7
<1>8. QED
  BY <1>1, <1>4, <1>5, <1>6, <1>7 DEF FilesStep

LEMMA RunBackedKept ==
  ASSUME TypeOK, Shape, Once, CutInRun, CheckpointBacked, RunBacked, [Next]_vars
  PROVE  RunBacked'
<1> SUFFICES ASSUME cur' # None, cur' \notin holed'
             PROVE  1..pos' \subseteq files'[cur'] /\ (pc' = "save" => pos' + 1 \in files'[cur'])
  BY DEF RunBacked
<1>1. pos \in Nat
  BY BoundsAssumption DEF TypeOK, RunOK
<1>2. CASE TakeShare
  <2>1. /\ cur' = Head(batch) /\ batch # <<>> /\ batch' = Tail(batch) /\ pc' = "page"
        /\ pos' = ResumePoint(cp[Head(batch)]) /\ files' = files /\ holed' = holed
    BY <1>2 DEF TakeShare, Shape, database
  <2>2. Head(batch) \in Shares
    BY <2>1, TakeHead DEF Once, TypeOK, RunOK
  <2>3. QED
    BY <2>1, <2>2 DEF CheckpointBacked
<1>3. CASE NextShare \/ Crash
  BY <1>3 DEF NextShare, Crash
<1>4. CASE cur' = cur /\ ~TakeShare /\ ~NextShare /\ ~Crash
  <2>1. /\ cur \in Shares /\ InRun(cur) /\ cur \notin holed
        /\ 1..pos \subseteq files[cur] /\ (pc = "save" => pos + 1 \in files[cur])
    BY <1>4, HoledGrows DEF TypeOK, RunOK, RunBacked, InRun
  <2>2. files[cur] \subseteq files'[cur]
    BY <1>4, <2>1, Counted
  <2>3. CASE UpsertFiles
    <3>1. pos' = pos /\ files' = [files EXCEPT ![cur] = @ \cup {pos + 1}]
      BY <2>3 DEF UpsertFiles, run
    <3>2. pos + 1 \in files'[cur]
      BY <2>1, <3>1 DEF TypeOK, TablesOK
    <3>3. QED
      BY <1>4, <2>1, <2>2, <3>1, <3>2
  <2>4. CASE EndPage
    <3>1. pc = "save" /\ pos' = pos + 1 /\ pc' = "page"
      BY <2>4 DEF EndPage
    <3>2. 1..(pos + 1) = 1..pos \cup {pos + 1}
      BY <1>1
    <3>3. QED
      BY <1>4, <2>1, <2>2, <3>1, <3>2
  <2>5. CASE ~UpsertFiles /\ ~EndPage
    <3>1. pos' = pos /\ (pc' = "save" => pc = "save")
      BY <1>4, <2>1, <2>5, NoneAssumption DEF Next, Daemon, Dedupe, Operator, vars, run,
         ListSharesForCrawl, ListPage, ListPageError, FindDuplicateShare, MarkShareDuplicate,
         UpdateShareMeta, SaveFinal, PurgeIfOrphan, PurgeRows, Verdict
    <3>2. QED
      BY <1>4, <2>1, <2>2, <3>1
  <2>6. QED
    BY <2>3, <2>4, <2>5
<1>5. QED
  BY <1>2, <1>3, <1>4 DEF Next, Daemon, Dedupe, Operator, vars, run, ListSharesForCrawl,
     ListPage, ListPageError, FindDuplicateShare, MarkShareDuplicate, UpdateShareMeta,
     UpsertFiles, EndPage, SaveFinal, PurgeIfOrphan, PurgeRows, Verdict

LEMMA CompletedKept ==
  ASSUME TypeOK, Shape, Once, CutInRun, RunBacked, CompletedSaved, HolesHaveCauses, [Next]_vars
  PROVE  CompletedSaved' /\ HolesHaveCauses'
<1>0. /\ Pages \in Nat /\ pos \in 0..Pages
      /\ \A n \in Nat : Saved(n) # NoCheckpoint
  BY BoundsAssumption DEF TypeOK, RunOK, Saved, NoCheckpoint
<1>1. ASSUME NEW s \in Shares, s \notin holed', share'[s].status = "COMPLETED"
      PROVE  cp'[s] # NoCheckpoint /\ files'[s] = AllPages
  <2>1. s \notin holed /\ FilesStep(s) /\ files[s] \in SUBSET AllPages /\ files'[s] \in SUBSET AllPages
    BY <1>1, HoledGrows, FilesSteps DEF TypeOK, TablesOK
  <2>2. CASE share[s].status = "COMPLETED"
    <3>1. cp[s] # NoCheckpoint /\ files[s] = AllPages /\ Registered(s)
      BY <2>1, <2>2 DEF CompletedSaved, HolesHaveCauses, Registered
    <3>2. ~DeleteShare(s)
      <4>1. DeleteShare(s) => share'[s] = Absent
        BY DEF DeleteShare, TypeOK, TablesOK
      <4>2. QED
        BY <1>1, <4>1 DEF Absent
    <3>3. ~(PurgeRows /\ s = cur)
      BY <2>1 DEF PurgeRows, CutInRun
    <3>4. ~(DedupeDelete /\ s = marked)
      BY <1>1, <3>1, Counted
    <3>5. cp'[s] # NoCheckpoint
      BY <1>0, <2>1, <3>1, <3>2, <3>3 DEF FilesStep
    <3>6. files[s] \subseteq files'[s]
      BY <1>1, <3>5, Counted
    <3>7. QED
      BY <2>1, <3>1, <3>5, <3>6
  <2>3. CASE Verdict /\ s = cur /\ outcome = "ok"
    <3>1. files' = files /\ cp' = cp /\ cur # None /\ pos = Pages
      BY <1>1, <2>3, NoneAssumption DEF Verdict, Shape
    <3>2. cp[s] # NoCheckpoint /\ 1..Pages \subseteq files[s]
      BY <2>1, <2>3, <3>1 DEF CompletedSaved, RunBacked
    <3>3. QED
      BY <2>1, <3>1, <3>2 DEF AllPages
  <2>4. QED
    BY <1>1, <2>2, <2>3, StatusSteps
<1>2. ASSUME cur' \notin holed', outcome' = "ok"
      PROVE  cp'[cur'] # NoCheckpoint
  <2>1. CASE SaveFinal
    <3>1. cur \in Shares /\ cur' = cur /\ cp' = [cp EXCEPT ![cur] = Saved(pos)]
      BY <2>1 DEF SaveFinal, Shape, TypeOK, RunOK
    <3>2. QED
      BY <1>0, <3>1 DEF TypeOK, TablesOK
  <2>2. CASE outcome = "ok" /\ cur' = cur
    <3>1. cur \in Shares /\ InRun(cur) /\ cp[cur] # NoCheckpoint
      BY <1>2, <2>2, HoledGrows DEF Shape, TypeOK, RunOK, CompletedSaved, InRun
    <3>2. QED
      BY <1>2, <2>2, <3>1, Counted
  <2>3. QED
    BY <1>2, <2>1, <2>2 DEF Next, Daemon, Dedupe, Operator, vars, run, ListSharesForCrawl,
       TakeShare, ListPage, ListPageError, FindDuplicateShare, MarkShareDuplicate, NextShare,
       UpdateShareMeta, UpsertFiles, EndPage, PurgeIfOrphan, PurgeRows, Verdict, Crash, Shape
<1>3. QED
  BY <1>1, <1>2 DEF CompletedSaved, HolesHaveCauses

LEMMA CleanKept ==
  ASSUME TypeOK, Shape, Once, FirstPageClean, [Next]_vars
  PROVE  FirstPageClean'
<1> SUFFICES ASSUME (pc' = "page" /\ firstPage') \/ pc' \in {"check", "duplicate"}
             PROVE  files'[cur'] \subseteq before'
  BY DEF FirstPageClean
<1>1. CASE TakeShare
  BY <1>1 DEF TakeShare, database
<1>2. CASE ~TakeShare
  <2>1. /\ (pc = "page" /\ firstPage) \/ pc \in {"check", "duplicate"}
        /\ UNCHANGED <<cur, before>> /\ ~UpsertFiles
    BY <1>2 DEF Next, Daemon, Dedupe, Operator, vars, run, ListSharesForCrawl, ListPage,
       ListPageError, FindDuplicateShare, MarkShareDuplicate, NextShare, UpdateShareMeta,
       UpsertFiles, EndPage, FirstPageAfter, SaveFinal, PurgeIfOrphan, PurgeRows, Verdict, Crash
  <2>2. cur \in Shares /\ files[cur] \subseteq before
    BY <2>1 DEF Shape, TypeOK, RunOK, FirstPageClean
  <2>3. files'[cur] \in {files[cur], {}}
    BY <2>1, <2>2, FilesSteps DEF FilesStep
  <2>4. QED
    BY <2>1, <2>2, <2>3
<1>3. QED
  BY <1>1, <1>2

-----------------------------------------------------------------------------
\* The marks

\* The steps that leave the command's plan alone.
PlanIdle == Daemon \/ Operator \/ UNCHANGED vars

LEMMA PlanIdleSame == PlanIdle => UNCHANGED <<command, plan, marked>>
BY DEF PlanIdle, Daemon, Operator, cleaner, vars

\* The plan is only made by a scan, and then worked off.
LEMMA PlanSteps ==
  ASSUME [Next]_vars
  PROVE  plan' \subseteq plan \/ (DedupeScan /\ plan' = DedupePlan)
BY PlanIdleSame DEF Next, Dedupe, PlanIdle, DedupeScan, DedupeMark, DedupeDelete, DedupeDone, DedupeExit

LEMMA CommandKept ==
  ASSUME TypeOK, Shape, Rows, [Next]_vars
  PROVE  CommandOK'
<1> USE DEF TypeOK, CommandOK
<1>1. plan' \subseteq Shares \X Shares
  <2>1. ASSUME NEW a \in DedupePlan PROVE a \in Shares \X Shares
    <3>1. PICK n \in Nat : /\ n >= MinSize /\ a[1] \in SizeGroup(n) /\ a[2] = Oldest(SizeGroup(n))
                           /\ a = <<a[1], a[2]>>
      BY PlanFacts
    <3>2. a[1] \in Shares /\ a[2] \in Shares
      BY <3>1, GroupFacts DEF SizeGroup
    <3>3. QED
      BY <3>1, <3>2
  <2>2. QED
    BY <2>1, PlanSteps
<1>2. command' \in {"off", "running", "done"} /\ marked' \in Shares \cup {None}
  <2>1. CASE DedupeMark
    <3>1. PICK a \in plan : marked' = a[1] /\ command' = command
      BY <2>1 DEF DedupeMark
    <3>2. QED
      BY <3>1
  <2>2. CASE DedupeScan \/ DedupeDelete \/ DedupeDone \/ DedupeExit
    BY <2>2 DEF DedupeScan, DedupeDelete, DedupeDone, DedupeExit
  <2>3. QED
    BY <2>1, <2>2, PlanIdleSame DEF Next, Dedupe, PlanIdle
<1>3. holed' \subseteq Shares
  <2>1. CASE DedupeDelete
    BY <2>1, NoneAssumption DEF DedupeDelete
  <2>2. CASE \E s \in Shares : DeleteShare(s)
    BY <2>2 DEF DeleteShare
  <2>3. QED
    BY <2>1, <2>2 DEF Next, vars, history, Daemon, Dedupe, Operator, ListSharesForCrawl, TakeShare,
       ListPage, ListPageError, FindDuplicateShare, MarkShareDuplicate, UpdateShareMeta,
       UpsertFiles, EndPage, SaveFinal, PurgeIfOrphan, PurgeRows, Verdict, Crash, DedupeScan,
       DedupeMark, DedupeDone, DedupeExit, UpsertShare, BackfillShareMeta, ReactivateShare,
       DeleteOrphans
<1>4. QED
  BY <1>1, <1>2, <1>3

LEMMA FlagsKept ==
  ASSUME TypeOK, [Next]_vars
  PROVE  FlagsOK'
<1>1. FlagsOK
  BY DEF TypeOK
<1>2. alone' \in BOOLEAN
  <2>1. CASE Daemon
    BY <1>1, <2>1 DEF Daemon, FlagsOK
  <2>2. CASE Dedupe
    BY <1>1, <2>2 DEF Dedupe, FlagsOK, DedupeScan, DedupeMark, DedupeDelete, DedupeDone, DedupeExit
  <2>3. CASE Operator \/ UNCHANGED vars
    BY <1>1, <2>3 DEF Operator, vars, history, FlagsOK
  <2>4. QED
    BY <2>1, <2>2, <2>3 DEF Next
<1>3. firstPage' \in BOOLEAN
  <2>1. CASE RunIdle
    BY <1>1, <2>1, RunIdleSame DEF run, FlagsOK
  <2>2. CASE Daemon
    BY <1>1, <2>2 DEF Daemon, FlagsOK, ListSharesForCrawl, TakeShare, ListPage, ListPageError,
       FindDuplicateShare, MarkShareDuplicate, NextShare, UpdateShareMeta, UpsertFiles, EndPage,
       FirstPageAfter, SaveFinal, PurgeIfOrphan, PurgeRows, Verdict, Crash, run
  <2>3. QED
    BY <2>1, <2>2 DEF Next, RunIdle
<1>4. QED
  BY <1>2, <1>3 DEF FlagsOK

\* Who is to be marked with what.
LEMMA PlannedKept ==
  ASSUME TypeOK, Shape, Once, Rows, Planned, [Next]_vars
  PROVE  Planned'
<1>1. size' = size /\ \A s \in Shares : size[s] \in Nat
  BY RowsKept, BoundsAssumption DEF TypeOK, TablesOK
<1>2. ASSUME pc' = "duplicate"
      PROVE  found' \in SameSize(cur)' \ {cur'} /\ size'[cur'] >= MinSize
  <2>1. CASE FindDuplicateShare
    <3>1. cur \in Shares /\ cur' = cur /\ found' = Canonical(cur, size[cur]) /\ found' # None
      BY <1>2, <2>1 DEF FindDuplicateShare, Shape, TypeOK, RunOK
    <3>2. /\ size[cur] >= MinSize /\ found' \in SizeGroup(size[cur]) \ {cur}
          /\ \A t \in SizeGroup(size[cur]) : size[t] = size[cur]
      BY <1>1, <3>1, CanonicalFacts DEF TypeOK
    <3>3. QED
      BY <1>1, <3>1, <3>2 DEF SameSize, SizeGroup
  <2>2. CASE pc = "duplicate" /\ UNCHANGED <<cur, found>>
    BY <1>1, <2>2 DEF Planned, SameSize
  <2>3. QED
    BY <1>2, <2>1, <2>2 DEF Next, Daemon, Dedupe, Operator, vars, run, ListSharesForCrawl,
       TakeShare, ListPage, ListPageError, MarkShareDuplicate, NextShare, UpdateShareMeta,
       UpsertFiles, EndPage, SaveFinal, PurgeIfOrphan, PurgeRows, Verdict, Crash
<1>3. /\ \A a \in plan' : a[2] \in SameSize(a[1])' \ {a[1]} /\ size'[a[1]] >= MinSize
      /\ \A a, b \in plan' : a[1] = b[1] => a = b
  <2>1. CASE plan' \subseteq plan
    BY <1>1, <2>1 DEF Planned, SameSize
  <2>2. CASE plan' = DedupePlan
    <3>1. ASSUME NEW a \in DedupePlan
          PROVE  /\ a[1] \in Shares /\ a[2] \in SameSize(a[1]) \ {a[1]} /\ size[a[1]] >= MinSize
                 /\ a[2] = Oldest(SizeGroup(size[a[1]])) /\ a = <<a[1], a[2]>>
      <4>1. PICK n \in Nat : /\ n >= MinSize /\ a[1] \in SizeGroup(n)
                             /\ a[2] = Oldest(SizeGroup(n)) /\ a[1] # a[2] /\ a = <<a[1], a[2]>>
        BY PlanFacts DEF TypeOK
      <4>2. a[2] \in SizeGroup(n) /\ size[a[1]] = n /\ size[a[2]] = n
        BY <4>1, GroupFacts DEF TypeOK
      <4>3. QED
        BY <4>1, <4>2 DEF SameSize, SizeGroup
    <3>2. QED
      BY <1>1, <2>2, <3>1 DEF SameSize
  <2>3. QED
    BY <2>1, <2>2, PlanSteps
<1>4. command' \in {"off", "done"} => plan' = {}
  BY PlanIdleSame DEF Planned, Next, PlanIdle, Dedupe, DedupeScan, DedupeMark, DedupeDelete,
     DedupeDone, DedupeExit
<1>5. QED
  BY <1>2, <1>3, <1>4 DEF Planned

LEMMA DuplicateKept ==
  ASSUME TypeOK, Shape, Rows, Planned, DuplicateOfItsSize, [Next]_vars
  PROVE  DuplicateOfItsSize'
<1>1. size' = size
  BY RowsKept
<1> SUFFICES ASSUME NEW s \in Shares, share'[s].status = "DUPLICATE"
             PROVE  share'[s].duplicate_of \in SameSize(s) \ {s} /\ size[s] >= MinSize
  BY <1>1 DEF DuplicateOfItsSize, Duplicate, SameSize
<1>2. CASE share'[s] = share[s]
  BY <1>2 DEF DuplicateOfItsSize, Duplicate
<1>3. CASE share'[s] # share[s]
  <2>1. PICK t \in Shares, row \in Row : share' = [share EXCEPT ![t] = row] /\ RowStep(t, row)
    BY <1>3, RowSteps
  <2>2. t = s /\ share'[s] = row
    BY <1>3, <2>1 DEF TypeOK, TablesOK
  <2>3. \/ share[s].status = "DUPLICATE" /\ row.duplicate_of = share[s].duplicate_of
        \/ MarkShareDuplicate /\ s = cur /\ row.duplicate_of = found
        \/ \E a \in plan : s = a[1] /\ row.duplicate_of = a[2]
    BY <2>1, <2>2, RowStatus DEF TypeOK
  <2>4. QED
    BY <2>2, <2>3 DEF DuplicateOfItsSize, Duplicate, Planned, MarkShareDuplicate
<1>4. QED
  BY <1>2, <1>3

LEMMA PlanCompleteKept ==
  ASSUME TypeOK, Shape, Rows, PlanComplete, [Next]_vars
  PROVE  PlanComplete'
<1> SUFFICES ASSUME alone' = TRUE, command' # "off", NEW s \in Shares, NEW t \in Shares, s # t,
                    Crawlable(s)', Crawlable(t)', share'[s].size >= MinSize,
                    share'[s].size = share'[t].size
             PROVE  \E a \in plan' : a[1] \in {s, t}
  BY FlagsKept DEF PlanComplete, FlagsOK
<1>1. CASE DedupeScan
  <2> DEFINE n == share[s].size
  <2>1. share' = share /\ plan' = DedupePlan
    BY <1>1 DEF DedupeScan, database
  <2>2. n \in Nat /\ n >= MinSize /\ s \in SizeGroup(n) /\ t \in SizeGroup(n)
    BY <2>1 DEF SizeGroup, Crawlable, TypeOK, TablesOK, Row
  <2> HIDE DEF n
  <2>3. s # Oldest(SizeGroup(n)) \/ t # Oldest(SizeGroup(n))
    OBVIOUS
  <2>4. <<s, Oldest(SizeGroup(n))>> \in DedupePlan \/ <<t, Oldest(SizeGroup(n))>> \in DedupePlan
    BY <2>2, <2>3, PlanFacts DEF TypeOK
  <2>5. QED
    BY <2>1, <2>4
<1>2. CASE DedupeMark
  <2>1. PICK a \in plan :
          /\ share' = Update(a[1], [share[a[1]] EXCEPT !.status = "DUPLICATE", !.duplicate_of = a[2]])
          /\ plan' = plan \ {a} /\ UNCHANGED <<command, alone>>
    BY <1>2 DEF DedupeMark
  <2>2. a[1] \in Shares /\ share[a[1]] \in Row
    BY <2>1 DEF TypeOK, CommandOK, TablesOK
  <2>3. ~Crawlable(a[1])'
    <3>1. CASE Registered(a[1])
      <4>1. share'[a[1]].status = "DUPLICATE"
        BY <2>1, <2>2, <3>1 DEF Update, Row, TypeOK, TablesOK
      <4>2. QED
        BY <4>1 DEF Crawlable
    <3>2. CASE ~Registered(a[1])
      BY <2>1, <3>2 DEF Update, Registered, Crawlable
    <3>3. QED
      BY <3>1, <3>2
  <2>4. a[1] # s /\ a[1] # t
    BY <2>3
  <2>5. share'[s] = share[s] /\ share'[t] = share[t]
    BY <2>1, <2>2, <2>4 DEF Update
  <2>6. PICK b \in plan : b[1] \in {s, t}
    BY <2>1, <2>5 DEF PlanComplete, Crawlable
  <2>7. QED
    BY <2>1, <2>4, <2>6
<1>3. CASE alone /\ command # "off" /\ UNCHANGED <<share, plan>>
  BY <1>3 DEF PlanComplete, Crawlable
<1>4. QED
  <2>1. CASE Daemon
    BY <1>3, <2>1 DEF Daemon, database, cleaner
  <2>2. CASE DedupeDelete \/ DedupeDone \/ DedupeExit
    BY <1>3, <2>2 DEF DedupeDelete, DedupeDone, DedupeExit, database
  <2>3. CASE Operator
    BY <2>3 DEF Operator
  <2>4. CASE UNCHANGED vars
    BY <1>3, <2>4 DEF vars, database, cleaner, history
  <2>5. QED
    BY <1>1, <1>2, <2>1, <2>2, <2>3, <2>4 DEF Next, Dedupe

-----------------------------------------------------------------------------
\* The last copy of a size

\* Sizes in touched stay there.
LEMMA TouchedGrows ==
  ASSUME [Next]_vars
  PROVE  touched \subseteq touched'
BY DEF Next, vars, history, Daemon, Dedupe, Operator, ListSharesForCrawl, TakeShare, ListPage,
       ListPageError, FindDuplicateShare, MarkShareDuplicate, UpdateShareMeta, UpsertFiles,
       EndPage, SaveFinal, PurgeIfOrphan, PurgeRows, Verdict, Crash, UpsertShare,
       BackfillShareMeta, ReactivateShare, DeleteShare, DeleteOrphans, Request

LEMMA UntouchedKept ==
  ASSUME TypeOK, Shape, Once, Rows, Untouched, [Next]_vars
  PROVE  Untouched'
<1>1. size' = size /\ touched \subseteq touched'
  BY RowsKept, TouchedGrows
<1>2. ASSUME NEW s \in Shares, ~Registered(s)' PROVE size[s] \in touched'
  <2>1. CASE Registered(s)
    BY <1>2, <2>1, StatusSteps DEF DeleteShare
  <2>2. CASE ~Registered(s)
    BY <1>1, <2>2 DEF Untouched
  <2>3. QED
    BY <2>1, <2>2
<1>3. ASSUME NEW s \in Shares, InRun(s)', size[s] \notin touched' PROVE Standing(s)'
  <2>1. CASE ListSharesForCrawl /\ Crawlable(s) /\ share' = share
    BY <2>1 DEF Standing, Crawlable
  <2>2. CASE InRun(s)
    <3>1. Standing(s)
      BY <1>1, <1>3, <2>2 DEF Untouched
    <3>2. CASE share'[s] = share[s]
      BY <3>1, <3>2 DEF Standing, Crawlable, Duplicate
    <3>3. CASE share'[s] # share[s]
      <4>1. PICK x \in Shares, row \in Row : share' = [share EXCEPT ![x] = row] /\ RowStep(x, row)
        BY <3>3, RowSteps
      <4>2. x = s /\ share'[s] = row
        BY <3>3, <4>1 DEF TypeOK, TablesOK
      <4>3. ~DeleteShare(s)
        BY <1>3 DEF DeleteShare
      <4>4. ~(Verdict /\ s = cur)
        BY <1>3, NoneAssumption DEF Verdict, NextShare, InRun, Once
      <4>5. row.status \in {share[s].status, "ACTIVE", "DUPLICATE"}
        BY <4>1, <4>2, <4>3, <4>4, RowStatus DEF TypeOK
      <4>6. QED
        BY <3>1, <4>2, <4>5 DEF Standing, Crawlable, Duplicate
    <3>4. QED
      BY <3>2, <3>3
  <2>3. QED
    BY <1>3, <2>1, <2>2, InRunSteps
<1>4. QED
  BY <1>1, <1>2, <1>3 DEF Untouched

\* A share marked was to be marked.
LEMMA DuplicateSteps ==
  ASSUME TypeOK, Shape, [Next]_vars, NEW s \in Shares, Duplicate(s)'
  PROVE  Duplicate(s) \/ Losing(s) \/ Found(s)
<1>1. CASE share'[s] = share[s]
  BY <1>1 DEF Duplicate
<1>2. CASE share'[s] # share[s]
  <2>1. PICK x \in Shares, row \in Row : share' = [share EXCEPT ![x] = row] /\ RowStep(x, row)
    BY <1>2, RowSteps
  <2>2. x = s /\ share'[s] = row
    BY <1>2, <2>1 DEF TypeOK, TablesOK
  <2>3. QED
    BY <2>1, <2>2, RowStatus DEF TypeOK, Duplicate, Losing, Found, MarkShareDuplicate
<1>3. QED
  BY <1>1, <1>2

\* Only FindDuplicateShare finds a share to mark.
LEMMA FoundSteps ==
  ASSUME TypeOK, Shape, [Next]_vars, NEW s \in Shares, Found(s)'
  PROVE  Found(s) \/ (FindDuplicateShare /\ s = cur)
BY DEF Found, Next, Daemon, Dedupe, Operator, vars, run, ListSharesForCrawl, TakeShare,
       ListPage, ListPageError, FindDuplicateShare, MarkShareDuplicate, NextShare,
       UpdateShareMeta, UpsertFiles, EndPage, SaveFinal, PurgeIfOrphan, PurgeRows, Verdict, Crash

\* Whoever keeps a size goes on to, if the shares of the size stay as they are,
\* or leave the group.
LEMMA StillKeeps ==
  ASSUME NEW t \in Shares, NEW n, Keeps(t, n), size' = size, plan' \subseteq plan,
         \A s \in Shares : size[s] = n /\ Found(s)' => Found(s),
         Registered(t)', ~Duplicate(t)',
         Crawlable(t)' => /\ Crawlable(t) /\ share'[t].crawled = share[t].crawled
                          /\ share'[t].id = share[t].id
                          /\ share'[t].size \in {share[t].size, n},
         \A s \in Shares : size[s] = n /\ Losing(s)' /\ Standing(s)' =>
           Standing(s) /\ share'[s].crawled = share[s].crawled /\ share'[s].id = share[s].id,
         \A s \in Shares : size[s] = n /\ Found(s)' /\ s \in SizeGroup(n)' =>
           s \in SizeGroup(n) /\ share'[s].crawled = share[s].crawled /\ share'[s].id = share[s].id
  PROVE  Keeps(t, n)'
<1>1. \A s : Losing(s)' => Losing(s)
  BY DEF Losing
<1>2. size'[t] = n /\ ~Losing(t)' /\ ~Found(t)'
  BY <1>1 DEF Keeps
<1>3. ASSUME Crawlable(t)', NEW s \in Shares, size[s] = n
      PROVE  /\ Losing(s)' => share'[t].size = n /\ (Standing(s)' => Older(t, s)')
             /\ Found(s)'  => share'[t].size = n /\ (s \in SizeGroup(n)' => Older(t, s)')
  <2>1. Losing(s)' => share'[t].size = n /\ (Standing(s)' => Older(t, s)')
    BY <1>1, <1>3 DEF Keeps, Older
  <2>2. Found(s)' => share'[t].size = n /\ (s \in SizeGroup(n)' => Older(t, s)')
    BY <1>3 DEF Keeps, Older
  <2>3. QED
    BY <2>1, <2>2
<1>4. QED
  BY <1>2, <1>3 DEF Keeps

\* No request of the operator, no record and no verdict takes the last copy: a
\* keeper stays one unless somebody looks for shares to mark.
LEMMA RowKeeps ==
  ASSUME TypeOK, Shape, Once, Rows, Planned, Untouched, [Next]_vars, plan' \subseteq plan,
         NEW n \in Nat, n \notin touched', NEW t \in Shares, Keeps(t, n),
         \A s \in Shares : size[s] = n /\ Found(s)' => Found(s)
  PROVE  Keeps(t, n)'
<1>0. /\ size' = size /\ n \notin touched
      /\ \A s \in Shares : size[s] = n => Registered(s)
      /\ \A s \in Shares : share[s] \in Row
      /\ size[t] = n /\ Registered(t) /\ ~Duplicate(t) /\ ~Losing(t) /\ ~Found(t)
  BY RowsKept, TouchedGrows DEF Untouched, TypeOK, TablesOK, Keeps
<1>1. ASSUME \A s \in Shares : size[s] = n => share'[s] = share[s]
      PROVE  Keeps(t, n)'
  <2>1. share'[t] = share[t]
    BY <1>0, <1>1
  <2>2. \A s \in Shares : size[s] = n /\ s \in SizeGroup(n)' => s \in SizeGroup(n)
    BY <1>1 DEF SizeGroup, Crawlable
  <2>3. \A s \in Shares : size[s] = n /\ Standing(s)' => Standing(s)
    BY <1>1 DEF Standing, Crawlable, Duplicate
  <2>4. Registered(t)' /\ ~Duplicate(t)' /\ (Crawlable(t)' => Crawlable(t))
    BY <1>0, <2>1 DEF Registered, Duplicate, Crawlable
  <2>5. QED
    BY <1>0, <1>1, <2>1, <2>2, <2>3, <2>4, StillKeeps
<1>2. ASSUME NEW x \in Shares, NEW row \in Row, share' = [share EXCEPT ![x] = row],
             RowStep(x, row), size[x] = n
      PROVE  Keeps(t, n)'
  <2>1. /\ share'[x] = row /\ Registered(x)
        /\ \A s \in Shares \ {x} : share'[s] = share[s]
    BY <1>0, <1>2 DEF TypeOK, TablesOK
  <2>2. ASSUME ~Duplicate(x)' \/ x # t, Registered(x)',
               Crawlable(x)' => Standing(x) /\ row.crawled = share[x].crawled /\ row.id = share[x].id
                                  /\ row.size \in {share[x].size, n},
               Losing(x)' /\ Standing(x)' =>
                 Standing(x) /\ row.crawled = share[x].crawled /\ row.id = share[x].id,
               ~Found(x)' \/ ~Crawlable(x)'
        PROVE  Keeps(t, n)'
    <3>1. Registered(t)' /\ ~Duplicate(t)'
      BY <1>0, <2>1, <2>2 DEF Registered, Duplicate
    <3>2. Crawlable(t)' => /\ Crawlable(t) /\ share'[t].crawled = share[t].crawled
                           /\ share'[t].id = share[t].id
                           /\ share'[t].size \in {share[t].size, n}
      BY <1>0, <2>1, <2>2 DEF Crawlable, Standing
    <3>3. \A s \in Shares : size[s] = n /\ Losing(s)' /\ Standing(s)' =>
            Standing(s) /\ share'[s].crawled = share[s].crawled /\ share'[s].id = share[s].id
      BY <2>1, <2>2 DEF Standing, Crawlable, Duplicate
    <3>4. \A s \in Shares : size[s] = n /\ Found(s)' /\ s \in SizeGroup(n)' =>
            s \in SizeGroup(n) /\ share'[s].crawled = share[s].crawled /\ share'[s].id = share[s].id
      BY <2>1, <2>2 DEF SizeGroup, Crawlable
    <3>5. QED
      BY <1>0, <3>1, <3>2, <3>3, <3>4, StillKeeps
  <2>3. CASE UpdateShareMeta /\ x = cur /\ row = [share[x] EXCEPT !.size = n]
    <3>1. row.status = share[x].status /\ row.crawled = share[x].crawled /\ row.id = share[x].id /\ row.size = n
      BY <1>0, <2>3 DEF Row
    <3>2. ~Found(x)'
      BY <2>3 DEF UpdateShareMeta, Found
    <3>3. QED
      BY <1>0, <2>1, <2>2, <3>1, <3>2 DEF Duplicate, Registered, Crawlable, Standing
  <2>4. ASSUME Request(x), Registered(x)', ~Duplicate(x)' \/ Duplicate(x), plan' = plan, UNCHANGED <<pc, cur>>
        PROVE  Keeps(t, n)'
    <3>1. ~Pending(x)
      BY <1>2, <2>4 DEF Request
    <3>2. \A s \in Shares : size[s] = n => ~Losing(s) /\ ~Found(s)
      BY <1>2, <3>1 DEF Pending, Losing, Found
    <3>3. \A s \in Shares : size[s] = n => ~Losing(s)' /\ ~Found(s)'
      BY <2>4, <3>2 DEF Losing, Found
    <3>4. Registered(t)' /\ ~Duplicate(t)'
      BY <1>0, <2>1, <2>4 DEF Registered, Duplicate
    <3>5. QED
      BY <1>0, <3>3, <3>4 DEF Keeps
  <2>5. CASE Operator /\ (BackfillShareMeta(x) \/ UpsertShare(x) \/ ReactivateShare(x))
             /\ Registered(x)' /\ (Duplicate(x)' => Duplicate(x))
    <3>1. Request(x) /\ plan' = plan /\ UNCHANGED <<pc, cur>>
      BY <2>5 DEF Operator, BackfillShareMeta, UpsertShare, ReactivateShare, cleaner, run
    <3>2. QED
      BY <2>4, <2>5, <3>1
  <2>6. CASE /\ MarkShareDuplicate /\ x = cur
             /\ row = [share[x] EXCEPT !.status = "DUPLICATE", !.duplicate_of = found]
    <3>1. row.status = "DUPLICATE" /\ row.crawled = share[x].crawled /\ row.id = share[x].id
      BY <1>0, <2>6 DEF Row
    <3>2. ~Found(x)' /\ x # t /\ InRun(x)
      BY <1>0, <2>6 DEF MarkShareDuplicate, NextShare, Found, InRun
    <3>3. Standing(x)
      BY <1>0, <1>2, <3>2 DEF Untouched
    <3>4. QED
      BY <2>1, <2>2, <3>1, <3>2, <3>3 DEF Registered, Crawlable
  <2>7. ASSUME Dedupe, NEW a \in plan, x = a[1], plan' = plan \ {a},
               row = [share[x] EXCEPT !.status = "DUPLICATE", !.duplicate_of = a[2]]
        PROVE  Keeps(t, n)'
    <3>1. row.status = "DUPLICATE"
      BY <1>0, <2>7 DEF Row
    <3>2. x # t /\ ~Losing(x)'
      BY <1>0, <2>7 DEF Losing, Planned
    <3>3. QED
      BY <2>1, <2>2, <3>1, <3>2 DEF Registered, Crawlable
  <2>8. CASE /\ Verdict /\ x = cur
             /\ \/ outcome = "ok" /\ row = [share[x] EXCEPT !.status = "COMPLETED", !.crawled = cycle]
                \/ outcome = "dead" /\ row = [share[x] EXCEPT !.status = "DEAD"]
                \/ outcome \notin {"ok", "dead"} /\ row = [share[x] EXCEPT !.status = "STALE"]
    <3>1. ~Found(x)' /\ InRun(x)
      BY <1>2, <2>8, NoneAssumption DEF Verdict, NextShare, Found, InRun
    <3>2. Standing(x)
      BY <1>0, <1>2, <3>1 DEF Untouched
    <3>3. outcome # "dead"
      BY <1>0, <1>2, <2>8 DEF Verdict
    <3>4. CASE row = [share[x] EXCEPT !.status = "COMPLETED", !.crawled = cycle]
      <4>1. row.status = "COMPLETED"
        BY <1>0, <3>4 DEF Row
      <4>2. QED
        BY <2>1, <2>2, <3>1, <4>1 DEF Registered, Crawlable, Duplicate, Standing
    <3>5. CASE row = [share[x] EXCEPT !.status = "STALE"]
      <4>1. /\ row.status = "STALE" /\ row.crawled = share[x].crawled /\ row.id = share[x].id
            /\ row.size = share[x].size
        BY <1>0, <3>5 DEF Row
      <4>2. QED
        BY <2>1, <2>2, <3>1, <3>2, <4>1 DEF Registered, Crawlable, Duplicate
    <3>6. QED
      BY <2>8, <3>3, <3>4, <3>5
  <2>9. ~DeleteShare(x)
    BY <1>2 DEF DeleteShare
  <2>10. CASE Operator /\ BackfillShareMeta(x) /\ row = [Base(x) EXCEPT !.size = size[x]]
    <3>1. row.status = share[x].status
      BY <1>0, <2>1, <2>10 DEF Base, Row
    <3>2. QED
      BY <2>1, <2>5, <2>10, <3>1 DEF Registered, Duplicate
  <2>11. CASE Operator /\ UpsertShare(x) /\ row = [Base(x) EXCEPT !.status = "ACTIVE", !.crawled = 0]
    <3>1. row.status = "ACTIVE"
      BY <1>0, <2>1, <2>11 DEF Base, Row
    <3>2. QED
      BY <2>1, <2>5, <2>11, <3>1 DEF Registered, Duplicate
  <2>12. CASE Operator /\ ReactivateShare(x) /\ row = [share[x] EXCEPT !.status = "ACTIVE", !.duplicate_of = None]
    <3>1. row.status = "ACTIVE"
      BY <1>0, <2>12 DEF Row
    <3>2. QED
      BY <2>1, <2>5, <2>12, <3>1 DEF Registered, Duplicate
  <2>13. Base(x) = share[x]
    BY <2>1 DEF Base
  <2>14. QED
    BY <1>2, <2>3, <2>6, <2>7, <2>8, <2>9, <2>10, <2>11, <2>12, <2>13 DEF RowStep
<1>3. CASE UNCHANGED share
  BY <1>1, <1>3
<1>4. ASSUME NEW x \in Shares, NEW row \in Row, share' = [share EXCEPT ![x] = row],
             RowStep(x, row)
      PROVE  Keeps(t, n)'
  <2>1. CASE size[x] = n
    BY <1>2, <1>4, <2>1
  <2>2. CASE size[x] # n
    <3>1. \A s \in Shares : size[s] = n => share'[s] = share[s]
      BY <1>4, <2>2 DEF TypeOK, TablesOK
    <3>2. QED
      BY <1>1, <3>1
  <2>3. QED
    BY <2>1, <2>2
<1>5. QED
  BY <1>3, <1>4, RowSteps

\* FindDuplicateShare: the share it names keeps the size, or the keeper that is
\* crawled goes on to.
LEMMA FindKeeps ==
  ASSUME TypeOK, Shape, Rows, Untouched, Keeper, [Next]_vars, FindDuplicateShare, Found(cur)',
         size[cur] \notin touched
  PROVE  \E t \in Shares : Keeps(t, size[cur])'
<1>0. PICK x \in Shares : x = cur
  BY DEF FindDuplicateShare, Shape, TypeOK, RunOK
<1>a. PICK n \in Nat : n = size[cur]
  BY <1>0, BoundsAssumption DEF TypeOK, TablesOK
<1>1. /\ cur \in Shares /\ cur' = cur /\ share' = share /\ pc # "duplicate"
      /\ pc' = "duplicate" /\ Canonical(cur, n) # None
  BY <1>0, <1>a DEF FindDuplicateShare, Found, database
<1>2. n \in Nat /\ size' = size
  BY RowsKept
<1>b. SUFFICES \E t \in Shares : Keeps(t, n)'
  BY <1>a, <1>1, <1>2
<1>c. PICK c \in Shares : c = Oldest(SizeGroup(n))
  BY <1>1, CanonicalFacts DEF TypeOK, SizeGroup
<1>3. /\ c \in SizeGroup(n) \ {cur}
      /\ \A t \in SizeGroup(n) \ {c} : Older(c, t)
      /\ \A t \in SizeGroup(n) : size[t] = n /\ Crawlable(t) /\ Registered(t)
  BY <1>1, <1>c, CanonicalFacts DEF TypeOK
<1>4. plan' = plan
  <2>1. CASE Daemon \/ Operator \/ UNCHANGED vars
    BY <2>1, PlanIdleSame DEF PlanIdle
  <2>2. CASE Dedupe
    BY <1>1, <2>2 DEF Dedupe
  <2>3. QED
    BY <2>1, <2>2 DEF Next
<1>5. /\ \A s \in Shares : Losing(s)' <=> Losing(s)
      /\ \A s \in Shares : Standing(s)' <=> Standing(s)
      /\ \A s \in Shares : Found(s)' <=> s = cur
      /\ \A s, t \in Shares : Older(s, t)' <=> Older(s, t)
      /\ \A s \in Shares : s \in SizeGroup(n)' <=> s \in SizeGroup(n)
  <2>1. \A s \in Shares : Losing(s)' <=> Losing(s)
    BY <1>4 DEF Losing
  <2>2. \A s \in Shares : Standing(s)' <=> Standing(s)
    BY <1>1 DEF Standing, Crawlable, Duplicate
  <2>3. \A s \in Shares : Found(s)' <=> s = cur
    BY <1>1 DEF Found
  <2>4. \A s, t \in Shares : Older(s, t)' <=> Older(s, t)
    BY <1>1 DEF Older
  <2>5. \A s \in Shares : s \in SizeGroup(n)' <=> s \in SizeGroup(n)
    BY <1>1 DEF SizeGroup, Crawlable
  <2>6. QED
    BY <2>1, <2>2, <2>3, <2>4, <2>5
<1>6. ASSUME NEW t \in Shares, Keeps(t, n), ~Crawlable(t)
      PROVE  Keeps(t, n)'
  <2>1. t # cur
    BY <1>6, <1>1, <1>a DEF Untouched, InRun, Standing, Keeps
  <2>2. QED
    BY <1>1, <1>2, <1>5, <1>6, <2>1 DEF Keeps, Registered, Duplicate, Crawlable
<1>7. ASSUME \A s \in Shares : size[s] = n /\ Losing(s) /\ Standing(s) => s # c /\ Older(c, s)
      PROVE  Keeps(c, n)'
  <2>1. c \in Shares /\ size[c] = n /\ Crawlable(c) /\ share[c].size = n /\ c # cur
    BY <1>3 DEF SizeGroup
  <2>2. Registered(c)' /\ ~Duplicate(c)' /\ ~Losing(c)' /\ ~Found(c)'
    BY <1>1, <1>5, <1>7, <2>1 DEF Registered, Duplicate, Crawlable, Standing
  <2>3. \A s \in Shares : Found(s)' /\ s \in SizeGroup(n)' => Older(c, s)'
    BY <1>3, <1>5, <2>1
  <2>4. \A s \in Shares : size[s] = n /\ Losing(s)' /\ Standing(s)' => Older(c, s)'
    BY <1>5, <1>7
  <2>5. QED
    BY <1>1, <1>2, <2>1, <2>2, <2>3, <2>4 DEF Keeps
<1>8. CASE \A s \in Shares : size[s] = n => ~Losing(s)
  BY <1>3, <1>7, <1>8 DEF SizeGroup
<1>9. CASE \E s \in Shares : size[s] = n /\ Losing(s)
  <2>1. PICK t \in Shares : Keeps(t, n)
    BY <1>9, <1>a DEF Keeper
  <2>2. CASE ~Crawlable(t)
    BY <1>6, <2>1, <2>2
  <2>3. CASE Crawlable(t)
    <3>1. t \in SizeGroup(n)
      BY <1>9, <2>1, <2>3 DEF Keeps, SizeGroup
    <3>2. ASSUME NEW s \in Shares, size[s] = n, Losing(s), Standing(s)
          PROVE  s # c /\ Older(c, s)
      <4>1. Older(t, s)
        BY <2>1, <2>3, <3>2 DEF Keeps
      <4>2. CASE t = c
        BY <2>1, <3>2, <4>1, <4>2 DEF Keeps
      <4>3. CASE t # c
        <5>1. Older(c, t) /\ c \in Shares
          BY <1>3, <3>1, <4>3 DEF SizeGroup
        <5>2. Older(c, s) /\ ~Older(t, c)
          BY <4>1, <5>1, OlderTransitive, OlderAsymmetric DEF TypeOK
        <5>3. QED
          BY <4>1, <5>2
      <4>4. QED
        BY <4>2, <4>3
    <3>3. QED
      BY <1>3, <1>7, <3>2 DEF SizeGroup
  <2>4. QED
    BY <2>2, <2>3
<1>10. QED
  BY <1>8, <1>9

\* DedupeScan: the oldest keeps the size, or the keeper that is crawled goes on to.
LEMMA ScanKeeps ==
  ASSUME TypeOK, Shape, Rows, Planned, Keeper, [Next]_vars, DedupeScan,
         NEW x \in Shares, size[x] \notin touched,
         Duplicate(x)' \/ Losing(x)' \/ Found(x)'
  PROVE  \E t \in Shares : Keeps(t, size[x])'
<1>a. PICK n \in Nat : n = size[x]
  BY BoundsAssumption DEF TypeOK, TablesOK
<1>o. PICK o : o = Oldest(SizeGroup(n))
  OBVIOUS
<1>1. /\ share' = share /\ plan' = DedupePlan /\ plan = {}
      /\ n \in Nat /\ size' = size
  BY RowsKept DEF DedupeScan, database, Planned
<1>2. UNCHANGED <<pc, cur>>
  <2>1. CASE Daemon \/ Operator \/ UNCHANGED vars
    <3>1. command' = command
      BY <2>1, PlanIdleSame DEF PlanIdle
    <3>2. QED
      BY <3>1 DEF DedupeScan
  <2>2. CASE Dedupe
    BY <2>2 DEF Dedupe, run
  <2>3. QED
    BY <2>1, <2>2 DEF Next
<1>3. /\ \A s \in Shares : Duplicate(s)' <=> Duplicate(s)
      /\ \A s \in Shares : Standing(s)' <=> Standing(s)
      /\ \A s \in Shares : Found(s)' <=> Found(s)
      /\ \A s, t \in Shares : Older(s, t)' <=> Older(s, t)
      /\ \A s \in Shares : Crawlable(s)' <=> Crawlable(s)
      /\ \A s \in Shares : Registered(s)' <=> Registered(s)
      /\ \A s \in Shares : s \in SizeGroup(n)' <=> s \in SizeGroup(n)
  <2>1. \A s \in Shares : /\ Duplicate(s)' <=> Duplicate(s)
                          /\ Crawlable(s)' <=> Crawlable(s)
                          /\ Registered(s)' <=> Registered(s)
    BY <1>1 DEF Duplicate, Crawlable, Registered
  <2>2. \A s \in Shares : Found(s)' <=> Found(s)
    BY <1>2 DEF Found
  <2>3. \A s, t \in Shares : Older(s, t)' <=> Older(s, t)
    BY <1>1 DEF Older
  <2>4. \A s \in Shares : s \in SizeGroup(n)' <=> s \in SizeGroup(n)
    BY <1>1 DEF SizeGroup, Crawlable
  <2>5. QED
    BY <2>1, <2>2, <2>3, <2>4 DEF Standing
<1>4. ASSUME NEW s \in Shares, size[s] = n, Losing(s)'
      PROVE  n >= MinSize /\ s \in SizeGroup(n) /\ s # o
  <2>1. PICK a \in DedupePlan : a[1] = s
    BY <1>1, <1>4 DEF Losing
  <2>2. PICK m \in Nat : m >= MinSize /\ s \in SizeGroup(m) /\ a[2] = Oldest(SizeGroup(m)) /\ a[1] # a[2]
    BY <2>1, PlanFacts DEF TypeOK
  <2>3. m = n
    BY <1>4, <2>2, GroupFacts DEF TypeOK
  <2>4. QED
    BY <1>o, <2>1, <2>2, <2>3
<1>5. ASSUME NEW t \in Shares, Keeps(t, n), ~Crawlable(t)
      PROVE  Keeps(t, n)'
  <2>1. ~Losing(t)'
    BY <1>4, <1>5 DEF Keeps, SizeGroup
  <2>2. QED
    BY <1>1, <1>3, <1>5, <2>1 DEF Keeps
<1>6. ASSUME NEW t \in Shares, Keeps(t, n), \A s \in Shares : size[s] = n => ~Losing(s)'
      PROVE  Keeps(t, n)'
  BY <1>1, <1>3, <1>6 DEF Keeps
<1>7. ASSUME NEW s \in Shares, size[s] = n, Losing(s)',
             cur \in Shares /\ Found(cur) /\ size[cur] = n =>
               \E t \in SizeGroup(n) : t # cur /\ (cur \in SizeGroup(n) => Older(t, cur))
      PROVE  Keeps(o, n)'
  <2>1. n >= MinSize /\ SizeGroup(n) # {}
    BY <1>4, <1>7
  <2>2. /\ o \in SizeGroup(n) /\ \A t \in SizeGroup(n) \ {o} : Older(o, t)
        /\ \A t \in SizeGroup(n) : size[t] = n /\ Crawlable(t) /\ Registered(t)
    BY <1>1, <2>1, <1>o, GroupFacts DEF TypeOK
  <2>3. o \in Shares /\ size[o] = n /\ share[o].size = n /\ Crawlable(o) /\ Registered(o)
    BY <2>2 DEF SizeGroup
  <2>4. ~Losing(o)'
    BY <1>4, <2>3
  <2>5. ~Found(o)
    <3>1. SUFFICES ASSUME Found(o) PROVE FALSE
      OBVIOUS
    <3>2. o = cur
      BY <3>1 DEF Found
    <3>3. PICK t \in SizeGroup(n) : t # cur /\ Older(t, o)
      BY <1>7, <2>2, <2>3, <3>1, <3>2
    <3>4. Older(o, t) /\ t \in Shares
      BY <2>2, <3>2, <3>3 DEF SizeGroup
    <3>5. QED
      BY <2>3, <3>3, <3>4, OlderAsymmetric DEF TypeOK
  <2>6. \A u \in Shares : size[u] = n /\ Losing(u)' => Older(o, u)
    BY <1>4, <2>2
  <2>7. \A u \in Shares : Found(u) /\ u \in SizeGroup(n) => Older(o, u)
    BY <2>2, <2>5
  <2>8. ~Duplicate(o)
    BY <2>3 DEF Duplicate, Crawlable
  <2>9. QED
    BY <1>1, <1>3, <2>3, <2>4, <2>5, <2>6, <2>7, <2>8 DEF Keeps
<1>8. CASE \A s \in Shares : size[s] = n => ~Losing(s)'
  <2>1. Duplicate(x) \/ Found(x)
    BY <1>3, <1>8, <1>a
  <2>2. PICK t \in Shares : Keeps(t, n)
    BY <2>1, <1>a DEF Keeper
  <2>3. QED
    BY <1>6, <1>8, <2>2, <1>a, <1>1
<1>9. CASE \E s \in Shares : size[s] = n /\ Losing(s)'
  <2>1. PICK s \in Shares : size[s] = n /\ Losing(s)'
    BY <1>9
  <2>2. o \in Shares
    BY <1>1, <1>4, <2>1, <1>o, GroupFacts DEF TypeOK, SizeGroup
  <2>3. CASE ~(cur \in Shares /\ Found(cur) /\ size[cur] = n)
    BY <1>7, <2>1, <2>2, <2>3, <1>a, <1>1
  <2>4. CASE cur \in Shares /\ Found(cur) /\ size[cur] = n
    <3>1. PICK t \in Shares : Keeps(t, n)
      BY <2>4, <1>a DEF Keeper
    <3>2. CASE ~Crawlable(t)
      BY <1>5, <3>1, <3>2, <1>a, <1>1
    <3>3. CASE Crawlable(t)
      <4>1. t \in SizeGroup(n) /\ t # cur /\ (cur \in SizeGroup(n) => Older(t, cur))
        BY <2>4, <3>1, <3>3 DEF Keeps, SizeGroup, Found
      <4>2. QED
        BY <1>7, <2>1, <2>2, <4>1, <1>a, <1>1
    <3>4. QED
      BY <3>2, <3>3
  <2>5. QED
    BY <2>3, <2>4
<1>10. QED
  BY <1>8, <1>9


LEMMA KeeperKept ==
  ASSUME TypeOK, Shape, Once, Rows, Planned, Untouched, Keeper, [Next]_vars
  PROVE  Keeper'
<1>1. size' = size /\ touched \subseteq touched' /\ \A s \in Shares : size[s] \in Nat
  BY RowsKept, TouchedGrows, BoundsAssumption DEF TypeOK, TablesOK
<1>2. ASSUME NEW s \in Shares, size[s] \notin touched', Duplicate(s)' \/ Losing(s)' \/ Found(s)'
      PROVE  \E t \in Shares : Keeps(t, size[s])'
  <2>1. CASE DedupeScan
    BY <1>1, <1>2, <2>1, ScanKeeps
  <2>2. CASE FindDuplicateShare /\ Found(cur)' /\ size[cur] = size[s]
    <3>1. size[cur] \notin touched
      BY <1>1, <1>2, <2>2
    <3>2. \E t \in Shares : Keeps(t, size[cur])'
      BY <2>2, <3>1, FindKeeps
    <3>3. cur' = cur
      BY <2>2 DEF FindDuplicateShare
    <3>4. QED
      BY <1>1, <2>2, <3>2, <3>3
  <2>3. CASE ~DedupeScan /\ ~(FindDuplicateShare /\ Found(cur)' /\ size[cur] = size[s])
    <3>1. plan' \subseteq plan
      BY <2>3, PlanSteps
    <3>2. ASSUME NEW u \in Shares, size[u] = size[s], Found(u)' PROVE Found(u)
      BY <2>3, <3>2, FoundSteps DEF Found
    <3>3. Losing(s)' => Losing(s)
      BY <3>1 DEF Losing
    <3>4. Duplicate(s) \/ Losing(s) \/ Found(s)
      BY <1>2, <3>2, <3>3, DuplicateSteps
    <3>5. PICK t \in Shares : Keeps(t, size[s])
      BY <1>1, <1>2, <3>4 DEF Keeper
    <3>6. PICK n \in Nat : n = size[s]
      BY <1>1
    <3>7. Keeps(t, n)'
      BY <1>2, <3>1, <3>2, <3>5, <3>6, RowKeeps
    <3>8. QED
      BY <1>1, <3>6, <3>7
  <2>4. QED
    BY <2>1, <2>2, <2>3
<1>3. QED
  BY <1>1, <1>2 DEF Keeper

-----------------------------------------------------------------------------
\* The invariant

LEMMA InitIInv == Init => IInv
<1> SUFFICES ASSUME Init PROVE IInv
  OBVIOUS
<1>1. /\ size \in Sizings /\ nextId = Cardinality(Shares) + 1
      /\ files = [s \in Shares |-> {}] /\ cp = [s \in Shares |-> NoCheckpoint]
      /\ pc = "idle" /\ cycle = 0 /\ batch = <<>> /\ known = {}
      /\ cur = None /\ pos = 0 /\ firstPage = FALSE /\ found = None
      /\ outcome = "none" /\ before = {}
      /\ command = "off" /\ plan = {} /\ marked = None
      /\ alone = FALSE /\ holed = {}
  BY Zenon DEF Init
<1>2. FirstIds \in Injection(Shares, 1..Cardinality(Shares)) /\ Cardinality(Shares) \in Nat
  <2>1. Cardinality(Shares) \in Nat /\ ExistsBijection(Shares, 1..Cardinality(Shares))
    BY BoundsAssumption, FS_CardinalityType, Fun_ExistsBijSymmetric
  <2>2. \E f : f \in Injection(Shares, 1..Cardinality(Shares))
    BY <2>1 DEF ExistsBijection, Bijection
  <2>3. QED
    BY <2>1, <2>2 DEF FirstIds
<1>3. /\ \A s \in Shares : FirstIds[s] \in Nat /\ FirstIds[s] < nextId
      /\ \A s, t \in Shares : FirstIds[s] = FirstIds[t] => s = t
  <2>1. FirstIds \in [Shares -> 1..Cardinality(Shares)] /\ IsInjective(FirstIds)
    BY <1>2 DEF Injection
  <2>2. \A s \in Shares : FirstIds[s] \in Nat /\ FirstIds[s] < nextId
    BY <1>1, <1>2, <2>1
  <2>3. QED
    BY <2>1, <2>2 DEF IsInjective
<1>4. share \in [Shares -> Row] /\ \A s \in Shares : /\ share[s].id = FirstIds[s]
                                                     /\ share[s].status = "ACTIVE"
                                                     /\ share[s].size = 0
  <2>1. share = [s \in Shares |-> [Absent EXCEPT !.status = "ACTIVE", !.id = FirstIds[s]]]
    BY Zenon DEF Init
  <2>2. 0 \in 0..MaxCycles
    BY BoundsAssumption
  <2>3. Absent \in Row /\ Absent.size = 0
    BY <2>2 DEF Absent, Row
  <2>4. ASSUME NEW s \in Shares
        PROVE  /\ share[s] \in Row
               /\ share[s].id = FirstIds[s] /\ share[s].status = "ACTIVE" /\ share[s].size = 0
    <3>1. FirstIds[s] \in Nat
      BY <1>3
    <3>2. share[s] = [Absent EXCEPT !.status = "ACTIVE", !.id = FirstIds[s]]
      BY <2>1
    <3>3. QED
      BY <2>3, <3>1, <3>2 DEF Row
  <2>5. QED
    BY <2>1, <2>4
<1>5. \A s \in Shares : Registered(s) /\ ~Duplicate(s)
  BY <1>4 DEF Registered, Duplicate
<1>6. TypeOK
  <2>1. files \in [Shares -> SUBSET AllPages] /\ cp \in [Shares -> 0..Saved(Pages)]
    <3>1. NoCheckpoint \in 0..Saved(Pages)
      BY BoundsAssumption DEF NoCheckpoint, Saved
    <3>2. QED
      BY <1>1, <3>1
  <2>2. TablesOK
    BY <1>1, <1>2, <1>4, <2>1 DEF TablesOK
  <2>3. RunOK
    <3>1. 0 \in 0..MaxCycles /\ 0 \in 0..Pages
      BY BoundsAssumption
    <3>2. QED
      BY <1>1, <3>1 DEF RunOK
  <2>4. CommandOK /\ FlagsOK
    BY <1>1 DEF CommandOK, FlagsOK
  <2>5. QED
    BY <2>2, <2>3, <2>4 DEF TypeOK
<1>7. Shape /\ Once
  <2>1. DOMAIN batch = {} /\ ToSet(batch) = {}
    BY <1>1 DEF ToSet
  <2>2. QED
    BY <1>1, <2>1 DEF Shape, Once
<1>8. Rows
  BY <1>3, <1>4 DEF Rows
<1>9. CutInRun /\ RunBacked
  BY <1>1, <1>5 DEF CutInRun, RunBacked
<1>10. CheckpointBacked
  BY <1>1 DEF CheckpointBacked, ResumePoint
<1>11. CompletedSaved /\ HolesHaveCauses
  BY <1>1, <1>4 DEF CompletedSaved, HolesHaveCauses
<1>12. FirstPageClean /\ Planned /\ DuplicateOfItsSize /\ PlanComplete
  BY <1>1, <1>5 DEF FirstPageClean, Planned, DuplicateOfItsSize, PlanComplete
<1>13. Untouched /\ Keeper
  BY <1>1, <1>4, <1>5 DEF Untouched, Standing, Crawlable, Keeper, Losing, Found
<1>14. QED
  BY <1>6, <1>7, <1>8, <1>9, <1>10, <1>11, <1>12, <1>13 DEF IInv

LEMMA NextIInv == IInv /\ [Next]_vars => IInv'
<1> SUFFICES ASSUME IInv, [Next]_vars PROVE IInv'
  OBVIOUS
<1> USE DEF IInv
<1>1. TablesOK'
  BY RowsKept, FilesSteps DEF TypeOK, TablesOK
<1>2. TypeOK' /\ Shape' /\ Once' /\ Rows'
  BY <1>1, RowsKept, RunKept, CommandKept, FlagsKept DEF TypeOK
<1>3. CutInRun' /\ CheckpointBacked' /\ RunBacked' /\ CompletedSaved' /\ HolesHaveCauses'
  BY CutKept, CheckpointKept, RunBackedKept, CompletedKept
<1>4. FirstPageClean' /\ Planned' /\ DuplicateOfItsSize' /\ PlanComplete'
  BY CleanKept, PlannedKept, DuplicateKept, PlanCompleteKept
<1>5. Untouched' /\ Keeper'
  BY UntouchedKept, KeeperKept
<1>6. QED
  BY <1>2, <1>3, <1>4, <1>5

\* The inductive invariant holds in every reachable state.
THEOREM Inductive == Spec => []IInv
BY InitIInv, NextIInv, PTL DEF Spec

\* The tables, the run and the command keep their types.
THEOREM TypeCorrect == Spec => []TypeOK
<1>1. IInv => TypeOK
  BY DEF IInv
<1>2. QED
  BY Inductive, <1>1, PTL

\* Neither the crawl nor the command, nor both, mark the last copy of a size a
\* DUPLICATE (FindDuplicateShare, DedupeSharesBySize).
THEOREM LastCopyKept == Spec => []KeepsACopy
<1>1. IInv => KeepsACopy
  <2>1. ASSUME Keeper, NEW s \in Shares, Duplicate(s), size[s] \notin touched
        PROVE  \E t \in SameSize(s) : Registered(t) /\ ~Duplicate(t)
    BY <2>1 DEF Keeper, Keeps, SameSize
  <2>2. QED
    BY <2>1 DEF IInv, KeepsACopy
<1>2. QED
  BY Inductive, <1>1, PTL

\* A share is only a DUPLICATE of another of its own size, above the threshold.
THEOREM DuplicatesMatch == Spec => []DuplicateOfItsSize
<1>1. IInv => DuplicateOfItsSize
  BY DEF IInv
<1>2. QED
  BY Inductive, <1>1, PTL

\* A crawl that ends in a duplicate has written no file (crawlPages' dedup check).
THEOREM DuplicatesWriteNothing == Spec => []DuplicateIndexesNothing
<1>1. IInv => DuplicateIndexesNothing
  BY DEF IInv, FirstPageClean, DuplicateIndexesNothing
<1>2. QED
  BY Inductive, <1>1, PTL

\* Left alone, dedupe-shares-by-size leaves no two crawlable shares of one size.
THEOREM CommandComplete == Spec => []DedupeComplete
<1>1. IInv => DedupeComplete
  <2>1. ASSUME PlanComplete, Planned, command = "done", alone, NEW s \in Shares,
               NEW t \in Shares \ {s}, Crawlable(s), Crawlable(t), share[s].size >= MinSize
        PROVE  share[s].size # share[t].size
    BY <2>1 DEF PlanComplete, Planned
  <2>2. QED
    BY <2>1 DEF IInv, DedupeComplete
<1>2. QED
  BY Inductive, <1>1, PTL

\* A COMPLETED share is completely indexed, unless its files were deleted while
\* a run or a checkpoint counted on them.
THEOREM HolesExplained == Spec => []HolesHaveCauses
<1>1. IInv => HolesHaveCauses
  BY DEF IInv
<1>2. QED
  BY Inductive, <1>1, PTL
=============================================================================
