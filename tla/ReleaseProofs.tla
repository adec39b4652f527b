----------------------------- MODULE ReleaseProofs -----------------------------
(***************************************************************************)
(* Proofs about SearchPlan and Release, for every set of shares and pages  *)
(* of well-formed rows, segments, batch size, threshold and bound.         *)
(*                                                                         *)
(* First what planDocs promises of any set of rows: one document for each  *)
(* id, every row found by its terms, nothing found by another's. Then that *)
(* an index that is in its place is the whole plan of the rows it was made *)
(* from, that it stays there whole while no rebuild begins its second over *)
(* again, and that a walk of it meanwhile copies every file of it.         *)
(***************************************************************************)
EXTENDS Release, FiniteSetTheorems, FunctionTheorems, WellFoundedInduction, TLAPS

Whole(index) == index.docs = PlanDocs(index.rows)

\* What is in place is whole, and so it stays unless its second is begun over.
ReadyWhole == \A v \in Versions : ready[v].made => Whole(ready[v])

Standing ==
  \A v \in Versions \ again : ready[v].made =>
    /\ ready[v].left = Entries
    /\ ~(builder.version = v /\ builder.pc \in {"clear", "read", "batch"})

\* What the rebuild has put into the index, and what it has still to put there,
\* is the plan.
InHand ==
  /\ builder.pc # "off" => builder.version \in Versions
  /\ builder.pc \in {"read", "batch"} =>
       building[builder.version].made /\ building[builder.version].left = Entries
  /\ builder.pc = "read" => building[builder.version].docs = {}
  /\ builder.pc = "batch" =>
       building[builder.version].docs \cup builder.todo =
         PlanDocs(building[builder.version].rows)
  /\ builder.pc = "manifest" => ready[builder.version].made

\* The walk has copied, or has still to come to, every file of the index it
\* found; it meets that index to the end unless its second is begun over.
Copied(bleve, todo, build) ==
  /\ bleve \subseteq IndexFiles \X {build}
  /\ \A e \in IndexFiles : <<e, build>> \in bleve \/ e \in todo \/ (e \in Segments /\ Store \in todo)

Walking ==
  /\ package.version = exporter.path[1] /\ Whole(package.index)
  /\ package.version \in Versions /\ package.version \notin again =>
       /\ ready[package.version] = package.index /\ package.index.made
       /\ Copied(package.bleve, exporter.todo, package.index.build)

\* The export copies from the place of finished indexes, and stamps nothing else.
Exporting ==
  /\ exporter.pc # "off" => exporter.path \in Versions \X {0, 1} /\ exporter.path[2] = 0
  /\ exporter.pc \in {"bleve", "walk"} => ~package.stamped
  /\ exporter.pc = "bleve" => package.bleve = {}
  /\ exporter.pc = "walk" => Walking
  /\ package.stamped => Whole(package.index) /\ (package.version \notin again => Unbroken)

\* The inductive invariant.
IInv == TypeOK /\ ReadyWhole /\ Standing /\ InHand /\ ManifestResolves /\ Exporting

-----------------------------------------------------------------------------
\* Sets of rows

\* Every set of numbers has a least one.
LEMMA NatMin ==
  ASSUME NEW S \in SUBSET Nat, S # {}
  PROVE  \E n \in S : \A m \in S : n <= m
<1> DEFINE R == { p \in Nat \X Nat : p[1] < p[2] }
<1>1. IsWellFoundedOn(R, Nat)
  BY NatLessThanWellFounded DEF OpToRel
<1>2. \A x, y \in Nat : x < y => <<x, y>> \in R
  OBVIOUS
<1> HIDE DEF R
<1>3. PICK n \in S : \A y \in S : ~ (<<y, n>> \in R)
  BY <1>1, WFMin
<1>4. ASSUME NEW m \in S PROVE n <= m
  <2>1. m \in Nat /\ n \in Nat
    OBVIOUS
  <2>2. ~ (<<m, n>> \in R)
    BY <1>3
  <2>3. ~ (m < n)
    BY <1>2, <2>1, <2>2
  <2>4. QED
    BY <2>1, <2>3
<1>5. QED
  BY <1>4

\* A part of a set of rows is one, too.
LEMMA PartWellFormed ==
  ASSUME NEW rows, WellFormed(rows), NEW S \in SUBSET rows
  PROVE  WellFormed(S)
BY FS_Subset DEF WellFormed

\* Rows have a least one, by share and file.
LEMMA LeastOfRows ==
  ASSUME NEW S, WellFormed(S), S # {}
  PROVE  Least(S) \in S /\ \A q \in S \ {Least(S)} : Before(Least(S), q)
<1>1. \A r \in S : r.share \in Nat /\ r.file \in Nat
  BY DEF WellFormed
<1> DEFINE C == { r.share : r \in S }
<1>2. PICK c \in C : \A d \in C : c <= d
  <2>1. C \in SUBSET Nat /\ C # {}
    BY <1>1
  <2> HIDE DEF C
  <2>2. QED
    BY <2>1, NatMin
<1> DEFINE T == { r \in S : r.share = c }
<1> DEFINE I == { r.file : r \in T }
<1>3. PICK i \in I : \A j \in I : i <= j
  <2>1. I \in SUBSET Nat /\ I # {}
    BY <1>1, <1>2
  <2> HIDE DEF I
  <2>2. QED
    BY <2>1, NatMin
<1>4. PICK r \in T : r.file = i
  BY <1>3
<1>5. ASSUME NEW q \in S \ {r} PROVE Before(r, q)
  <2>1. r.share # q.share \/ r.file # q.file
    BY DEF WellFormed
  <2>2. r.share = c /\ c <= q.share
    BY <1>2
  <2>3. q.share = c => r.file <= q.file
    BY <1>3, <1>4
  <2>4. QED
    BY <1>1, <2>1, <2>2, <2>3 DEF Before
<1>6. QED
  BY <1>5 DEF Least

\* Rows of one id are one row.
LEMMA IdsAreKeys ==
  ASSUME NEW rows, WellFormed(rows), NEW q \in rows, NEW r \in rows, DocId(q) = DocId(r)
  PROVE  q = r
BY DEF WellFormed, DocId

-----------------------------------------------------------------------------
\* What planDocs makes of the rows

\* The group of a hashed row holds the row, and its representative is the least.
Group(rows, f) == { g \in Hashed(rows) : SameGroup(f, g) }

LEMMA GroupFacts ==
  ASSUME NEW rows, WellFormed(rows), NEW f \in Hashed(rows)
  PROVE  /\ f \in Group(rows, f) /\ Group(rows, f) \subseteq Hashed(rows)
         /\ Hashed(rows) \subseteq Loose(rows) /\ Loose(rows) \subseteq rows
         /\ Least(Group(rows, f)) \in Group(rows, f)
         /\ \A q \in Group(rows, f) \ {Least(Group(rows, f))} : Before(Least(Group(rows, f)), q)
<1>1. /\ Group(rows, f) \subseteq Hashed(rows)
      /\ Hashed(rows) \subseteq Loose(rows) /\ Loose(rows) \subseteq rows
  BY DEF Group, Hashed, Loose
<1>2. f \in Group(rows, f)
  BY DEF Group, SameGroup
<1>3. Group(rows, f) \in SUBSET rows
  BY <1>1
<1>4. WellFormed(Group(rows, f))
  BY <1>3, PartWellFormed
<1>5. QED
  BY <1>1, <1>2, <1>4, LeastOfRows

\* A document stands for one row: the folder, the file without a hash, or the
\* least of a group.
PlanOf(rows, doc, q) ==
  /\ q \in rows /\ doc.id = DocId(q)
  /\ \/ /\ q.dir
        /\ doc.names = IF q \in Containers(rows) THEN FolderNames(q, Children(rows, q))
                       ELSE {q.name}
     \/ q \in Loose(rows) \ Hashed(rows) /\ doc.names = {q.name}
     \/ \E f \in Hashed(rows) :
          q = Least(Group(rows, f)) /\ doc.names = { g.name : g \in Group(rows, f) }

LEMMA PlanShape ==
  ASSUME NEW rows, NEW doc \in PlanDocs(rows), WellFormed(rows)
  PROVE  \E q \in rows : PlanOf(rows, doc, q) /\ doc = [id |-> doc.id, names |-> doc.names]
<1>1. CASE doc \in FolderDocs(rows)
  <2>1. PICK d \in { r \in rows : r.dir } :
          doc = [id |-> DocId(d), names |-> IF d \in Containers(rows)
                                            THEN FolderNames(d, Children(rows, d))
                                            ELSE {d.name}]
    BY <1>1 DEF FolderDocs
  <2>2. PlanOf(rows, doc, d)
    BY <2>1 DEF PlanOf
  <2>3. QED
    BY <2>1, <2>2
<1>2. CASE doc \in PlainDocs(rows)
  <2>1. PICK f \in Loose(rows) \ Hashed(rows) :
          doc = [id |-> DocId(f), names |-> {f.name}]
    BY <1>2 DEF PlainDocs
  <2>2. f \in rows
    BY DEF Loose
  <2>3. PlanOf(rows, doc, f)
    BY <2>1, <2>2 DEF PlanOf
  <2>4. QED
    BY <2>1, <2>2, <2>3
<1>3. CASE doc \in ContentDocs(rows)
  <2>1. PICK f \in Hashed(rows) :
          doc = [id |-> DocId(Least(Group(rows, f))), names |-> { g.name : g \in Group(rows, f) }]
    BY <1>3 DEF ContentDocs, Group
  <2>2. Least(Group(rows, f)) \in rows
    BY GroupFacts
  <2>3. PlanOf(rows, doc, Least(Group(rows, f)))
    BY <2>1, <2>2 DEF PlanOf
  <2>4. QED
    BY <2>1, <2>2, <2>3
<1>4. QED
  BY <1>1, <1>2, <1>3 DEF PlanDocs

\* Rows of one group have one group, and one representative.
LEMMA GroupsAreDisjoint ==
  ASSUME NEW rows, NEW f \in Hashed(rows), NEW g \in Hashed(rows),
         NEW q \in Group(rows, f), q \in Group(rows, g)
  PROVE  Group(rows, f) = Group(rows, g)
<1>1. SameGroup(f, q) /\ SameGroup(g, q)
  BY DEF Group
<1>2. SameGroup(f, g) /\ SameGroup(g, f)
  BY <1>1 DEF SameGroup
<1>3. ASSUME NEW h \in Hashed(rows) PROVE SameGroup(f, h) <=> SameGroup(g, h)
  <2>1. SameGroup(f, h) => SameGroup(g, h)
    BY <1>2 DEF SameGroup
  <2>2. SameGroup(g, h) => SameGroup(f, h)
    BY <1>2 DEF SameGroup
  <2>3. QED
    BY <2>1, <2>2
<1>4. QED
  BY <1>3 DEF Group

\* planDocs makes one document for each id, so that none replaces another.
LEMMA OneDocForEachId ==
  ASSUME NEW rows, WellFormed(rows), NEW a \in PlanDocs(rows), NEW b \in PlanDocs(rows),
         a.id = b.id
  PROVE  a = b
<1>1. PICK q \in rows : PlanOf(rows, a, q) /\ a = [id |-> a.id, names |-> a.names]
  BY PlanShape
<1>2. PICK r \in rows : PlanOf(rows, b, r) /\ b = [id |-> b.id, names |-> b.names]
  BY PlanShape
<1>3. q = r
  BY <1>1, <1>2, IdsAreKeys DEF PlanOf
<1>4. \A f \in Loose(rows) : ~f.dir
  BY DEF Loose
<1>5. \A f \in Hashed(rows) : Least(Group(rows, f)) \in Hashed(rows) /\ Least(Group(rows, f)) \in Group(rows, f)
  BY GroupFacts
<1>6. \A f \in Hashed(rows) : f \in Loose(rows) /\ f.sha # NoHash
  BY DEF Hashed
<1>7. a.names = b.names
  <2>1. CASE q.dir
    BY <1>1, <1>2, <1>3, <1>4, <1>5, <1>6, <2>1 DEF PlanOf
  <2>2. CASE q \in Loose(rows) \ Hashed(rows)
    BY <1>1, <1>2, <1>3, <1>4, <1>5, <1>6, <2>2 DEF PlanOf
  <2>3. CASE ~q.dir /\ q \in Hashed(rows)
    <3>1. PICK f \in Hashed(rows) : q = Least(Group(rows, f)) /\ a.names = { g.name : g \in Group(rows, f) }
      BY <1>1, <2>3 DEF PlanOf
    <3>2. PICK h \in Hashed(rows) : q = Least(Group(rows, h)) /\ b.names = { g.name : g \in Group(rows, h) }
      BY <1>2, <1>3, <2>3 DEF PlanOf
    <3>3. Group(rows, f) = Group(rows, h)
      BY <1>5, <3>1, <3>2, GroupsAreDisjoint
    <3>4. QED
      BY <3>1, <3>2, <3>3
  <2>4. QED
    BY <1>1, <1>4, <1>5, <1>6, <2>1, <2>2, <2>3 DEF PlanOf
<1>8. QED
  BY <1>1, <1>2, <1>7

\* The plan of finitely many rows is finite.
LEMMA PlanIsFinite ==
  ASSUME NEW rows, WellFormed(rows)
  PROVE  IsFiniteSet(PlanDocs(rows))
<1> DEFINE f == [doc \in PlanDocs(rows) |-> CHOOSE q \in rows : DocId(q) = doc.id]
<1>1. ASSUME NEW doc \in PlanDocs(rows) PROVE f[doc] \in rows /\ DocId(f[doc]) = doc.id
  <2>1. \E q \in rows : DocId(q) = doc.id
    BY PlanShape DEF PlanOf
  <2>2. QED
    BY <2>1
<1> HIDE DEF f
<1>2. f \in [PlanDocs(rows) -> rows]
  BY <1>1 DEF f
<1>3. \A a, b \in PlanDocs(rows) : f[a] = f[b] => a = b
  BY <1>1, OneDocForEachId
<1>4. f \in Injection(PlanDocs(rows), rows)
  BY <1>2, <1>3 DEF Injection, IsInjective
<1>5. QED
  BY <1>4, FS_Injection DEF WellFormed

\* A child's stem is among the names of its folder's document, unless they are
\* too many for it.
LEMMA StemsFit ==
  ASSUME NEW rows, WellFormed(rows), NEW d \in rows, NEW r \in Children(rows, d),
         ~(Cardinality({ Norm(k.name) : k \in Children(rows, d) }) >= MaxNames)
  PROVE  Norm(r.name) \in FolderNames(d, Children(rows, d))
<1> DEFINE kids == Children(rows, d)
<1> DEFINE All == { Norm(k.name) : k \in kids }
<1>1. kids \subseteq rows /\ IsFiniteSet(kids)
  <2>1. kids \in SUBSET rows
    BY DEF Children
  <2>2. QED
    BY <2>1, FS_Subset DEF WellFormed
<1>2. IsFiniteSet(All) /\ Cardinality(All) \in Nat
  <2>1. [k \in kids |-> Norm(k.name)] \in Surjection(kids, All)
    BY DEF Surjection
  <2>2. QED
    BY <1>1, <2>1, FS_Surjection, FS_CardinalityType
<1>3. \A x \in All : x.text \in Nat
  BY <1>1 DEF WellFormed, Norm, Names
<1>4. CASE Norm(r.name) = Norm(d.name)
  BY <1>4 DEF FolderNames
<1>5. CASE Norm(r.name) # Norm(d.name)
  <2> DEFINE S == All \ {Norm(d.name)}
  <2> DEFINE x == Norm(r.name)
  <2> DEFINE L == { y \in S : y.text < x.text }
  <2>1. x \in S
    BY <1>5
  <2>2. IsFiniteSet(S) /\ Cardinality(S) \in Nat /\ Cardinality(S) <= Cardinality(All)
    BY <1>2, FS_Subset, FS_CardinalityType
  <2>3. /\ IsFiniteSet(S \ {x}) /\ Cardinality(S \ {x}) = Cardinality(S) - 1
        /\ Cardinality(S \ {x}) \in Nat
    BY <2>1, <2>2, FS_RemoveElement, FS_CardinalityType
  <2>4. L \in SUBSET (S \ {x})
    BY <1>3, <2>1
  <2>5. Cardinality(L) <= Cardinality(S \ {x}) /\ Cardinality(L) \in Nat
    BY <2>3, <2>4, FS_Subset, FS_CardinalityType
  <2>6. Cardinality(All) < MaxNames /\ MaxNames \in Nat
    BY <1>2, SearchPlanAssumption
  <2>7. Cardinality(L) < MaxNames - 1
    BY <1>2, <2>2, <2>3, <2>5, <2>6
  <2>8. x \in FirstNames(S, MaxNames - 1)
    BY <2>1, <2>7 DEF FirstNames
  <2>9. QED
    BY <2>8 DEF FolderNames
<1>6. QED
  BY <1>4, <1>5

\* A row is found by all that is sought of it: as itself, under its folder or
\* under a copy of its content that comes before it; or its folder has too many
\* names.
LEMMA EveryRowIsFound ==
  ASSUME NEW rows, WellFormed(rows), NEW r \in rows
  PROVE  \/ Overflows(rows, r)
         \/ \E doc \in PlanDocs(rows), q \in rows :
              /\ \A term \in Sought(rows, r) : Finds(doc, term)
              /\ DocId(q) = doc.id /\ Stands(q, r)
              /\ q = r \/ Before(q, r) \/ q.dir
<1>1. \A d \in Containers(rows) : d \in rows /\ d.dir
  BY DEF Containers
<1>2. \A d : r \in Children(rows, d) => ~r.dir
  BY DEF Children
<1>3. CASE r \in Containers(rows)
  <2> DEFINE doc == [id |-> DocId(r), names |-> FolderNames(r, Children(rows, r))]
  <2>1. doc \in PlanDocs(rows)
    BY <1>1, <1>3 DEF PlanDocs, FolderDocs
  <2>2. Norm(r.name) \in doc.names
    BY DEF FolderNames
  <2>3. Sought(rows, r) = Norm(r.name).terms
    BY <1>3 DEF Sought, RolledUp
  <2>4. QED
    BY <2>1, <2>2, <2>3 DEF Finds, Stands
<1>4. CASE r.dir /\ r \notin Containers(rows)
  <2> DEFINE doc == [id |-> DocId(r), names |-> {r.name}]
  <2>1. doc \in PlanDocs(rows)
    BY <1>4 DEF PlanDocs, FolderDocs
  <2>2. Sought(rows, r) = r.name.terms
    BY <1>2, <1>4 DEF Sought, RolledUp
  <2>3. QED
    BY <2>1, <2>2 DEF Finds, Stands
<1>5. CASE ~r.dir /\ r \notin Loose(rows)
  <2>1. PICK d \in Containers(rows) : r \in Children(rows, d)
    BY <1>5 DEF Loose
  <2>2. d \in rows /\ d.dir
    BY <1>1
  <2> DEFINE doc == [id |-> DocId(d), names |-> FolderNames(d, Children(rows, d))]
  <2>3. doc \in PlanDocs(rows)
    BY <2>2 DEF PlanDocs, FolderDocs
  <2>4. Stands(d, r)
    BY <2>1, <2>2 DEF Stands, Children
  <2>5. CASE Cardinality({ Norm(k.name) : k \in Children(rows, d) }) >= MaxNames
    BY <2>1, <2>2, <2>5 DEF Overflows
  <2>6. CASE ~(Cardinality({ Norm(k.name) : k \in Children(rows, d) }) >= MaxNames)
    <3>1. Norm(r.name) \in doc.names
      BY <2>1, <2>2, <2>6, StemsFit
    <3>2. Sought(rows, r) = Norm(r.name).terms
      BY <2>1 DEF Sought, RolledUp
    <3>3. QED
      BY <2>2, <2>3, <2>4, <3>1, <3>2 DEF Finds
  <2>7. QED
    BY <2>5, <2>6
<1>6. CASE r \in Loose(rows)
  <2>1. ~r.dir /\ \A d \in Containers(rows) : r \notin Children(rows, d)
    BY <1>6 DEF Loose
  <2>2. Sought(rows, r) = r.name.terms
    BY <1>1, <2>1 DEF Sought, RolledUp
  <2>3. CASE r \notin Hashed(rows)
    <3> DEFINE doc == [id |-> DocId(r), names |-> {r.name}]
    <3>1. doc \in PlanDocs(rows)
      BY <1>6, <2>3 DEF PlanDocs, PlainDocs
    <3>2. QED
      BY <2>2, <3>1 DEF Finds, Stands
  <2>4. CASE r \in Hashed(rows)
    <3> DEFINE q == Least(Group(rows, r))
    <3> DEFINE doc == [id |-> DocId(q), names |-> { f.name : f \in Group(rows, r) }]
    <3>1. doc \in PlanDocs(rows)
      BY <2>4 DEF PlanDocs, ContentDocs, Group
    <3>2. /\ r \in Group(rows, r) /\ q \in Group(rows, r) /\ q \in Hashed(rows) /\ q \in Loose(rows)
          /\ q \in rows /\ (q = r \/ Before(q, r))
      BY <2>4, GroupFacts
    <3>3. Stands(q, r)
      BY <2>4, <3>2 DEF Group, SameGroup, Stands, Loose, Hashed
    <3>4. \A term \in Sought(rows, r) : Finds(doc, term)
      BY <2>2, <3>2 DEF Finds
    <3>5. DocId(q) = doc.id
      OBVIOUS
    <3> HIDE DEF q, doc
    <3>6. QED
      BY <3>1, <3>2, <3>3, <3>4, <3>5
  <2>5. QED
    BY <2>3, <2>4
<1>7. QED
  BY <1>3, <1>4, <1>5, <1>6

\* Each name of a document is that of a row its own row may stand for.
LEMMA NoNameIsFalse ==
  ASSUME NEW rows, WellFormed(rows), NEW doc \in PlanDocs(rows), NEW n \in doc.names
  PROVE  \E q, r \in rows : /\ DocId(q) = doc.id /\ Stands(q, r)
                            /\ n \in {r.name, Norm(r.name)}
<1>1. PICK q \in rows : PlanOf(rows, doc, q)
  BY PlanShape
<1>2. DocId(q) = doc.id /\ Stands(q, q)
  BY <1>1 DEF PlanOf, Stands
<1>3. CASE n \in {q.name, Norm(q.name)}
  BY <1>2, <1>3
<1>4. CASE q.dir /\ n \in FolderNames(q, Children(rows, q)) /\ n # Norm(q.name)
  <2>1. PICK k \in Children(rows, q) : n = Norm(k.name)
    BY <1>4 DEF FolderNames, FirstNames
  <2>2. k \in rows /\ Stands(q, k)
    BY <1>4 DEF Children, Stands
  <2>3. QED
    BY <1>2, <2>1, <2>2
<1>5. CASE \E f \in Hashed(rows) :
             q = Least(Group(rows, f)) /\ doc.names = { g.name : g \in Group(rows, f) }
  <2>1. PICK f \in Hashed(rows) :
          q = Least(Group(rows, f)) /\ doc.names = { g.name : g \in Group(rows, f) }
    BY <1>5
  <2>2. PICK g \in Group(rows, f) : n = g.name
    BY <2>1
  <2>3. q \in Group(rows, f) /\ g \in rows /\ q \in Hashed(rows) /\ g \in Hashed(rows)
    BY <2>1, GroupFacts
  <2>4. Stands(q, g)
    BY <2>2, <2>3 DEF Group, SameGroup, Stands, Hashed, Loose
  <2>5. QED
    BY <1>2, <2>2, <2>3, <2>4
<1>6. QED
  BY <1>1, <1>3, <1>4, <1>5 DEF PlanOf

\* Documents have ids of two numbers, and names.
LEMMA PlanTypes ==
  ASSUME NEW rows, WellFormed(rows)
  PROVE  PlanDocs(rows) \subseteq Doc
<1>1. ASSUME NEW doc \in PlanDocs(rows) PROVE doc \in Doc
  <2>1. PICK q \in rows : PlanOf(rows, doc, q) /\ doc = [id |-> doc.id, names |-> doc.names]
    BY PlanShape
  <2>2. doc.id \in Nat \X Nat
    BY <2>1 DEF PlanOf, WellFormed, DocId
  <2>3. ASSUME NEW n \in doc.names PROVE n \in Names
    <3>1. PICK r \in rows : n \in {r.name, Norm(r.name)}
      BY NoNameIsFalse
    <3>2. r.name \in Names
      BY DEF WellFormed
    <3>3. QED
      BY <3>1, <3>2 DEF Norm, Names
  <2>4. QED
    BY <2>1, <2>2, <2>3 DEF Doc
<1>2. QED
  BY <1>1

-----------------------------------------------------------------------------
\* Batches

\* A finite set has parts of every size up to its own.
LEMMA PartOfSize ==
  ASSUME NEW S, IsFiniteSet(S), NEW n \in Nat, n <= Cardinality(S)
  PROVE  \E T \in SUBSET S : Cardinality(T) = n
<1>1. Cardinality(S) \in Nat /\ ExistsBijection(1..Cardinality(S), S)
  BY FS_CardinalityType
<1>2. PICK g \in Bijection(1..Cardinality(S), S) : TRUE
  BY <1>1 DEF ExistsBijection
<1>3. /\ g \in [1..Cardinality(S) -> S]
      /\ \A a, b \in 1..Cardinality(S) : g[a] = g[b] => a = b
  BY <1>2 DEF Bijection, Injection, IsInjective
<1>4. \A i \in 1..n : i \in 1..Cardinality(S)
  BY <1>1
<1> DEFINE T == { g[i] : i \in 1..n }
<1> DEFINE h == [i \in 1..n |-> g[i]]
<1>5. T \in SUBSET S
  BY <1>3, <1>4
<1>6. h \in Surjection(1..n, T)
  BY DEF Surjection
<1>7. h \in Injection(1..n, T)
  BY <1>3, <1>4 DEF Injection, IsInjective
<1>8. IsFiniteSet(1..n) /\ Cardinality(1..n) = n
  BY FS_Interval
<1> HIDE DEF h, T
<1>9. Cardinality(T) = n
  BY <1>6, <1>7, <1>8, FS_Surjection
<1>10. QED
  BY <1>5, <1>9

\* A batch is some of the documents.
LEMMA BatchIsPart ==
  ASSUME NEW docs, IsFiniteSet(docs)
  PROVE  NextBatch(docs) \in SUBSET docs
<1> DEFINE n == IF Cardinality(docs) < BatchSize THEN Cardinality(docs) ELSE BatchSize
<1>1. n \in Nat /\ n <= Cardinality(docs)
  BY FS_CardinalityType, ReleaseAssumption
<1> HIDE DEF n
<1>2. \E T \in SUBSET docs : Cardinality(T) = n
  BY <1>1, PartOfSize
<1>3. NextBatch(docs) = CHOOSE T \in SUBSET docs : Cardinality(T) = n
  BY DEF NextBatch, n
<1>4. QED
  BY <1>2, <1>3

\* A batch of documents with ids of their own is added to the index.
LEMMA BatchIsAdded ==
  ASSUME NEW D, NEW docs \in SUBSET D, NEW batch \in SUBSET D,
         \A a, b \in D : a.id = b.id => a = b
  PROVE  Indexed(docs, batch) = docs \cup batch
<1>1. ASSUME NEW d \in batch PROVE d = CHOOSE doc \in batch : doc.id = d.id
  <2>1. (CHOOSE doc \in batch : doc.id = d.id) \in batch
        /\ (CHOOSE doc \in batch : doc.id = d.id).id = d.id
    OBVIOUS
  <2>2. QED
    BY <2>1
<1>2. ASSUME NEW d \in docs, NEW doc \in batch, doc.id = d.id PROVE d = doc
  BY <1>2
<1>3. QED
  BY <1>1, <1>2 DEF Indexed

-----------------------------------------------------------------------------
\* Types

\* The steps that leave the rebuild, and those that leave the export, alone.
RebuildIdle == Database \/ Export \/ Tick \/ UNCHANGED vars
ExportIdle  == Database \/ Rebuild \/ Tick \/ UNCHANGED vars

LEMMA RebuildIdleSame ==
  RebuildIdle => UNCHANGED <<manifest, building, ready, builder, again>>
BY DEF RebuildIdle, Database, Export, Tick, vars, database, disk

LEMMA ExportIdleSame == ExportIdle => UNCHANGED <<package, exporter>>
BY DEF ExportIdle, Database, Rebuild, Tick, vars, database, disk

LEMMA NextSteps ==
  ASSUME [Next]_vars
  PROVE  (Rebuild \/ RebuildIdle) /\ (Export \/ ExportIdle)
BY DEF Next, RebuildIdle, ExportIdle

\* The export leaves what the rebuild has made alone.
LEMMA ExportSame == Export => UNCHANGED <<building, ready, builder, again>>
BY DEF Export, database

LEMMA DatabaseTypes ==
  ASSUME TypeOK, [Next]_vars
  PROVE  DatabaseOK'
<1> USE DEF TypeOK, DatabaseOK
<1>1. CASE Database
  <2>1. UNCHANGED <<manifest, now, again>>
    BY <1>1 DEF Database
  <2>2. files' \subseteq Rows
    BY <1>1 DEF Database, CrawlPage, EndCrawl, MarkShare, UpsertShare, DeleteShare, CleanUp, Rows
  <2>3. share' \in [Shares -> {"none", "LIVE", "DEAD", "DUPLICATE"}]
    BY <1>1 DEF Database, CrawlPage, EndCrawl, MarkShare, UpsertShare, DeleteShare, CleanUp,
       Verdicts
  <2>4. deleted' \in Shares \cup {NoShare}
    BY <1>1 DEF Database, CrawlPage, EndCrawl, MarkShare, UpsertShare, DeleteShare, CleanUp
  <2>5. QED
    BY <2>1, <2>2, <2>3, <2>4
<1>2. CASE Rebuild
  <2>1. UNCHANGED <<files, share, now, deleted>>
    BY <1>2 DEF Rebuild
  <2>2. manifest' \in Versions \cup {NoVersion}
    BY <1>2 DEF Rebuild, StartRebuild, RemoveAll, CreateIndex, AllFiles, IndexBatch, RenameIndex,
       UpdateManifest, RebuildFails, ProcessesOK
  <2>3. again' \subseteq Versions
    BY <1>2 DEF Rebuild, StartRebuild, RemoveAll, CreateIndex, AllFiles, IndexBatch, RenameIndex,
       UpdateManifest, RebuildFails
  <2>4. QED
    BY <2>1, <2>2, <2>3
<1>3. CASE Export
  BY <1>3 DEF Export, database
<1>4. CASE Tick
  <2>1. now' \in Versions
    BY <1>4, ReleaseAssumption DEF Tick, Versions
  <2>2. UNCHANGED <<files, share, manifest, deleted, again>>
    BY <1>4 DEF Tick, database
  <2>3. QED
    BY <2>1, <2>2
<1>5. CASE UNCHANGED vars
  BY <1>5 DEF vars, database
<1>6. QED
  BY <1>1, <1>2, <1>3, <1>4, <1>5 DEF Next

\* The rows of the table are well formed.
LEMMA FilesWellFormed ==
  ASSUME TypeOK
  PROVE  WellFormed(files) /\ WellFormed(Rows)
BY PagesAssumption, PartWellFormed DEF TypeOK, DatabaseOK

\* What is still to be written is a finite part of the plan, so that a batch is
\* some of it.
LEMMA BatchFacts ==
  ASSUME TypeOK, InHand, IndexBatch
  PROVE  /\ builder.version \in Versions /\ WellFormed(building[builder.version].rows)
         /\ NextBatch(builder.todo) \in SUBSET builder.todo
<1>1. /\ builder.version \in Versions
      /\ builder.todo \in SUBSET PlanDocs(building[builder.version].rows)
  BY DEF IndexBatch, InHand
<1>2. building[builder.version].rows \in SUBSET Rows
  BY <1>1 DEF TypeOK, DiskOK, Index
<1>3. WellFormed(building[builder.version].rows)
  BY <1>2, FilesWellFormed, PartWellFormed
<1>4. IsFiniteSet(builder.todo)
  BY <1>1, <1>3, PlanIsFinite, FS_Subset
<1>5. QED
  BY <1>1, <1>3, <1>4, BatchIsPart

Builders == [pc : {"off", "clear", "read", "batch", "manifest"},
             version : Versions \cup {NoVersion}, todo : SUBSET Doc]
Exporters == [pc : {"off", "trim", "bleve", "walk"},
              path : {<<>>} \cup (Versions \X {0, 1}), todo : SUBSET Entries]

\* A step of RemoveAll takes one entry of the directory, or what was one.
LEMMA EntryRemoved ==
  ASSUME TypeOK, InHand, RemoveAll
  PROVE  /\ builder.pc = "clear" /\ builder.version \in Versions
         /\ \/ \E e \in Entries :
                 ready' = [ready EXCEPT ![builder.version].left = @ \ {e}]
            \/ ready' = [ready EXCEPT ![builder.version] = NoIndex]
<1>1. builder.pc = "clear" /\ builder.version \in Versions /\ RemoveEntry(builder.version)
  BY DEF RemoveAll, Cleared, InHand
<1>2. ready[builder.version].left \subseteq Entries
  BY <1>1 DEF TypeOK, DiskOK, Index
<1>3. QED
  BY <1>1, <1>2 DEF RemoveEntry

LEMMA BuilderTypes ==
  ASSUME TypeOK, InHand, [Next]_vars
  PROVE  building' \in [Versions -> Index] /\ ready' \in [Versions -> Index] /\ builder' \in Builders
<1> USE DEF TypeOK, DiskOK, Builders
<1>1. NoIndex \in Index
  BY DEF NoIndex, Index
<1>2. NewIndex(rebuilds) \in Index
  BY DEF NewIndex, NoIndex, Index, ProcessesOK
<1>3. builder \in Builders /\ BuilderOff \in Builders
  BY DEF ProcessesOK, BuilderOff
<1>4. now \in Versions /\ files \subseteq Rows
  BY DEF DatabaseOK
<1>5. CASE RebuildIdle
  BY <1>3, <1>5, RebuildIdleSame
<1>6. CASE StartRebuild
  <2>1. building' \in [Versions -> Index] /\ ready' = ready
    BY <1>1, <1>6 DEF StartRebuild
  <2>2. builder' \in Builders
    BY <1>3, <1>4, <1>6 DEF StartRebuild
  <2>3. QED
    BY <2>1, <2>2
<1>7. CASE RemoveAll
  <2>1. building' = building /\ builder' = builder
    BY <1>7 DEF RemoveAll
  <2>2. ready' \in [Versions -> Index]
    <3>1. CASE ready' = [ready EXCEPT ![builder.version] = NoIndex]
      BY <1>1, <3>1
    <3>2. ASSUME NEW e \in Entries, ready' = [ready EXCEPT ![builder.version].left = @ \ {e}]
          PROVE  ready' \in [Versions -> Index]
      BY <3>2 DEF Index
    <3>3. QED
      BY <1>7, <3>1, <3>2, EntryRemoved
  <2>3. QED
    BY <1>3, <2>1, <2>2
<1>8. CASE CreateIndex
  BY <1>2, <1>3, <1>8 DEF CreateIndex
<1>9. CASE AllFiles
  <2>1. Pruned \subseteq Shares
    BY DEF Pruned
  <2>2. building' \in [Versions -> Index]
    <3>1. builder.version \in Versions
      BY <1>9 DEF AllFiles, InHand
    <3>2. [building EXCEPT ![builder.version].rows = files] \in [Versions -> Index]
      BY <1>4, <3>1 DEF Index
    <3>3. building' = [[building EXCEPT ![builder.version].rows = files]
                          EXCEPT ![builder.version].pruned = Pruned]
      BY <1>9, Zenon DEF AllFiles
    <3>4. QED
      BY <2>1, <3>1, <3>2, <3>3 DEF Index
  <2>3. PlanDocs(files) \in SUBSET Doc
    BY FilesWellFormed, PlanTypes
  <2>4. builder' \in Builders
    BY <1>3, <1>9, <2>3 DEF AllFiles
  <2>5. QED
    BY <1>9, <2>2, <2>4 DEF AllFiles
<1>10. CASE IndexBatch
  <2>1. builder.version \in Versions /\ NextBatch(builder.todo) \in SUBSET Doc
    BY <1>3, <1>10, BatchFacts
  <2>2. building[builder.version].docs \in SUBSET Doc
    BY <2>1 DEF Index
  <2>3. PICK docs \in SUBSET Doc : docs = Indexed(building[builder.version].docs, NextBatch(builder.todo))
    BY <2>1, <2>2 DEF Indexed
  <2>4. /\ building' = [building EXCEPT ![builder.version].docs = docs]
        /\ builder' = [builder EXCEPT !.todo = @ \ NextBatch(builder.todo)] /\ ready' = ready
    BY <1>10, <2>1, <2>3 DEF IndexBatch
  <2>5. building' \in [Versions -> Index]
    BY <2>1, <2>4 DEF Index
  <2>6. builder' \in Builders
    BY <1>3, <2>4
  <2>7. QED
    BY <2>4, <2>5, <2>6
<1>11. CASE RenameIndex
  <2>1. builder.version \in Versions
    BY <1>11 DEF RenameIndex, InHand
  <2>2. building' \in [Versions -> Index] /\ ready' \in [Versions -> Index]
    BY <1>1, <1>11, <2>1 DEF RenameIndex
  <2>3. builder' \in Builders
    BY <1>3, <1>11 DEF RenameIndex
  <2>4. QED
    BY <2>2, <2>3
<1>12. CASE UpdateManifest \/ RebuildFails
  BY <1>3, <1>12 DEF UpdateManifest, RebuildFails
<1>13. QED
  BY <1>5, <1>6, <1>7, <1>8, <1>9, <1>10, <1>11, <1>12, NextSteps DEF Rebuild

LEMMA CountTypes ==
  ASSUME TypeOK, [Next]_vars
  PROVE  rebuilds' \in Nat
<1>1. rebuilds \in Nat
  BY DEF TypeOK, ProcessesOK
<1>2. CASE Rebuild
  BY <1>1, <1>2 DEF Rebuild, StartRebuild, RemoveAll, CreateIndex, AllFiles, IndexBatch, RenameIndex,
     UpdateManifest, RebuildFails
<1>3. CASE RebuildIdle
  BY <1>1, <1>3 DEF RebuildIdle, Database, Export, Tick, vars, counts
<1>4. QED
  BY <1>2, <1>3, NextSteps

\* The directory an export reads is that of a version, in its place.
LEMMA NewestIsThere ==
  ASSUME TypeOK, NewestBleveIndex # <<>>
  PROVE  NewestBleveIndex \in Versions \X {0, 1} /\ NewestBleveIndex[2] = 0
<1> DEFINE made == { v \in Versions : ready[v].made }
<1>1. made # {} /\ NewestBleveIndex = <<CHOOSE v \in made : \A w \in made : w <= v, 0>>
  BY DEF NewestBleveIndex
<1>2. \E v \in made : \A w \in made : w <= v
  <2> DEFINE Off == { MaxClock - v : v \in made }
  <2>1. \A v \in made : MaxClock - v \in Nat /\ v \in Nat
    BY ReleaseAssumption DEF Versions
  <2>2. Off \in SUBSET Nat /\ Off # {}
    BY <1>1, <2>1
  <2> HIDE DEF Off
  <2>3. PICK n \in Off : \A m \in Off : n <= m
    BY <2>2, NatMin
  <2>4. PICK v \in made : n = MaxClock - v
    BY <2>3 DEF Off
  <2>5. ASSUME NEW w \in made PROVE w <= v
    <3>1. MaxClock - v <= MaxClock - w
      BY <2>3, <2>4 DEF Off
    <3>2. QED
      BY <2>1, <3>1, ReleaseAssumption
  <2>6. QED
    BY <2>5
<1>3. PICK v \in made : NewestBleveIndex = <<v, 0>>
  BY <1>1, <1>2
<1>4. QED
  BY <1>3

LEMMA ChosenIsThere ==
  ASSUME TypeOK, ChooseIndex
  PROVE  /\ package' = package
         /\ \/ exporter' = ExporterOff
            \/ \E path \in Versions \X {0, 1} :
                 path[2] = 0 /\ exporter' = [ExporterOff EXCEPT !.pc = "trim", !.path = path]
<1> DEFINE path == IF manifest # NoVersion THEN <<manifest, 0>> ELSE NewestBleveIndex
<1>1. /\ package' = package
      /\ exporter' = IF path = <<>> THEN ExporterOff
                     ELSE [ExporterOff EXCEPT !.pc = "trim", !.path = path]
  BY Zenon DEF ChooseIndex
<1>2. path # <<>> => path \in Versions \X {0, 1} /\ path[2] = 0
  <2>1. CASE manifest # NoVersion
    BY <2>1 DEF TypeOK, DatabaseOK
  <2>2. CASE manifest = NoVersion
    BY <2>2, NewestIsThere
  <2>3. QED
    BY <2>1, <2>2
<1> HIDE DEF path
<1>3. QED
  BY <1>1, <1>2, Zenon

LEMMA ExportTypes ==
  ASSUME TypeOK, Exporting, [Next]_vars
  PROVE  package' \in Package /\ exporter' \in Exporters
<1> USE DEF Exporters
<1>1. package \in Package /\ exporter \in Exporters
  BY DEF TypeOK, DiskOK, ProcessesOK
<1>2. ExporterOff \in Exporters /\ NoPackage \in Package
  BY DEF ExporterOff, NoPackage, NoIndex, Package, Index
<1>3. CASE ExportIdle
  BY <1>1, <1>3, ExportIdleSame
<1>4. CASE ChooseIndex
  BY <1>1, <1>2, <1>4, ChosenIsThere
<1>5. CASE AddIndexDb
  <2>1. Trimmed(files, Pruned) \subseteq Rows /\ Pruned \subseteq Shares
    BY DEF Trimmed, Pruned, TypeOK, DatabaseOK
  <2>2. package' \in Package
    BY <1>2, <1>5, <2>1 DEF AddIndexDb, Package
  <2>3. exporter' \in Exporters
    BY <1>1, <1>5 DEF AddIndexDb
  <2>4. QED
    BY <2>2, <2>3
<1>6. GiveUp => package' \in Package /\ exporter' \in Exporters
  BY <1>2 DEF GiveUp, Package
<1>7. exporter.pc \in {"bleve", "walk"} =>
        /\ exporter.path \in Versions \X {0, 1} /\ IndexNamed(exporter.path) \in Index
        /\ exporter.path[1] \in Versions
  BY <1>1 DEF Exporting, IndexNamed, TypeOK, DiskOK
<1>8. CASE OpenIndex
  <2>1. CASE IndexNamed(exporter.path).made
    <3>1. PICK index \in Index : index = IndexNamed(exporter.path)
      BY <1>7, <1>8 DEF OpenIndex
    <3>2. /\ package' = [package EXCEPT !.index = index, !.version = exporter.path[1]]
          /\ exporter' = [exporter EXCEPT !.pc = "walk", !.todo = index.left \ Segments]
      BY <1>8, <2>1, <3>1 DEF OpenIndex
    <3>3. index.left \ Segments \subseteq Entries
      BY DEF Index
    <3>4. package' \in Package
      BY <1>1, <1>7, <1>8, <3>2 DEF OpenIndex, Package
    <3>5. exporter' \in Exporters
      BY <1>1, <3>2, <3>3
    <3>6. QED
      BY <3>4, <3>5
  <2>2. CASE ~IndexNamed(exporter.path).made
    BY <1>6, <1>8, <2>2 DEF OpenIndex
  <2>3. QED
    BY <2>1, <2>2
<1>9. CASE CopyEntry
  <2>1. PICK index \in Index : index = IndexNamed(exporter.path)
    BY <1>7, <1>9 DEF CopyEntry
  <2>2. PICK e \in exporter.todo :
          \/ GiveUp
          \/ /\ exporter' = [exporter EXCEPT !.todo = index.left \cap Segments]
             /\ UNCHANGED package
          \/ /\ e # Store /\ exporter' = [exporter EXCEPT !.todo = @ \ {e}]
             /\ package' = [package EXCEPT !.bleve = @ \cup {<<e, index.build>>}]
    BY <1>9, <2>1 DEF CopyEntry
  <2>3. CASE exporter' = [exporter EXCEPT !.todo = index.left \cap Segments] /\ UNCHANGED package
    <3>1. index.left \cap Segments \subseteq Entries
      BY DEF Index
    <3>2. QED
      BY <1>1, <2>3, <3>1
  <2>4. CASE /\ e # Store /\ exporter' = [exporter EXCEPT !.todo = @ \ {e}]
             /\ package' = [package EXCEPT !.bleve = @ \cup {<<e, index.build>>}]
    <3>1. <<e, index.build>> \in IndexFiles \X Nat
      BY <1>1, <2>4 DEF Index, IndexFiles
    <3>2. QED
      BY <1>1, <2>4, <3>1 DEF Package
  <2>5. QED
    BY <1>6, <2>2, <2>3, <2>4
<1>10. CASE AddVersion
  BY <1>1, <1>2, <1>10 DEF AddVersion, Package
<1>11. CASE ExportFails
  BY <1>1, <1>2, <1>6, <1>11 DEF ExportFails
<1>12. QED
  BY <1>3, <1>4, <1>5, <1>8, <1>9, <1>10, <1>11, NextSteps DEF Export

-----------------------------------------------------------------------------
\* The indexes

LEMMA InHandKept ==
  ASSUME TypeOK, InHand, [Next]_vars
  PROVE  InHand'
<1>1. /\ building \in [Versions -> Index] /\ ready \in [Versions -> Index] /\ now \in Versions
      /\ builder \in Builders
  BY DEF TypeOK, DiskOK, DatabaseOK, ProcessesOK, Builders
<1>2. CASE RebuildIdle
  BY <1>2, RebuildIdleSame DEF InHand
<1>3. CASE StartRebuild
  <2>1. builder'.pc = "clear" /\ builder'.version = now
    BY <1>3 DEF StartRebuild, BuilderOff
  <2>2. QED
    BY <1>1, <2>1 DEF InHand
<1>4. CASE RemoveAll
  <2>1. builder' = builder /\ building' = building /\ builder.pc = "clear"
    BY <1>4 DEF RemoveAll
  <2>2. QED
    BY <2>1 DEF InHand
<1>5. CASE CreateIndex
  <2>1. builder.pc = "clear" /\ builder.version \in Versions
    BY <1>5 DEF CreateIndex, InHand
  <2>2. builder'.pc = "read" /\ builder'.version = builder.version
    BY <1>1, <1>5 DEF CreateIndex, Builders
  <2>3. building'[builder.version] = NewIndex(rebuilds)
    BY <1>1, <1>5, <2>1 DEF CreateIndex
  <2>4. NewIndex(rebuilds).made /\ NewIndex(rebuilds).left = Entries /\ NewIndex(rebuilds).docs = {}
    BY DEF NewIndex, NoIndex
  <2>5. QED
    BY <2>1, <2>2, <2>3, <2>4 DEF InHand
<1>6. CASE AllFiles
  <2>1. builder.pc = "read" /\ builder.version \in Versions
    BY <1>6 DEF AllFiles, InHand
  <2>2. /\ building[builder.version].made /\ building[builder.version].left = Entries
        /\ building[builder.version].docs = {}
    BY <2>1 DEF InHand
  <2>3. /\ builder'.pc = "batch" /\ builder'.version = builder.version
        /\ builder'.todo = PlanDocs(files)
    BY <1>1, <1>6 DEF AllFiles, Builders
  <2>4. /\ building'[builder.version].made /\ building'[builder.version].left = Entries
        /\ building'[builder.version].docs = {} /\ building'[builder.version].rows = files
    <3>1. building' = [[building EXCEPT ![builder.version].rows = files]
                          EXCEPT ![builder.version].pruned = Pruned]
      BY <1>6, Zenon DEF AllFiles
    <3>2. \A v \in Versions : building[v] \in Index
      BY <1>1
    <3>3. QED
      BY <1>1, <2>1, <2>2, <3>1, <3>2 DEF Index
  <2>5. QED
    BY <2>1, <2>3, <2>4 DEF InHand
<1>7. CASE IndexBatch
  <2>1. PICK v \in Versions : v = builder.version
    BY <1>7 DEF IndexBatch, InHand
  <2>2. PICK batch : batch = NextBatch(builder.todo)
    OBVIOUS
  <2>3. /\ builder.pc = "batch" /\ building[v].made /\ building[v].left = Entries
        /\ building[v].docs \cup builder.todo = PlanDocs(building[v].rows)
    BY <1>7, <2>1 DEF IndexBatch, InHand
  <2>4. batch \in SUBSET builder.todo /\ WellFormed(building[v].rows)
    BY <1>7, <2>1, <2>2, BatchFacts
  <2>5. Indexed(building[v].docs, batch) = building[v].docs \cup batch
    <3>1. PICK D : D = PlanDocs(building[v].rows)
      OBVIOUS
    <3>2. \A a, b \in D : a.id = b.id => a = b
      BY <2>4, <3>1, OneDocForEachId
    <3>3. building[v].docs \in SUBSET D /\ batch \in SUBSET D
      BY <2>3, <2>4, <3>1
    <3>4. QED
      BY <3>2, <3>3, BatchIsAdded
  <2>6. /\ building' = [building EXCEPT ![v].docs = building[v].docs \cup batch]
        /\ builder' = [builder EXCEPT !.todo = @ \ batch]
    BY <1>7, <2>1, <2>2, <2>5 DEF IndexBatch
  <2>7. builder'.pc = "batch" /\ builder'.version = v /\ builder'.todo = builder.todo \ batch
    BY <1>1, <2>1, <2>3, <2>6 DEF Builders
  <2>8. /\ building'[v].made /\ building'[v].left = Entries
        /\ building'[v].rows = building[v].rows /\ building'[v].docs = building[v].docs \cup batch
    BY <1>1, <2>3, <2>6 DEF Index
  <2>9. building'[v].docs \cup builder'.todo = PlanDocs(building'[v].rows)
    BY <2>3, <2>4, <2>7, <2>8
  <2>10. QED
    BY <2>7, <2>8, <2>9 DEF InHand
<1>8. CASE RenameIndex
  <2>1. builder.pc = "batch" /\ builder.version \in Versions /\ building[builder.version].made
    BY <1>8 DEF RenameIndex, InHand
  <2>2. builder'.pc = "manifest" /\ builder'.version = builder.version
    BY <1>1, <1>8 DEF RenameIndex, Builders
  <2>3. ready'[builder.version] = building[builder.version]
    BY <1>1, <1>8, <2>1 DEF RenameIndex
  <2>4. QED
    BY <2>1, <2>2, <2>3 DEF InHand
<1>9. CASE UpdateManifest \/ RebuildFails
  BY <1>9 DEF UpdateManifest, RebuildFails, BuilderOff, InHand
<1>10. QED
  BY <1>2, <1>3, <1>4, <1>5, <1>6, <1>7, <1>8, <1>9, NextSteps DEF Rebuild

LEMMA ReadyWholeKept ==
  ASSUME TypeOK, InHand, ReadyWhole, [Next]_vars
  PROVE  ReadyWhole'
<1>1. building \in [Versions -> Index] /\ ready \in [Versions -> Index]
  BY DEF TypeOK, DiskOK
<1>2. CASE ready' = ready
  BY <1>2 DEF ReadyWhole, Whole
<1>3. CASE RemoveAll
  <2>1. ASSUME NEW v \in Versions
        PROVE  \/ ready'[v] = NoIndex
               \/ /\ ready'[v].made = ready[v].made /\ ready'[v].docs = ready[v].docs
                  /\ ready'[v].rows = ready[v].rows
    <3>1. CASE ready' = [ready EXCEPT ![builder.version] = NoIndex]
      BY <1>1, <3>1
    <3>2. ASSUME NEW e \in Entries, ready' = [ready EXCEPT ![builder.version].left = @ \ {e}]
          PROVE  /\ ready'[v].made = ready[v].made /\ ready'[v].docs = ready[v].docs
                 /\ ready'[v].rows = ready[v].rows
      BY <1>1, <3>2 DEF Index
    <3>3. QED
      BY <1>3, <3>1, <3>2, EntryRemoved
  <2>2. QED
    BY <2>1 DEF ReadyWhole, Whole, NoIndex
<1>4. CASE RenameIndex
  <2>1. /\ builder.pc = "batch" /\ builder.version \in Versions /\ builder.todo = {}
        /\ ready' = [ready EXCEPT ![builder.version] = building[builder.version]]
    BY <1>4 DEF RenameIndex, InHand
  <2>2. Whole(building[builder.version])
    BY <2>1 DEF InHand, Whole
  <2>3. \A v \in Versions : ready'[v] = ready[v] \/ ready'[v] = building[builder.version]
    BY <1>1, <2>1
  <2>4. QED
    BY <2>2, <2>3 DEF ReadyWhole, Whole
<1>5. QED
  BY <1>2, <1>3, <1>4, NextSteps, RebuildIdleSame
     DEF Rebuild, StartRebuild, CreateIndex, AllFiles, IndexBatch, UpdateManifest, RebuildFails

\* No step touches an index in its place whose second is not begun over.
LEMMA StandsStill ==
  ASSUME TypeOK, InHand, Standing, [Next]_vars, NEW v \in Versions, v \notin again'
  PROVE  v \notin again /\ (ready[v].made => ready'[v] = ready[v])
<1>1. ready \in [Versions -> Index]
  BY DEF TypeOK, DiskOK
<1>2. CASE RebuildIdle
  BY <1>2, RebuildIdleSame
<1>3. CASE StartRebuild \/ CreateIndex \/ AllFiles \/ IndexBatch \/ UpdateManifest \/ RebuildFails
  BY <1>3 DEF StartRebuild, CreateIndex, AllFiles, IndexBatch, UpdateManifest, RebuildFails
<1>4. CASE RemoveAll
  <2>1. again' = again
    BY <1>4 DEF RemoveAll
  <2>2. ready[v].made => v # builder.version
    BY <1>4, <2>1 DEF RemoveAll, Standing
  <2>3. v # builder.version => ready'[v] = ready[v]
    BY <1>1, <1>4, EntryRemoved
  <2>4. QED
    BY <2>1, <2>2, <2>3
<1>5. CASE RenameIndex
  <2>1. /\ again' = again /\ builder.pc = "batch"
        /\ ready' = [ready EXCEPT ![builder.version] = building[builder.version]]
    BY <1>5 DEF RenameIndex
  <2>2. ready[v].made => v # builder.version
    BY <2>1 DEF Standing
  <2>3. QED
    BY <1>1, <2>1, <2>2
<1>6. QED
  BY <1>2, <1>3, <1>4, <1>5, NextSteps DEF Rebuild

LEMMA StandingKept ==
  ASSUME TypeOK, InHand, Standing, [Next]_vars
  PROVE  Standing'
<1>1. ready \in [Versions -> Index] /\ now \in Versions /\ builder \in Builders
  BY DEF TypeOK, DiskOK, DatabaseOK, ProcessesOK, Builders
<1>2. CASE RebuildIdle
  BY <1>2, RebuildIdleSame DEF Standing
<1>3. CASE StartRebuild
  <2>1. /\ ready' = ready /\ builder'.pc = "clear" /\ builder'.version = now
        /\ again' = IF ready[now].made THEN again \cup {now} ELSE again
    BY <1>3 DEF StartRebuild, BuilderOff
  <2>2. QED
    BY <2>1 DEF Standing
<1>4. CASE RemoveAll
  <2>1. builder' = builder /\ again' = again
    BY <1>4 DEF RemoveAll
  <2>2. ASSUME NEW v \in Versions, ~ready[v].made PROVE ~ready'[v].made
    <3>1. CASE ready' = [ready EXCEPT ![builder.version] = NoIndex]
      BY <1>1, <2>2, <3>1 DEF NoIndex
    <3>2. ASSUME NEW e \in Entries, ready' = [ready EXCEPT ![builder.version].left = @ \ {e}]
          PROVE  ~ready'[v].made
      BY <1>1, <2>2, <3>2 DEF Index
    <3>3. QED
      BY <1>4, <3>1, <3>2, EntryRemoved
  <2>3. QED
    BY <2>1, <2>2, StandsStill DEF Standing
<1>5. CASE CreateIndex
  <2>1. /\ ready' = ready /\ again' = again /\ builder.pc = "clear"
        /\ builder'.version = builder.version
    BY <1>1, <1>5 DEF CreateIndex, Builders
  <2>2. QED
    BY <2>1 DEF Standing
<1>6. CASE AllFiles \/ IndexBatch
  <2>1. /\ ready' = ready /\ again' = again /\ builder.pc \in {"read", "batch"}
        /\ builder'.version = builder.version
    BY <1>1, <1>6 DEF AllFiles, IndexBatch, Builders
  <2>2. QED
    BY <2>1 DEF Standing
<1>7. CASE RenameIndex
  <2>1. /\ again' = again /\ builder.pc = "batch" /\ builder'.pc = "manifest"
        /\ ready' = [ready EXCEPT ![builder.version] = building[builder.version]]
    BY <1>1, <1>7 DEF RenameIndex, Builders
  <2>2. building[builder.version].left = Entries
    BY <2>1 DEF InHand
  <2>3. \A v \in Versions : ready'[v] = ready[v] \/ ready'[v] = building[builder.version]
    BY <1>1, <2>1
  <2>4. QED
    BY <2>1, <2>2, <2>3 DEF Standing
<1>8. CASE UpdateManifest \/ RebuildFails
  <2>1. ready' = ready /\ again' = again /\ builder'.pc = "off"
    BY <1>8 DEF UpdateManifest, RebuildFails, BuilderOff
  <2>2. QED
    BY <2>1 DEF Standing
<1>9. QED
  BY <1>2, <1>3, <1>4, <1>5, <1>6, <1>7, <1>8, NextSteps DEF Rebuild

LEMMA ManifestKept ==
  ASSUME TypeOK, InHand, Standing, ManifestResolves, [Next]_vars
  PROVE  ManifestResolves'
<1>1. manifest \in Versions \cup {NoVersion}
  BY DEF TypeOK, DatabaseOK
<1>2. CASE manifest' = manifest
  BY <1>1, <1>2, StandsStill DEF ManifestResolves
<1>3. CASE UpdateManifest
  BY <1>3 DEF UpdateManifest, ManifestResolves, InHand
<1>4. QED
  BY <1>2, <1>3, NextSteps, RebuildIdleSame
     DEF Rebuild, StartRebuild, RemoveAll, CreateIndex, AllFiles, IndexBatch, RenameIndex, RebuildFails

-----------------------------------------------------------------------------
\* The export

\* Whatever the rebuild does, the walk goes on in the directory it began.
LEMMA IdleKeepsExporting ==
  ASSUME TypeOK, InHand, Standing, Exporting, [Next]_vars, ExportIdle
  PROVE  Exporting'
<1>1. package' = package /\ exporter' = exporter
  BY ExportIdleSame
<1>2. again \subseteq again'
  <2>1. CASE Rebuild
    BY <2>1 DEF Rebuild, StartRebuild, RemoveAll, CreateIndex, AllFiles, IndexBatch, RenameIndex,
       UpdateManifest, RebuildFails
  <2>2. QED
    BY <2>1, RebuildIdleSame, NextSteps
<1>3. exporter.pc = "walk" => Walking'
  <2> SUFFICES ASSUME Walking PROVE Walking'
    BY DEF Exporting
  <2>1. ASSUME package.version \in Versions, package.version \notin again'
        PROVE  ready'[package.version] = ready[package.version]
    BY <2>1, StandsStill DEF Walking
  <2>2. QED
    BY <1>1, <1>2, <2>1 DEF Walking, Whole
<1>4. QED
  BY <1>1, <1>2, <1>3 DEF Exporting, Whole, Unbroken

\* The walk begins in a whole directory.
LEMMA OpenKeepsExporting ==
  ASSUME TypeOK, ReadyWhole, Standing, Exporting, OpenIndex, UNCHANGED <<ready, again>>
  PROVE  Exporting'
<1>1. package \in Package /\ exporter \in Exporters
  BY DEF TypeOK, DiskOK, ProcessesOK, Exporters
<1>2. /\ exporter.pc = "bleve" /\ ~package.stamped /\ package.bleve = {}
      /\ exporter.path \in Versions \X {0, 1} /\ exporter.path[2] = 0
  BY DEF OpenIndex, Exporting
<1>3. PICK v \in Versions : v = exporter.path[1]
  BY <1>2
<1>4. IndexNamed(exporter.path) = ready[v]
  BY <1>2, <1>3 DEF IndexNamed
<1>5. CASE ready[v].made
  <2>1. /\ package' = [package EXCEPT !.index = ready[v], !.version = v]
        /\ exporter' = [exporter EXCEPT !.pc = "walk", !.todo = ready[v].left \ Segments]
    BY <1>3, <1>4, <1>5 DEF OpenIndex
  <2>2. /\ package'.index = ready[v] /\ package'.version = v /\ package'.bleve = {}
        /\ ~package'.stamped
    BY <1>1, <1>2, <2>1 DEF Package
  <2>3. /\ exporter'.pc = "walk" /\ exporter'.path = exporter.path
        /\ exporter'.todo = ready[v].left \ Segments
    BY <1>1, <2>1 DEF Exporters
  <2>4. Whole(ready[v])
    BY <1>5 DEF ReadyWhole
  <2>5. v \notin again => Copied({}, ready[v].left \ Segments, ready[v].build)
    <3>1. v \notin again => ready[v].left = Entries
      BY <1>5 DEF Standing
    <3>2. Copied({}, Entries \ Segments, ready[v].build)
      BY SegmentsAssumption DEF Copied, Entries, IndexFiles
    <3>3. QED
      BY <3>1, <3>2
  <2>6. Walking'
    BY <1>3, <1>5, <2>2, <2>3, <2>4, <2>5 DEF Walking, Whole
  <2>7. QED
    BY <1>2, <2>2, <2>3, <2>6 DEF Exporting
<1>6. CASE ~ready[v].made
  <2>1. GiveUp
    BY <1>4, <1>6 DEF OpenIndex
  <2>2. QED
    BY <2>1 DEF GiveUp, NoPackage, ExporterOff, Exporting
<1>7. QED
  BY <1>5, <1>6

\* A file copied, or the store gone into, is one step on.
LEMMA CopyKeepsExporting ==
  ASSUME TypeOK, Standing, Exporting, CopyEntry, UNCHANGED <<ready, again>>
  PROVE  Exporting'
<1>1. package \in Package /\ exporter \in Exporters
  BY DEF TypeOK, DiskOK, ProcessesOK, Exporters
<1>2. /\ exporter.pc = "walk" /\ ~package.stamped /\ Walking
      /\ exporter.path \in Versions \X {0, 1} /\ exporter.path[2] = 0
  BY DEF CopyEntry, Exporting
<1>3. PICK v \in Versions : v = exporter.path[1] /\ v = package.version
  BY <1>2 DEF Walking
<1>4. IndexNamed(exporter.path) = ready[v]
  BY <1>2, <1>3 DEF IndexNamed
<1>5. v \notin again =>
        /\ ready[v] = package.index /\ package.index.made /\ package.index.left = Entries
        /\ Copied(package.bleve, exporter.todo, package.index.build)
  BY <1>2, <1>3 DEF Walking, Standing
<1>6. PICK e \in exporter.todo :
        /\ e = Store => exporter.todo = {Store}
        /\ \/ GiveUp
           \/ /\ e = Store /\ exporter' = [exporter EXCEPT !.todo = ready[v].left \cap Segments]
              /\ UNCHANGED package
           \/ /\ e # Store /\ exporter' = [exporter EXCEPT !.todo = @ \ {e}]
              /\ package' = [package EXCEPT !.bleve = @ \cup {<<e, ready[v].build>>}]
  BY <1>4 DEF CopyEntry
<1>7. CASE GiveUp
  BY <1>7 DEF GiveUp, NoPackage, ExporterOff, Exporting
<1>8. CASE /\ e = Store /\ exporter' = [exporter EXCEPT !.todo = ready[v].left \cap Segments]
           /\ UNCHANGED package
  <2>1. /\ exporter'.pc = "walk" /\ exporter'.path = exporter.path
        /\ exporter'.todo = ready[v].left \cap Segments
    BY <1>1, <1>2, <1>8 DEF Exporters
  <2>2. v \notin again => Copied(package.bleve, exporter'.todo, package.index.build)
    <3> SUFFICES ASSUME v \notin again
                 PROVE  Copied(package.bleve, exporter'.todo, package.index.build)
      OBVIOUS
    <3>1. exporter'.todo = Segments
      BY <1>5, <2>1 DEF Entries
    <3>2. exporter.todo = {Store}
      BY <1>6, <1>8
    <3>3. QED
      BY <1>5, <3>1, <3>2 DEF Copied, IndexFiles
  <2>3. Walking'
    BY <1>2, <1>3, <1>5, <1>8, <2>1, <2>2 DEF Walking, Whole
  <2>4. QED
    BY <1>2, <1>8, <2>1, <2>3 DEF Exporting
<1>9. CASE /\ e # Store /\ exporter' = [exporter EXCEPT !.todo = @ \ {e}]
           /\ package' = [package EXCEPT !.bleve = @ \cup {<<e, ready[v].build>>}]
  <2>1. /\ exporter'.pc = "walk" /\ exporter'.path = exporter.path
        /\ exporter'.todo = exporter.todo \ {e}
    BY <1>1, <1>2, <1>9 DEF Exporters
  <2>2. /\ package'.index = package.index /\ package'.version = package.version
        /\ package'.stamped = package.stamped
        /\ package'.bleve = package.bleve \cup {<<e, ready[v].build>>}
    BY <1>1, <1>9 DEF Package
  <2>3. v \notin again => Copied(package'.bleve, exporter'.todo, package.index.build)
    <3> SUFFICES ASSUME v \notin again
                 PROVE  Copied(package'.bleve, exporter'.todo, package.index.build)
      OBVIOUS
    <3>1. package'.bleve = package.bleve \cup {<<e, package.index.build>>}
      BY <1>5, <2>2
    <3>2. e \in IndexFiles
      BY <1>1, <1>9 DEF Exporters, IndexFiles
    <3>3. QED
      BY <1>5, <1>9, <2>1, <3>1, <3>2 DEF Copied
  <2>4. Walking'
    BY <1>2, <1>3, <1>5, <2>1, <2>2, <2>3 DEF Walking, Whole
  <2>5. QED
    BY <1>2, <2>1, <2>2, <2>4 DEF Exporting
<1>10. QED
  BY <1>6, <1>7, <1>8, <1>9

LEMMA ExportingKept ==
  ASSUME TypeOK, ReadyWhole, InHand, Standing, Exporting, [Next]_vars
  PROVE  Exporting'
<1>1. package \in Package /\ exporter \in Exporters
  BY DEF TypeOK, DiskOK, ProcessesOK, Exporters
<1>2. CASE ExportIdle
  BY <1>2, IdleKeepsExporting
<1>3. CASE Export /\ ChooseIndex
  <2>1. package' = package /\ again' = again
    BY <1>3, ChosenIsThere, ExportSame
  <2>2. exporter'.pc = "off" \/ ( /\ exporter'.pc = "trim" /\ exporter'.path[2] = 0
                                  /\ exporter'.path \in Versions \X {0, 1} )
    <3>1. CASE exporter' = ExporterOff
      BY <3>1 DEF ExporterOff
    <3>2. ASSUME NEW path \in Versions \X {0, 1}, path[2] = 0,
                 exporter' = [ExporterOff EXCEPT !.pc = "trim", !.path = path]
          PROVE  /\ exporter'.pc = "trim" /\ exporter'.path[2] = 0
                 /\ exporter'.path \in Versions \X {0, 1}
      <4>1. exporter' = [pc |-> "trim", path |-> path, todo |-> {}]
        BY <3>2 DEF ExporterOff
      <4>2. QED
        BY <3>2, <4>1
    <3>3. QED
      BY <1>3, <3>1, <3>2, ChosenIsThere
  <2>3. QED
    BY <2>1, <2>2 DEF Exporting, Whole, Unbroken
<1>4. CASE Export /\ AddIndexDb
  <2>1. ~package'.stamped /\ package'.bleve = {}
    BY <1>4 DEF AddIndexDb, NoPackage
  <2>2. exporter'.pc = "bleve" /\ exporter'.path = exporter.path /\ exporter.pc # "off"
    BY <1>1, <1>4 DEF AddIndexDb, Exporters
  <2>3. QED
    BY <2>1, <2>2 DEF Exporting
<1>5. CASE Export /\ OpenIndex
  BY <1>5, OpenKeepsExporting, ExportSame
<1>6. CASE Export /\ CopyEntry
  BY <1>6, CopyKeepsExporting, ExportSame
<1>7. CASE Export /\ AddVersion
  <2>1. /\ exporter.pc = "walk" /\ exporter.todo = {} /\ again' = again
        /\ Walking /\ package.version \in Versions
    BY <1>7, ExportSame DEF AddVersion, Exporting, Walking
  <2>2. /\ package'.index = package.index /\ package'.version = package.version
        /\ package'.bleve = package.bleve /\ exporter'.pc = "off"
    BY <1>1, <1>7 DEF AddVersion, Package, ExporterOff
  <2>3. package.version \notin again => Unbroken
    BY <2>1 DEF Walking, Copied, Unbroken
  <2>4. QED
    BY <2>1, <2>2, <2>3 DEF Exporting, Walking, Whole, Unbroken
<1>8. CASE Export /\ ExportFails
  <2>1. CASE package' = package
    BY <1>8, <2>1, ExportSame DEF ExportFails, GiveUp, ExporterOff, Exporting, Whole, Unbroken
  <2>2. CASE ~package'.stamped
    BY <1>8, <2>2 DEF ExportFails, GiveUp, ExporterOff, Exporting
  <2>3. QED
    BY <1>8, <2>1, <2>2 DEF ExportFails, GiveUp, NoPackage
<1>9. QED
  BY <1>2, <1>3, <1>4, <1>5, <1>6, <1>7, <1>8, NextSteps DEF Export

-----------------------------------------------------------------------------
\* The invariant

LEMMA InitIInv == Init => IInv
<1> SUFFICES ASSUME Init PROVE IInv
  OBVIOUS
<1> USE DEF Init
<1>1. NoIndex \in Index /\ NoPackage \in Package
  BY DEF NoIndex, NoPackage, Index, Package
<1>2. DatabaseOK
  BY ReleaseAssumption DEF DatabaseOK, Versions
<1>3. DiskOK
  BY <1>1 DEF DiskOK
<1>4. ProcessesOK
  BY DEF ProcessesOK, BuilderOff, ExporterOff
<1>5. ReadyWhole /\ Standing /\ InHand /\ ManifestResolves /\ Exporting
  BY DEF ReadyWhole, Standing, InHand, ManifestResolves, Exporting, NoIndex, NoPackage,
     BuilderOff, ExporterOff
<1>6. QED
  BY <1>2, <1>3, <1>4, <1>5 DEF IInv, TypeOK

LEMMA NextIInv == IInv /\ [Next]_vars => IInv'
<1> SUFFICES ASSUME IInv, [Next]_vars PROVE IInv'
  OBVIOUS
<1> USE DEF IInv
<1>1. DatabaseOK'
  BY DatabaseTypes
<1>2. DiskOK'
  BY BuilderTypes, ExportTypes DEF DiskOK
<1>3. ProcessesOK'
  BY BuilderTypes, ExportTypes, CountTypes DEF ProcessesOK, Builders, Exporters
<1>4. QED
  BY <1>1, <1>2, <1>3, ReadyWholeKept, StandingKept, InHandKept, ManifestKept, ExportingKept
     DEF TypeOK

\* The inductive invariant holds in every reachable state.
THEOREM Inductive == Spec => []IInv
BY InitIInv, NextIInv, PTL DEF Spec

\* The database, the disk and the two commands keep their types.
THEOREM TypeCorrect == Spec => []TypeOK
<1>1. IInv => TypeOK
  BY DEF IInv
<1>2. QED
  BY Inductive, <1>1, PTL

\* The manifest points to an index that is there (Rebuild's rename before
\* UpsertManifest), but for a version begun twice.
THEOREM ManifestIsHonest == Spec => []ManifestResolves
<1>1. IInv => ManifestResolves
  BY DEF IInv
<1>2. QED
  BY Inductive, <1>1, PTL

\* The file-by-file walk of buildPackage beside running rebuilds: a package with
\* a version.txt holds every file of one index, of a rebuild that finished, and no
\* file of another, unless the index's second was begun over.
THEOREM PackagesAreWhole == Spec => []PackageWhole
<1>1. IInv => PackageWhole
  BY DEF IInv, Exporting, PackageWhole, Shipped, Whole
<1>2. QED
  BY Inductive, <1>1, PTL

\* Rows of an index are rows of the pages.
LEMMA RowsAreWellFormed ==
  ASSUME IInv
  PROVE  /\ \A v \in Versions : WellFormed(ready[v].rows)
         /\ WellFormed(package.index.rows)
<1>1. \A v \in Versions : ready[v].rows \in SUBSET Rows
  BY DEF IInv, TypeOK, DiskOK, Index
<1>2. package.index.rows \in SUBSET Rows
  BY DEF IInv, TypeOK, DiskOK, Package, Index
<1>3. QED
  BY <1>1, <1>2, FilesWellFormed, PartWellFormed DEF IInv

\* planDocs loses no row: each row of a finished index is found by the terms of
\* its name, or by every word of it under its folder.
THEOREM EveryNameIsFound == Spec => []EveryNameFound
<1>1. ASSUME IInv, NEW v \in Versions, ready[v].made, NEW r \in ready[v].rows
      PROVE  Findable(ready[v], ready[v].rows, r) \/ Overflows(ready[v].rows, r)
  <2>1. ready[v].docs = PlanDocs(ready[v].rows)
    BY <1>1 DEF IInv, ReadyWhole, Whole
  <2>2. WellFormed(ready[v].rows)
    BY <1>1, RowsAreWellFormed
  <2>3. QED
    BY <1>1, <2>1, <2>2, EveryRowIsFound DEF Findable
<1>2. IInv => EveryNameFound
  BY <1>1 DEF EveryNameFound, Finished
<1>3. QED
  BY Inductive, <1>2, PTL

\* planDocs gives no document a name of another's: groupKey keeps episodes and
\* rows without a hash apart.
THEOREM NoHitIsFalse == Spec => []NoFalseHit
<1>1. ASSUME IInv, NEW v \in Versions, ready[v].made, NEW doc \in ready[v].docs, NEW n \in doc.names
      PROVE  \E q, r \in ready[v].rows :
               DocId(q) = doc.id /\ Stands(q, r) /\ n \in {r.name, Norm(r.name)}
  <2>1. ready[v].docs = PlanDocs(ready[v].rows)
    BY <1>1 DEF IInv, ReadyWhole, Whole
  <2>2. QED
    BY <1>1, <2>1, NoNameIsFalse, RowsAreWellFormed
<1>2. IInv => NoFalseHit
  BY <1>1 DEF NoFalseHit, Finished
<1>3. QED
  BY Inductive, <1>2, PTL

\* A shipped row that the index knows is found in an unbroken package, unless the
\* row that stands for it, its folder or an earlier copy, is not shipped.
THEOREM ShippedRowsAreFound == Spec => []ShippedAreFound
<1>1. ASSUME IInv, Shipped, NEW r \in package.rows \cap package.index.rows
      PROVE  \/ Findable(package.index, package.rows, r)
             \/ Overflows(package.index.rows, r)
             \/ \E q \in package.index.rows \ package.rows :
                  Stands(q, r) /\ (Before(q, r) \/ q.dir)
  <2>1. package.index.docs = PlanDocs(package.index.rows)
    BY <1>1 DEF IInv, Exporting, Shipped, Whole
  <2>2. CASE Overflows(package.index.rows, r)
    BY <2>2
  <2>3. CASE ~Overflows(package.index.rows, r)
    <3>1. PICK doc \in PlanDocs(package.index.rows), q \in package.index.rows :
            /\ \A term \in Sought(package.index.rows, r) : Finds(doc, term)
            /\ DocId(q) = doc.id /\ Stands(q, r)
            /\ q = r \/ Before(q, r) \/ q.dir
      BY <1>1, <2>3, EveryRowIsFound, RowsAreWellFormed
    <3>2. CASE q \in package.rows
      BY <2>1, <3>1, <3>2 DEF Findable
    <3>3. CASE q \notin package.rows
      BY <3>1, <3>3
    <3>4. QED
      BY <3>2, <3>3
  <2>4. QED
    BY <2>2, <2>3
<1>2. IInv => ShippedAreFound
  BY <1>1 DEF ShippedAreFound
<1>3. QED
  BY Inductive, <1>2, PTL
=============================================================================
