------------------------------ MODULE SearchPlan ------------------------------
(***************************************************************************)
(* What rebuild-index puts into the search index: planDocs and its helpers *)
(* (internal/searchindex/dedupe.go) as operators on the set of file rows.  *)
(*                                                                         *)
(* A row has the columns planDocs reads: share, file (file_id), parent,    *)
(* dir, name, ext, sha (NoHash: empty, or the hash of the empty string),   *)
(* size. Strings that are compared by order are naturals: share and file   *)
(* codes, and the text of a name. A name is its text, the terms bleve's     *)
(* analyzer makes of it, and whether it holds an episode marker; words     *)
(* that dots join are ONE term. ext is kept apart, so that the stem of a   *)
(* row is its name. Sets of names and of documents replace sorted slices.  *)
(***************************************************************************)
EXTENDS Naturals, FiniteSets

CONSTANTS
  MovieSize,     \* movieSizeThreshold
  MinEpisodes,   \* the floor of isContainer (5)
  MaxNames       \* maxFolderNames

ASSUME SearchPlanAssumption ==
  MovieSize \in Nat /\ MinEpisodes \in Nat \ {0} /\ MaxNames \in Nat \ {0}

NoHash == "none"

\* What is known of a set of rows: it is finite, and share and file are the
\* primary key of the table.
Names == [text : Nat, terms : SUBSET SUBSET Nat, marker : BOOLEAN]

WellFormed(rows) ==
  /\ IsFiniteSet(rows)
  /\ \A r \in rows : r.share \in Nat /\ r.file \in Nat /\ r.name \in Names
  /\ \A q, r \in rows : q.share = r.share /\ q.file = r.file => q = r

\* docID: the composite id, unique as the key of the file table is.
DocId_BareFile(r) == <<0, r.file>>
DocId(r) == <<r.share, r.file>>

\* episodeMarker matches, or the file is small.
IsEpisodeFile(f) == f.name.marker \/ f.size <= MovieSize

IsContainer(kids) ==
  LET markers == Cardinality({ k \in kids : k.name.marker })
      large   == Cardinality({ k \in kids : k.size > MovieSize })
      small   == Cardinality({ k \in kids : k.size \in 1..MovieSize })
      number  == Cardinality(kids)
  IN  \/ markers >= MinEpisodes
      \/ number >= MinEpisodes /\ small * 5 >= number * 3 /\ large < 2

\* Dots become spaces in the names of a rolled-up folder: each word is a term.
Norm(name) == [name EXCEPT !.terms = { {w} : w \in UNION name.terms }]

\* The n names of S that sort first.
FirstNames(S, n) ==
  { x \in S : Cardinality({ y \in S : y.text < x.text }) < n }

\* The folder's own name, and the first of its children's stems.
FolderNames_Dotted(d, kids) ==
  FirstNames({ k.name : k \in kids } \ {d.name}, MaxNames - 1) \cup {d.name}
FolderNames_OwnDropped(d, kids) ==
  FirstNames({ Norm(k.name) : k \in kids } \cup {Norm(d.name)}, MaxNames)
FolderNames(d, kids) ==
  LET stems == { Norm(k.name) : k \in kids } \ {Norm(d.name)}
  IN  FirstNames(stems, MaxNames - 1) \cup {Norm(d.name)}

Before(r, q) == r.share < q.share \/ (r.share = q.share /\ r.file < q.file)
Least_Last(S) == CHOOSE r \in S : \A q \in S \ {r} : Before(q, r)
Least(S) == CHOOSE r \in S : \A q \in S \ {r} : Before(r, q)

Children(rows, d) ==
  { f \in rows : ~f.dir /\ f.share = d.share /\ f.parent = d.file }

\* The folders that roll their files up, and the files that are left.
Containers(rows) == { d \in rows : d.dir /\ IsContainer(Children(rows, d)) }
Loose(rows) ==
  { f \in rows : ~f.dir /\ \A d \in Containers(rows) : f \notin Children(rows, d) }

\* groupKey: episodes by name and content, movies by content.
SameGroup_ByContent(f, g) == f.sha = g.sha /\ f.size = g.size
SameGroup(f, g) ==
  /\ f.sha = g.sha /\ f.size = g.size
  /\ IsEpisodeFile(f) = IsEpisodeFile(g)
  /\ IsEpisodeFile(f) => f.name = g.name /\ f.ext = g.ext

FolderDocs(rows) ==
  { [id |-> DocId(d), names |-> IF d \in Containers(rows)
                                THEN FolderNames(d, Children(rows, d))
                                ELSE {d.name}] : d \in { r \in rows : r.dir } }

\* Rows that may be merged: the empty string's hash is no content.
Hashed_Empty(rows) == Loose(rows)
Hashed(rows) == { r \in Loose(rows) : r.sha # NoHash }

PlainDocs(rows) ==
  { [id |-> DocId(f), names |-> {f.name}] : f \in Loose(rows) \ Hashed(rows) }

ContentDocs(rows) ==
  LET hashed == Hashed(rows)
      groups == { { g \in hashed : SameGroup(f, g) } : f \in hashed }
  IN  { [id |-> DocId(Least(G)), names |-> { f.name : f \in G }] : G \in groups }

PlanDocs(rows) == FolderDocs(rows) \cup PlainDocs(rows) \cup ContentDocs(rows)

-----------------------------------------------------------------------------
\* What the documents of a set of rows are for, said without the plan

\* NewNameQuery, a match query: it finds a document by a term of its names.
Finds(doc, term) == \E n \in doc.names : term \in n.terms

\* The terms a row is promised to be found by: those of its name, and where it
\* is rolled up every word of it. (The dotted name itself is no term of a
\* rolled-up folder.)
RolledUp(rows, r) == \E d \in Containers(rows) : r = d \/ r \in Children(rows, d)
Sought(rows, r) == IF RolledUp(rows, r) THEN Norm(r.name).terms ELSE r.name.terms

\* A row a search for the row's name may answer with: the row, its folder, or
\* a copy of its content, of another name only when both are movies.
Stands(q, r) ==
  \/ q = r
  \/ q.dir /\ r \in Children({r}, q)
  \/ /\ ~q.dir /\ ~r.dir /\ r.sha # NoHash /\ q.sha = r.sha /\ q.size = r.size
     /\ q.name = r.name \/ ~(IsEpisodeFile(q) \/ IsEpisodeFile(r))

\* One document of the index has all that is sought of r, and the answer it
\* gives is one that may be given, and among the rows at hand.
Findable(index, rows, r) ==
  \E q \in rows, doc \in index.docs :
    /\ Stands(q, r) /\ DocId(q) = doc.id
    /\ \A term \in Sought(index.rows, r) : Finds(doc, term)

\* The folder of r has more names than a document may carry.
Overflows(rows, r) ==
  \E d \in rows : d.dir /\ r \in Children(rows, d)
    /\ Cardinality({ Norm(k.name) : k \in Children(rows, d) }) >= MaxNames
=============================================================================
