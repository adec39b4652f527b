--------------------------- MODULE ShareGroupsProofs ---------------------------
(***************************************************************************)
(* Theorems about ShareGroups, for all lists, overlays and shares. What    *)
(* the two parsers return is proved for the first n lines, for each n: a   *)
(* least n for which it fails cannot exist. On the states, the invariant   *)
(* adds to the properties what an import has still to do.                  *)
(***************************************************************************)
EXTENDS ShareGroups, FiniteSetTheorems, SequenceTheorems, WellFoundedInduction, TLAPS

Group == [name : Names, codes : SUBSET Codes]
Acc   == [ok : BOOLEAN, groups : Seq(Group), duplicates : SUBSET Codes]

\* What ParseGroups knows after n lines, said without it.
NamingUpTo(lines, n, code) == { i \in Naming(lines, code) : i <= n }

GroupUpTo(lines, n, code) ==
  IF NamingUpTo(lines, n, code) = {} THEN {}
  ELSE { HeadersUpTo(lines, Latest(NamingUpTo(lines, n, code))) }

Twice(lines, n, code) ==
  \E i, j \in NamingUpTo(lines, n, code) : HeadersUpTo(lines, i) # HeadersUpTo(lines, j)

Reads(lines, n, acc) ==
  /\ Len(acc.groups) = HeadersUpTo(lines, n)
  /\ \A code \in Codes : Owners(acc.groups, code) = GroupUpTo(lines, n, code)
  /\ acc.duplicates = { code \in Codes : Twice(lines, n, code) }

\* The import's shares are there or still to come, but for those undone.
ImportCovers ==
  import \in {"running", "done"} =>
    \A i \in DOMAIN list : list[i].kind = "share" /\ list[i].key \notin undone =>
      share[list[i].key].status = "ACTIVE" \/ list[i].key \in ToSet(pending)

\* The inductive invariant.
IInv ==
  /\ TypeOK /\ OverlayInForce /\ ImportCovers
  /\ import \in {"off", "done"} => pending = <<>>

-----------------------------------------------------------------------------
\* Numbers

\* Every set of numbers has a least one.
LEMMA NatMin ==
  ASSUME NEW S \in SUBSET Nat, S # {}
  PROVE  \E n \in S : \A m \in S : n <= m
<1> DEFINE R == { p \in Nat \X Nat : p[1] < p[2] }
<1>1. IsWellFoundedOn(R, Nat)
  BY NatLessThanWellFounded DEF OpToRel
<1>2. \A x, y \in Nat : x < y => <<x, y>> \in R
  OBVIOUS
<1> HIDE DEF R
<1>3. PICK n \in S : \A y \in S : ~ (<<y, n>> \in R)
  BY <1>1, WFMin
<1>4. ASSUME NEW m \in S PROVE n <= m
  <2>1. m \in Nat /\ n \in Nat
    OBVIOUS
  <2>2. ~ (<<m, n>> \in R)
    BY <1>3
  <2>3. ~ (m < n)
    BY <1>2, <2>1, <2>2
  <2>4. QED
    BY <2>1, <2>3
<1>5. QED
  BY <1>4

\* A set of numbers below a bound has a greatest one.
LEMMA LatestIsLast ==
  ASSUME NEW n \in Nat, NEW S \in SUBSET (1..n), S # {}
  PROVE  Latest(S) \in S /\ \A j \in S : j <= Latest(S)
<1> DEFINE D == { n - i : i \in S }
<1>1. D \in SUBSET Nat /\ D # {}
  OBVIOUS
<1>2. PICK d \in D : \A e \in D : d <= e
  <2> HIDE DEF D
  <2>1. QED
    BY <1>1, NatMin
<1>3. PICK i \in S : d = n - i
  OBVIOUS
<1>4. ASSUME NEW j \in S PROVE j <= i
  <2>1. n - i <= n - j
    BY <1>2, <1>3
  <2>2. QED
    BY <2>1
<1>5. QED
  BY <1>4 DEF Latest

\* A number that no member exceeds is the latest.
LEMMA LatestIs ==
  ASSUME NEW S \in SUBSET Nat, NEW n \in S, \A j \in S : j <= n
  PROVE  Latest(S) = n
<1>1. Latest(S) \in S /\ \A j \in S : j <= Latest(S)
  BY DEF Latest
<1>2. n <= Latest(S) /\ Latest(S) <= n
  BY <1>1
<1>3. Latest(S) \in Nat /\ n \in Nat
  BY <1>1
<1>4. QED
  BY <1>2, <1>3

-----------------------------------------------------------------------------
\* Headers

LEMMA HeadersAreFinite ==
  ASSUME NEW lines, NEW n \in Nat
  PROVE  IsFiniteSet({ i \in 1..n : lines[i].kind = "header" })
<1>1. IsFiniteSet(1..n)
  BY FS_Interval
<1>2. { i \in 1..n : lines[i].kind = "header" } \subseteq 1..n
  OBVIOUS
<1>3. QED
  BY <1>1, <1>2, FS_Subset

LEMMA HeadersAreNumbers ==
  ASSUME NEW lines, NEW n \in Nat
  PROVE  HeadersUpTo(lines, n) \in Nat
<1>1. IsFiniteSet({ i \in 1..n : lines[i].kind = "header" })
  BY HeadersAreFinite
<1>2. QED
  BY <1>1, FS_CardinalityType DEF HeadersUpTo

LEMMA NoHeaders == ASSUME NEW lines PROVE HeadersUpTo(lines, 0) = 0
<1>1. { i \in 1..0 : lines[i].kind = "header" } = {}
  OBVIOUS
<1>2. QED
  BY <1>1, FS_EmptySet DEF HeadersUpTo

\* Each line counts for itself.
LEMMA OneMoreLine ==
  ASSUME NEW lines, NEW n \in Nat \ {0}
  PROVE  HeadersUpTo(lines, n) =
           IF lines[n].kind = "header" THEN HeadersUpTo(lines, n - 1) + 1
           ELSE HeadersUpTo(lines, n - 1)
<1> DEFINE H(m) == { i \in 1..m : lines[i].kind = "header" }
<1>1. IsFiniteSet(H(n - 1)) /\ n \notin H(n - 1)
  BY HeadersAreFinite
<1>2. CASE lines[n].kind = "header"
  <2>1. H(n) = H(n - 1) \cup {n}
    BY <1>2
  <2> HIDE DEF H
  <2>2. Cardinality(H(n)) = Cardinality(H(n - 1)) + 1
    BY <1>1, <2>1, FS_AddElement
  <2>3. QED
    BY <1>2, <2>2 DEF HeadersUpTo, H
<1>3. CASE lines[n].kind # "header"
  <2>1. H(n) = H(n - 1)
    BY <1>3
  <2>2. QED
    BY <1>3, <2>1 DEF HeadersUpTo
<1>4. QED
  BY <1>2, <1>3

-----------------------------------------------------------------------------
\* The parsers, line by line: the functions they are written with exist.

SharesAfter(lines) ==
  CHOOSE keys : keys = [n \in 0..Len(lines) |->
    IF n = 0 THEN <<>> ELSE AddShare(keys[n - 1], lines[n])]

GroupsAfter(lines) ==
  CHOOSE acc : acc = [n \in 0..Len(lines) |->
    IF n = 0 THEN NoGroups ELSE AddLine(acc[n - 1], lines[n])]

LEMMA SharesLineByLine ==
  ASSUME NEW lines, Len(lines) \in Nat
  PROVE  /\ ParsedShares(lines) = SharesAfter(lines)[Len(lines)]
         /\ SharesAfter(lines)[0] = <<>>
         /\ \A n \in 1..Len(lines) :
              SharesAfter(lines)[n] = AddShare(SharesAfter(lines)[n - 1], lines[n])
<1> DEFINE Upto(m, keys) == keys = [n \in 0..m |->
             IF n = 0 THEN <<>> ELSE AddShare(keys[n - 1], lines[n])]
<1> DEFINE Bad == { m \in Nat : ~ \E keys : Upto(m, keys) }
<1>1. Bad = {}
  <2>1. SUFFICES ASSUME Bad # {} PROVE FALSE
    OBVIOUS
  <2>2. PICK m \in Bad : \A l \in Bad : m <= l
    <3>1. Bad \in SUBSET Nat
      OBVIOUS
    <3> HIDE DEF Bad
    <3>2. QED
      BY <2>1, <3>1, NatMin
  <2>3. CASE m = 0
    <3>1. Upto(0, [n \in 0..0 |-> <<>>])
      OBVIOUS
    <3>2. QED
      BY <2>2, <2>3, <3>1
  <2>4. CASE m # 0
    <3>1. m - 1 \in Nat /\ m - 1 \notin Bad
      <4>1. m - 1 \in Nat /\ ~ (m <= m - 1)
        BY <2>4
      <4> HIDE DEF Bad
      <4>2. QED
        BY <2>2, <4>1
    <3>2. PICK p : Upto(m - 1, p)
      BY <3>1
    <3> DEFINE q == [n \in 0..m |-> IF n = m THEN AddShare(p[m - 1], lines[m]) ELSE p[n]]
    <3>3. \A n \in 0..(m - 1) : q[n] = p[n]
      BY <3>1
    <3>4. ASSUME NEW n \in 0..m
          PROVE  q[n] = IF n = 0 THEN <<>> ELSE AddShare(q[n - 1], lines[n])
      <4>1. CASE n = m
        BY <2>4, <3>1, <3>3, <4>1
      <4>2. CASE n # m
        <5>1. n \in 0..(m - 1) /\ (n # 0 => n - 1 \in 0..(m - 1))
          BY <3>1, <4>2
        <5>2. p[n] = IF n = 0 THEN <<>> ELSE AddShare(p[n - 1], lines[n])
          BY <3>2, <5>1
        <5>3. QED
          BY <3>3, <5>1, <5>2
      <4>3. QED
        BY <4>1, <4>2
    <3>5. Upto(m, q)
      BY <3>4
    <3>6. QED
      BY <2>2, <3>5
  <2>5. QED
    BY <2>3, <2>4
<1>2. PICK p : Upto(Len(lines), p)
  BY <1>1
<1>3. Upto(Len(lines), SharesAfter(lines))
  BY <1>2, Zenon DEF SharesAfter
<1>4. ParsedShares(lines) = SharesAfter(lines)[Len(lines)]
  BY Zenon DEF ParsedShares, SharesAfter
<1>5. \A n \in 0..Len(lines) : SharesAfter(lines)[n] =
        IF n = 0 THEN <<>> ELSE AddShare(SharesAfter(lines)[n - 1], lines[n])
  BY <1>3, Zenon
<1>6. QED
  BY <1>4, <1>5

LEMMA GroupsLineByLine ==
  ASSUME NEW lines, Len(lines) \in Nat
  PROVE  /\ ParseGroups(lines) = GroupsAfter(lines)[Len(lines)]
         /\ GroupsAfter(lines)[0] = NoGroups
         /\ \A n \in 1..Len(lines) :
              GroupsAfter(lines)[n] = AddLine(GroupsAfter(lines)[n - 1], lines[n])
<1> DEFINE Upto(m, acc) == acc = [n \in 0..m |->
             IF n = 0 THEN NoGroups ELSE AddLine(acc[n - 1], lines[n])]
<1> DEFINE Bad == { m \in Nat : ~ \E acc : Upto(m, acc) }
<1>1. Bad = {}
  <2>1. SUFFICES ASSUME Bad # {} PROVE FALSE
    OBVIOUS
  <2>2. PICK m \in Bad : \A l \in Bad : m <= l
    <3>1. Bad \in SUBSET Nat
      OBVIOUS
    <3> HIDE DEF Bad
    <3>2. QED
      BY <2>1, <3>1, NatMin
  <2>3. CASE m = 0
    <3>1. Upto(0, [n \in 0..0 |-> NoGroups])
      OBVIOUS
    <3>2. QED
      BY <2>2, <2>3, <3>1
  <2>4. CASE m # 0
    <3>1. m - 1 \in Nat /\ m - 1 \notin Bad
      <4>1. m - 1 \in Nat /\ ~ (m <= m - 1)
        BY <2>4
      <4> HIDE DEF Bad
      <4>2. QED
        BY <2>2, <4>1
    <3>2. PICK p : Upto(m - 1, p)
      BY <3>1
    <3> DEFINE q == [n \in 0..m |-> IF n = m THEN AddLine(p[m - 1], lines[m]) ELSE p[n]]
    <3>3. \A n \in 0..(m - 1) : q[n] = p[n]
      BY <3>1
    <3>4. ASSUME NEW n \in 0..m
          PROVE  q[n] = IF n = 0 THEN NoGroups ELSE AddLine(q[n - 1], lines[n])
      <4>1. CASE n = m
        BY <2>4, <3>1, <3>3, <4>1
      <4>2. CASE n # m
        <5>1. n \in 0..(m - 1) /\ (n # 0 => n - 1 \in 0..(m - 1))
          BY <3>1, <4>2
        <5>2. p[n] = IF n = 0 THEN NoGroups ELSE AddLine(p[n - 1], lines[n])
          BY <3>2, <5>1
        <5>3. QED
          BY <3>3, <5>1, <5>2
      <4>3. QED
        BY <4>1, <4>2
    <3>5. Upto(m, q)
      BY <3>4
    <3>6. QED
      BY <2>2, <3>5
  <2>5. QED
    BY <2>3, <2>4
<1>2. PICK p : Upto(Len(lines), p)
  BY <1>1
<1>3. Upto(Len(lines), GroupsAfter(lines))
  BY <1>2, Zenon DEF GroupsAfter
<1>4. ParseGroups(lines) = GroupsAfter(lines)[Len(lines)]
  BY Zenon DEF ParseGroups, GroupsAfter
<1>5. \A n \in 0..Len(lines) : GroupsAfter(lines)[n] =
        IF n = 0 THEN NoGroups ELSE AddLine(GroupsAfter(lines)[n - 1], lines[n])
  BY <1>3, Zenon
<1>6. QED
  BY <1>4, <1>5

-----------------------------------------------------------------------------
\* Lines, and what one of them does

LEMMA LineKinds ==
  ASSUME NEW line \in Line
  PROVE  /\ line.kind \in {"share", "header", "skip", "bad"}
         /\ line.kind = "share" => line.key \in Keys /\ Code(line.key) \in Codes
         /\ line.kind = "header" => line.name \in Names
BY DEF Line, ShareLine, Header, SkippedLine, BadLine, Codes

\* A share is added unless it is there.
LEMMA ShareAdded ==
  ASSUME NEW keys \in Seq(Keys), NEW line \in Line
  PROVE  /\ AddShare(keys, line) \in Seq(Keys)
         /\ ToSet(keys) \subseteq ToSet(AddShare(keys, line))
         /\ line.kind = "share" => line.key \in ToSet(AddShare(keys, line))
<1>1. CASE line.kind = "share" /\ \A k \in ToSet(keys) : ~SameShare(k, line.key)
  <2>1. line.key \in Keys
    BY <1>1, LineKinds
  <2> DEFINE new == Append(keys, line.key)
  <2>2. AddShare(keys, line) = new
    BY <1>1 DEF AddShare
  <2>3. /\ new \in Seq(Keys) /\ Len(new) = Len(keys) + 1
        /\ \A i \in 1..Len(keys) : new[i] = keys[i]
        /\ new[Len(keys) + 1] = line.key
    BY <2>1
  <2> HIDE DEF new
  <2>4. ToSet(keys) \subseteq ToSet(new) /\ line.key \in ToSet(new)
    BY <2>3 DEF ToSet
  <2>5. QED
    BY <2>2, <2>3, <2>4
<1>2. CASE ~ (line.kind = "share" /\ \A k \in ToSet(keys) : ~SameShare(k, line.key))
  BY <1>2 DEF AddShare, SameShare
<1>3. QED
  BY <1>1, <1>2

\* A list is parsed into all its shares.
LEMMA AllSharesAreRead ==
  ASSUME NEW lines \in Seq(Line)
  PROVE  /\ ParsedShares(lines) \in Seq(Keys)
         /\ \A i \in DOMAIN lines :
              lines[i].kind = "share" => lines[i].key \in ToSet(ParsedShares(lines))
<1> DEFINE keys(n) == SharesAfter(lines)[n]
<1> DEFINE Good(n) == /\ keys(n) \in Seq(Keys)
                      /\ \A i \in 1..n : lines[i].kind = "share" => lines[i].key \in ToSet(keys(n))
<1> DEFINE Bad == { n \in 0..Len(lines) : ~ Good(n) }
<1>1. /\ Len(lines) \in Nat /\ DOMAIN lines = 1..Len(lines)
      /\ \A i \in 1..Len(lines) : lines[i] \in Line
  OBVIOUS
<1>2. /\ ParsedShares(lines) = keys(Len(lines)) /\ keys(0) = <<>>
      /\ \A n \in 1..Len(lines) : keys(n) = AddShare(keys(n - 1), lines[n])
  BY <1>1, SharesLineByLine
<1> HIDE DEF keys
<1>3. Good(0)
  <2>1. keys(0) \in Seq(Keys)
    <3>1. <<>> \in Seq(Keys)
      OBVIOUS
    <3>2. QED
      BY <1>2, <3>1, Zenon
  <2>2. 1..0 = {}
    OBVIOUS
  <2>3. QED
    BY <2>1, <2>2, Zenon
<1>4. ASSUME NEW n \in 1..Len(lines), Good(n - 1) PROVE Good(n)
  <2>1. lines[n] \in Line /\ n - 1 \in Nat
    BY <1>1
  <2>2. /\ keys(n) \in Seq(Keys) /\ ToSet(keys(n - 1)) \subseteq ToSet(keys(n))
        /\ lines[n].kind = "share" => lines[n].key \in ToSet(keys(n))
    BY <1>2, <1>4, <2>1, ShareAdded
  <2>3. ASSUME NEW i \in 1..n, lines[i].kind = "share" PROVE lines[i].key \in ToSet(keys(n))
    <3>1. CASE i = n
      BY <2>2, <2>3, <3>1
    <3>2. CASE i # n
      <4>1. i \in 1..(n - 1)
        BY <3>2
      <4>2. lines[i].key \in ToSet(keys(n - 1))
        BY <1>4, <2>3, <4>1
      <4>3. QED
        BY <2>2, <4>2
    <3>3. QED
      BY <3>1, <3>2
  <2>4. QED
    BY <2>2, <2>3
<1> HIDE DEF Good
<1>5. Bad = {}
  <2>1. SUFFICES ASSUME Bad # {} PROVE FALSE
    OBVIOUS
  <2>2. PICK m \in Bad : \A l \in Bad : m <= l
    <3>1. Bad \in SUBSET Nat
      BY <1>1
    <3> HIDE DEF Bad
    <3>2. QED
      BY <2>1, <3>1, NatMin
  <2>3. m # 0 /\ m \in 0..Len(lines) /\ ~ Good(m)
    BY <1>3, <2>2
  <2>4. m - 1 \in 0..Len(lines) /\ ~ (m <= m - 1) /\ m \in 1..Len(lines)
    BY <1>1, <2>3
  <2>5. Good(m - 1)
    BY <2>2, <2>4
  <2>6. QED
    BY <1>4, <2>3, <2>4, <2>5
<1>6. Good(Len(lines))
  BY <1>1, <1>5
<1>7. QED
  BY <1>1, <1>2, <1>6 DEF Good

-----------------------------------------------------------------------------
\* The overlay, line by line

LEMMA NamingGrows ==
  ASSUME NEW lines \in Seq(Line), NEW n \in 1..Len(lines), NEW code
  PROVE  NamingUpTo(lines, n, code) =
           IF lines[n].kind = "share" /\ Code(lines[n].key) = code
           THEN NamingUpTo(lines, n - 1, code) \cup {n}
           ELSE NamingUpTo(lines, n - 1, code)
<1>1. DOMAIN lines = 1..Len(lines) /\ Len(lines) \in Nat
  OBVIOUS
<1>2. \A i \in 1..Len(lines) : i <= n <=> i <= n - 1 \/ i = n
  BY <1>1
<1>3. QED
  BY <1>1, <1>2 DEF NamingUpTo, Naming

\* The naming lines so far are numbers up to n.
LEMMA NamingRange ==
  ASSUME NEW lines \in Seq(Line), NEW n \in 0..Len(lines), NEW code
  PROVE  n \in Nat /\ NamingUpTo(lines, n, code) \in SUBSET (1..n)
<1>1. DOMAIN lines = 1..Len(lines) /\ Len(lines) \in Nat
  OBVIOUS
<1>2. QED
  BY <1>1 DEF NamingUpTo, Naming

\* A line that names a code puts it under the current header.
LEMMA GroupGrows ==
  ASSUME NEW lines \in Seq(Line), NEW n \in 1..Len(lines), NEW code
  PROVE  GroupUpTo(lines, n, code) =
           IF lines[n].kind = "share" /\ Code(lines[n].key) = code
           THEN { HeadersUpTo(lines, n) } ELSE GroupUpTo(lines, n - 1, code)
<1>1. n \in Nat /\ n - 1 \in 0..Len(lines)
  OBVIOUS
<1>2. CASE lines[n].kind = "share" /\ Code(lines[n].key) = code
  <2>1. NamingUpTo(lines, n, code) = NamingUpTo(lines, n - 1, code) \cup {n}
    BY <1>2, NamingGrows
  <2>2. NamingUpTo(lines, n - 1, code) \in SUBSET (1..(n - 1))
    BY <1>1, NamingRange
  <2>3. /\ NamingUpTo(lines, n, code) \in SUBSET Nat /\ n \in NamingUpTo(lines, n, code)
        /\ \A j \in NamingUpTo(lines, n, code) : j <= n
    BY <1>1, <2>1, <2>2
  <2>4. Latest(NamingUpTo(lines, n, code)) = n
    BY <2>3, LatestIs
  <2>5. QED
    BY <1>2, <2>3, <2>4 DEF GroupUpTo
<1>3. CASE ~ (lines[n].kind = "share" /\ Code(lines[n].key) = code)
  <2>1. NamingUpTo(lines, n, code) = NamingUpTo(lines, n - 1, code)
    BY <1>3, NamingGrows
  <2>2. QED
    BY <1>3, <2>1 DEF GroupUpTo
<1>4. QED
  BY <1>2, <1>3

\* It is in two groups from the line on that names it outside its group.
LEMMA TwiceGrows ==
  ASSUME NEW lines \in Seq(Line), NEW n \in 1..Len(lines), NEW code
  PROVE  Twice(lines, n, code) <=>
           \/ Twice(lines, n - 1, code)
           \/ /\ lines[n].kind = "share" /\ Code(lines[n].key) = code
              /\ ~ (GroupUpTo(lines, n - 1, code) \subseteq { HeadersUpTo(lines, n) })
<1> DEFINE old == NamingUpTo(lines, n - 1, code)
<1> DEFINE H(i) == HeadersUpTo(lines, i)
<1>1. n \in Nat /\ n - 1 \in 0..Len(lines) /\ n - 1 \in Nat
  OBVIOUS
<1>2. old \in SUBSET (1..(n - 1))
  BY <1>1, NamingRange
<1>3. CASE ~ (lines[n].kind = "share" /\ Code(lines[n].key) = code)
  <2>1. NamingUpTo(lines, n, code) = old
    BY <1>3, NamingGrows
  <2>2. QED
    BY <1>3, <2>1 DEF Twice
<1>4. CASE lines[n].kind = "share" /\ Code(lines[n].key) = code
  <2>1. NamingUpTo(lines, n, code) = old \cup {n}
    BY <1>4, NamingGrows
  <2>2. CASE old = {}
    <3>1. ~ Twice(lines, n, code) /\ ~ Twice(lines, n - 1, code)
      BY <2>1, <2>2 DEF Twice
    <3>2. GroupUpTo(lines, n - 1, code) = {}
      BY <2>2 DEF GroupUpTo
    <3>3. QED
      BY <3>1, <3>2
  <2>3. CASE old # {}
    <3>1. PICK last : last = Latest(old)
      OBVIOUS
    <3>2. last \in old /\ \A j \in old : j <= last
      BY <1>1, <1>2, <2>3, <3>1, LatestIsLast
    <3>3. GroupUpTo(lines, n - 1, code) = { H(last) }
      BY <2>3, <3>1 DEF GroupUpTo
    <3> HIDE DEF H, old
    <3>4. Twice(lines, n, code) <=> \E i, j \in old \cup {n} : H(i) # H(j)
      BY <2>1 DEF Twice, H
    <3>5. Twice(lines, n - 1, code) <=> \E i, j \in old : H(i) # H(j)
      BY DEF Twice, H, old
    <3>6. (\E i, j \in old \cup {n} : H(i) # H(j)) <=>
             (\E i, j \in old : H(i) # H(j)) \/ H(last) # H(n)
      BY <3>2
    <3>7. QED
      BY <1>4, <3>3, <3>4, <3>5, <3>6 DEF H
  <2>4. QED
    BY <2>2, <2>3
<1>5. QED
  BY <1>3, <1>4

-----------------------------------------------------------------------------
\* ParseGroups

LEMMA NothingRead ==
  ASSUME NEW lines \in Seq(Line)
  PROVE  NoGroups \in Acc /\ Reads(lines, 0, NoGroups)
<1>1. NoGroups \in Acc
  BY DEF NoGroups, Acc
<1>2. ASSUME NEW code PROVE NamingUpTo(lines, 0, code) = {}
  <2>1. 0 \in 0..Len(lines) /\ 1..0 = {}
    OBVIOUS
  <2>2. QED
    BY <2>1, NamingRange
<1>3. ASSUME NEW code PROVE GroupUpTo(lines, 0, code) = {} /\ ~ Twice(lines, 0, code)
  BY <1>2 DEF GroupUpTo, Twice
<1>4. NoGroups.groups = <<>> /\ NoGroups.duplicates = {}
  BY DEF NoGroups
<1>5. \A code : Owners(<<>>, code) = {}
  BY DEF Owners
<1>6. QED
  BY <1>1, <1>3, <1>4, <1>5, NoHeaders DEF Reads

\* A header starts a group, without codes.
LEMMA HeaderRead ==
  ASSUME NEW lines \in Seq(Line), NEW n \in 1..Len(lines), NEW acc \in Acc, acc.ok,
         Reads(lines, n - 1, acc), lines[n].kind = "header"
  PROVE  AddLine(acc, lines[n]) \in Acc /\ Reads(lines, n, AddLine(acc, lines[n]))
<1> DEFINE group == [name |-> lines[n].name, codes |-> {}]
<1> DEFINE groups == Append(acc.groups, group)
<1> DEFINE new == [ok |-> acc.ok, groups |-> groups, duplicates |-> acc.duplicates]
<1>1. lines[n] \in Line /\ n \in Nat \ {0}
  OBVIOUS
<1>2. AddLine(acc, lines[n]) = new
  BY DEF AddLine, Acc
<1>3. group \in Group
  BY <1>1, LineKinds DEF Group
<1>4. /\ acc.groups \in Seq(Group)
      /\ acc.ok \in BOOLEAN /\ acc.duplicates \in SUBSET Codes
  BY DEF Acc
<1> HIDE DEF group
<1>5. /\ groups \in Seq(Group)
      /\ Len(groups) = Len(acc.groups) + 1 /\ Len(acc.groups) \in Nat
      /\ DOMAIN groups = 1..(Len(acc.groups) + 1) /\ DOMAIN acc.groups = 1..Len(acc.groups)
      /\ \A i \in 1..Len(acc.groups) : groups[i] = acc.groups[i]
      /\ groups[Len(acc.groups) + 1] = group
  BY <1>3, <1>4
<1> HIDE DEF groups
<1>6. new \in Acc
  BY <1>4, <1>5 DEF Acc
<1>7. Len(groups) = HeadersUpTo(lines, n)
  BY <1>1, <1>5, OneMoreLine DEF Reads
<1>8. ASSUME NEW code \in Codes PROVE Owners(groups, code) = GroupUpTo(lines, n, code)
  <2>1. GroupUpTo(lines, n, code) = GroupUpTo(lines, n - 1, code)
    BY GroupGrows
  <2>2. groups[Len(acc.groups) + 1].codes = {}
    BY <1>5 DEF group
  <2>3. \A i \in DOMAIN groups : i \in DOMAIN acc.groups \/ i = Len(acc.groups) + 1
    BY <1>5
  <2>4. DOMAIN acc.groups \subseteq DOMAIN groups
    BY <1>5
  <2>5. Owners(groups, code) = Owners(acc.groups, code)
    BY <1>5, <2>2, <2>3, <2>4, Zenon DEF Owners
  <2>6. QED
    BY <2>1, <2>5 DEF Reads
<1>9. ASSUME NEW code \in Codes PROVE Twice(lines, n, code) <=> Twice(lines, n - 1, code)
  BY TwiceGrows
<1>10. acc.duplicates = { code \in Codes : Twice(lines, n, code) }
  BY <1>9 DEF Reads
<1>11. Reads(lines, n, new)
  BY <1>7, <1>8, <1>10 DEF Reads
<1>12. QED
  BY <1>2, <1>6, <1>11

\* A code goes to the last group, out of the one it was in.
LEMMA CodeRead ==
  ASSUME NEW lines \in Seq(Line), NEW n \in 1..Len(lines), NEW acc \in Acc, acc.ok,
         Reads(lines, n - 1, acc), lines[n].kind = "share", acc.groups # <<>>
  PROVE  AddLine(acc, lines[n]) \in Acc /\ Reads(lines, n, AddLine(acc, lines[n]))
<1> DEFINE c == Code(lines[n].key)
<1> DEFINE new == AddCode(acc, c)
<1>1. lines[n] \in Line /\ n \in Nat \ {0} /\ c \in Codes
  <2>1. lines[n] \in Line /\ n \in Nat \ {0}
    OBVIOUS
  <2>2. QED
    BY <2>1, LineKinds
<1>2. AddLine(acc, lines[n]) = new
  BY DEF AddLine
<1>3. /\ acc.groups \in Seq(Group)
      /\ acc.duplicates \in SUBSET Codes
  BY DEF Acc
<1>4. PICK last : last = Len(acc.groups)
  OBVIOUS
<1>5. last \in Nat \ {0} /\ DOMAIN acc.groups = 1..last
      /\ \A i \in 1..last : acc.groups[i] \in Group
  <2>1. Len(acc.groups) # 0
    BY <1>3, EmptySeq
  <2>2. last \in Nat \ {0} /\ DOMAIN acc.groups = 1..last
    BY <1>3, <1>4, <2>1
  <2>3. ASSUME NEW i \in 1..last
        PROVE  acc.groups[i] \in Group
    <3> HIDE DEF c, new
    <3>1. i \in 1..Len(acc.groups)
      BY <1>4
    <3>2. QED
      BY <1>3, <3>1, ElementOfSeq
  <2>4. QED
    BY <2>2, <2>3
<1> HIDE DEF c
<1>6. /\ new.ok = TRUE
      /\ new.groups = [i \in 1..last |->
           [name  |-> acc.groups[i].name,
            codes |-> IF i = last THEN acc.groups[i].codes \cup {c} ELSE acc.groups[i].codes \ {c}]]
      /\ new.duplicates = IF Owners(acc.groups, c) \subseteq {last} THEN acc.duplicates
                          ELSE acc.duplicates \cup {c}
      /\ new = [ok |-> new.ok, groups |-> new.groups, duplicates |-> new.duplicates]
  BY <1>4, Zenon DEF AddCode
<1> HIDE DEF new
<1>7. /\ new.groups \in [1..last -> Group]
      /\ \A i \in 1..last : new.groups[i].codes =
           IF i = last THEN acc.groups[i].codes \cup {c} ELSE acc.groups[i].codes \ {c}
  <2> DEFINE value(i) == [name  |-> acc.groups[i].name,
             codes |-> IF i = last THEN acc.groups[i].codes \cup {c} ELSE acc.groups[i].codes \ {c}]
  <2>1. ASSUME NEW i \in 1..last PROVE value(i) \in Group
    <3>1. acc.groups[i] \in Group
      BY <1>5
    <3>2. acc.groups[i].name \in Names /\ acc.groups[i].codes \in SUBSET Codes
      BY <3>1 DEF Group
    <3>3. QED
      BY <1>1, <3>2 DEF Group
  <2>2. new.groups = [i \in 1..last |-> value(i)]
    BY <1>6
  <2>3. \A i \in 1..last : value(i).codes =
          IF i = last THEN acc.groups[i].codes \cup {c} ELSE acc.groups[i].codes \ {c}
    OBVIOUS
  <2> HIDE DEF value
  <2>4. QED
    BY <2>1, <2>2, <2>3
<1>8. new.groups \in Seq(Group) /\ Len(new.groups) = last
      /\ DOMAIN new.groups = 1..last
  <2>1. last \in Nat
    BY <1>5
  <2>2. new.groups \in Seq(Group)
    <3>1. new.groups \in UNION { [1..m -> Group] : m \in Nat }
      BY <1>7, <2>1
    <3>2. Seq(Group) = UNION { [1..m -> Group] : m \in Nat }
      BY SeqDef
    <3>3. QED
      BY <3>1, <3>2
  <2>3. QED
    BY <1>7, <2>1, <2>2
<1>9. new.duplicates \in SUBSET Codes
  BY <1>1, <1>3, <1>6
<1>10. new \in Acc
  BY <1>6, <1>8, <1>9 DEF Acc
<1>11. HeadersUpTo(lines, n) = last
  BY <1>1, <1>4, OneMoreLine DEF Reads
<1>12. ASSUME NEW code \in Codes PROVE Owners(new.groups, code) = GroupUpTo(lines, n, code)
  <2>1. CASE code = c
    <3>1. GroupUpTo(lines, n, code) = {last}
      BY <1>11, <2>1, GroupGrows DEF c
    <3>2. Owners(new.groups, code) = {last}
      <4>1. \A i \in 1..last : code \in new.groups[i].codes <=> i = last
        BY <1>7, <1>5, <2>1
      <4>2. last \in 1..last
        BY <1>5
      <4>3. QED
        BY <1>8, <4>1, <4>2 DEF Owners
    <3>3. QED
      BY <3>1, <3>2
  <2>2. CASE code # c
    <3>1. GroupUpTo(lines, n, code) = GroupUpTo(lines, n - 1, code)
      BY <2>2, GroupGrows DEF c
    <3>2. Owners(new.groups, code) = Owners(acc.groups, code)
      BY <1>7, <1>8, <1>5, <2>2 DEF Owners
    <3>3. QED
      BY <3>1, <3>2 DEF Reads
  <2>3. QED
    BY <2>1, <2>2
<1>13. new.duplicates = { code \in Codes : Twice(lines, n, code) }
  <2>1. ASSUME NEW code \in Codes
        PROVE  Twice(lines, n, code) <=>
                 \/ code \in acc.duplicates
                 \/ code = c /\ ~ (Owners(acc.groups, c) \subseteq {last})
    <3>1. Twice(lines, n - 1, code) <=> code \in acc.duplicates
      BY DEF Reads
    <3>2. Owners(acc.groups, code) = GroupUpTo(lines, n - 1, code)
      BY DEF Reads
    <3>3. Twice(lines, n, code) <=>
            \/ Twice(lines, n - 1, code)
            \/ code = c /\ ~ (GroupUpTo(lines, n - 1, code) \subseteq {last})
      BY <1>11, TwiceGrows DEF c
    <3>4. QED
      BY <3>1, <3>2, <3>3
  <2>2. new.duplicates \subseteq Codes
    BY <1>9
  <2>3. ASSUME NEW code \in Codes PROVE code \in new.duplicates <=> Twice(lines, n, code)
    BY <1>6, <2>1
  <2>4. QED
    BY <2>2, <2>3
<1>14. Reads(lines, n, new)
  BY <1>8, <1>11, <1>12, <1>13 DEF Reads
<1>15. QED
  BY <1>2, <1>10, <1>14

\* Whatever the line, what is known of the list so far is kept.
LEMMA LineRead ==
  ASSUME NEW lines \in Seq(Line), NEW n \in 1..Len(lines), NEW acc \in Acc,
         acc.ok => Reads(lines, n - 1, acc)
  PROVE  /\ AddLine(acc, lines[n]) \in Acc
         /\ AddLine(acc, lines[n]).ok => Reads(lines, n, AddLine(acc, lines[n]))
<1>1. lines[n] \in Line /\ n \in Nat \ {0}
  OBVIOUS
<1>2. CASE ~acc.ok
  <2>1. AddLine(acc, lines[n]) = acc
    BY <1>2, Zenon DEF AddLine
  <2>2. QED
    BY <1>2, <2>1
<1>3. CASE acc.ok /\ lines[n].kind = "skip"
  <2>1. AddLine(acc, lines[n]) = acc
    BY <1>3 DEF AddLine
  <2>2. HeadersUpTo(lines, n) = HeadersUpTo(lines, n - 1)
    BY <1>1, <1>3, OneMoreLine
  <2>3. \A code : /\ GroupUpTo(lines, n, code) = GroupUpTo(lines, n - 1, code)
                  /\ (Twice(lines, n, code) <=> Twice(lines, n - 1, code))
    BY <1>3, GroupGrows, TwiceGrows
  <2>4. Reads(lines, n, acc)
    BY <1>3, <2>2, <2>3 DEF Reads
  <2>5. QED
    BY <2>1, <2>4
<1>4. CASE acc.ok /\ lines[n].kind = "header"
  BY <1>4, HeaderRead
<1>5. CASE acc.ok /\ lines[n].kind = "share" /\ acc.groups # <<>>
  BY <1>5, CodeRead
<1>6. CASE /\ acc.ok /\ lines[n].kind \in {"share", "bad"}
           /\ lines[n].kind = "share" => acc.groups = <<>>
  <2>1. AddLine(acc, lines[n]) = [acc EXCEPT !.ok = FALSE]
    BY <1>6 DEF AddLine
  <2>2. QED
    BY <2>1 DEF Acc
<1>7. QED
  BY <1>1, <1>2, <1>3, <1>4, <1>5, <1>6, LineKinds

\* An overlay that can be read is read as said: each group once, a code under the
\* last header that names it, and warned about when it stands under two.
LEMMA OverlayIsRead ==
  ASSUME NEW lines \in Seq(Line), ParseGroups(lines).ok
  PROVE  /\ ParseGroups(lines) \in Acc
         /\ Len(ParseGroups(lines).groups) = HeadersUpTo(lines, Len(lines))
         /\ ParseGroups(lines).duplicates = { code \in Codes : InTwoGroups(lines, code) }
         /\ \A code \in Codes : Owners(ParseGroups(lines).groups, code) =
              IF Naming(lines, code) = {} THEN {} ELSE { LastGroupOf(lines, code) }
<1> DEFINE acc(n) == GroupsAfter(lines)[n]
<1> DEFINE Good(n) == acc(n) \in Acc /\ (acc(n).ok => Reads(lines, n, acc(n)))
<1> DEFINE Bad == { n \in 0..Len(lines) : ~ Good(n) }
<1>1. Len(lines) \in Nat /\ DOMAIN lines = 1..Len(lines)
  OBVIOUS
<1>2. /\ ParseGroups(lines) = acc(Len(lines)) /\ acc(0) = NoGroups
      /\ \A n \in 1..Len(lines) : acc(n) = AddLine(acc(n - 1), lines[n])
  BY <1>1, GroupsLineByLine
<1> HIDE DEF acc
<1>3. Good(0)
  BY <1>2, NothingRead
<1>4. ASSUME NEW n \in 1..Len(lines), Good(n - 1) PROVE Good(n)
  BY <1>2, <1>4, LineRead
<1> HIDE DEF Good
<1>5. Bad = {}
  <2>1. SUFFICES ASSUME Bad # {} PROVE FALSE
    OBVIOUS
  <2>2. PICK m \in Bad : \A l \in Bad : m <= l
    <3>1. Bad \in SUBSET Nat
      BY <1>1
    <3> HIDE DEF Bad
    <3>2. QED
      BY <2>1, <3>1, NatMin
  <2>3. m # 0 /\ m \in 0..Len(lines) /\ ~ Good(m)
    BY <1>3, <2>2
  <2>4. m - 1 \in 0..Len(lines) /\ ~ (m <= m - 1) /\ m \in 1..Len(lines)
    BY <1>1, <2>3
  <2>5. Good(m - 1)
    BY <2>2, <2>4
  <2>6. QED
    BY <1>4, <2>3, <2>4, <2>5
<1>6. Good(Len(lines))
  BY <1>1, <1>5
<1>7. ParseGroups(lines) \in Acc /\ Reads(lines, Len(lines), ParseGroups(lines))
  BY <1>2, <1>6 DEF Good
<1>8. ASSUME NEW code PROVE NamingUpTo(lines, Len(lines), code) = Naming(lines, code)
  BY <1>1 DEF NamingUpTo, Naming
<1>9. ASSUME NEW code
      PROVE  /\ (Twice(lines, Len(lines), code) <=> InTwoGroups(lines, code))
             /\ GroupUpTo(lines, Len(lines), code) =
                  IF Naming(lines, code) = {} THEN {} ELSE { LastGroupOf(lines, code) }
  <2>1. NamingUpTo(lines, Len(lines), code) = Naming(lines, code)
    BY <1>8
  <2>2. Twice(lines, Len(lines), code) <=> InTwoGroups(lines, code)
    BY <2>1, Zenon DEF Twice, InTwoGroups
  <2>3. CASE Naming(lines, code) = {}
    BY <2>1, <2>2, <2>3, Zenon DEF GroupUpTo
  <2>4. CASE Naming(lines, code) # {}
    BY <2>1, <2>2, <2>4, Zenon DEF GroupUpTo, LastGroupOf
  <2>5. QED
    BY <2>3, <2>4
<1>10. QED
  BY <1>7, <1>9 DEF Reads

-----------------------------------------------------------------------------
\* The invariant

LEMMA InitIInv == Init => IInv
<1> SUFFICES ASSUME Init PROVE IInv
  OBVIOUS
<1>1. TypeOK
  <2>1. <<>> \in Seq(Keys) /\ <<>> \in Seq(Names)
    OBVIOUS
  <2>2. QED
    BY <2>1 DEF Init, TypeOK, NoRow, Registered
<1>2. OverlayInForce
  <2>1. Len(<<>>) = 0 /\ \A code : Naming(<<>>, code) = {}
    BY DEF Naming
  <2>2. \A code : ~ InTwoGroups(<<>>, code)
    BY <2>1 DEF InTwoGroups
  <2>3. \A k \in Keys : ~ Registered(k)
    BY DEF Init, Registered, NoRow
  <2>4. QED
    BY <2>1, <2>2, <2>3, NoHeaders DEF Init, OverlayInForce
<1>3. QED
  BY <1>1, <1>2 DEF Init, ImportCovers, IInv

Row == [status : {"none", "ACTIVE", "DEAD"}, group : Nat]

\* An insert makes a row active, and leaves its group and the others alone.
LEMMA InsertedRow ==
  ASSUME TypeOK, NEW k \in Keys, Insert(k)
  PROVE  /\ share' \in [Keys -> Row] /\ unseen' \subseteq Keys
         /\ share'[k].status = "ACTIVE" /\ share'[k].group = share[k].group
         /\ \A l \in Keys \ {k} : share'[l] = share[l]
         /\ ~Registered(k) => share[k].group = 0 /\ unseen' = unseen \cup {k}
         /\ Registered(k) => unseen' = unseen
<1>1. share \in [Keys -> Row] /\ share[k] \in Row
  BY DEF TypeOK, Row
<1>2. Inserted(k) \in Row /\ Inserted(k).status = "ACTIVE" /\ Inserted(k).group = share[k].group
  BY <1>1 DEF Inserted, Row
<1>3. share' = [share EXCEPT ![k] = Inserted(k)]
  BY DEF Insert
<1>4. ~Registered(k) => share[k].group = 0
  BY DEF TypeOK, NoRow
<1>5. unseen' = IF Registered(k) THEN unseen ELSE unseen \cup {k}
  BY DEF Insert
<1>6. unseen' \subseteq Keys
  BY <1>5 DEF TypeOK
<1> HIDE DEF Inserted
<1>7. QED
  BY <1>1, <1>2, <1>3, <1>4, <1>5, <1>6

\* A step either leaves the overlay in force and keeps every row's group, but for
\* new rows, which have none ...
LEMMA OverlayStays ==
  ASSUME TypeOK, OverlayInForce, UNCHANGED <<share_group, overlay, warned>>,
         \A k \in Keys : Registered(k)' =>
           \/ Registered(k) /\ share'[k].group = share[k].group /\ (k \in unseen' <=> k \in unseen)
           \/ k \in unseen' /\ share'[k].group = 0
  PROVE  OverlayInForce'
<1>1. ASSUME NEW k \in Keys, Registered(k)'
      PROVE  share'[k].group = IF k \in unseen' THEN 0 ELSE LastGroupOf(overlay, Code(k))
  BY <1>1 DEF OverlayInForce
<1>2. QED
  BY <1>1 DEF OverlayInForce

\* ... or puts a new one in force.
LEMMA OverlayIsNew ==
  ASSUME TypeOK, ImportGroups, ~ UNCHANGED <<table, record>>
  PROVE  /\ OverlayInForce'
         /\ share' \in [Keys -> Row] /\ share_group' \in Seq(Names)
         /\ overlay' \in Overlays /\ warned' \subseteq Codes /\ unseen' = {}
         /\ \A k \in Keys : share'[k].status = share[k].status
         /\ \A k \in Keys : ~Registered(k) => share'[k] = NoRow
<1>1. PICK lines \in Overlays :
        /\ ParseGroups(lines).ok
        /\ share_group' = [i \in DOMAIN ParseGroups(lines).groups |-> ParseGroups(lines).groups[i].name]
        /\ share' = [k \in Keys |->
             IF Registered(k) /\ Owners(ParseGroups(lines).groups, Code(k)) # {}
             THEN [Cleared[k] EXCEPT !.group =
                     CHOOSE i \in Owners(ParseGroups(lines).groups, Code(k)) : TRUE]
             ELSE Cleared[k]]
        /\ overlay' = lines /\ warned' = ParseGroups(lines).duplicates /\ unseen' = {}
  BY Zenon DEF ImportGroups
<1>2. lines \in Seq(Line)
  BY ShareGroupsAssumption
<1>3. PICK acc : acc = ParseGroups(lines)
  OBVIOUS
<1>4. /\ acc \in Acc /\ Len(acc.groups) = HeadersUpTo(lines, Len(lines))
      /\ acc.duplicates = { code \in Codes : InTwoGroups(lines, code) }
      /\ \A code \in Codes : Owners(acc.groups, code) =
           IF Naming(lines, code) = {} THEN {} ELSE { LastGroupOf(lines, code) }
  BY <1>1, <1>2, <1>3, OverlayIsRead
<1>5. acc.groups \in Seq(Group) /\ DOMAIN acc.groups = 1..Len(acc.groups) /\ Len(acc.groups) \in Nat
      /\ \A i \in 1..Len(acc.groups) : acc.groups[i].name \in Names
  <2>1. acc.groups \in Seq(Group)
    BY <1>4 DEF Acc
  <2>2. \A i \in 1..Len(acc.groups) : acc.groups[i] \in Group
    BY <2>1, ElementOfSeq
  <2>3. QED
    BY <2>1, <2>2 DEF Group
<1>6. share_group' \in Seq(Names) /\ Len(share_group') = Len(acc.groups)
  <2>1. share_group' = [i \in 1..Len(acc.groups) |-> acc.groups[i].name]
    BY <1>1, <1>3, <1>5
  <2>2. share_group' \in [1..Len(acc.groups) -> Names]
    BY <1>5, <2>1
  <2>3. share_group' \in UNION { [1..m -> Names] : m \in Nat }
    BY <1>5, <2>2
  <2>4. Seq(Names) = UNION { [1..m -> Names] : m \in Nat }
    BY SeqDef
  <2>5. QED
    BY <1>5, <2>2, <2>3, <2>4
<1>7. ASSUME NEW k \in Keys
      PROVE  /\ share'[k] \in Row /\ share'[k].status = share[k].status
             /\ ~Registered(k) => share'[k] = NoRow
             /\ Registered(k) => share'[k].group = LastGroupOf(lines, Code(k))
  <2>1. share[k] \in Row /\ Code(k) \in Codes
    BY DEF TypeOK, Row, Codes
  <2>2. Cleared[k] = [share[k] EXCEPT !.group = 0]
    BY DEF Cleared
  <2>3. Cleared[k] \in Row /\ Cleared[k].status = share[k].status /\ Cleared[k].group = 0
    BY <2>1, <2>2 DEF Row
  <2>4. CASE Registered(k) /\ Naming(lines, Code(k)) # {}
    <3>1. Owners(acc.groups, Code(k)) = { LastGroupOf(lines, Code(k)) }
      BY <1>4, <2>1, <2>4
    <3>2. LastGroupOf(lines, Code(k)) \in Nat
      BY <1>5, <3>1 DEF Owners
    <3>3. share'[k] = [Cleared[k] EXCEPT !.group = LastGroupOf(lines, Code(k))]
      BY <1>1, <1>3, <2>4, <3>1
    <3>4. QED
      BY <2>3, <2>4, <3>2, <3>3 DEF Row
  <2>5. CASE Registered(k) /\ Naming(lines, Code(k)) = {}
    <3>1. share'[k] = Cleared[k]
      BY <1>1, <1>3, <1>4, <2>1, <2>5
    <3>2. QED
      BY <2>3, <2>5, <3>1 DEF LastGroupOf
  <2>6. CASE ~Registered(k)
    <3>1. share'[k] = Cleared[k] /\ share[k] = NoRow
      BY <1>1, <2>6 DEF TypeOK
    <3>2. QED
      BY <2>2, <2>3, <2>6, <3>1 DEF NoRow
  <2>7. QED
    BY <2>4, <2>5, <2>6
<1>8. share' \in [Keys -> Row]
  <2>1. share' = [k \in Keys |-> share'[k]]
    BY <1>1
  <2>2. QED
    BY <1>7, <2>1
<1>9. OverlayInForce'
  <2>1. \A k \in Keys : Registered(k)' => Registered(k)
    BY <1>7 DEF Registered
  <2>2. QED
    BY <1>1, <1>3, <1>4, <1>6, <1>7, <2>1 DEF OverlayInForce
<1>10. warned' \subseteq Codes
  BY <1>1, <1>3, <1>4
<1>11. QED
  BY <1>1, <1>6, <1>7, <1>8, <1>9, <1>10

\* Tables, lists and the import's place keep their types.
LEMMA TypeKept == IInv /\ [Next]_vars => TypeOK'
<1> SUFFICES ASSUME IInv, [Next]_vars PROVE TypeOK'
  OBVIOUS
<1> USE DEF IInv
<1>1. share \in [Keys -> Row]
  BY DEF TypeOK, Row
<1>2. CASE StartImport
  <2>1. /\ list' \in ImportLists /\ UNCHANGED <<table, record>> /\ undone' = {}
        /\ \/ import' = "running" /\ pending' = ParsedShares(list')
           \/ import' = "off" /\ pending' = <<>>
    BY <1>2 DEF StartImport
  <2>2. ParsedShares(list') \in Seq(Keys)
    <3>1. list' \in Seq(Line)
      BY <2>1, ShareGroupsAssumption
    <3>2. QED
      BY <3>1, AllSharesAreRead
  <2>3. pending' \in Seq(Keys) /\ import' \in {"off", "running", "done"}
    <3>1. <<>> \in Seq(Keys)
      OBVIOUS
    <3>2. QED
      BY <2>1, <2>2, <3>1
  <2>4. QED
    BY <2>1, <2>3 DEF TypeOK, table, record, Registered
<1>3. CASE UpsertShare
  <2>1. Head(pending) \in Keys /\ Tail(pending) \in Seq(Keys)
    BY <1>3 DEF UpsertShare, TypeOK
  <2>2. /\ Insert(Head(pending)) /\ pending' = Tail(pending)
        /\ undone' = undone \ {Head(pending)}
        /\ UNCHANGED <<share_group, import, list, overlay, warned, ops>>
    BY <1>3 DEF UpsertShare
  <2>3. /\ share' \in [Keys -> Row] /\ unseen' \subseteq Keys
        /\ share'[Head(pending)].status = "ACTIVE"
        /\ \A l \in Keys \ {Head(pending)} : share'[l] = share[l]
    BY <2>1, <2>2, InsertedRow
  <2>4. QED
    BY <2>1, <2>2, <2>3 DEF TypeOK, Row, Registered
<1>4. CASE ImportDone
  BY <1>4 DEF ImportDone, TypeOK, table, record, Registered
<1>5. CASE ImportFails
  <2>1. <<>> \in Seq(Keys)
    OBVIOUS
  <2>2. QED
    BY <1>5, <2>1 DEF ImportFails, TypeOK, table, record, Registered
<1>6. CASE ImportGroups
  <2>1. UNCHANGED <<job, undone>>
    BY <1>6 DEF ImportGroups
  <2>2. CASE UNCHANGED <<table, record>>
    BY <2>1, <2>2 DEF TypeOK, table, record, job, Registered
  <2>3. CASE ~ UNCHANGED <<table, record>>
    <3>1. /\ share' \in [Keys -> Row] /\ share_group' \in Seq(Names)
          /\ overlay' \in Overlays /\ warned' \subseteq Codes /\ unseen' = {}
          /\ \A k \in Keys : share'[k].status = share[k].status
          /\ \A k \in Keys : ~Registered(k) => share'[k] = NoRow
      BY <1>6, <2>3, OverlayIsNew
    <3>2. QED
      BY <2>1, <3>1 DEF TypeOK, Row, job, Registered
  <2>4. QED
    BY <2>2, <2>3
<1>7. CASE \E k \in Keys : UpdateShareMeta(k)
  <2>1. PICK k \in Keys : UpdateShareMeta(k)
    BY <1>7
  <2>2. Insert(k) /\ UNCHANGED <<share_group, job, overlay, warned, undone>>
    BY <2>1 DEF UpdateShareMeta
  <2>3. /\ share' \in [Keys -> Row] /\ unseen' \subseteq Keys
        /\ share'[k].status = "ACTIVE" /\ \A l \in Keys \ {k} : share'[l] = share[l]
    BY <2>2, InsertedRow
  <2>4. QED
    BY <2>2, <2>3 DEF TypeOK, Row, job, Registered
<1>8. CASE \E code \in Codes : MarkShareDead(code)
  <2>1. PICK code \in Codes : MarkShareDead(code)
    BY <1>8
  <2>2. share' \in [Keys -> Row] /\ \A k \in Keys : ~Registered(k)' => share'[k] = NoRow
    BY <1>1, <2>1 DEF MarkShareDead, TypeOK, Row, Registered
  <2>3. undone' \subseteq Keys
    BY <2>1 DEF MarkShareDead, TypeOK
  <2>4. UNCHANGED <<share_group, job, record>>
    BY <2>1 DEF MarkShareDead
  <2>5. QED
    BY <2>2, <2>3, <2>4 DEF TypeOK, Row, job, record
<1>9. CASE \E code \in Codes : DeleteShare(code)
  <2>1. PICK code \in Codes : DeleteShare(code)
    BY <1>9
  <2>2. share' \in [Keys -> Row] /\ \A k \in Keys : ~Registered(k)' => share'[k] = NoRow
    <3>1. NoRow \in Row /\ NoRow.status = "none"
      BY DEF NoRow, Row
    <3>2. share' = [k \in Keys |-> IF Code(k) = code THEN NoRow ELSE share[k]]
      BY <2>1 DEF DeleteShare
    <3>3. \A k \in Keys : ~Registered(k) => share[k] = NoRow
      BY DEF TypeOK
    <3>4. QED
      BY <1>1, <3>1, <3>2, <3>3 DEF Registered
  <2>3. undone' \subseteq Keys /\ unseen' \subseteq Keys
    BY <2>1 DEF DeleteShare, TypeOK
  <2>4. UNCHANGED <<share_group, job, overlay, warned>>
    BY <2>1 DEF DeleteShare
  <2>5. QED
    BY <2>2, <2>3, <2>4 DEF TypeOK, Row, job
<1>10. CASE UNCHANGED vars
  BY <1>10 DEF TypeOK, vars, table, job, record, Registered
<1>11. QED
  BY <1>2, <1>3, <1>4, <1>5, <1>6, <1>7, <1>8, <1>9, <1>10 DEF Next

\* The overlay stays in force until the next one.
LEMMA OverlayKept == IInv /\ [Next]_vars => OverlayInForce'
<1> SUFFICES ASSUME IInv, [Next]_vars PROVE OverlayInForce'
  OBVIOUS
<1> USE DEF IInv
<1>1. share \in [Keys -> Row]
  BY DEF TypeOK, Row
<1>2. CASE StartImport \/ ImportDone \/ ImportFails \/ UNCHANGED vars
  <2>1. UNCHANGED <<table, record>>
    BY <1>2 DEF StartImport, ImportDone, ImportFails, vars
  <2>2. QED
    BY <2>1 DEF OverlayInForce, table, record, Registered
<1>3. CASE UpsertShare
  <2>1. Head(pending) \in Keys
    BY <1>3 DEF UpsertShare, TypeOK
  <2>2. Insert(Head(pending)) /\ UNCHANGED <<share_group, overlay, warned>>
    BY <1>3 DEF UpsertShare
  <2>3. QED
    BY <2>1, <2>2, InsertedRow, OverlayStays DEF Registered
<1>4. CASE \E k \in Keys : UpdateShareMeta(k)
  <2>1. PICK k \in Keys : Insert(k) /\ UNCHANGED <<share_group, overlay, warned>>
    BY <1>4 DEF UpdateShareMeta
  <2>2. QED
    BY <2>1, InsertedRow, OverlayStays DEF Registered
<1>5. CASE ImportGroups
  <2>1. CASE UNCHANGED <<table, record>>
    BY <2>1 DEF OverlayInForce, table, record, Registered
  <2>2. CASE ~ UNCHANGED <<table, record>>
    BY <1>5, <2>2, OverlayIsNew
  <2>3. QED
    BY <2>1, <2>2
<1>6. CASE \E code \in Codes : MarkShareDead(code)
  <2>1. PICK code \in Codes : MarkShareDead(code)
    BY <1>6
  <2>2. UNCHANGED <<share_group, overlay, warned, unseen>>
    BY <2>1 DEF MarkShareDead, record
  <2>3. ASSUME NEW k \in Keys, Registered(k)'
        PROVE  Registered(k) /\ share'[k].group = share[k].group
    BY <1>1, <2>1, <2>3 DEF MarkShareDead, Registered, Row
  <2>4. QED
    BY <2>2, <2>3, OverlayStays
<1>7. CASE \E code \in Codes : DeleteShare(code)
  <2>1. PICK code \in Codes : DeleteShare(code)
    BY <1>7
  <2>2. UNCHANGED <<share_group, overlay, warned>>
    BY <2>1 DEF DeleteShare
  <2>3. ASSUME NEW k \in Keys, Registered(k)'
        PROVE  Registered(k) /\ share'[k].group = share[k].group /\ (k \in unseen' <=> k \in unseen)
    BY <2>1, <2>3 DEF DeleteShare, Registered, NoRow
  <2>4. QED
    BY <2>2, <2>3, OverlayStays
<1>8. QED
  BY <1>2, <1>3, <1>4, <1>5, <1>6, <1>7 DEF Next

\* A share of the list is there, still to come, or undone.
LEMMA ImportKept ==
  IInv /\ [Next]_vars => ImportCovers' /\ (import' \in {"off", "done"} => pending' = <<>>)
<1> SUFFICES ASSUME IInv, [Next]_vars
             PROVE  ImportCovers' /\ (import' \in {"off", "done"} => pending' = <<>>)
  OBVIOUS
<1> USE DEF IInv
<1>1. share \in [Keys -> Row] /\ pending \in Seq(Keys)
  BY DEF TypeOK, Row
<1>2. ASSUME NEW i \in DOMAIN list, list[i].kind = "share" PROVE list[i].key \in Keys
  <2>1. list \in Seq(Line)
    <3>1. <<>> \in Seq(Line)
      OBVIOUS
    <3>2. QED
      BY <3>1, ShareGroupsAssumption DEF TypeOK
  <2>2. list[i] \in Line
    BY <2>1
  <2>3. QED
    BY <1>2, <2>2, LineKinds
<1>3. CASE StartImport
  <2>1. CASE import' = "running"
    <3>1. list' \in Seq(Line) /\ pending' = ParsedShares(list')
      BY <1>3, <2>1, ShareGroupsAssumption DEF StartImport
    <3>2. \A i \in DOMAIN list' : list'[i].kind = "share" => list'[i].key \in ToSet(pending')
      BY <3>1, AllSharesAreRead
    <3>3. QED
      BY <2>1, <3>2 DEF ImportCovers
  <2>2. CASE import' = "off" /\ pending' = <<>>
    BY <2>2 DEF ImportCovers
  <2>3. QED
    BY <1>3, <2>1, <2>2 DEF StartImport
<1>4. CASE UpsertShare
  <2>1. /\ import = "running" /\ pending # <<>> /\ Insert(Head(pending))
        /\ pending' = Tail(pending) /\ undone' = undone \ {Head(pending)}
        /\ UNCHANGED <<import, list>>
    BY <1>4 DEF UpsertShare
  <2>2. PICK k \in Keys : k = Head(pending)
    BY <1>1, <2>1
  <2>3. share'[k].status = "ACTIVE" /\ \A l \in Keys \ {k} : share'[l] = share[l]
    BY <2>1, <2>2, InsertedRow
  <2>4. ToSet(pending) \subseteq ToSet(pending') \cup {k}
    <3>1. ASSUME NEW i \in 1..Len(pending) PROVE pending[i] = k \/ pending[i] \in ToSet(pending')
      <4>1. CASE i = 1
        BY <1>1, <2>2, <4>1
      <4>2. CASE i # 1
        <5>1. i - 1 \in 1..Len(pending') /\ pending'[i - 1] = pending[i]
          BY <1>1, <2>1, <4>2
        <5>2. pending' \in Seq(Keys) /\ DOMAIN pending' = 1..Len(pending')
          BY <1>1, <2>1
        <5>3. QED
          BY <5>1, <5>2 DEF ToSet
      <4>3. QED
        BY <4>1, <4>2
    <3>2. QED
      BY <1>1, <3>1 DEF ToSet
  <2>5. ASSUME NEW i \in DOMAIN list, list[i].kind = "share", list[i].key \notin undone'
        PROVE  share'[list[i].key].status = "ACTIVE" \/ list[i].key \in ToSet(pending')
    <3>1. CASE list[i].key = k
      BY <2>3, <3>1
    <3>2. CASE list[i].key # k
      <4>1. list[i].key \in Keys /\ list[i].key \notin undone
        BY <1>2, <2>1, <2>2, <2>5, <3>2
      <4>2. share[list[i].key].status = "ACTIVE" \/ list[i].key \in ToSet(pending)
        BY <2>1, <2>5, <4>1 DEF ImportCovers
      <4>3. QED
        BY <2>3, <2>4, <3>2, <4>1, <4>2
    <3>3. QED
      BY <3>1, <3>2
  <2>6. QED
    BY <2>1, <2>5 DEF ImportCovers
<1>5. CASE ImportDone
  <2>1. /\ import = "running" /\ pending = <<>> /\ pending' = pending
        /\ UNCHANGED <<share, list, undone>>
    BY <1>5 DEF ImportDone, table
  <2>2. QED
    BY <2>1 DEF ImportCovers
<1>6. CASE ImportFails
  BY <1>6 DEF ImportFails, ImportCovers
<1>7. CASE ImportGroups
  <2>1. UNCHANGED <<import, list, pending, undone>>
    BY <1>7 DEF ImportGroups, job
  <2>2. \A k \in Keys : share'[k].status = share[k].status
    <3>1. CASE UNCHANGED <<table, record>>
      BY <3>1 DEF table
    <3>2. CASE ~ UNCHANGED <<table, record>>
      BY <1>7, <3>2, OverlayIsNew
    <3>3. QED
      BY <3>1, <3>2
  <2>3. QED
    BY <1>2, <2>1, <2>2 DEF ImportCovers
<1>8. CASE \E k \in Keys : UpdateShareMeta(k)
  <2>1. PICK k \in Keys : Insert(k) /\ UNCHANGED <<job, undone>>
    BY <1>8 DEF UpdateShareMeta
  <2>2. share'[k].status = "ACTIVE" /\ \A l \in Keys \ {k} : share'[l] = share[l]
    BY <2>1, InsertedRow
  <2>3. QED
    BY <1>2, <2>1, <2>2 DEF ImportCovers, job
<1>9. CASE \E code \in Codes : MarkShareDead(code) \/ DeleteShare(code)
  <2>1. PICK code \in Codes : MarkShareDead(code) \/ DeleteShare(code)
    BY <1>9
  <2>2. UNCHANGED job /\ undone' = undone \cup { k \in Keys : Code(k) = code }
    BY <2>1 DEF MarkShareDead, DeleteShare
  <2>3. \A k \in Keys : Code(k) # code => share'[k] = share[k]
    BY <2>1 DEF MarkShareDead, DeleteShare
  <2>4. QED
    BY <1>2, <2>2, <2>3 DEF ImportCovers, job
<1>10. CASE UNCHANGED vars
  BY <1>10 DEF vars, table, job, ImportCovers
<1>11. QED
  BY <1>3, <1>4, <1>5, <1>6, <1>7, <1>8, <1>9, <1>10 DEF Next

\* The inductive invariant holds in every reachable state.
THEOREM Inductive == Spec => []IInv
<1>1. IInv /\ [Next]_vars => IInv'
  BY TypeKept, OverlayKept, ImportKept DEF IInv
<1>2. QED
  BY InitIInv, <1>1, PTL DEF Spec

\* The tables keep their types, whatever lists they are filled from.
THEOREM TypeCorrect == Spec => []TypeOK
<1>1. IInv => TypeOK
  BY DEF IInv
<1>2. QED
  BY Inductive, <1>1, PTL

\* ApplyGroups, ParseGroups: the last overlay that could be read is in force,
\* whatever imports, crawls and deletions came before and after it.
THEOREM LastOverlayHolds == Spec => []OverlayInForce
<1>1. IInv => OverlayInForce
  BY DEF IInv
<1>2. QED
  BY Inductive, <1>1, PTL

\* import-shares is done when all shares of its list are there to be crawled.
THEOREM ImportsAreComplete == Spec => []ImportComplete
<1>1. IInv => ImportComplete
  BY DEF IInv, ImportCovers, ImportComplete, ToSet
<1>2. QED
  BY Inductive, <1>1, PTL
=============================================================================
