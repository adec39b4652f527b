--------------------------- MODULE ShareTitlesProofs ---------------------------
(***************************************************************************)
(* Theorems about ShareTitles, for all shares, titles and requests. What   *)
(* the planner returns is proved of any table; on the states, the          *)
(* invariant says what a plan may still rely on while nobody else writes.  *)
(***************************************************************************)
EXTENDS ShareTitles, FiniteSetTheorems, SequenceTheorems, WellFoundedInduction, TLAPS

-----------------------------------------------------------------------------
\* Numbers

\* Every set of numbers has a least one.
LEMMA NatMin ==
  ASSUME NEW S \in SUBSET Nat, S # {}
  PROVE  \E n \in S : \A m \in S : n <= m
<1> DEFINE R == { p \in Nat \X Nat : p[1] < p[2] }
<1>1. IsWellFoundedOn(R, Nat)
  BY NatLessThanWellFounded DEF OpToRel
<1>2. \A x, y \in Nat : x < y => <<x, y>> \in R
  OBVIOUS
<1> HIDE DEF R
<1>3. PICK n \in S : \A y \in S : ~ (<<y, n>> \in R)
  BY <1>1, WFMin
<1>4. ASSUME NEW m \in S PROVE n <= m
  <2>1. m \in Nat /\ n \in Nat
    OBVIOUS
  <2>2. ~ (<<m, n>> \in R)
    BY <1>3
  <2>3. ~ (m < n)
    BY <1>2, <2>1, <2>2
  <2>4. QED
    BY <2>1, <2>3
<1>5. QED
  BY <1>4

\* What strconv.Itoa writes, as far as n.
Digits(f, n) ==
  /\ f \in [0..n -> Seq(Nat)]
  /\ \A k \in 0..n : /\ k < 10 => f[k] = <<k>>
                     /\ ~(k < 10) => f[k] = Append(f[k \div 10], k % 10)

LEMMA Tenth == ASSUME NEW n \in Nat, ~(n < 10)
               PROVE  n \div 10 \in 0..(n - 1) /\ n % 10 \in Nat
OBVIOUS

LEMMA DigitsExist == \A n \in Nat : \E f : Digits(f, n)
<1> DEFINE S == { n \in Nat : \A f : ~Digits(f, n) }
<1> SUFFICES ASSUME S # {} PROVE FALSE
  OBVIOUS
<1>1. PICK n \in S : \A m \in S : n <= m
  BY NatMin
<1>2. CASE n = 0
  <2>1. Digits([k \in 0..0 |-> <<k>>], 0)
    BY DEF Digits
  <2>2. QED
    BY <1>2, <2>1
<1>3. CASE n # 0
  <2>1. n \in Nat /\ n - 1 \in Nat /\ n - 1 \notin S
    BY <1>1, <1>3
  <2>2. PICK f : Digits(f, n - 1)
    BY <2>1
  <2>3. PICK last \in Seq(Nat) : last = IF n < 10 THEN <<n>> ELSE Append(f[n \div 10], n % 10)
    <3>1. CASE n < 10
      <4>1. <<n>> \in Seq(Nat)
        BY <2>1
      <4>2. QED
        BY <3>1, <4>1
    <3>2. CASE ~ (n < 10)
      <4>1. n \div 10 \in 0..(n - 1) /\ n % 10 \in Nat
        BY <3>2, <2>1, Tenth
      <4>2. f[n \div 10] \in Seq(Nat)
        BY <4>1, <2>2 DEF Digits
      <4>3. Append(f[n \div 10], n % 10) \in Seq(Nat)
        BY <4>1, <4>2, AppendProperties
      <4>4. QED
        BY <3>2, <4>3
    <3>3. QED
      BY <3>1, <3>2
  <2>4. PICK g : g = [k \in 0..n |-> IF k = n THEN last ELSE f[k]]
    OBVIOUS
  <2>5. g \in [0..n -> Seq(Nat)]
    BY <2>1, <2>2, <2>4 DEF Digits
  <2>6. ASSUME NEW k \in 0..n
        PROVE  /\ k < 10 => g[k] = <<k>>
               /\ ~(k < 10) => g[k] = Append(g[k \div 10], k % 10)
    <3>1. ~(k < 10) => k \div 10 \in 0..(k - 1)
      BY <2>1, Tenth
    <3>2. ~(k < 10) => g[k \div 10] = f[k \div 10]
      BY <3>1, <2>1, <2>4
    <3>3. CASE k = n
      <4>1. g[n] = last
        BY <2>1, <2>4
      <4>2. QED
        BY <3>2, <3>3, <4>1, <2>3
    <3>4. CASE k # n
      <4>1. k \in 0..(n - 1) /\ g[k] = f[k]
        BY <3>4, <2>1, <2>4
      <4>2. QED
        BY <4>1, <3>2, <2>2 DEF Digits
    <3>5. QED
      BY <3>3, <3>4
  <2>7. Digits(g, n)
    BY <2>5, <2>6 DEF Digits
  <2>8. QED
    BY <2>7
<1>4. QED
  BY <1>2, <1>3

LEMMA DigitsAgree ==
  ASSUME NEW f, NEW g, NEW m \in Nat, NEW n \in Nat, Digits(f, m), Digits(g, n)
  PROVE  \A k \in Nat : k <= m /\ k <= n => f[k] = g[k]
<1> DEFINE S == { k \in Nat : k <= m /\ k <= n /\ f[k] # g[k] }
<1> SUFFICES ASSUME S # {} PROVE FALSE
  OBVIOUS
<1>1. PICK k \in S : \A l \in S : k <= l
  BY NatMin
<1>2. k \in 0..m /\ k \in 0..n
  OBVIOUS
<1>3. ~(k < 10) => k \div 10 \in 0..(k - 1)
  BY <1>2, Tenth
<1>4. ~(k < 10) => f[k \div 10] = g[k \div 10]
  BY <1>1, <1>2, <1>3
<1>5. f[k] = g[k]
  <2>1. CASE k < 10
    BY <1>2, <2>1 DEF Digits
  <2>2. CASE ~(k < 10)
    BY <1>2, <1>4, <2>2 DEF Digits
  <2>3. QED
    BY <2>1, <2>2
<1>6. QED
  BY <1>5

\* Itoa is defined for every number.
LEMMA ItoaIs ==
  /\ Itoa \in [Nat -> Seq(Nat)]
  /\ \A n \in Nat : Itoa[n] = IF n < 10 THEN <<n>> ELSE Append(Itoa[n \div 10], n % 10)
<1>1. PICK d : d = [n \in Nat |-> CHOOSE f : Digits(f, n)]
  OBVIOUS
<1>2. \A n \in Nat : Digits(d[n], n)
  BY <1>1, DigitsExist
<1>3. PICK g : g = [n \in Nat |-> d[n][n]]
  OBVIOUS
<1>4. g \in [Nat -> Seq(Nat)]
  <2>1. \A n \in Nat : d[n][n] \in Seq(Nat)
    BY <1>2 DEF Digits
  <2>2. QED
    BY <2>1, <1>3
<1>5. ASSUME NEW n \in Nat
      PROVE  g[n] = IF n < 10 THEN <<n>> ELSE Append(g[n \div 10], n % 10)
  <2>1. /\ n < 10 => d[n][n] = <<n>>
        /\ ~(n < 10) => d[n][n] = Append(d[n][n \div 10], n % 10)
    BY <1>2 DEF Digits
  <2>2. ASSUME ~(n < 10) PROVE d[n][n \div 10] = g[n \div 10]
    <3>1. PICK k \in Nat : k = n \div 10 /\ k <= n
      BY <2>2, Tenth
    <3>2. d[n][k] = d[k][k]
      BY <3>1, <1>2, DigitsAgree
    <3>3. QED
      BY <3>1, <3>2, <1>3
  <2>3. QED
    BY <2>1, <2>2, <1>3
<1>6. g = [n \in Nat |-> IF n < 10 THEN <<n>> ELSE Append(g[n \div 10], n % 10)]
  BY <1>3, <1>5
<1>7. Itoa = CHOOSE h : h = [n \in Nat |-> IF n < 10 THEN <<n>> ELSE Append(h[n \div 10], n % 10)]
  BY DEF Itoa
<1>8. Itoa = [n \in Nat |-> IF n < 10 THEN <<n>> ELSE Append(Itoa[n \div 10], n % 10)]
  BY <1>6, <1>7
<1>9. Itoa \in [Nat -> Seq(Nat)]
  <2> DEFINE S == { n \in Nat : Itoa[n] \notin Seq(Nat) }
  <2> SUFFICES ASSUME S # {} PROVE FALSE
    BY <1>8
  <2>1. PICK n \in S : \A m \in S : n <= m
    BY NatMin
  <2>2. /\ n < 10 => Itoa[n] = <<n>>
        /\ ~(n < 10) => Itoa[n] = Append(Itoa[n \div 10], n % 10)
    BY <1>8
  <2>3. ASSUME ~(n < 10) PROVE Itoa[n] \in Seq(Nat)
    <3>1. PICK k \in Nat : k = n \div 10 /\ k < n /\ n % 10 \in Nat
      BY <2>3, Tenth
    <3>2. Itoa[k] \in Seq(Nat)
      BY <2>1, <3>1
    <3>3. Append(Itoa[k], n % 10) \in Seq(Nat)
      BY <3>1, <3>2
    <3>4. QED
      BY <2>2, <2>3, <3>1, <3>3
  <2>4. CASE n < 10
    <3>1. <<n>> \in Seq(Nat)
      OBVIOUS
    <3>2. QED
      BY <2>2, <2>4, <3>1
  <2>5. QED
    BY <2>3, <2>4
<1>10. QED
  BY <1>8, <1>9


LEMMA ItoaOf ==
  ASSUME NEW n \in Nat
  PROVE  /\ n < 10 => Itoa[n] = <<n>>
         /\ ~(n < 10) => /\ n \div 10 \in Nat /\ n \div 10 < n /\ n % 10 \in Nat
                         /\ Itoa[n \div 10] \in Seq(Nat) /\ Itoa[n \div 10] # <<>>
                         /\ Itoa[n] = Append(Itoa[n \div 10], n % 10)
         /\ Itoa[n] \in Seq(Nat) /\ Itoa[n] # <<>>
<1>1. \A m \in Nat : Itoa[m] # <<>>
  <2> SUFFICES ASSUME NEW m \in Nat PROVE Itoa[m] # <<>>
    OBVIOUS
  <2>1. CASE m < 10
    BY <2>1, ItoaIs
  <2>2. CASE ~(m < 10)
    <3>1. PICK t \in Seq(Nat), x \in Nat : Itoa[m] = Append(t, x)
      <4>1. m \div 10 \in Nat /\ m % 10 \in Nat
        BY <2>2, Tenth
      <4>2. Itoa[m \div 10] \in Seq(Nat) /\ Itoa[m] = Append(Itoa[m \div 10], m % 10)
        BY <4>1, <2>2, ItoaIs
      <4>3. QED
        BY <4>1, <4>2
    <3>2. Append(t, x) # <<>>
      BY AppendProperties
    <3>3. QED
      BY <3>1, <3>2
  <2>3. QED
    BY <2>1, <2>2
<1>2. CASE n < 10
  BY <1>1, <1>2, ItoaIs
<1>3. CASE ~(n < 10)
  <2>1. PICK k \in Nat : k = n \div 10 /\ k < n /\ n % 10 \in Nat
    BY <1>3, Tenth
  <2>2. Itoa[k] \in Seq(Nat) /\ Itoa[k] # <<>> /\ Itoa[n] = Append(Itoa[k], n % 10)
    BY <2>1, <1>1, <1>3, ItoaIs
  <2>3. QED
    BY <1>1, <1>3, <2>1, <2>2, ItoaIs
<1>4. QED
  BY <1>2, <1>3

\* Two numbers are not written alike.
LEMMA ItoaInjective == \A n, m \in Nat : Itoa[n] = Itoa[m] => n = m
<1> DEFINE S == { n \in Nat : \E m \in Nat : m # n /\ Itoa[n] = Itoa[m] }
<1> SUFFICES ASSUME S # {} PROVE FALSE
  OBVIOUS
<1>1. PICK n \in S : \A m \in S : n <= m
  BY NatMin
<1>2. PICK m \in Nat : m # n /\ Itoa[n] = Itoa[m]
  OBVIOUS
<1>3. n \in Nat
  OBVIOUS
<1>4. ASSUME NEW j \in Nat, NEW k \in Nat, j < 10, ~(k < 10) PROVE Itoa[j] # Itoa[k]
  <2>1. PICK t \in Seq(Nat) : t = Itoa[k \div 10] /\ t # <<>> /\ Itoa[k] = Append(t, k % 10)
    BY <1>4, ItoaOf
  <2>2. Len(t) # 0 /\ Len(t) \in Nat
    BY <2>1, EmptySeq
  <2>3. Len(Itoa[k]) = Len(t) + 1
    BY <2>1, <1>4, ItoaOf, AppendProperties
  <2>4. Len(<<j>>) = 1 /\ Itoa[j] = <<j>>
    BY <1>4, ItoaOf
  <2>5. Len(Itoa[j]) # Len(Itoa[k])
    BY <2>2, <2>3, <2>4
  <2>6. QED
    BY <2>5
<1>5. CASE n < 10
  <2>1. m < 10
    BY <1>2, <1>3, <1>4, <1>5
  <2>2. Itoa[n] = <<n>> /\ Itoa[m] = <<m>>
    BY <1>3, <1>5, <2>1, ItoaOf
  <2>3. <<n>>[1] = n /\ <<m>>[1] = m
    OBVIOUS
  <2>4. QED
    BY <1>2, <2>2, <2>3
<1>6. CASE ~(n < 10)
  <2>1. ~(m < 10)
    BY <1>2, <1>3, <1>4, <1>6
  <2>2. PICK a \in Nat : a = n \div 10 /\ a < n
    BY <1>3, <1>6, ItoaOf
  <2>3. PICK b \in Nat : b = m \div 10
    BY <2>1, ItoaOf
  <2>4. PICK x \in Nat : x = n % 10
    BY <1>3, <1>6, ItoaOf
  <2>5. PICK y \in Nat : y = m % 10
    BY <2>1, ItoaOf
  <2>6. /\ Itoa[a] \in Seq(Nat) /\ Itoa[n] = Append(Itoa[a], x)
        /\ Itoa[b] \in Seq(Nat) /\ Itoa[m] = Append(Itoa[b], y)
    BY <1>3, <1>6, <2>1, <2>2, <2>3, <2>4, <2>5, ItoaOf
  <2>7. Itoa[a] = Itoa[b] /\ x = y
    <3>1. Append(Itoa[a], x) = Append(Itoa[b], y)
      BY <2>6, <1>2
    <3>2. PICK u \in Seq(Nat), v \in Seq(Nat) : u = Itoa[a] /\ v = Itoa[b]
      BY <2>6
    <3>3. Append(u, x) = Append(v, y)
      BY <3>1, <3>2
    <3>4. u = v /\ x = y
      BY <3>3, AppendInjective
    <3>5. QED
      BY <3>2, <3>4
  <2>8. a \notin S
    BY <1>1, <1>3, <2>2
  <2>9. a = b
    BY <2>7, <2>8
  <2>10. n = 10 * a + x /\ m = 10 * b + y
    BY <1>3, <2>2, <2>3, <2>4, <2>5
  <2>11. QED
    BY <1>2, <2>7, <2>9, <2>10
<1>7. QED
  BY <1>5, <1>6

-----------------------------------------------------------------------------
\* Titles

\* Numbers tell titles of one base apart.
LEMMA WithNumber ==
  ASSUME NEW base \in Titles, NEW n \in Nat
  PROVE  /\ With(base, n) \in Titles /\ With(base, n).text # <<>>
         /\ With(base, n).padded = base.padded
         /\ \A m \in Nat : With(base, n) = With(base, m) => n = m
<1>1. base.text \in Seq(Nat) /\ base.padded \in BOOLEAN
  BY DEF Titles
<1>2. ASSUME NEW k \in Nat
      PROVE  /\ With(base, k) = [text |-> base.text \o Itoa[k], padded |-> base.padded]
             /\ With(base, k).text = base.text \o Itoa[k]
             /\ With(base, k).padded = base.padded
  <2>1. PICK x : x = base.text \o Itoa[k]
    OBVIOUS
  <2>2. With(base, k) = [base EXCEPT !.text = x]
    BY <2>1 DEF With
  <2>3. base = [text |-> base.text, padded |-> base.padded]
    BY DEF Titles
  <2>4. [base EXCEPT !.text = x] = [text |-> x, padded |-> base.padded]
    BY <2>3
  <2>5. QED
    BY <2>1, <2>2, <2>4
<1>3. PICK s \in Seq(Nat) : s = base.text
  BY <1>1
<1>4. ASSUME NEW k \in Nat
      PROVE  /\ s \o Itoa[k] \in Seq(Nat)
             /\ Len(s \o Itoa[k]) = Len(s) + Len(Itoa[k])
             /\ \A i \in 1..Len(Itoa[k]) : (s \o Itoa[k])[Len(s) + i] = Itoa[k][i]
             /\ Itoa[k] \in Seq(Nat) /\ Len(Itoa[k]) \in Nat \ {0}
  <2>1. PICK d \in Seq(Nat) : d = Itoa[k] /\ d # <<>>
    BY ItoaOf
  <2>2. Len(d) \in Nat /\ Len(d) # 0 /\ Len(s) \in Nat
    BY <2>1, EmptySeq
  <2>3. /\ s \o d \in Seq(Nat) /\ Len(s \o d) = Len(s) + Len(d)
        /\ \A i \in 1..Len(d) : (s \o d)[Len(s) + i] = d[i]
    OBVIOUS
  <2>4. QED
    BY <2>1, <2>2, <2>3
<1>5. s \o Itoa[n] # <<>>
  BY <1>4, EmptySeq
<1>6. ASSUME NEW m \in Nat, s \o Itoa[n] = s \o Itoa[m] PROVE n = m
  <2>1. Len(Itoa[n]) = Len(Itoa[m])
    BY <1>4, <1>6
  <2>2. \A i \in 1..Len(Itoa[n]) : Itoa[n][i] = Itoa[m][i]
    BY <1>4, <1>6, <2>1
  <2>3. Itoa[n] = Itoa[m]
    BY <1>4, <2>1, <2>2, SeqEqual
  <2>4. QED
    BY <2>3, ItoaInjective
<1>7. \A k \in Nat : With(base, k).text = s \o Itoa[k] /\ With(base, k).padded = base.padded
  BY <1>2, <1>3
<1>8. With(base, n) \in Titles
  <2>1. PICK x \in Seq(Nat) : x = base.text \o Itoa[n]
    BY <1>3, <1>4
  <2>2. With(base, n) = [text |-> x, padded |-> base.padded]
    BY <1>2, <2>1
  <2>3. QED
    BY <1>1, <2>2 DEF Titles
<1>9. ASSUME NEW m \in Nat, With(base, n) = With(base, m) PROVE n = m
  BY <1>6, <1>7, <1>9
<1>10. QED
  BY <1>5, <1>7, <1>8, <1>9


\* Of one number more than there are titles, one is free.
LEMMA CandidateIsFree ==
  ASSUME NEW base \in Titles, NEW used, IsFiniteSet(used)
  PROVE  /\ Candidate(base, used) \in Titles /\ Candidate(base, used).text # <<>>
         /\ Candidate(base, used).padded = base.padded
         /\ Candidate(base, used) \notin used
<1>1. PICK c \in Nat : c = Cardinality(used)
  BY FS_CardinalityType
<1> DEFINE Free == { n \in 1..(c + 1) : With(base, n) \notin used }
<1>2. Free # {}
  <2> SUFFICES ASSUME Free = {} PROVE FALSE
    OBVIOUS
  <2>1. PICK f : f = [n \in 1..(c + 1) |-> With(base, n)]
    OBVIOUS
  <2>2. f \in [1..(c + 1) -> used]
    BY <2>1
  <2>3. IsFiniteSet(1..(c + 1)) /\ Cardinality(1..(c + 1)) = c + 1
    BY FS_Interval
  <2>4. Cardinality(used) < Cardinality(1..(c + 1))
    BY <1>1, <2>3
  <2>5. \E x, y \in 1..(c + 1) : x # y /\ f[x] = f[y]
    BY <2>2, <2>3, <2>4, FS_PigeonHole
  <2>6. PICK x \in 1..(c + 1), y \in 1..(c + 1) : x # y /\ f[x] = f[y]
    BY <2>5
  <2>7. x \in Nat /\ y \in Nat /\ With(base, x) = With(base, y)
    BY <2>1, <2>6
  <2>8. QED
    BY <2>6, <2>7, WithNumber
<1>3. Free \in SUBSET Nat
  OBVIOUS
<1>4. \E n \in Free : \A m \in Free : n <= m
  <2> HIDE DEF Free
  <2>1. QED
    BY <1>2, <1>3, NatMin
<1>5. PICK n \in Free : Candidate(base, used) = With(base, n)
  <2>1. Candidate(base, used) = With(base, CHOOSE n \in Free : \A m \in Free : n <= m)
    BY <1>1 DEF Candidate
  <2> HIDE DEF Free
  <2>2. QED
    BY <1>4, <2>1
<1>6. QED
  BY <1>5, WithNumber


\* What DedupeShareTitles reads.
Snapshot(snap) ==
  /\ IsFiniteSet(DOMAIN snap) /\ DOMAIN snap \subseteq Nat
  /\ \A i \in DOMAIN snap : snap[i].code \in Codes /\ snap[i].title \in Titles
Trimmed(snap, i) == GoTrim(snap[i].title)

LEMMA TrimOfTitle ==
  ASSUME NEW t \in Titles
  PROVE  /\ GoTrim(t) \in Titles /\ GoTrim(t).text = t.text /\ ~GoTrim(t).padded
         /\ ~t.padded => GoTrim(t) = t
         /\ GoTrim(t) = Blank <=> t.text = <<>>
<1>1. t = [text |-> t.text, padded |-> t.padded] /\ t.text \in Seq(Nat) /\ t.padded \in BOOLEAN
  BY DEF Titles
<1>2. GoTrim(t) = [text |-> t.text, padded |-> FALSE]
  <2>1. PICK x, p, no : t = [text |-> x, padded |-> p] /\ no = FALSE
    BY <1>1
  <2>2. [t EXCEPT !.padded = no] = [text |-> x, padded |-> no]
    BY <2>1
  <2>3. t.text = x
    BY <2>1
  <2>4. QED
    BY <2>1, <2>2, <2>3, Zenon DEF GoTrim
<1>3. GoTrim(t) \in Titles
  BY <1>1, <1>2 DEF Titles
<1>4. ASSUME ~t.padded PROVE GoTrim(t) = t
  <2>1. t.padded = FALSE
    BY <1>1, <1>4
  <2>2. QED
    BY <1>1, <1>2, <2>1, Zenon
<1>5. GoTrim(t) = Blank <=> t.text = <<>>
  <2>1. ASSUME t.text = <<>> PROVE GoTrim(t) = Blank
    BY <1>2, <2>1, Zenon DEF Blank
  <2>2. ASSUME GoTrim(t) = Blank PROVE t.text = <<>>
    <3>1. GoTrim(t).text = t.text
      BY <1>2
    <3>2. Blank.text = <<>>
      BY DEF Blank
    <3>3. QED
      BY <2>2, <3>1, <3>2
  <2>3. QED
    BY <2>1, <2>2
<1>6. QED
  BY <1>2, <1>3, <1>4, <1>5

LEMMA FirstHolder ==
  ASSUME NEW snap, Snapshot(snap), NEW i \in DOMAIN snap
  PROVE  /\ First(snap, i) \in DOMAIN snap /\ First(snap, i) \in Nat
         /\ Trimmed(snap, First(snap, i)) = Trimmed(snap, i)
         /\ \A j \in DOMAIN snap : Trimmed(snap, j) = Trimmed(snap, i) =>
              First(snap, i) <= j /\ First(snap, j) = First(snap, i)
<1> DEFINE H == Holders(snap, Trimmed(snap, i))
<1>1. i \in H /\ H \subseteq DOMAIN snap /\ H \in SUBSET Nat
  BY DEF Holders, Trimmed, Snapshot
<1>2. \A j \in H : GoTrim(snap[j].title) = Trimmed(snap, i)
  BY DEF Holders
<1>3. \A j \in DOMAIN snap : Trimmed(snap, j) = Trimmed(snap, i) => j \in H
  BY DEF Holders, Trimmed
<1>4. First(snap, i) = CHOOSE j \in H : \A k \in H : j <= k
  BY DEF First, Trimmed
<1>5. \A j \in H : First(snap, j) = First(snap, i)
  BY <1>2, <1>4 DEF First
<1> HIDE DEF H
<1>6. \E j \in H : \A k \in H : j <= k
  BY <1>1, NatMin
<1>7. First(snap, i) \in H /\ \A k \in H : First(snap, i) <= k
  BY <1>4, <1>6
<1>8. QED
  BY <1>1, <1>2, <1>3, <1>5, <1>7 DEF Trimmed

\* Losers are finitely many, and Before orders them.
LEMMA LosersAreOrdered ==
  ASSUME NEW snap, Snapshot(snap)
  PROVE  /\ IsFiniteSet(Losers(snap)) /\ Losers(snap) \subseteq DOMAIN snap
         /\ \A i, j \in Losers(snap) :
              /\ i # j => Before(snap, i, j) \/ Before(snap, j, i)
              /\ Before(snap, i, j) => ~Before(snap, j, i)
         /\ \A i, j, k \in Losers(snap) :
              Before(snap, i, j) /\ Before(snap, j, k) => Before(snap, i, k)
<1>1. Losers(snap) \subseteq DOMAIN snap
  BY DEF Losers
<1>2. IsFiniteSet(Losers(snap))
  BY <1>1, FS_Subset DEF Snapshot
<1>3. \A i \in Losers(snap) : i \in Nat /\ First(snap, i) \in Nat
  BY <1>1, FirstHolder DEF Snapshot
<1>4. ASSUME NEW i \in Losers(snap), NEW j \in Losers(snap)
      PROVE  /\ i # j => Before(snap, i, j) \/ Before(snap, j, i)
             /\ Before(snap, i, j) => ~Before(snap, j, i)
  BY <1>3 DEF Before
<1>5. ASSUME NEW i \in Losers(snap), NEW j \in Losers(snap), NEW k \in Losers(snap),
             Before(snap, i, j), Before(snap, j, k)
      PROVE  Before(snap, i, k)
  BY <1>3, <1>5 DEF Before
<1>6. QED
  BY <1>1, <1>2, <1>4, <1>5


\* So they can be listed in that order, each once.
LEMMA LosersInOrder ==
  ASSUME NEW snap, Snapshot(snap)
  PROVE  \E k \in Nat :
           /\ k = Cardinality(Losers(snap))
           /\ InOrder(snap) \in [1..k -> Losers(snap)]
           /\ \A m, n \in 1..k : m < n => InOrder(snap)[m] # InOrder(snap)[n]
           /\ \A i \in Losers(snap) : \E n \in 1..k : InOrder(snap)[n] = i
<1>1. PICK L : L = Losers(snap)
  OBVIOUS
<1>2. IsFiniteSet(L)
  BY <1>1, LosersAreOrdered
<1>3. PICK k \in Nat : k = Cardinality(L)
  BY <1>2, FS_CardinalityType
<1> DEFINE Lower(i) == { j \in L : Before(snap, j, i) }
<1>4. ASSUME NEW i \in L
      PROVE  IsFiniteSet(Lower(i)) /\ Cardinality(Lower(i)) \in 0..(k - 1)
  <2>1. Lower(i) \subseteq L \ {i}
    BY <1>1, LosersAreOrdered
  <2>2. IsFiniteSet(L \ {i}) /\ Cardinality(L \ {i}) = k - 1
    BY <1>2, <1>3, FS_RemoveElement
  <2> HIDE DEF Lower
  <2>3. IsFiniteSet(Lower(i)) /\ Cardinality(Lower(i)) <= k - 1
    BY <2>1, <2>2, FS_Subset
  <2>4. Cardinality(Lower(i)) \in Nat
    BY <2>3, FS_CardinalityType
  <2>5. QED
    BY <2>3, <2>4
<1>5. ASSUME NEW i \in L, NEW j \in L, Before(snap, i, j)
      PROVE  Cardinality(Lower(i)) < Cardinality(Lower(j))
  <2>1. Lower(i) \subseteq Lower(j) \ {i}
    BY <1>1, <1>5, LosersAreOrdered
  <2>2. i \in Lower(j)
    BY <1>5
  <2> HIDE DEF Lower
  <2>3. IsFiniteSet(Lower(j) \ {i}) /\ Cardinality(Lower(j) \ {i}) = Cardinality(Lower(j)) - 1
    BY <2>2, <1>4, FS_RemoveElement
  <2>4. Cardinality(Lower(i)) <= Cardinality(Lower(j)) - 1
    BY <2>1, <2>3, FS_Subset
  <2>5. QED
    BY <2>4, <1>4
<1>6. PICK rank : rank = [i \in L |-> Cardinality(Lower(i)) + 1]
  OBVIOUS
<1> HIDE DEF Lower
<1>7. rank \in [L -> 1..k]
  <2>1. \A i \in L : Cardinality(Lower(i)) + 1 \in 1..k
    BY <1>4
  <2>2. QED
    BY <1>6, <2>1
<1>8. \A i, j \in L : Before(snap, i, j) => rank[i] < rank[j]
  BY <1>4, <1>5, <1>6
<1>9. \A i, j \in L : i # j => rank[i] # rank[j]
  <2>1. \A i, j \in L : i # j => Before(snap, i, j) \/ Before(snap, j, i)
    BY <1>1, LosersAreOrdered
  <2>2. \A i \in L : rank[i] \in Nat
    BY <1>7
  <2>3. QED
    BY <2>1, <2>2, <1>8
<1>10. IsFiniteSet(1..k) /\ Cardinality(1..k) = k
  BY FS_Interval
<1>11. rank \in Injection(L, 1..k)
  BY <1>7, <1>9 DEF Injection, IsInjective
<1>12. rank \in Surjection(L, 1..k)
  BY <1>3, <1>10, <1>11, FS_Injection
<1>13. \A n \in 1..k : \E i \in L : rank[i] = n
  BY <1>12 DEF Surjection
<1>14. PICK s : s = [n \in 1..k |-> CHOOSE i \in L : rank[i] = n]
  OBVIOUS
<1>15. s \in [1..k -> L] /\ \A n \in 1..k : rank[s[n]] = n
  BY <1>13, <1>14
<1>16. \A m, n \in DOMAIN s : m < n => Before(snap, s[m], s[n])
  <2> SUFFICES ASSUME NEW m \in 1..k, NEW n \in 1..k, m < n
               PROVE  Before(snap, s[m], s[n])
    BY <1>15
  <2>1. s[m] \in L /\ s[n] \in L /\ rank[s[m]] = m /\ rank[s[n]] = n
    BY <1>15
  <2>2. ~Before(snap, s[n], s[m]) /\ s[m] # s[n]
    BY <2>1, <1>8
  <2>3. QED
    BY <2>1, <2>2, <1>1, LosersAreOrdered
<1>17. PICK o : o = InOrder(snap)
  OBVIOUS
<1>18. /\ o \in [1..k -> L]
       /\ \A m, n \in DOMAIN o : m < n => Before(snap, o[m], o[n])
  BY <1>1, <1>3, <1>15, <1>16, <1>17 DEF InOrder
<1>19. ASSUME NEW m \in 1..k, NEW n \in 1..k, m < n PROVE o[m] # o[n]
  <2>1. o[m] \in L /\ o[n] \in L /\ Before(snap, o[m], o[n])
    BY <1>18, <1>19
  <2>2. ~Before(snap, o[n], o[m])
    BY <2>1, <1>1, LosersAreOrdered
  <2>3. QED
    BY <2>1, <2>2
<1>20. o \in Injection(1..k, L)
  <2>1. \A m, n \in 1..k : m # n => o[m] # o[n]
    BY <1>19
  <2>2. QED
    BY <2>1, <1>18 DEF Injection, IsInjective
<1>21. o \in Surjection(1..k, L)
  BY <1>2, <1>3, <1>10, <1>20, FS_Injection
<1>22. \A i \in L : \E n \in 1..k : o[n] = i
  BY <1>21 DEF Surjection
<1>23. QED
  BY <1>1, <1>3, <1>17, <1>18, <1>19, <1>22


-----------------------------------------------------------------------------
\* The plan

LEMMA ImageIsFinite ==
  ASSUME NEW S, IsFiniteSet(S), NEW f
  PROVE  IsFiniteSet({ f[x] : x \in S })
<1>1. PICK g : g = [x \in S |-> f[x]]
  OBVIOUS
<1>2. g \in Surjection(S, { f[x] : x \in S })
  BY <1>1 DEF Surjection
<1>3. QED
  BY <1>2, FS_Surjection

LEMMA UsedIsFinite ==
  ASSUME NEW snap, Snapshot(snap)
  PROVE  IsFiniteSet(Used(snap)) /\ \A i \in DOMAIN snap : Trimmed(snap, i) \in Used(snap)
<1>1. PICK f : f = [i \in DOMAIN snap |-> Trimmed(snap, i)]
  OBVIOUS
<1>2. Used(snap) = { f[i] : i \in DOMAIN snap }
  BY <1>1 DEF Used, Trimmed
<1>3. IsFiniteSet({ f[i] : i \in DOMAIN snap })
  BY ImageIsFinite DEF Snapshot
<1>4. QED
  BY <1>2, <1>3 DEF Used, Trimmed

\* The first n titles that planShareRenames gives out, to the shares in s.
Given(snap, s, f, n) ==
  /\ f \in [1..n -> Titles]
  /\ \A m \in 1..n :
       f[m] = Candidate(Trimmed(snap, s[m]), Used(snap) \cup { f[l] : l \in 1..(m - 1) })

\* The next title, whatever was given before.
LEMMA NextTitle ==
  ASSUME NEW snap, Snapshot(snap), NEW i \in DOMAIN snap, NEW f, NEW n \in Nat, NEW to,
         to = Candidate(Trimmed(snap, i), Used(snap) \cup { f[l] : l \in 1..n })
  PROVE  /\ to \in Titles /\ to.text # <<>> /\ ~to.padded
         /\ to \notin Used(snap) /\ \A l \in 1..n : to # f[l]
<1>1. PICK used : used = Used(snap) \cup { f[l] : l \in 1..n }
  OBVIOUS
<1>2. IsFiniteSet(used)
  <2>1. IsFiniteSet(1..n)
    BY FS_Interval
  <2>2. IsFiniteSet({ f[l] : l \in 1..n })
    BY <2>1, ImageIsFinite
  <2>3. QED
    BY <1>1, <2>2, UsedIsFinite, FS_Union
<1>3. Trimmed(snap, i) \in Titles /\ ~Trimmed(snap, i).padded
  BY TrimOfTitle DEF Snapshot, Trimmed
<1>4. /\ to \in Titles /\ to.text # <<>> /\ to.padded = Trimmed(snap, i).padded
      /\ to \notin used
  BY <1>1, <1>2, <1>3, CandidateIsFree
<1>5. QED
  BY <1>1, <1>3, <1>4

LEMMA TitlesAreGiven ==
  ASSUME NEW snap, Snapshot(snap), NEW k \in Nat, NEW s \in [1..k -> Losers(snap)]
  PROVE  \E f : Given(snap, s, f, k)
<1> DEFINE S == { n \in Nat : n <= k /\ \A f : ~Given(snap, s, f, n) }
<1> SUFFICES ASSUME S # {} PROVE FALSE
  <2>1. k \notin S => \E f : Given(snap, s, f, k)
    OBVIOUS
  <2> HIDE DEF S
  <2>2. QED
    BY <2>1
<1>1. PICK n \in S : \A m \in S : n <= m
  BY NatMin
<1>2. CASE n = 0
  <2>1. PICK f : f = [m \in 1..0 |-> Blank]
    OBVIOUS
  <2>2. Given(snap, s, f, 0)
    BY <2>1 DEF Given
  <2>3. QED
    BY <1>2, <2>2
<1>3. CASE n # 0
  <2>1. n \in Nat /\ n - 1 \in Nat /\ n - 1 \notin S /\ n <= k
    BY <1>1, <1>3
  <2>2. PICK f : Given(snap, s, f, n - 1)
    BY <2>1
  <2>3. PICK to : to = Candidate(Trimmed(snap, s[n]), Used(snap) \cup { f[l] : l \in 1..(n - 1) })
    OBVIOUS
  <2>4. to \in Titles
    <3>1. s[n] \in Losers(snap)
      BY <2>1, <1>3
    <3>2. s[n] \in DOMAIN snap
      BY <3>1, LosersAreOrdered
    <3>3. QED
      BY <2>1, <2>3, <3>2, NextTitle
  <2>5. PICK g : g = [m \in 1..n |-> IF m = n THEN to ELSE f[m]]
    OBVIOUS
  <2>6. g \in [1..n -> Titles]
    <3>1. \A m \in 1..n : m # n => m \in 1..(n - 1)
      BY <2>1
    <3>2. QED
      BY <2>2, <2>4, <2>5, <3>1 DEF Given
  <2>7. ASSUME NEW m \in 1..n
        PROVE  g[m] = Candidate(Trimmed(snap, s[m]), Used(snap) \cup { g[l] : l \in 1..(m - 1) })
    <3>1. \A l \in 1..(m - 1) : l \in 1..n /\ l # n
      BY <2>1
    <3>2. { g[l] : l \in 1..(m - 1) } = { f[l] : l \in 1..(m - 1) }
      BY <2>5, <3>1
    <3>3. CASE m = n
      BY <2>3, <2>5, <3>2, <3>3
    <3>4. CASE m # n
      <4>1. m \in 1..(n - 1) /\ g[m] = f[m]
        BY <2>1, <2>5, <3>4
      <4>2. QED
        BY <2>2, <3>2, <4>1 DEF Given
    <3>5. QED
      BY <3>3, <3>4
  <2>8. Given(snap, s, g, n)
    BY <2>6, <2>7 DEF Given
  <2>9. QED
    BY <2>8
<1>4. QED
  BY <1>2, <1>3

\* The planner's result: which shares, in which order, and their titles.
LEMMA PlanIs ==
  ASSUME NEW snap, Snapshot(snap)
  PROVE  \E k \in Nat : \E f :
           /\ k = Cardinality(Losers(snap))
           /\ Given(snap, InOrder(snap), f, k)
           /\ PlanShareRenames(snap) =
                [n \in 1..k |-> [code |-> snap[InOrder(snap)[n]].code, to |-> f[n]]]
<1>1. PICK k \in Nat : /\ k = Cardinality(Losers(snap))
                       /\ InOrder(snap) \in [1..k -> Losers(snap)]
  BY LosersInOrder
<1>2. PICK s : s = InOrder(snap)
  OBVIOUS
<1>3. DOMAIN s = 1..k
  BY <1>1, <1>2
<1> DEFINE Body(g) ==
      [n \in DOMAIN s |-> Candidate(GoTrim(snap[s[n]].title), Used(snap) \cup { g[m] : m \in 1..(n - 1) })]
<1>4. PICK f0 : Given(snap, s, f0, k)
  BY <1>1, <1>2, TitlesAreGiven
<1>5. f0 = Body(f0)
  BY <1>3, <1>4 DEF Given, Trimmed
<1>6. PICK f : f = CHOOSE g : g = Body(g)
  OBVIOUS
<1>7. f = Body(f)
  <2> HIDE DEF Body
  <2>1. QED
    BY <1>5, <1>6, Zenon
<1>8. PlanShareRenames(snap) = [n \in DOMAIN s |-> [code |-> snap[s[n]].code, to |-> f[n]]]
  BY <1>2, <1>6, Zenon DEF PlanShareRenames
<1>9. Given(snap, s, f, k)
  <2>1. \A m \in 1..k :
          f[m] = Candidate(Trimmed(snap, s[m]), Used(snap) \cup { f[l] : l \in 1..(m - 1) })
    BY <1>3, <1>7 DEF Trimmed
  <2>2. ASSUME NEW m \in 1..k PROVE f[m] \in Titles
    <3>1. s[m] \in DOMAIN snap
      BY <1>1, <1>2, LosersAreOrdered
    <3>2. m - 1 \in Nat
      OBVIOUS
    <3>3. QED
      BY <2>1, <3>1, <3>2, NextTitle
  <2>3. f \in [1..k -> Titles]
    BY <1>3, <1>7, <2>2
  <2>4. QED
    BY <2>1, <2>3 DEF Given
<1>10. QED
  BY <1>1, <1>2, <1>3, <1>8, <1>9


Renames == [code : Codes, to : Titles]

\* What a plan p relies on: it gives each of its titles once, none of them is
\* held by a share, and the shares that it leaves alone have different titles.
Fits(p, snap) ==
  /\ \A n \in DOMAIN p :
       /\ p[n].to.text # <<>> /\ ~p[n].to.padded
       /\ \A i \in DOMAIN snap : Trimmed(snap, i) # p[n].to
       /\ \A m \in DOMAIN p : m # n => p[m].to # p[n].to
  /\ \A i, j \in DOMAIN snap :
       /\ i # j /\ Trimmed(snap, i) = Trimmed(snap, j)
       /\ \A n \in DOMAIN p : p[n].code # snap[i].code /\ p[n].code # snap[j].code
       => Trimmed(snap, i) = Blank

\* A new plan is a sequence of renames that fits.
LEMMA NewPlanFits ==
  ASSUME NEW snap, Snapshot(snap)
  PROVE  PlanShareRenames(snap) \in Seq(Renames) /\ Fits(PlanShareRenames(snap), snap)
<1> DEFINE P(k, f) ==
        /\ k = Cardinality(Losers(snap))
        /\ Given(snap, InOrder(snap), f, k)
        /\ PlanShareRenames(snap) =
             [n \in 1..k |-> [code |-> snap[InOrder(snap)[n]].code, to |-> f[n]]]
<1>0. PICK k \in Nat : \E f : P(k, f)
  BY PlanIs
<1>1. PICK f : P(k, f)
  BY <1>0
<1>2. PICK s : s = InOrder(snap)
  OBVIOUS
<1>3. /\ s \in [1..k -> Losers(snap)]
      /\ \A i \in Losers(snap) : \E n \in 1..k : s[n] = i
  BY <1>1, <1>2, LosersInOrder
<1>4. PICK p : p = PlanShareRenames(snap)
  OBVIOUS
<1>5. DOMAIN p = 1..k
  BY <1>1, <1>4
<1>6. ASSUME NEW n \in 1..k
      PROVE  /\ s[n] \in DOMAIN snap
             /\ p[n] = [code |-> snap[s[n]].code, to |-> f[n]]
             /\ p[n].code = snap[s[n]].code /\ p[n].to = f[n]
  <2>1. p[n] = [code |-> snap[s[n]].code, to |-> f[n]]
    BY <1>1, <1>2, <1>4
  <2>2. QED
    BY <1>3, <2>1, LosersAreOrdered
<1>7. ASSUME NEW n \in 1..k
      PROVE  /\ f[n] \in Titles /\ f[n].text # <<>> /\ ~f[n].padded /\ f[n] \notin Used(snap)
             /\ \A l \in 1..(n - 1) : f[n] # f[l]
  <2>1. f[n] = Candidate(Trimmed(snap, s[n]), Used(snap) \cup { f[l] : l \in 1..(n - 1) })
    BY <1>1, <1>2 DEF Given
  <2>2. s[n] \in DOMAIN snap
    BY <1>6
  <2>3. n - 1 \in Nat
    OBVIOUS
  <2>4. QED
    BY <2>1, <2>2, <2>3, NextTitle
<1>8. ASSUME NEW n \in 1..k PROVE p[n] \in Renames
  <2>1. PICK code \in Codes, to \in Titles : code = snap[s[n]].code /\ to = f[n]
    BY <1>6, <1>7 DEF Snapshot
  <2>2. p[n] = [code |-> code, to |-> to]
    BY <1>6, <2>1
  <2>3. QED
    BY <2>2 DEF Renames
<1>9. p \in Seq(Renames)
  <2>1. p = [n \in 1..k |-> p[n]]
    BY <1>1, <1>4
  <2>2. p \in [1..k -> Renames]
    BY <1>8, <2>1
  <2>3. QED
    BY <2>2, SeqDef
<1>10. ASSUME NEW m \in 1..k, NEW n \in 1..k, m # n PROVE f[m] # f[n]
  <2>1. m \in 1..(n - 1) \/ n \in 1..(m - 1)
    BY <1>10
  <2>2. QED
    BY <2>1, <1>7
<1>11. ASSUME NEW i \in DOMAIN snap, NEW j \in DOMAIN snap, i # j,
              Trimmed(snap, i) = Trimmed(snap, j), Trimmed(snap, i) # Blank
       PROVE  \E n \in 1..k : p[n].code = snap[i].code \/ p[n].code = snap[j].code
  <2>1. First(snap, i) = First(snap, j)
    BY <1>11, FirstHolder
  <2>2. PICK l \in {i, j} : l \in Losers(snap)
    BY <1>11, <2>1 DEF Losers, Trimmed
  <2>3. PICK n \in 1..k : s[n] = l
    BY <1>3, <2>2
  <2>4. QED
    BY <1>6, <2>2, <2>3
<1>12. \A i \in DOMAIN snap : Trimmed(snap, i) \in Used(snap)
  BY UsedIsFinite
<1>13. Fits(p, snap)
  BY <1>5, <1>6, <1>7, <1>10, <1>11, <1>12 DEF Fits
<1>14. QED
  BY <1>4, <1>9, <1>13

\* Where the empty plan fits, there is nothing to rename.
LEMMA NothingToRename ==
  ASSUME NEW snap, Snapshot(snap), Fits(<<>>, snap)
  PROVE  PlanShareRenames(snap) = <<>>
<1>1. ASSUME NEW i \in Losers(snap) PROVE FALSE
  <2>1. /\ i \in DOMAIN snap /\ Trimmed(snap, i) # Blank
        /\ First(snap, i) # i
    BY DEF Losers, Trimmed
  <2>2. /\ First(snap, i) \in DOMAIN snap
        /\ Trimmed(snap, First(snap, i)) = Trimmed(snap, i)
    BY <2>1, FirstHolder
  <2>3. QED
    BY <2>1, <2>2 DEF Fits
<1>2. Cardinality(Losers(snap)) = 0
  BY <1>1, FS_EmptySet
<1>3. PICK f : PlanShareRenames(snap) =
                 [n \in 1..0 |-> [code |-> snap[InOrder(snap)[n]].code, to |-> f[n]]]
  BY <1>2, PlanIs
<1>4. QED
  BY <1>3

\* One rename makes the rest of the plan fit, if it meets one row.
LEMMA OneRenameLess ==
  ASSUME NEW snap, Snapshot(snap), NEW p \in Seq(Renames), p # <<>>, Fits(p, snap),
         \A i, j \in DOMAIN snap : snap[i].code = snap[j].code => i = j,
         NEW after, DOMAIN after = DOMAIN snap,
         \A i \in DOMAIN snap :
           /\ after[i].code = snap[i].code
           /\ after[i].title = IF snap[i].code = Head(p).code THEN Head(p).to ELSE snap[i].title
  PROVE  Fits(Tail(p), after)
<1>1. PICK h \in Renames : h = p[1] /\ h = Head(p)
  OBVIOUS
<1>2. PICK q \in Seq(Renames) : q = Tail(p)
  BY HeadTailProperties
<1>3. \A n \in DOMAIN q : n + 1 \in DOMAIN p /\ n + 1 # 1 /\ q[n] = p[n + 1]
  BY <1>2
<1>4. \A n \in DOMAIN p : n # 1 => \E m \in DOMAIN q : q[m] = p[n]
  <2> SUFFICES ASSUME NEW n \in DOMAIN p, n # 1 PROVE \E m \in DOMAIN q : q[m] = p[n]
    OBVIOUS
  <2>1. n - 1 \in DOMAIN q /\ q[n - 1] = p[n]
    BY <1>2
  <2>2. QED
    BY <2>1
<1>5. 1 \in DOMAIN p
  BY EmptySeq
<1>6. h.to \in Titles /\ GoTrim(h.to) = h.to /\ h.to # Blank
  <2>1. h.to.text # <<>> /\ ~h.to.padded /\ h.to \in Titles
    BY <1>1, <1>5 DEF Fits, Renames
  <2>2. QED
    BY <2>1, TrimOfTitle DEF Blank
<1>7. ASSUME NEW i \in DOMAIN snap
      PROVE  /\ snap[i].code = h.code => Trimmed(after, i) = h.to
             /\ snap[i].code # h.code => Trimmed(after, i) = Trimmed(snap, i)
             /\ Trimmed(snap, i) # h.to
  BY <1>1, <1>5, <1>6 DEF Trimmed, Fits
<1>8. ASSUME NEW n \in DOMAIN q
      PROVE  /\ q[n].to.text # <<>> /\ ~q[n].to.padded
             /\ \A i \in DOMAIN after : Trimmed(after, i) # q[n].to
             /\ \A m \in DOMAIN q : m # n => q[m].to # q[n].to
  <2>1. PICK l \in DOMAIN p : l = n + 1 /\ l # 1 /\ q[n] = p[l]
    BY <1>3
  <2>2. /\ p[l].to.text # <<>> /\ ~p[l].to.padded /\ h.to # p[l].to
        /\ \A i \in DOMAIN snap : Trimmed(snap, i) # p[l].to
    BY <1>1, <1>5, <2>1 DEF Fits
  <2>3. ASSUME NEW m \in DOMAIN q, m # n PROVE q[m].to # q[n].to
    <3>1. m + 1 \in DOMAIN p /\ m + 1 # l /\ q[m] = p[m + 1]
      BY <1>2, <1>3, <2>1, <2>3
    <3>2. QED
      BY <2>1, <3>1 DEF Fits
  <2>4. QED
    BY <1>7, <2>1, <2>2, <2>3
<1>9. ASSUME NEW i \in DOMAIN after, NEW j \in DOMAIN after,
             i # j, Trimmed(after, i) = Trimmed(after, j),
             \A n \in DOMAIN q : q[n].code # after[i].code /\ q[n].code # after[j].code
      PROVE  Trimmed(after, i) = Blank
  <2>1. i \in DOMAIN snap /\ j \in DOMAIN snap
    OBVIOUS
  <2>2. ~(snap[i].code = h.code) /\ ~(snap[j].code = h.code)
    BY <1>7, <1>9, <2>1
  <2>3. \A n \in DOMAIN p : p[n].code # snap[i].code /\ p[n].code # snap[j].code
    BY <1>1, <1>4, <1>9, <2>1, <2>2
  <2>4. Trimmed(after, i) = Trimmed(snap, i) /\ Trimmed(after, j) = Trimmed(snap, j)
    BY <1>7, <2>1, <2>2
  <2>5. QED
    BY <1>9, <2>1, <2>3, <2>4 DEF Fits
<1>10. QED
  BY <1>2, <1>8, <1>9 DEF Fits


-----------------------------------------------------------------------------
\* The table

Row == [code : Codes, rc : {k[2] : k \in Keys}, title : Titles, due : BOOLEAN]

LEMMA Titled ==
  ASSUME TableOK, NEW ids, NEW title \in Titles, SetTitle(ids, title)
  PROVE  /\ TableOK' /\ DOMAIN rows' = DOMAIN rows
         /\ \A i \in DOMAIN rows :
              /\ rows'[i].code = rows[i].code
              /\ rows'[i].title = IF i \in ids THEN title ELSE rows[i].title
<1>1. rows \in [DOMAIN rows -> Row]
  BY DEF TableOK, Row
<1>2. DOMAIN rows' = DOMAIN rows
  BY DEF SetTitle
<1>3. ASSUME NEW i \in DOMAIN rows
      PROVE  /\ rows'[i] \in Row
             /\ rows'[i].code = rows[i].code /\ rows'[i].rc = rows[i].rc
             /\ rows'[i].title = IF i \in ids THEN title ELSE rows[i].title
  <2>1. PICK r \in Row : r = rows[i]
    BY <1>1
  <2>2. rows'[i] = IF i \in ids THEN [r EXCEPT !.title = title] ELSE r
    BY <2>1 DEF SetTitle
  <2>3. QED
    BY <2>1, <2>2 DEF Row
<1>4. rows' \in [DOMAIN rows' -> Row]
  <2>1. PICK f : f = rows'
    OBVIOUS
  <2>2. f = [i \in DOMAIN rows |-> f[i]]
    BY <2>1 DEF SetTitle
  <2>3. QED
    BY <1>2, <1>3, <2>1, <2>2
<1>5. nextId' = nextId
  BY DEF SetTitle
<1>6. TableOK'
  BY <1>2, <1>3, <1>4, <1>5 DEF TableOK, Row
<1>7. QED
  BY <1>2, <1>3, <1>6

LEMMA DueSet ==
  ASSUME TableOK, NEW ids, NEW due \in BOOLEAN, SetDue(ids, due)
  PROVE  /\ TableOK' /\ DOMAIN rows' = DOMAIN rows
         /\ \A i \in DOMAIN rows : rows'[i].code = rows[i].code /\ rows'[i].title = rows[i].title
<1>1. rows \in [DOMAIN rows -> Row]
  BY DEF TableOK, Row
<1>2. DOMAIN rows' = DOMAIN rows
  BY DEF SetDue
<1>3. ASSUME NEW i \in DOMAIN rows
      PROVE  /\ rows'[i] \in Row
             /\ rows'[i].code = rows[i].code /\ rows'[i].rc = rows[i].rc
             /\ rows'[i].title = rows[i].title
  <2>1. PICK r \in Row : r = rows[i]
    BY <1>1
  <2>2. rows'[i] = IF i \in ids THEN [r EXCEPT !.due = due] ELSE r
    BY <2>1 DEF SetDue
  <2>3. QED
    BY <2>1, <2>2 DEF Row
<1>4. rows' \in [DOMAIN rows' -> Row]
  <2>1. PICK f : f = rows'
    OBVIOUS
  <2>2. f = [i \in DOMAIN rows |-> f[i]]
    BY <2>1 DEF SetDue
  <2>3. QED
    BY <1>2, <1>3, <2>1, <2>2
<1>5. nextId' = nextId
  BY DEF SetDue
<1>6. TableOK'
  BY <1>2, <1>3, <1>4, <1>5 DEF TableOK, Row
<1>7. QED
  BY <1>2, <1>3, <1>6

\* A new row has a new id, and its key is no other's.
LEMMA Inserted ==
  ASSUME TableOK, NEW k \in Keys, NEW title \in Titles, IdsOfKey(k) = {}, Insert(k, title)
  PROVE  TableOK'
<1>1. rows \in [DOMAIN rows -> Row] /\ nextId \in Nat \ {0} /\ DOMAIN rows \subseteq 1..(nextId - 1)
  BY DEF TableOK, Row
<1>2. k = <<k[1], k[2]>> /\ k[1] \in Codes /\ k[2] \in {l[2] : l \in Keys}
  <2>1. k \in Codes \X {l[2] : l \in Keys}
    BY ImportAssumption
  <2>2. QED
    BY <2>1
<1>3. PICK new : new = [code |-> k[1], rc |-> k[2], title |-> title, due |-> TRUE]
  OBVIOUS
<1>4. new \in Row /\ new.code = k[1] /\ new.rc = k[2]
  BY <1>2, <1>3 DEF Row
<1>5. rows' = [i \in DOMAIN rows \cup {nextId} |-> IF i = nextId THEN new ELSE rows[i]]
  BY <1>3 DEF Insert
<1>6. /\ DOMAIN rows' = DOMAIN rows \cup {nextId} /\ rows'[nextId] = new
      /\ \A i \in DOMAIN rows : i # nextId /\ rows'[i] = rows[i]
  BY <1>1, <1>5
<1>7. rows' \in [DOMAIN rows' -> Row]
  <2>1. \A i \in DOMAIN rows \cup {nextId} : (IF i = nextId THEN new ELSE rows[i]) \in Row
    BY <1>1, <1>4
  <2>2. QED
    BY <1>5, <1>6, <2>1
<1>8. nextId' = nextId + 1
  BY DEF Insert
<1>9. nextId' \in Nat \ {0} /\ DOMAIN rows' \subseteq 1..(nextId' - 1)
  BY <1>1, <1>6, <1>8
<1>10. \A i \in DOMAIN rows' : <<rows'[i].code, rows'[i].rc>> \in Keys
  BY <1>2, <1>4, <1>6 DEF TableOK
<1>11. \A i \in DOMAIN rows : ~(rows[i].code = new.code /\ rows[i].rc = new.rc)
  BY <1>4 DEF IdsOfKey, IdsOf
<1>12. ASSUME NEW i \in DOMAIN rows', NEW j \in DOMAIN rows',
              rows'[i].code = rows'[j].code, rows'[i].rc = rows'[j].rc
       PROVE  i = j
  BY <1>6, <1>11, <1>12 DEF TableOK
<1>13. QED
  BY <1>7, <1>9, <1>10, <1>12 DEF TableOK, Row

LEMMA Deleted ==
  ASSUME TableOK, NEW ids, rows' = [i \in DOMAIN rows \ ids |-> rows[i]], nextId' = nextId
  PROVE  TableOK'
<1>1. rows \in [DOMAIN rows -> Row]
  BY DEF TableOK, Row
<1>2. DOMAIN rows' = DOMAIN rows \ ids /\ \A i \in DOMAIN rows' : rows'[i] = rows[i]
  OBVIOUS
<1>3. rows' \in [DOMAIN rows' -> Row]
  BY <1>1, <1>2
<1>4. QED
  BY <1>2, <1>3 DEF TableOK, Row

LEMMA Upserted ==
  ASSUME TableOK, NEW k \in Keys, UpsertShare(k)
  PROVE  TableOK'
<1>1. Blank \in Titles
  <2>1. <<>> \in Seq(Nat)
    OBVIOUS
  <2>2. QED
    BY <2>1 DEF Blank, Titles
<1>2. CASE IdsOfKey(k) = {} /\ Insert(k, Blank)
  BY <1>1, <1>2, Inserted
<1>3. CASE SetDue(IdsOfKey(k), TRUE)
  BY <1>3, DueSet
<1>4. QED
  BY <1>2, <1>3 DEF UpsertShare

LEMMA Updated ==
  ASSUME TableOK, NEW k \in Keys, NEW title \in Titles, UpdateShareMeta(k, title)
  PROVE  TableOK'
<1>1. CASE IdsOfKey(k) = {} /\ Insert(k, title)
  BY <1>1, Inserted
<1>2. CASE SetTitle(IdsOfKey(k), title)
  BY <1>2, Titled
<1>3. QED
  BY <1>1, <1>2 DEF UpdateShareMeta

LEMMA TableIsSnapshot == TableOK => Snapshot(rows)
<1> SUFFICES ASSUME TableOK PROVE Snapshot(rows)
  OBVIOUS
<1>1. nextId - 1 \in Int /\ DOMAIN rows \subseteq 1..(nextId - 1)
  BY DEF TableOK
<1>2. IsFiniteSet(DOMAIN rows)
  BY <1>1, FS_Interval, FS_Subset
<1>3. DOMAIN rows \subseteq Nat
  BY <1>1
<1>4. \A i \in DOMAIN rows : rows[i].code \in Codes /\ rows[i].title \in Titles
  BY DEF TableOK
<1>5. QED
  BY <1>2, <1>3, <1>4 DEF Snapshot


-----------------------------------------------------------------------------
\* The invariant

\* As long as nobody else writes, what is left of a plan fits the table.
PlansFit ==
  \A w \in Workers : stage[w] = "apply" /\ alone[w] /\ OneRowPerCode => Fits(plan[w], rows)

\* The inductive invariant.
IInv == TypeOK /\ PlansFit

LEMMA BlankIsTitle == Blank \in Titles
<1>1. <<>> \in Seq(Nat)
  OBVIOUS
<1>2. QED
  BY <1>1 DEF Blank, Titles

LEMMA TitlesAreTitles ==
  /\ \A k \in Keys : TitleOn115[k[1]] \in Titles
  /\ NewTitles \subseteq Titles
BY TitlesAssumption DEF Codes

LEMMA Initially == Init => IInv
<1> SUFFICES ASSUME Init PROVE IInv
  OBVIOUS
<1>1. PICK n \in Nat : n = Len(Imported) /\ DOMAIN Imported = 1..n
  BY ImportAssumption
<1>2. \A i \in 1..n : Imported[i] \in Keys /\ \A j \in 1..n : Imported[i] = Imported[j] => i = j
  BY <1>1, ImportAssumption DEF IsInjective
<1>3. ASSUME NEW i \in 1..n
      PROVE  /\ rows[i] \in Row
             /\ rows[i].code = Imported[i][1] /\ rows[i].rc = Imported[i][2]
             /\ Imported[i] = <<Imported[i][1], Imported[i][2]>>
  <2>1. PICK k \in Keys : k = Imported[i]
    BY <1>2
  <2>2. k \in Codes \X {l[2] : l \in Keys}
    BY ImportAssumption
  <2>3. PICK c \in Codes, rc \in {l[2] : l \in Keys} : k = <<c, rc>>
    BY <2>2
  <2>4. rows[i] = [code |-> c, rc |-> rc, title |-> Blank, due |-> TRUE]
    <3>1. rows[i] = [code |-> Imported[i][1], rc |-> Imported[i][2], title |-> Blank, due |-> TRUE]
      BY <1>1, Zenon DEF Init
    <3>2. Imported[i][1] = c /\ Imported[i][2] = rc
      BY <2>1, <2>3
    <3>3. QED
      BY <3>1, <3>2
  <2>5. rows[i] \in Row
    BY <2>4, BlankIsTitle DEF Row
  <2>6. rows[i].code = c /\ rows[i].rc = rc
    BY <2>4
  <2>7. QED
    BY <2>1, <2>3, <2>5, <2>6
<1>4. DOMAIN rows = 1..n /\ nextId = n + 1
  BY <1>1 DEF Init
<1>5. rows \in [DOMAIN rows -> Row]
  <2>1. PICK f : f = rows
    OBVIOUS
  <2>2. f = [i \in 1..n |-> f[i]]
    BY <1>1, <2>1 DEF Init
  <2>3. QED
    BY <1>3, <1>4, <2>1, <2>2
<1>6. TableOK
  <2>1. \A i \in DOMAIN rows : <<rows[i].code, rows[i].rc>> \in Keys
    BY <1>2, <1>3, <1>4
  <2>2. ASSUME NEW i \in DOMAIN rows, NEW j \in DOMAIN rows,
               rows[i].code = rows[j].code, rows[i].rc = rows[j].rc
        PROVE  i = j
    <3>1. Imported[i] = Imported[j]
      BY <1>3, <1>4, <2>2
    <3>2. QED
      BY <1>2, <1>4, <3>1
  <2>3. nextId \in Nat \ {0} /\ DOMAIN rows \subseteq 1..(nextId - 1)
    BY <1>4
  <2>4. QED
    BY <1>5, <2>1, <2>2, <2>3 DEF TableOK, Row
<1>7. WorkersOK
  <2>1. batch \in Seq([key : Keys, untitled : BOOLEAN])
    BY DEF Init
  <2>2. plan \in [Workers -> Seq([code : Codes, to : Titles])]
    BY DEF Init
  <2>3. alone \in [Workers -> BOOLEAN]
    BY DEF Init
  <2>4. QED
    BY <2>1, <2>2, <2>3 DEF Init, WorkersOK, Workers
<1>8. patch \in [Requests -> [at : {"none", "find", "rename"}, code : Codes \cup {""}, title : Titles]]
  <2>1. NoRequest \in [at : {"none", "find", "rename"}, code : Codes \cup {""}, title : Titles]
    BY BlankIsTitle DEF NoRequest
  <2>2. QED
    BY <2>1 DEF Init
<1>9. TypeOK
  <2>1. ops \in 0..MaxOps /\ faults \in 0..MaxFaults
    BY TitlesAssumption DEF Init
  <2>2. QED
    BY <1>6, <1>7, <1>8, <2>1 DEF TypeOK
<1>10. PlansFit
  BY DEF Init, PlansFit
<1>11. QED
  BY <1>9, <1>10 DEF IInv


LEMMA TableKept == IInv /\ [Next]_vars => TableOK'
<1> SUFFICES ASSUME TableOK, WorkersOK, TypeOK, [Next]_vars PROVE TableOK'
  BY DEF IInv, TypeOK
<1>1. CASE UNCHANGED table
  BY <1>1 DEF table, TableOK
<1>2. CASE CrawlShare
  <2>1. batch # <<>> /\ TitleFilled(Head(batch))
    BY <1>2 DEF CrawlShare
  <2>2. PICK s \in [key : Keys, untitled : BOOLEAN] : s = Head(batch)
    BY <2>1, HeadTailProperties DEF WorkersOK
  <2>3. CASE UpdateShareMeta(s.key, TitleOn115[s.key[1]])
    BY <2>2, <2>3, TitlesAreTitles, Updated
  <2>4. QED
    BY <1>1, <2>1, <2>2, <2>3 DEF TitleFilled
<1>3. CASE Verdict
  <2>1. PICK again \in BOOLEAN : SetDue(IdsOf(Head(batch).key[1]), again)
    BY <1>3 DEF Verdict
  <2>2. QED
    BY <2>1, DueSet
<1>4. ASSUME NEW w \in Workers, ApplyRename(w) PROVE TableOK'
  <2>1. plan[w] \in Seq(Renames) /\ plan[w] # <<>>
    BY <1>4 DEF WorkersOK, ApplyRename, Renames
  <2>2. PICK h \in Renames : h = Head(plan[w])
    BY <2>1
  <2>3. SetTitle(IdsOf(h.code), h.to) /\ h.to \in Titles
    BY <1>4, <2>2 DEF ApplyRename, RenameShareTitle, Renames
  <2>4. QED
    BY <2>3, Titled
<1>5. CASE HandleShareAdd
  BY <1>5, Upserted DEF HandleShareAdd
<1>6. CASE HandleShareDelete \/ Backfill
  <2>1. CASE HandleShareDelete
    BY <2>1, Deleted DEF HandleShareDelete
  <2>2. CASE Backfill
    <3>1. PICK k \in ToSet(Imported) : UpdateShareMeta(k, TitleOn115[k[1]])
      BY <2>2 DEF Backfill
    <3>2. k \in Keys
      BY ImportAssumption DEF ToSet
    <3>3. QED
      BY <3>1, <3>2, TitlesAreTitles, Updated
  <2>3. QED
    BY <1>6, <2>1, <2>2
<1>7. ASSUME NEW r \in Requests, RenameWrite(r) PROVE TableOK'
  <2>1. patch[r].title \in Titles
    BY DEF TypeOK
  <2>2. QED
    BY <1>7, <2>1, Titled DEF RenameWrite, RenameShareTitle
<1>8. CASE \/ ListSharesForCrawl
           \/ \E w \in Workers : ListShares(w) \/ Applied(w) \/ Abandon(w)
           \/ \E r \in Requests : RenameGetShare(r) \/ RenameFindConflict(r)
           \/ UNCHANGED vars
  <2>1. UNCHANGED table
    BY <1>8 DEF ListSharesForCrawl, ListShares, Applied, Abandon, RenameGetShare,
         RenameFindConflict, vars, table
  <2>2. QED
    BY <1>1, <2>1
<1>9. QED
  BY <1>2, <1>3, <1>4, <1>5, <1>6, <1>7, <1>8 DEF Next, Cycle, Workers

Snap == [key : Keys, untitled : BOOLEAN]

LEMMA WorkersKept == IInv /\ [Next]_vars => WorkersOK'
<1> SUFFICES ASSUME TableOK, WorkersOK, [Next]_vars PROVE WorkersOK'
  BY DEF IInv, TypeOK
<1> DEFINE At == {"idle", "crawl", "verdict", "apply"}
<1>1. /\ stage \in [Workers -> At] /\ stage["cli"] \in {"idle", "apply"}
      /\ stage["scheduler"] = "verdict" => batch # <<>>
      /\ batch \in Seq(Snap) /\ plan \in [Workers -> Seq(Renames)] /\ alone \in [Workers -> BOOLEAN]
  BY DEF WorkersOK, Snap, Renames
<1>2. "cli" \in Workers /\ "scheduler" \in Workers /\ \A w \in Workers : w = "cli" \/ w = "scheduler"
  BY DEF Workers
<1> SUFFICES /\ stage' \in [Workers -> At] /\ stage'["cli"] \in {"idle", "apply"}
             /\ stage'["scheduler"] = "verdict" => batch' # <<>>
             /\ batch' \in Seq(Snap) /\ plan' \in [Workers -> Seq(Renames)]
             /\ alone' \in [Workers -> BOOLEAN]
  BY DEF WorkersOK, Snap, Renames
<1>3. \A writer : Disturb(writer) => alone' \in [Workers -> BOOLEAN]
  BY DEF Disturb
<1>4. CASE ListSharesForCrawl
  <2>1. PICK due : due = {i \in DOMAIN rows : rows[i].due}
    OBVIOUS
  <2>2. IsFiniteSet(due) /\ due \subseteq DOMAIN rows
    BY <2>1, TableIsSnapshot, FS_Subset DEF Snapshot
  <2>3. PICK n \in Nat : n = Cardinality(due)
    BY <2>2, FS_CardinalityType
  <2>4. PICK order \in Injection(1..n, due) :
          batch' = [m \in 1..n |-> [key      |-> <<rows[order[m]].code, rows[order[m]].rc>>,
                                    untitled |-> rows[order[m]].title = Blank]]
    BY <1>4, <2>1, <2>3 DEF ListSharesForCrawl
  <2>5. ASSUME NEW m \in 1..n
        PROVE  [key      |-> <<rows[order[m]].code, rows[order[m]].rc>>,
                untitled |-> rows[order[m]].title = Blank] \in Snap
    <3>1. order[m] \in DOMAIN rows
      BY <2>2 DEF Injection
    <3>2. PICK k \in Keys : k = <<rows[order[m]].code, rows[order[m]].rc>>
      BY <3>1 DEF TableOK
    <3>3. PICK u \in BOOLEAN : u = (rows[order[m]].title = Blank)
      OBVIOUS
    <3>4. [key |-> k, untitled |-> u] \in Snap
      BY DEF Snap
    <3>5. QED
      BY <3>2, <3>3, <3>4, Zenon
  <2>6. batch' \in [1..n -> Snap]
    BY <2>4, <2>5
  <2>7. batch' \in Seq(Snap)
    BY <2>6, SeqDef
  <2>8. QED
    BY <1>1, <1>2, <1>4, <2>7 DEF ListSharesForCrawl
<1>5. CASE CrawlShare
  <2>1. alone' \in [Workers -> BOOLEAN]
    BY <1>1, <1>3, <1>5 DEF CrawlShare, TitleFilled
  <2>2. QED
    BY <1>1, <1>2, <1>5, <2>1 DEF CrawlShare
<1>6. CASE Verdict
  <2>1. Tail(batch) \in Seq(Snap)
    BY <1>1, <1>6, HeadTailProperties DEF Verdict
  <2>2. QED
    BY <1>1, <1>2, <1>6, <2>1 DEF Verdict
<1>7. ASSUME NEW w \in Workers, ListShares(w)
      PROVE  /\ stage' \in [Workers -> At] /\ stage'["cli"] \in {"idle", "apply"}
             /\ stage'["scheduler"] = "verdict" => batch' # <<>>
             /\ batch' \in Seq(Snap) /\ plan' \in [Workers -> Seq(Renames)]
             /\ alone' \in [Workers -> BOOLEAN]
  <2>1. PlanShareRenames(rows) \in Seq(Renames)
    BY TableIsSnapshot, NewPlanFits
  <2>2. plan' \in [Workers -> Seq(Renames)]
    BY <1>1, <1>7, <2>1 DEF ListShares
  <2>3. alone' \in [Workers -> BOOLEAN]
    BY <1>1, <1>7 DEF ListShares
  <2>4. QED
    BY <1>1, <1>2, <1>7, <2>2, <2>3 DEF ListShares
<1>8. ASSUME NEW w \in Workers, ApplyRename(w)
      PROVE  /\ plan' \in [Workers -> Seq(Renames)] /\ alone' \in [Workers -> BOOLEAN]
             /\ UNCHANGED <<stage, batch>>
  <2>1. plan[w] \in Seq(Renames) /\ plan[w] # <<>>
    BY <1>1, <1>8 DEF ApplyRename
  <2>2. Tail(plan[w]) \in Seq(Renames)
    BY <2>1, HeadTailProperties
  <2>3. QED
    BY <1>1, <1>3, <1>8, <2>2 DEF ApplyRename
<1>9. ASSUME NEW w \in Workers, Applied(w)
      PROVE  /\ stage' \in [Workers -> At] /\ stage'["cli"] \in {"idle", "apply"}
             /\ stage'["scheduler"] = "verdict" => batch' # <<>>
             /\ UNCHANGED <<batch, plan, alone>>
  BY <1>1, <1>2, <1>9 DEF Applied
<1>10. ASSUME NEW w \in Workers, Abandon(w)
       PROVE  /\ stage' \in [Workers -> At] /\ stage'["cli"] \in {"idle", "apply"}
              /\ stage'["scheduler"] = "verdict" => batch' # <<>>
              /\ batch' \in Seq(Snap) /\ plan' \in [Workers -> Seq(Renames)]
              /\ UNCHANGED alone
  BY <1>1, <1>2, <1>10 DEF Abandon
<1>11. CASE HandleShareAdd \/ HandleShareDelete \/ Backfill
  BY <1>1, <1>3, <1>11 DEF HandleShareAdd, HandleShareDelete, Backfill
<1>12. ASSUME NEW r \in Requests, RenameGetShare(r) \/ RenameFindConflict(r) \/ RenameWrite(r)
       PROVE  alone' \in [Workers -> BOOLEAN] /\ UNCHANGED <<stage, batch, plan>>
  BY <1>1, <1>3, <1>12 DEF RenameGetShare, RenameFindConflict, RenameWrite
<1>13. CASE UNCHANGED vars
  BY <1>1, <1>13 DEF vars
<1>14. QED
  BY <1>1, <1>2, <1>4, <1>5, <1>6, <1>7, <1>8, <1>9, <1>10, <1>11, <1>12, <1>13 DEF Next, Cycle


Patch == [at : {"none", "find", "rename"}, code : Codes \cup {""}, title : Titles]

LEMMA RequestsKept ==
  IInv /\ [Next]_vars =>
    patch' \in [Requests -> Patch] /\ ops' \in 0..MaxOps /\ faults' \in 0..MaxFaults
<1> SUFFICES ASSUME TableOK, TypeOK, [Next]_vars
             PROVE  /\ patch' \in [Requests -> Patch]
                    /\ ops' \in 0..MaxOps /\ faults' \in 0..MaxFaults
  BY DEF IInv, TypeOK
<1>1. patch \in [Requests -> Patch] /\ ops \in 0..MaxOps /\ faults \in 0..MaxFaults
  BY DEF TypeOK, Patch
<1>2. MaxOps \in Nat /\ MaxFaults \in Nat
  BY TitlesAssumption
<1>3. Request => ops' \in 0..MaxOps
  BY <1>1, <1>2 DEF Request
<1>4. CASE ListSharesForCrawl \/ CrawlShare \/ Verdict \/ UNCHANGED vars
  BY <1>1, <1>4 DEF ListSharesForCrawl, CrawlShare, Verdict, vars
<1>5. ASSUME NEW w \in Workers, ListShares(w) \/ ApplyRename(w) \/ Applied(w) \/ Abandon(w)
      PROVE  UNCHANGED patch /\ ops' \in 0..MaxOps /\ faults' \in 0..MaxFaults
  BY <1>1, <1>2, <1>5 DEF ListShares, MayStart, ApplyRename, Applied, Abandon
<1>6. CASE HandleShareAdd \/ HandleShareDelete \/ Backfill
  BY <1>1, <1>3, <1>6 DEF HandleShareAdd, HandleShareDelete, Backfill
<1>7. ASSUME NEW r \in Requests, RenameGetShare(r)
      PROVE  patch' \in [Requests -> Patch] /\ ops' \in 0..MaxOps /\ UNCHANGED faults
  <2>1. PICK code \in {rows[i].code : i \in DOMAIN rows}, title \in NewTitles :
          patch' = [patch EXCEPT ![r] = [at |-> "find", code |-> code, title |-> title]]
    BY <1>7 DEF RenameGetShare
  <2>2. code \in Codes /\ title \in Titles
    BY TitlesAreTitles DEF TableOK
  <2>3. [at |-> "find", code |-> code, title |-> title] \in Patch
    BY <2>2 DEF Patch
  <2>4. QED
    BY <1>1, <1>3, <1>7, <2>1, <2>3 DEF RenameGetShare
<1>8. NoRequest \in Patch
  BY BlankIsTitle DEF NoRequest, Patch
<1>9. ASSUME NEW r \in Requests, RenameFindConflict(r)
      PROVE  patch' \in [Requests -> Patch] /\ UNCHANGED <<ops, faults>>
  <2>1. PICK p \in Patch : p = patch[r]
    BY <1>1
  <2>2. [p EXCEPT !.at = "rename"] \in Patch
    BY DEF Patch
  <2>3. patch' = [patch EXCEPT ![r] = NoRequest] \/ patch' = [patch EXCEPT ![r] = [p EXCEPT !.at = "rename"]]
    BY <1>9, <2>1 DEF RenameFindConflict
  <2>4. QED
    BY <1>1, <1>8, <1>9, <2>2, <2>3 DEF RenameFindConflict
<1>10. ASSUME NEW r \in Requests, RenameWrite(r)
       PROVE  patch' \in [Requests -> Patch] /\ UNCHANGED <<ops, faults>>
  BY <1>1, <1>8, <1>10 DEF RenameWrite
<1>11. QED
  BY <1>1, <1>4, <1>5, <1>6, <1>7, <1>9, <1>10 DEF Next, Cycle, Workers

-----------------------------------------------------------------------------
\* Plans

\* Titles and codes are all that a plan looks at.
LEMMA SameTitles ==
  ASSUME NEW p, NEW snap, NEW after, Fits(p, snap), DOMAIN after = DOMAIN snap,
         \A i \in DOMAIN snap : after[i].code = snap[i].code /\ after[i].title = snap[i].title
  PROVE  Fits(p, after)
BY DEF Fits, Trimmed

LEMMA PlansKept == IInv /\ [Next]_vars => PlansFit'
<1> SUFFICES ASSUME TableOK, WorkersOK, PlansFit, [Next]_vars,
                    NEW w \in Workers, stage'[w] = "apply", alone'[w], OneRowPerCode'
             PROVE  Fits(plan'[w], rows')
  BY DEF IInv, TypeOK, PlansFit
<1>1. \A v \in Workers : stage[v] = "apply" /\ alone[v] /\ OneRowPerCode => Fits(plan[v], rows)
  BY DEF PlansFit
<1>2. /\ stage \in [Workers -> {"idle", "crawl", "verdict", "apply"}]
      /\ plan \in [Workers -> Seq(Renames)] /\ alone \in [Workers -> BOOLEAN]
  BY DEF WorkersOK, Renames
<1>3. \A writer : Disturb(writer) => alone[w] /\ w = writer
  BY DEF Disturb
\* Where neither the table's titles nor the plan change, nothing does.
<1>4. ASSUME stage[w] = "apply", alone[w], plan'[w] = plan[w], DOMAIN rows' = DOMAIN rows,
             \A i \in DOMAIN rows : rows'[i].code = rows[i].code /\ rows'[i].title = rows[i].title
      PROVE  Fits(plan'[w], rows')
  <2>1. OneRowPerCode
    BY <1>4 DEF OneRowPerCode
  <2>2. Fits(plan[w], rows)
    BY <1>1, <1>4, <2>1
  <2>3. QED
    BY <1>4, <2>2, SameTitles
<1>5. CASE CrawlShare
  <2>1. UNCHANGED <<table, alone>> \/ Disturb("crawl")
    BY <1>5 DEF CrawlShare, TitleFilled
  <2>2. w # "crawl"
    BY DEF Workers
  <2>3. UNCHANGED <<rows, alone>> /\ stage[w] = "apply" /\ plan'[w] = plan[w]
    BY <1>2, <1>3, <1>5, <2>1, <2>2 DEF CrawlShare, table
  <2>4. alone[w]
    BY <2>3
  <2>5. QED
    BY <1>4, <2>3, <2>4
<1>6. CASE Verdict
  <2>1. PICK again \in BOOLEAN : SetDue(IdsOf(Head(batch).key[1]), again)
    BY <1>6 DEF Verdict
  <2>2. /\ DOMAIN rows' = DOMAIN rows
        /\ \A i \in DOMAIN rows : rows'[i].code = rows[i].code /\ rows'[i].title = rows[i].title
    BY <2>1, DueSet
  <2>3. stage[w] = "apply" /\ plan'[w] = plan[w]
    BY <1>2, <1>6 DEF Verdict
  <2>4. alone[w]
    BY <1>6 DEF Verdict
  <2>5. QED
    BY <1>4, <2>2, <2>3, <2>4
<1>7. ASSUME NEW v \in Workers, ListShares(v) PROVE Fits(plan'[w], rows')
  <2>1. CASE v = w
    <3>1. plan'[w] = PlanShareRenames(rows) /\ rows' = rows
      BY <1>2, <1>7, <2>1 DEF ListShares, table
    <3>2. QED
      BY <3>1, TableIsSnapshot, NewPlanFits
  <2>2. CASE v # w
    <3>1. stage[w] = "apply" /\ plan'[w] = plan[w] /\ rows' = rows
      BY <1>2, <1>7, <2>2 DEF ListShares, table
    <3>2. alone[w]
      BY <1>2, <1>7, <2>2 DEF ListShares
    <3>3. QED
      BY <1>4, <3>1, <3>2
  <2>3. QED
    BY <2>1, <2>2
<1>8. ASSUME NEW v \in Workers, ApplyRename(v) PROVE Fits(plan'[w], rows')
  <2>1. alone[w] /\ w = v
    BY <1>3, <1>8 DEF ApplyRename
  <2>2. stage[w] = "apply"
    BY <1>8, <2>1 DEF ApplyRename
  <2>3. PICK p \in Seq(Renames) : p = plan[w]
    BY <1>2
  <2>4. p # <<>> /\ plan'[w] = Tail(p)
    BY <1>2, <1>8, <2>1, <2>3 DEF ApplyRename
  <2>5. PICK h \in Renames : h = Head(p)
    BY <2>4, HeadTailProperties
  <2>6. SetTitle(IdsOf(h.code), h.to) /\ h.to \in Titles
    BY <1>8, <2>1, <2>3, <2>5 DEF ApplyRename, RenameShareTitle, Renames
  <2>7. /\ DOMAIN rows' = DOMAIN rows
        /\ \A i \in DOMAIN rows :
             /\ rows'[i].code = rows[i].code
             /\ rows'[i].title = IF i \in IdsOf(h.code) THEN h.to ELSE rows[i].title
    BY <2>6, Titled
  <2>8. \A i \in DOMAIN rows : i \in IdsOf(h.code) <=> rows[i].code = h.code
    BY DEF IdsOf
  <2>9. \A i, j \in DOMAIN rows : rows[i].code = rows[j].code => i = j
    BY <2>7 DEF OneRowPerCode
  <2>10. Fits(p, rows)
    BY <1>1, <2>1, <2>2, <2>3, <2>9 DEF OneRowPerCode
  <2>11. \A i \in DOMAIN rows :
           /\ rows'[i].code = rows[i].code
           /\ rows'[i].title = IF rows[i].code = Head(p).code THEN Head(p).to ELSE rows[i].title
    BY <2>5, <2>7, <2>8
  <2>12. Fits(Tail(p), rows')
    BY <2>4, <2>7, <2>9, <2>10, <2>11, TableIsSnapshot, OneRenameLess
  <2>13. QED
    BY <2>4, <2>12
<1>9. ASSUME NEW v \in Workers, Applied(v) \/ Abandon(v) PROVE Fits(plan'[w], rows')
  <2>1. v # w /\ rows' = rows
    BY <1>2, <1>9 DEF Applied, Abandon, table
  <2>2. stage[w] = "apply" /\ plan'[w] = plan[w]
    BY <1>2, <1>9, <2>1 DEF Applied, Abandon
  <2>3. alone[w]
    BY <1>9 DEF Applied, Abandon
  <2>4. QED
    BY <1>4, <2>1, <2>2, <2>3
<1>10. ASSUME Disturb("admin") \/ Disturb("backfill") PROVE FALSE
  BY <1>3, <1>10 DEF Workers
<1>11. CASE \/ ListSharesForCrawl
            \/ \E r \in Requests : RenameGetShare(r) \/ RenameFindConflict(r)
            \/ UNCHANGED vars
  <2>1. rows' = rows /\ plan' = plan /\ stage[w] = "apply"
    BY <1>2, <1>11 DEF ListSharesForCrawl, RenameGetShare, RenameFindConflict, vars, table
  <2>2. alone[w]
    BY <1>11 DEF ListSharesForCrawl, RenameGetShare, RenameFindConflict, vars
  <2>3. QED
    BY <1>4, <2>1, <2>2
<1>12. CASE HandleShareAdd \/ HandleShareDelete \/ Backfill \/ \E r \in Requests : RenameWrite(r)
  BY <1>10, <1>12 DEF HandleShareAdd, HandleShareDelete, Backfill, RenameWrite
<1>13. QED
  BY <1>5, <1>6, <1>7, <1>8, <1>9, <1>11, <1>12 DEF Next, Cycle, Workers

-----------------------------------------------------------------------------
\* The theorems

THEOREM Inductive == Spec => []IInv
<1>1. IInv /\ [Next]_vars => IInv'
  BY TableKept, WorkersKept, RequestsKept, PlansKept DEF IInv, TypeOK, Patch
<1>2. QED
  BY Initially, <1>1, PTL DEF Spec

\* The table has each key once, under all its writers: the crawl, which brings
\* a deleted row back, the admin API and the two runs of DedupeShareTitles.
THEOREM TypeCorrect == Spec => []TypeOK
<1>1. IInv => TypeOK
  BY DEF IInv
<1>2. QED
  BY Inductive, <1>1, PTL

\* DedupeShareTitles is idempotent: once its plan is written, and nobody else
\* has written since it was made, there is nothing to rename.
THEOREM DedupeLeavesNothing == Spec => []DedupeIdempotent
<1>1. IInv => DedupeIdempotent
  <2> SUFFICES ASSUME TableOK, PlansFit, NEW w \in Workers, stage[w] = "apply",
                      plan[w] = <<>>, alone[w], OneRowPerCode
               PROVE  PlanShareRenames(rows) = <<>>
    BY DEF IInv, TypeOK, DedupeIdempotent
  <2>1. Fits(<<>>, rows)
    BY DEF PlansFit
  <2>2. QED
    BY <2>1, TableIsSnapshot, NothingToRename
<1>2. QED
  BY Inductive, <1>1, PTL
=============================================================================
