------------------------------ MODULE ShareLists ------------------------------
(***************************************************************************)
(* The two lists an operator feeds the indexer (internal/shares): the      *)
(* share list of import-shares and backfill-share-meta (Parse), and the    *)
(* grouping overlay of import-groups (ParseGroups). A line is what its     *)
(* text amounts to: a header with a name, a share with its two codes (a    *)
(* key), a line to skip, or a line no share can be read from.              *)
(***************************************************************************)
EXTENDS Naturals, Sequences, FiniteSets, SequencesExt

Header(name)      == [kind |-> "header", name |-> name]
ShareLine(key)    == [kind |-> "share", key |-> key]
SkippedLine       == [kind |-> "skip"]
BadLine           == [kind |-> "bad"]

Code(key) == key[1]    \* share_code; key[2] is receive_code

\* parser.go Parse: the shares of a list, each key once, in the order of the
\* list; one bad line, and nothing is imported. A header is a comment here.
SameShare_ByCode(k, l) == Code(k) = Code(l)
SameShare(k, l) == k = l

AddShare(keys, line) ==
  IF line.kind = "share" /\ \A k \in ToSet(keys) : ~SameShare(k, line.key)
  THEN Append(keys, line.key) ELSE keys

ParsedShares(lines) ==
  LET keys[n \in 0..Len(lines)] ==
        IF n = 0 THEN <<>> ELSE AddShare(keys[n - 1], lines[n])
  IN  keys[Len(lines)]

Parses(lines) == \A i \in DOMAIN lines : lines[i].kind # "bad"

-----------------------------------------------------------------------------
\* groups.go ParseGroups: the groups so far, each with its codes, and the codes
\* that were moved from one group to a later one.
NoGroups == [ok |-> TRUE, groups |-> <<>>, duplicates |-> {}]

Owners(groups, code) == { i \in DOMAIN groups : code \in groups[i].codes }

\* The code goes to the current group, and leaves the one that had it.
AddCode_FirstWins(acc, code) ==
  IF Owners(acc.groups, code) # {} THEN acc
  ELSE [acc EXCEPT !.groups[Len(acc.groups)].codes = @ \cup {code}]
AddCode(acc, code) ==
  LET last == Len(acc.groups) IN
  [ok |-> TRUE,
   groups |-> [i \in 1..last |->
      [name  |-> acc.groups[i].name,
       codes |-> IF i = last THEN acc.groups[i].codes \cup {code}
                 ELSE acc.groups[i].codes \ {code}]],
   duplicates |-> IF Owners(acc.groups, code) \subseteq {last} THEN acc.duplicates
                  ELSE acc.duplicates \cup {code}]

AddLine(acc, line) ==
  IF ~acc.ok \/ line.kind = "skip" THEN acc
  ELSE CASE line.kind = "header" -> [acc EXCEPT !.groups =
                                       Append(@, [name |-> line.name, codes |-> {}])]
         [] line.kind = "share" /\ acc.groups # <<>> -> AddCode(acc, Code(line.key))
         [] OTHER -> [acc EXCEPT !.ok = FALSE]

ParseGroups(lines) ==
  LET acc[n \in 0..Len(lines)] ==
        IF n = 0 THEN NoGroups ELSE AddLine(acc[n - 1], lines[n])
  IN  acc[Len(lines)]

-----------------------------------------------------------------------------
\* The overlay said without the parser: the group of a code is that of the last
\* line that names it, counted in headers; 0 when no line does.
HeadersUpTo(lines, n) == Cardinality({ i \in 1..n : lines[i].kind = "header" })

Naming(lines, code) ==
  { i \in DOMAIN lines : lines[i].kind = "share" /\ Code(lines[i].key) = code }

Latest(S) == CHOOSE i \in S : \A j \in S : j <= i

LastGroupOf(lines, code) ==
  IF Naming(lines, code) = {} THEN 0
  ELSE HeadersUpTo(lines, Latest(Naming(lines, code)))

InTwoGroups(lines, code) ==
  \E i, j \in Naming(lines, code) : HeadersUpTo(lines, i) # HeadersUpTo(lines, j)
=============================================================================
