------------------------------ MODULE ShareTitles ------------------------------
(***************************************************************************)
(* Who writes share_title, and whether titles end up distinct: the crawl   *)
(* fills an empty title from 115's first page, PATCH /shares/<code>        *)
(* renames after looking for a conflict, and DedupeShareTitles             *)
(* (internal/store/dedupe.go) renames all but the first holder of a title, *)
(* at the end of each scheduler cycle and from the command line            *)
(* (-mode dedupe-share-titles -apply), in a process of its own; so does    *)
(* -mode backfill-share-meta, which writes 115's titles over any.          *)
(* Every call to the store is one action, and plans are written one call   *)
(* per rename, so all writers interleave inside an apply.                  *)
(*                                                                         *)
(* A title is its text and whether it is padded with white space that      *)
(* strings.TrimSpace removes and SQLite's TRIM does not (a tab, an         *)
(* ideographic space); plain spaces, which both remove, are left out. A    *)
(* text is a word followed by the digits that renames have appended. The   *)
(* status is reduced to "due for a crawl or not" (a share in backoff is    *)
(* one whose crawl fails without a page), and CrawlShare to its effect on  *)
(* titles and status; the order of a cycle, by last_crawled_at, is left    *)
(* open.                                                                   *)
(***************************************************************************)
EXTENDS Naturals, Sequences, FiniteSets, SequencesExt

CONSTANTS
  Keys,         \* <<share_code, receive_code>>, the UNIQUE key of table share
  Imported,     \* the keys of import-shares, in the order of the file
  TitleOn115,   \* TitleOn115[code]: the title on 115's pages
  NewTitles,    \* the titles operators ask for, trimmed by the handler
  Requests,     \* PATCH requests served at the same time
  MaxOps,       \* bound on requests, runs of the command, shares backfilled
  MaxFaults     \* bound on deaths and abandoned cycles

Blank == [text |-> <<>>, padded |-> FALSE]
Codes == {k[1] : k \in Keys}
Workers == {"scheduler", "cli"}

(* A character is a number; those from 0 to 9 are the digits.              *)
Titles == [text : Seq(Nat), padded : BOOLEAN]

ASSUME TitlesAssumption ==
  /\ \A c \in Codes : TitleOn115[c] \in Titles
  /\ \A t \in NewTitles : t \in Titles /\ t.text # <<>> /\ ~t.padded
  /\ MaxOps \in Nat /\ MaxFaults \in Nat
ASSUME ImportAssumption ==
  /\ Keys \subseteq Codes \X {k[2] : k \in Keys}
  /\ Imported \in Seq(Keys) /\ IsInjective(Imported)

VARIABLES
  rows,      \* table share, by id: code, receive code, title, due for a crawl
  nextId,    \* AUTOINCREMENT
  stage,     \* stage[w]: what worker w does next
  batch,     \* what ListSharesForCrawl returned and is still to be crawled
  plan,      \* plan[w]: renames that DedupeShareTitles has still to write
  patch,     \* PATCH requests in progress
  alone,     \* alone[w]: nobody else has written since w listed the shares
  ops, faults

table == <<rows, nextId>>
vars  == <<rows, nextId, stage, batch, plan, patch, alone, ops, faults>>

NoRequest == [at |-> "none", code |-> "", title |-> Blank]

Init ==
  /\ rows = [i \in 1..Len(Imported) |->
               [code |-> Imported[i][1], rc |-> Imported[i][2], title |-> Blank, due |-> TRUE]]
  /\ nextId = Len(Imported) + 1
  /\ stage = [w \in Workers |-> "idle"]
  /\ batch = <<>>
  /\ plan = [w \in Workers |-> <<>>]
  /\ patch = [r \in Requests |-> NoRequest]
  /\ alone = [w \in Workers |-> FALSE]
  /\ ops = 0 /\ faults = 0

-----------------------------------------------------------------------------
(* The planner. *)

GoTrim_Raw(t) == t        \* mutant: group by the stored title
GoTrim(t)  == [t EXCEPT !.padded = FALSE]
SqlTrim(t) == t

Holders(snap, t) == {i \in DOMAIN snap : GoTrim(snap[i].title) = t}
First(snap, i) ==
  CHOOSE j \in Holders(snap, GoTrim(snap[i].title)) :
    \A k \in Holders(snap, GoTrim(snap[i].title)) : j <= k
Losers(snap) == {i \in DOMAIN snap : GoTrim(snap[i].title) # Blank /\ First(snap, i) # i}

(* base + strconv.Itoa(n) for the first n = 1, 2, ... that nobody uses. *)
Itoa[n \in Nat] == IF n < 10 THEN <<n>> ELSE Append(Itoa[n \div 10], n % 10)
With(base, n) == [base EXCEPT !.text = @ \o Itoa[n]]

Candidate_NotChecked(base, used) == With(base, 1)  \* mutant
Candidate(base, used) ==
  LET Free == {n \in 1..(Cardinality(used) + 1) : With(base, n) \notin used}
  IN  With(base, CHOOSE n \in Free : \A m \in Free : n <= m)

(* Groups in the order of their first holder, members in the order of ids; *)
(* every title given out counts as used for the rest.                      *)
Before(snap, i, j) ==
  \/ First(snap, i) < First(snap, j)
  \/ First(snap, i) = First(snap, j) /\ i < j
InOrder(snap) ==
  CHOOSE s \in [1..Cardinality(Losers(snap)) -> Losers(snap)] :
    \A m, n \in DOMAIN s : m < n => Before(snap, s[m], s[n])
Used(snap) == {GoTrim(snap[i].title) : i \in DOMAIN snap}

PlanShareRenames(snap) ==
  LET order == InOrder(snap)
      to[n \in DOMAIN order] ==
        Candidate(GoTrim(snap[order[n]].title), Used(snap) \cup {to[m] : m \in 1..(n - 1)})
  IN  [n \in DOMAIN order |-> [code |-> snap[order[n]].code, to |-> to[n]]]

-----------------------------------------------------------------------------
(* Store calls. *)

IdsOf(code) == {i \in DOMAIN rows : rows[i].code = code}
IdsOfKey(k) == {i \in IdsOf(k[1]) : rows[i].rc = k[2]}
Disturb(writer) == alone' = [w \in Workers |-> alone[w] /\ w = writer]

Insert(k, title) ==
  /\ rows' = [i \in DOMAIN rows \cup {nextId} |->
                IF i = nextId THEN [code |-> k[1], rc |-> k[2], title |-> title, due |-> TRUE]
                ELSE rows[i]]
  /\ nextId' = nextId + 1
SetTitle(ids, title) ==
  /\ rows' = [i \in DOMAIN rows |->
                IF i \in ids THEN [rows[i] EXCEPT !.title = title] ELSE rows[i]]
  /\ UNCHANGED nextId
SetDue(ids, due) ==
  /\ rows' = [i \in DOMAIN rows |->
                IF i \in ids THEN [rows[i] EXCEPT !.due = due] ELSE rows[i]]
  /\ UNCHANGED nextId

RenameShareTitle(code, title) == SetTitle(IdsOf(code), title)

UpdateShareMeta(k, title) ==
  \/ /\ IdsOfKey(k) = {}
     /\ Insert(k, title)
  \/ /\ IdsOfKey(k) # {}
     /\ SetTitle(IdsOfKey(k), title)

UpsertShare_NoConflictClause(k) == Insert(k, Blank)                      \* mutant
UpsertShare(k) ==
  \/ /\ IdsOfKey(k) = {}
     /\ Insert(k, Blank)
  \/ /\ IdsOfKey(k) # {}
     /\ SetDue(IdsOfKey(k), TRUE)

FindShareTitleConflict(title, code) ==
  \E i \in DOMAIN rows : SqlTrim(rows[i].title) = title /\ rows[i].code # code

-----------------------------------------------------------------------------
(* The scheduler's cycle. *)

ListSharesForCrawl ==
  /\ stage["scheduler"] = "idle"
  /\ LET due == {i \in DOMAIN rows : rows[i].due}
     IN \E order \in Injection(1..Cardinality(due), due) :
          batch' = [n \in 1..Cardinality(due) |->
                      [key      |-> <<rows[order[n]].code, rows[order[n]].rc>>,
                       untitled |-> rows[order[n]].title = Blank]]
  /\ stage' = [stage EXCEPT !["scheduler"] = "crawl"]
  /\ UNCHANGED <<table, plan, patch, alone, ops, faults>>

(* A page fills the title that was empty in the snapshot. Whether a page   *)
(* is served at all is left open: the share may be dead, fail, or have a   *)
(* checkpoint with nothing left to ask for.                                *)
TitleFilled(s) ==
  \/ /\ s.untitled /\ TitleOn115[s.key[1]] # Blank
     /\ UpdateShareMeta(s.key, TitleOn115[s.key[1]])
     /\ Disturb("crawl")
  \/ UNCHANGED <<table, alone>>

CrawlShare ==
  /\ stage["scheduler"] = "crawl" /\ batch # <<>>
  /\ TitleFilled(Head(batch))
  /\ stage' = [stage EXCEPT !["scheduler"] = "verdict"]
  /\ UNCHANGED <<batch, plan, patch, ops, faults>>

(* COMPLETED, DEAD and DUPLICATE settle a share, any other status is due   *)
(* again; the verdict goes by share_code.                                  *)
Verdict ==
  /\ stage["scheduler"] = "verdict"
  /\ \E again \in BOOLEAN : SetDue(IdsOf(Head(batch).key[1]), again)
  /\ batch' = Tail(batch)
  /\ stage' = [stage EXCEPT !["scheduler"] = "crawl"]
  /\ UNCHANGED <<plan, patch, alone, ops, faults>>

(* A death, a pause or an error of the store ends a cycle before its end,  *)
(* a kill the command.                                                     *)
Abandon(w) ==
  /\ stage[w] # "idle" /\ faults < MaxFaults
  /\ faults' = faults + 1
  /\ stage' = [stage EXCEPT ![w] = "idle"]
  /\ plan'  = [plan EXCEPT ![w] = <<>>]
  /\ batch' = IF w = "scheduler" THEN <<>> ELSE batch
  /\ UNCHANGED <<table, patch, alone, ops>>

-----------------------------------------------------------------------------
(* DedupeShareTitles. *)

MayStart(w) ==
  \/ w = "scheduler" /\ stage[w] = "crawl" /\ batch = <<>> /\ UNCHANGED ops
  \/ w = "cli" /\ stage[w] = "idle" /\ ops < MaxOps /\ ops' = ops + 1

ListShares(w) ==
  /\ MayStart(w)
  /\ plan'  = [plan EXCEPT ![w] = PlanShareRenames(rows)]
  /\ stage' = [stage EXCEPT ![w] = "apply"]
  /\ alone' = [alone EXCEPT ![w] = TRUE]
  /\ UNCHANGED <<table, batch, patch, faults>>

ApplyRename(w) ==
  /\ stage[w] = "apply" /\ plan[w] # <<>>
  /\ RenameShareTitle(Head(plan[w]).code, Head(plan[w]).to)
  /\ Disturb(w)
  /\ plan' = [plan EXCEPT ![w] = Tail(@)]
  /\ UNCHANGED <<stage, batch, patch, ops, faults>>

Applied(w) ==
  /\ stage[w] = "apply" /\ plan[w] = <<>>
  /\ stage' = [stage EXCEPT ![w] = "idle"]
  /\ UNCHANGED <<table, batch, plan, patch, alone, ops, faults>>

-----------------------------------------------------------------------------
(* The admin API. *)

Request == ops < MaxOps /\ ops' = ops + 1

HandleShareAdd ==
  /\ Request
  /\ \E k \in Keys : UpsertShare(k)
  /\ Disturb("admin")
  /\ UNCHANGED <<stage, batch, plan, patch, faults>>

HandleShareDelete ==
  /\ Request
  /\ \E code \in {rows[i].code : i \in DOMAIN rows} :
       rows' = [i \in DOMAIN rows \ IdsOf(code) |-> rows[i]]
  /\ Disturb("admin")
  /\ UNCHANGED <<nextId, stage, batch, plan, patch, faults>>

(* handleShareRename: GetShare, FindShareTitleConflict, RenameShareTitle.  *)
RenameGetShare(r) ==
  /\ Request /\ patch[r].at = "none"
  /\ \E code \in {rows[i].code : i \in DOMAIN rows}, title \in NewTitles :
       patch' = [patch EXCEPT ![r] = [at |-> "find", code |-> code, title |-> title]]
  /\ UNCHANGED <<table, stage, batch, plan, alone, faults>>

RenameFindConflict(r) ==
  /\ patch[r].at = "find"
  /\ patch' = [patch EXCEPT ![r] =
       IF FindShareTitleConflict(@.title, @.code) THEN NoRequest ELSE [@ EXCEPT !.at = "rename"]]
  /\ UNCHANGED <<table, stage, batch, plan, alone, ops, faults>>

RenameWrite(r) ==
  /\ patch[r].at = "rename"
  /\ RenameShareTitle(patch[r].code, patch[r].title)
  /\ patch' = [patch EXCEPT ![r] = NoRequest]
  /\ Disturb("admin")
  /\ UNCHANGED <<stage, batch, plan, ops, faults>>

(* backfillShareMeta, one call of the store for each share of the file     *)
(* that 115 still has; in no order that anybody else would notice.         *)
Backfill ==
  /\ Request
  /\ \E k \in ToSet(Imported) : UpdateShareMeta(k, TitleOn115[k[1]])
  /\ Disturb("backfill")
  /\ UNCHANGED <<stage, batch, plan, patch, faults>>

-----------------------------------------------------------------------------
Cycle ==
  \/ ListSharesForCrawl \/ CrawlShare \/ Verdict
  \/ ListShares("scheduler") \/ ApplyRename("scheduler") \/ Applied("scheduler")

Next ==
  \/ Cycle
  \/ ListShares("cli") \/ ApplyRename("cli") \/ Applied("cli")
  \/ \E w \in Workers : Abandon(w)
  \/ HandleShareAdd \/ HandleShareDelete \/ Backfill
  \/ \E r \in Requests : RenameGetShare(r) \/ RenameFindConflict(r) \/ RenameWrite(r)

(* The daemon's loop keeps cycling; operators and crawls promise nothing.  *)
Fairness == WF_vars(Cycle)

Spec == Init /\ [][Next]_vars /\ Fairness

-----------------------------------------------------------------------------
TableOK ==
  /\ nextId \in Nat \ {0} /\ DOMAIN rows \subseteq 1..(nextId - 1)
  /\ rows \in [DOMAIN rows ->
        [code : Codes, rc : {k[2] : k \in Keys}, title : Titles, due : BOOLEAN]]
  /\ \A i \in DOMAIN rows : <<rows[i].code, rows[i].rc>> \in Keys
  /\ \A i, j \in DOMAIN rows :
       rows[i].code = rows[j].code /\ rows[i].rc = rows[j].rc => i = j

WorkersOK ==
  /\ stage \in [Workers -> {"idle", "crawl", "verdict", "apply"}]
  /\ stage["cli"] \in {"idle", "apply"} /\ (stage["scheduler"] = "verdict" => batch # <<>>)
  /\ batch \in Seq([key : Keys, untitled : BOOLEAN])
  /\ plan \in [Workers -> Seq([code : Codes, to : Titles])]
  /\ alone \in [Workers -> BOOLEAN]

(* Types, and the UNIQUE constraint of table share.                        *)
TypeOK ==
  /\ TableOK /\ WorkersOK
  /\ patch \in [Requests ->
        [at : {"none", "find", "rename"}, code : Codes \cup {""}, title : Titles]]
  /\ ops \in 0..MaxOps /\ faults \in 0..MaxFaults

(* DedupeShareTitles is idempotent, as its comment, its test and its       *)
(* design say: when nobody else has written since it listed the shares, a  *)
(* second run right after it finds nothing to rename. Not so when a share  *)
(* has two receive codes: RenameShareTitle gives both rows the same title. *)
OneRowPerCode == \A i, j \in DOMAIN rows : rows[i].code = rows[j].code => i = j
DedupeIdempotent ==
  \A w \in Workers :
    stage[w] = "apply" /\ plan[w] = <<>> /\ alone[w] /\ OneRowPerCode =>
      PlanShareRenames(rows) = <<>>

(* Titles become distinct and stay so, whatever the races between crawl,   *)
(* PATCH, the command and interrupted plans left behind: the consumer      *)
(* browses shares by title and can open only one of two that share it.     *)
TitlesDistinct ==
  \A i, j \in DOMAIN rows :
    rows[i].title.text # <<>> /\ rows[i].title.text = rows[j].title.text => i = j
EventuallyDistinct == <>[]TitlesDistinct
=============================================================================
