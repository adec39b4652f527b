------------------------------ MODULE ShareGroups ------------------------------
(***************************************************************************)
(* The share table as the lists of the operator fill it: import-shares     *)
(* (UpsertShare, one call per line) and import-groups (ApplyGroups, one    *)
(* transaction), while the crawler records metadata and verdicts and the   *)
(* operator deletes shares. A row is keyed by share_code and receive_code; *)
(* verdicts, groups and deletions go by share_code alone.                  *)
(*                                                                         *)
(* Abstracted: of the status, whether the share is DEAD; the title, size   *)
(* and failure columns; the files.                                         *)
(***************************************************************************)
EXTENDS ShareLists

CONSTANTS
  Keys,        \* <<share_code, receive_code>> of the shares there are
  ImportLists, \* the contents -shares-file may have
  Overlays,    \* the contents -groups-file may have
  MaxOps       \* bound on commands, verdicts, deletions and crashes

Codes == { Code(k) : k \in Keys }
Names == UNION { { o[i].name : i \in { j \in DOMAIN o : o[j].kind = "header" } } :
                 o \in ImportLists \cup Overlays }

Line == { ShareLine(k) : k \in Keys } \cup { Header(name) : name \in Names }
          \cup {SkippedLine, BadLine}

ASSUME ShareGroupsAssumption ==
  MaxOps \in Nat /\ ImportLists \cup Overlays \subseteq Seq(Line)

VARIABLES
  share,       \* table share: [status, group] of each key
  share_group, \* table share_group: the names, by group_id and sort_order
  import,      \* import-shares: "off", "running" or "done"
  list,        \* the list it was given
  pending,     \* the shares of it that are still to be upserted
  \* --- bookkeeping of the model
  overlay,     \* the list of the last import-groups
  warned,      \* the codes it warned about, as being in two groups
  unseen,      \* keys inserted since
  undone,      \* keys of the list that something else has changed since
  ops

table  == <<share, share_group>>
job    == <<import, list, pending>>
record == <<overlay, warned, unseen>>
vars   == <<table, job, record, undone, ops>>

\* group_id NULL is 0.
NoRow == [status |-> "none", group |-> 0]
Registered(k) == share[k].status # "none"

-----------------------------------------------------------------------------
Init ==
  /\ share = [k \in Keys |-> NoRow] /\ share_group = <<>>
  /\ import = "off" /\ list = <<>> /\ pending = <<>>
  /\ overlay = <<>> /\ warned = {} /\ unseen = {} /\ undone = {} /\ ops = 0

Op == ops < MaxOps /\ ops' = ops + 1

\* The row an INSERT ... ON CONFLICT leaves: the group is nobody's business.
Inserted_AsGiven(k) == [share[k] EXCEPT !.status = ""]
Inserted_NoGroup(k) == [NoRow EXCEPT !.status = "ACTIVE"]
Inserted(k) == [share[k] EXCEPT !.status = "ACTIVE"]

Insert(k) ==
  /\ share' = [share EXCEPT ![k] = Inserted(k)]
  /\ unseen' = IF Registered(k) THEN unseen ELSE unseen \cup {k}

-----------------------------------------------------------------------------
\* import-shares: the list is parsed as a whole before the first write.
StartImport ==
  /\ import # "running" /\ Op
  /\ list' \in ImportLists
  /\ IF Parses(list')
     THEN import' = "running" /\ pending' = ParsedShares(list')
     ELSE import' = "off" /\ pending' = <<>>
  /\ undone' = {}
  /\ UNCHANGED <<table, record>>

UpsertShare ==
  /\ import = "running" /\ pending # <<>>
  /\ Insert(Head(pending))
  /\ undone' = undone \ {Head(pending)}
  /\ pending' = Tail(pending)
  /\ UNCHANGED <<share_group, import, list, overlay, warned, ops>>

ImportDone ==
  /\ import = "running" /\ pending = <<>>
  /\ import' = "done"
  /\ UNCHANGED <<table, list, pending, record, undone, ops>>

\* An error of the store, or a kill: the shares so far stay.
ImportFails ==
  /\ import = "running" /\ Op
  /\ import' = "off" /\ pending' = <<>>
  /\ UNCHANGED <<table, list, record, undone>>

\* ApplyGroups: the old overlay is cleared, then the new one written.
Cleared_Not == share
Cleared == [k \in Keys |-> [share[k] EXCEPT !.group = 0]]

ImportGroups ==
  /\ Op
  /\ \E lines \in Overlays :
       LET parsed == ParseGroups(lines) IN
       IF ~parsed.ok THEN UNCHANGED <<table, record>>
       ELSE
         /\ share_group' = [i \in DOMAIN parsed.groups |-> parsed.groups[i].name]
         /\ share' = [k \in Keys |->
              IF Registered(k) /\ Owners(parsed.groups, Code(k)) # {}
              THEN [Cleared[k] EXCEPT !.group =
                      CHOOSE i \in Owners(parsed.groups, Code(k)) : TRUE]
              ELSE Cleared[k]]
         /\ overlay' = lines /\ warned' = parsed.duplicates /\ unseen' = {}
  /\ UNCHANGED <<job, undone>>

\* UpdateShareMeta, on a share's first page or from backfill-share-meta: a share
\* without a row gets one, that of a deleted one too; others stay as they are.
UpdateShareMeta(k) ==
  /\ Op /\ ~Registered(k)
  /\ Insert(k)
  /\ UNCHANGED <<share_group, job, overlay, warned, undone>>

\* All the rows of a code.
MarkShareDead(code) ==
  /\ Op /\ \E k \in Keys : Code(k) = code /\ Registered(k)
  /\ share' = [k \in Keys |-> IF Code(k) = code /\ Registered(k)
                              THEN [share[k] EXCEPT !.status = "DEAD"] ELSE share[k]]
  /\ undone' = undone \cup { k \in Keys : Code(k) = code }
  /\ UNCHANGED <<share_group, job, record>>

DeleteShare(code) ==
  /\ Op /\ \E k \in Keys : Code(k) = code /\ Registered(k)
  /\ share' = [k \in Keys |-> IF Code(k) = code THEN NoRow ELSE share[k]]
  /\ unseen' = { k \in unseen : Code(k) # code }
  /\ undone' = undone \cup { k \in Keys : Code(k) = code }
  /\ UNCHANGED <<share_group, job, overlay, warned>>

Next ==
  \/ StartImport \/ UpsertShare \/ ImportDone \/ ImportFails \/ ImportGroups
  \/ \E k \in Keys : UpdateShareMeta(k)
  \/ \E code \in Codes : MarkShareDead(code) \/ DeleteShare(code)

Spec == Init /\ [][Next]_vars

-----------------------------------------------------------------------------
\* Properties

\* The type invariant: group ids and names are those of some overlay.
TypeOK ==
  /\ share \in [Keys -> [status : {"none", "ACTIVE", "DEAD"}, group : Nat]]
  /\ share_group \in Seq(Names)
  /\ import \in {"off", "running", "done"}
  /\ list \in ImportLists \cup {<<>>} /\ pending \in Seq(Keys)
  /\ overlay \in Overlays \cup {<<>>} /\ warned \subseteq Codes
  /\ unseen \subseteq Keys /\ undone \subseteq Keys
  /\ \A k \in Keys : ~Registered(k) => share[k] = NoRow

\* sqlite.go:681-686, groups.go:39-41: whatever imports, crawls and deletions
\* come after it, the last overlay that could be read is in force: its groups
\* in their order, every share under the last group that names it, and all
\* others, with those inserted since, under none. The codes "returned in
\* duplicates for the caller to warn about" are those under two headers.
OverlayInForce ==
  /\ Len(share_group) = HeadersUpTo(overlay, Len(overlay))
  /\ \A k \in Keys : Registered(k) =>
       share[k].group = IF k \in unseen THEN 0 ELSE LastGroupOf(overlay, Code(k))
  /\ warned = { code \in Codes : InTwoGroups(overlay, code) }

\* README.md:81-85: import-shares is done when every share of the list, under
\* each of its receive codes, is there to be crawled, dead and deleted ones
\* too; a share that was marked or deleted since its turn is excepted.
ImportComplete ==
  import = "done" =>
    \A i \in DOMAIN list : list[i].kind = "share" /\ list[i].key \notin undone =>
      share[list[i].key].status = "ACTIVE"
=============================================================================
