------------------------------ MODULE ShareIndex ------------------------------
(***************************************************************************)
(* What crawling one share promises, without queues, checkpoints, retries  *)
(* or restarts: the share's pages are brought into the index one by one,   *)
(* a page only after the page before it in its folder and after the page   *)
(* that lists its folder; a page once done stays done, its rows stay, and  *)
(* the share is declared done only when no page is left to do.             *)
(*                                                                         *)
(* Abstract counterpart of CrawlShare (internal/crawler/crawler.go): a     *)
(* crash, a failure or a pause is a stuttering step here.                  *)
(***************************************************************************)
EXTENDS Naturals, Sequences

CONSTANTS Dirs, Root, Pages, PageRows(_, _)

VARIABLES
  rows,      \* what the index holds
  skipped,   \* pages whose content the server would not give
  done,      \* pages that need not be fetched again, as <<folder, number>>
  complete   \* the share has been declared crawled

svars == <<rows, skipped, done, complete>>

Listed(d, k) == { Pages[d][k].dirs[i] : i \in DOMAIN Pages[d][k].dirs }

\* The pages that may be done next.
Frontier ==
  { p \in UNION { {d} \X (1..Len(Pages[d])) : d \in Dirs } :
      /\ p \notin done
      /\ \A j \in 1..(p[2] - 1) : <<p[1], j>> \in done
      /\ \/ p[1] = Root
         \/ \E q \in done : q \notin skipped /\ p[1] \in Listed(q[1], q[2]) }

SInit == rows = {} /\ skipped = {} /\ done = {} /\ complete = FALSE

\* The server answers for the page: with its content, or with nothing.
Ask(p) ==
  /\ p \in Frontier
  /\ skipped' \in {skipped \cup {p}, skipped \ {p}}
  /\ UNCHANGED <<rows, done, complete>>

\* The page's rows reach the index.
Write(p) ==
  /\ p \in Frontier
  /\ p \notin skipped
  /\ rows' = rows \cup PageRows(p[1], p[2])
  /\ UNCHANGED <<skipped, done, complete>>

\* The page is done: its rows are in the index, or it is known as skipped.
Commit(p) ==
  /\ p \in Frontier
  /\ p \in skipped \/ PageRows(p[1], p[2]) \subseteq rows
  /\ done' = done \cup {p}
  /\ UNCHANGED <<rows, skipped, complete>>

Declare ==
  /\ Frontier = {}
  /\ complete' = TRUE
  /\ UNCHANGED <<rows, skipped, done>>

\* A reactivated share is open again; what it holds stays.
Reopen ==
  /\ complete' = FALSE
  /\ UNCHANGED <<rows, skipped, done>>

SNext ==
  \/ \E p \in Frontier : Ask(p) \/ Write(p) \/ Commit(p)
  \/ Declare
  \/ Reopen

SSpec == SInit /\ [][SNext]_svars
=============================================================================
