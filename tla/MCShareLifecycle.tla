--------------------------- MODULE MCShareLifecycle ---------------------------
(* Two shares, one of two pages and one of a single page: enough for a stale *)
(* snapshot of the second while the first is crawled, for a run that resumes *)
(* in the middle, and for one share to be the other's canonical. The first   *)
(* page of the longer one lists folders only: its rows are no bar to DELETE. *)
EXTENDS ShareLifecycle

MCShares == {"s", "t"}
MCFolderPages == [x \in MCShares |-> IF x = "s" THEN {1} ELSE {}]
MCPages  == [x \in MCShares |-> IF x = "s" THEN 2 ELSE 1]
=============================================================================
