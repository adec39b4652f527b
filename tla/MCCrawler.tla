------------------------------ MODULE MCCrawler ------------------------------
(* A share small enough for TLC with every shape of folder the walk treats   *)
(* differently: two pages (root and c), no page at all (a), a page with      *)
(* nothing indexable (c's first), and a folder three levels down (d).        *)
EXTENDS Crawler

P(ds, ms) == [dirs |-> ds, media |-> ms]

MCDirs  == {"0", "a", "b", "c"}
MCMedia == {"m1", "m2", "m3"}
MCPages ==
  [d \in MCDirs |->
     CASE d = "0" -> <<P(<<"a">>, {"m1"}), P(<<"b">>, {})>>
       [] d = "a" -> << >>
       [] d = "b" -> <<P(<<"c">>, {"m2"})>>
       [] d = "c" -> <<P(<< >>, {}), P(<< >>, {"m3"})>>]
MCLevel == [d \in MCDirs |-> CASE d = "0" -> 0 [] d \in {"a", "b"} -> 1
                               [] d = "c" -> 2]
=============================================================================
