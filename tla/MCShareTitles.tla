----------------------------- MODULE MCShareTitles -----------------------------
(* Three shares of which 115 calls two "T" (the second padded) and the third *)
(* "T1", the very title a rename of the second would pick.                   *)
EXTENDS ShareTitles

T == 84    \* a letter
Text(w) == [text |-> w, padded |-> FALSE]
MCTitleOn115 == [c \in {"a", "b", "c"} |->
  IF c = "a" THEN Text(<<T>>)
  ELSE IF c = "b" THEN [text |-> <<T>>, padded |-> TRUE]
  ELSE Text(<<T, 1>>)]
MCNewTitles == {Text(<<T, 1>>)}

MCKeys     == {"a", "b", "c"} \X {"r"}
MCImported == <<<<"a", "r">>, <<"b", "r">>, <<"c", "r">>>>
=============================================================================
