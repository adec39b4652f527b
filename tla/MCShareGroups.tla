----------------------------- MODULE MCShareGroups -----------------------------
(* Two codes, one of them with two receive codes; lists and overlays with    *)
(* repeated, moved and unreadable lines.                                     *)
EXTENDS ShareGroups

X1 == <<"x", "1">>
X2 == <<"x", "2">>
Y1 == <<"y", "1">>

MCKeys == {X1, X2, Y1}

MCImportLists ==
  { <<Header("h"), ShareLine(X1), ShareLine(X2), ShareLine(X1)>>,
    <<ShareLine(Y1), SkippedLine, ShareLine(X1)>>,
    <<ShareLine(Y1), BadLine>> }

MCOverlays ==
  { <<Header("g"), ShareLine(X1), ShareLine(Y1), Header("h"), ShareLine(X2)>>,
    <<Header("h"), SkippedLine, Header("g"), ShareLine(Y1), ShareLine(Y1)>>,
    <<Header("g"), ShareLine(X1), Header("h"), ShareLine(X1),
      Header("i"), ShareLine(Y1), Header("g"), ShareLine(X1)>>,
    <<ShareLine(X1), Header("g")>>,
    <<Header("g"), BadLine>> }
=============================================================================
