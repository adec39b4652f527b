------------------------------ MODULE MCRelease ------------------------------
(* Two shares that both hold a folder with the same id: in share 1 of too    *)
(* many episodes for its document, in share 2 of two spellings of one name.  *)
(* Both hold copies of a movie, share 2 one that is named as an episode, and *)
(* a row without a hash. Share 1, the representative, may die or be deleted. *)
EXTENDS Release

\* A name of two words; a dot makes one term of them.
Name(text, dotted, marker) ==
  [text |-> text, marker |-> marker,
   terms |-> IF dotted THEN { {0, text} } ELSE { {0}, {text} }]
Folder(s, f, name) ==
  [share |-> s, file |-> f, parent |-> 0, dir |-> TRUE, name |-> name,
   ext |-> "none", sha |-> NoHash, size |-> 0]
File(s, f, parent, name, sha, bytes) ==
  [share |-> s, file |-> f, parent |-> parent, dir |-> FALSE, name |-> name,
   ext |-> "mkv", sha |-> sha, size |-> bytes]

Share1 == {Folder(1, 1, Name(9, TRUE, FALSE)),
           File(1, 2, 1, Name(1, TRUE, TRUE), "h1", 1),
           File(1, 3, 1, Name(2, FALSE, TRUE), "h2", 1),
           File(1, 5, 0, Name(5, FALSE, FALSE), "m", 3),
           File(1, 7, 0, Name(7, FALSE, FALSE), NoHash, 3)}

Share2 == {Folder(2, 1, Name(9, TRUE, FALSE)),
           File(2, 2, 1, Name(4, FALSE, FALSE), "h1", 1),
           File(2, 3, 1, Name(4, TRUE, FALSE), "h2", 1),
           File(2, 5, 0, Name(8, TRUE, FALSE), "m", 3),
           File(2, 6, 0, Name(6, FALSE, TRUE), "m", 3),
           File(2, 7, 0, Name(3, FALSE, FALSE), NoHash, 3)}

MCShares == {1, 2}
MCPages == {Share1, Share2}
=============================================================================
