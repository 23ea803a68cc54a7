--------------------------- MODULE MCNotebookFile ---------------------------
(* Up to three cells; files with unnamed cells, with a name given twice, and *)
(* with names that _ensure_names makes up.                                   *)
EXTENDS NotebookFile

A  == Name("a", <<>>)
A2 == Name("a", <<2>>)

MCNames == {A, A2, Name("b", <<>>)}

MCAutoName(s) == IF s = "# a" THEN A ELSE Name("cell", <<>>)

MCBooks == {
  <<Cell(Unnamed, "# a"), Cell(A, "x")>>,
  <<Cell(A2, "# a"), Cell(A, "x"), Cell(A, "x")>>}
============================================================================
