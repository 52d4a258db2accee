----------------------------- MODULE MCFileOps -----------------------------
(* Small instances of FileOps for TLC. *)
EXTENDS FileOps

CONSTANTS e1, e2, p1, p2, x, y

TwoEdits == {e1, e2}
TwoPuts == {p1, p2}
TwoTexts == {x, y}

\* Both texts, one of them twice, and no file.
HostContents == {<<x, y>>, <<x, x>>, None}
=============================================================================
