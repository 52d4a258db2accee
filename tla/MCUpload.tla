------------------------------ MODULE MCUpload ------------------------------
(* Small instances of Upload for TLC. *)
EXTENDS Upload, TLC

CONSTANTS c1, c2, t1, t2, f1, f2, f3, f4

TwoChunks == {c1, c2}
TwoClosers == {t1, t2}

\* The two names and one handle for each chunk.
FourFiles == {f1, f2, f3, f4}

\* The whole file in the order of the client, and its first chunk only.
ClientContents == {<<c1>>, <<c1, c2>>}

\* Chunks are told apart by ClientContents and files are chosen by CHOOSE.
MCSymmetry == Permutations(Closers)
=============================================================================
