--------------------------- MODULE MCRoyalDocument ---------------------------
(* Small instances of RoyalDocument for TLC. *)
EXTENDS RoyalDocument
==============================================================================
