------------------------------ MODULE MCTools ------------------------------
(* A small instance of Tools: a document saved once, with hosts that share  *)
(* a part of their names, and two calls at a time, any number in a row.     *)
EXTENDS Tools, TLC

CONSTANTS c1, c2

TwoCalls == {c1, c2}
Swapped == Permutations(TwoCalls)

Host(id, name, folder) == [id |-> id, name |-> name, folder |-> folder, user |-> "u"]

\* The save moves web out of the scope: "web" means web2 from then on.
MCDocuments == <<
    <<Host("i1", "web", "prod"), Host("i2", "web2", "prod"), Host("i3", "lab", "test")>>,
    <<Host("i1", "web", "test"), Host("i2", "web2", "prod"), Host("i3", "lab", "prod")>>>>

MCWithin == {
    <<"prod", "prod">>, <<"web", "web">>, <<"web", "web2">>, <<"w", "web">>,
    <<"w", "web2">>}
MCAlike == {<<"web2", "WEB2">>}
MCReferences == {"web", "w"}
=============================================================================
