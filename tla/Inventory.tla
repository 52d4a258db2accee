----------------------------- MODULE Inventory -----------------------------
(***************************************************************************)
(* The inventory of src/src/inventory.rs: which hosts of a document the    *)
(* agent may see, and which one a reference given to a tool means.         *)
(*                                                                         *)
(* A document is the sequence of its hosts, records with an id, a name, a  *)
(* folder, a user and a uri.  How texts compare is given by the constants. *)
(***************************************************************************)
EXTENDS Naturals, Sequences

CONSTANTS
    AllowNames,    \* scope.allow_host_names
    AllowFolders,  \* scope.allow_folders, trimmed and in lower case
    Sentinels,     \* the spellings of ALL_HOSTS and *
    Within,        \* pairs <<a, b>>: b contains a, in lower case
    Alike          \* pairs <<a, b>>: a and b differ in nothing but case

HasPart(text, part) == part = "" \/ <<part, text>> \in Within

SameText(a, b) == a = b \/ <<a, b>> \in Alike

AllowAll == (AllowNames \cup AllowFolders) \cap Sentinels # {}

\* Inventory::load filters the blank entries of allow_folders.
InScope(h) ==
    \/ AllowAll
    \/ h.name \in AllowNames
    \/ \E f \in AllowFolders \ {""} : HasPart(h.folder, f)

\* Mutant of Visible: an operation may mean any host of the document.
VisibleAll(hosts) == DOMAIN hosts

\* The places of the hosts that the agent may see.
Visible(hosts) == {i \in DOMAIN hosts : InScope(hosts[i])}

\* query_hosts, without the glob of its name filter
Query(hosts, name, folder) ==
    {i \in Visible(hosts) :
        HasPart(hosts[i].name, name) /\ HasPart(hosts[i].folder, folder)}

First(places) == {i \in places : \A j \in places : i <= j}

\* The hosts that ref means: by id, or else by name, or else by a part of the
\* name.  The first of the same id, or the same name, is meant.
Meant(hosts, ref) ==
    LET byId == {i \in Visible(hosts) : hosts[i].id = ref}
        byName == {i \in Visible(hosts) : SameText(hosts[i].name, ref)}
    IN  IF byId # {} THEN First(byId)
        ELSE IF byName # {} THEN First(byName)
        ELSE Query(hosts, ref, "")

\* Inventory::resolve: several candidates are none.
Resolved(hosts, ref) == {hosts[i] : i \in {j \in Meant(hosts, ref) : Meant(hosts, ref) = {j}}}
=============================================================================
