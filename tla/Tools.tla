------------------------------- MODULE Tools -------------------------------
(***************************************************************************)
(* The tool calls of src/src/server.rs, as they run beside each other: the *)
(* host they resolve in the inventory, the approval they ask for, the      *)
(* credential they get from the vault daemon, their contacts with the host *)
(* and their audit record; and refresh_inventory, which replaces the       *)
(* inventory under them.                                                   *)
(*                                                                         *)
(* Every version of the Royal document has its own uri and its own         *)
(* credential for each host.  What a contact does on the host is in the    *)
(* modules FileOps and Upload, how it gets there in SshPool, how the       *)
(* daemon keeps its document in VaultDaemon and RoyalDocument.             *)
(***************************************************************************)
EXTENDS Inventory, FiniteSets, SequencesExt

CONSTANTS
    Calls,       \* bound: places for calls, one after another in each
    Documents,   \* the versions of the Royal document, in the order of saves
    References,  \* texts that an agent may name a host with
    None,        \* no upload, no target
    MaxUploads   \* bound: uploads in the map

\* What a tool does once its host is resolved, or its upload is found.
Plan == [
    exec |-> <<"cred", "run">>,
    health_check |-> <<"cred", "try", "try", "try">>,
    file_get |-> <<"cred", "run">>,
    file_put |-> <<"ask", "cred", "write">>,
    file_edit |-> <<"cred", "look", "ask", "run", "write">>,
    upload_start |-> <<"ask", "cred", "write">>,
    upload_chunk |-> <<"cred", "write">>,
    upload_finish |-> <<"cred", "verify", "write">>,
    upload_abort |-> <<"cred", "drop">>,
    refresh_inventory |-> <<"load", "swap", "reload">>]

OnHost == {"exec", "health_check", "file_get", "file_put", "file_edit", "upload_start"}
Readers == {"query_hosts", "get_host", "list_credentials"}

OnUpload == {"upload_chunk", "upload_finish", "upload_abort"}

Versions == 1..Len(Documents)

\* HostView, with the version of the document it is of.
Targets == [host : UNION {ToSet(Documents[v]) : v \in Versions}, version : Versions]

ASSUME ToolsAssumption ==
    /\ Len(Documents) \in Nat \ {0}
    /\ None \notin Targets
    /\ MaxUploads \in Nat

VARIABLES
    approval,   \* approval_mode
    saved,      \* the version of the document on disk
    inv,        \* the version the inventory was loaded from
    opened,     \* the version that the daemon has open, 0 when it is not up
    uploads,    \* the map of uploads, with the place of each as its id
    call,       \* the locals of each call
    refreshed,  \* history: the newest version loaded at a start, or by a
                \* refresh that succeeded
    overlapped  \* history: two refreshes have loaded side by side

vars == <<approval, saved, inv, opened, uploads, call, refreshed, overlapped>>

\* UploadState; approved and since are history.
Uploads == [target : Targets, approved : Targets \cup {None}, since : Versions]

Stages == {"ask", "cred", "run", "try", "look", "verify", "write", "drop",
           "load", "swap", "reload"}

\* rest is what is still to do; loaded is what a refresh has read; records counts
\* the call's audit records.
\* History: reached says that a host was reached, changed that something was
\* changed there or in the server's own state, approved what a human was shown,
\* since the value of refreshed when the target was looked up, and began that
\* value when the call began.
Locals == [
    tool : DOMAIN Plan \cup Readers \cup {"none"},
    state : {"idle", "work", "answered"},
    rest : Seq(Stages),
    target : Targets \cup {None},
    cred : Versions \cup {0}, loaded : Versions \cup {0}, records : 0..1,
    reached : BOOLEAN, changed : BOOLEAN, approved : Targets \cup {None},
    since : Versions \cup {0}, began : Versions \cup {0}]

Idle == [
    tool |-> "none", state |-> "idle", rest |-> <<>>, target |-> None,
    cred |-> 0, loaded |-> 0, records |-> 0,
    reached |-> FALSE, changed |-> FALSE, approved |-> None, since |-> 0, began |-> 0]

Init ==
    /\ approval \in {"elicitation", "agent"}
    /\ saved = 1
    /\ inv = 1
    /\ opened = 0
    /\ uploads = [u \in Calls |-> None]
    /\ call = [t \in Calls |-> Idle]
    /\ refreshed = saved
    /\ overlapped = FALSE

TypeOK ==
    /\ approval \in {"elicitation", "agent"}
    /\ saved \in Versions /\ inv \in Versions /\ opened \in Versions \cup {0}
    /\ uploads \in [Calls -> Uploads \cup {None}]
    /\ refreshed \in Versions
    /\ overlapped \in BOOLEAN
    /\ call \in [Calls -> Locals]
    /\ \A t \in Calls : call[t].rest # <<>> <=> call[t].state = "work"

------------------------------------------------------------------------------
(* How a call begins, goes on and ends *)

Becomes(t, c) == call' = [call EXCEPT ![t] = c]

Begun(k) == [Idle EXCEPT !.tool = k, !.since = refreshed, !.began = refreshed]

AtWork(c) == [c EXCEPT !.state = "work", !.rest = Plan[c.tool]]

\* The call answers, and its locals are dropped.
Answered(c) ==
    [Idle EXCEPT !.tool = c.tool, !.state = "answered", !.records = c.records,
                 !.reached = c.reached, !.changed = c.changed]

\* It writes its record and answers.
Recorded(c) == [Answered(c) EXCEPT !.records = @ + 1]

\* The last thing a call does leads to its record.
GoneOn(c) == IF Len(c.rest) = 1 THEN Recorded(c) ELSE [c EXCEPT !.rest = Tail(@)]

IsIdle(t) == call[t].state = "idle"

Does(t, stage) == call[t].state = "work" /\ Head(call[t].rest) = stage

\* The answer is out; the place is free for another call.
Return(t) ==
    /\ call[t].state = "answered"
    /\ Becomes(t, Idle)
    /\ UNCHANGED <<approval, saved, inv, opened, uploads, refreshed, overlapped>>

------------------------------------------------------------------------------
(* Beginnings *)

\* query_hosts, get_host and list_credentials do all under the read lock.
Reads(t) ==
    /\ IsIdle(t)
    /\ \E k \in Readers : Becomes(t, Recorded(Begun(k)))
    /\ UNCHANGED <<approval, saved, inv, opened, uploads, refreshed, overlapped>>

\* resolve_host: the host as this inventory has it.
Looks(ref) ==
    {[host |-> h, version |-> inv] : h \in Resolved(Documents[inv], ref)}

\* The host is resolved, and path, limiter, size and policy let the call pass.
Passes(t) ==
    /\ IsIdle(t)
    /\ \E k \in OnHost, ref \in References : \E to \in Looks(ref) :
          Becomes(t, AtWork([Begun(k) EXCEPT !.target = to]))
    /\ UNCHANGED <<approval, saved, inv, opened, uploads, refreshed, overlapped>>

\* Before anything else: a file_put with both contents or none, and a file_put or
\* upload_chunk whose base64 cannot be decoded.  That is answered, and not recorded.
Malformed(t) ==
    /\ IsIdle(t)
    /\ \E k \in {"file_put", "upload_chunk"} : Becomes(t, Answered(Begun(k)))
    /\ UNCHANGED <<approval, saved, inv, opened, uploads, refreshed, overlapped>>

\* No host, or several, are meant; or one of those checks refuses.
Denied(t) ==
    /\ IsIdle(t)
    /\ \E k \in OnHost : Becomes(t, Recorded(Begun(k)))
    /\ UNCHANGED <<approval, saved, inv, opened, uploads, refreshed, overlapped>>

\* Mutant of TargetOf: the host is looked up again, in today's inventory.
TargetOfToday(u) ==
    IF \E h \in ToSet(Documents[inv]) : h.id = uploads[u].target.host.id
    THEN [host |-> CHOOSE h \in ToSet(Documents[inv]) :
                       h.id = uploads[u].target.host.id,
          version |-> inv]
    ELSE uploads[u].target

\* The id, the uri and the port are those that upload_start resolved.
TargetOf(u) == uploads[u].target

Open == {u \in Calls : uploads[u] # None}

\* The map is looked up: a chunk reads the entry, the others take it out.
FindsUpload(t) ==
    /\ IsIdle(t)
    /\ \E k \in OnUpload, u \in Open :
          /\ Becomes(t, AtWork([Begun(k) EXCEPT
                !.target = TargetOf(u), !.approved = uploads[u].approved,
                !.since = uploads[u].since, !.changed = (k # "upload_chunk")]))
          /\ uploads' = IF k = "upload_chunk" THEN uploads
                        ELSE [uploads EXCEPT ![u] = None]
    /\ UNCHANGED <<approval, saved, inv, opened, refreshed, overlapped>>

\* An upload that is not in the map: the answer is all there is of it.
FindsNoUpload(t) ==
    /\ IsIdle(t)
    /\ \E k \in OnUpload : Becomes(t, Answered(Begun(k)))
    /\ UNCHANGED <<approval, saved, inv, opened, uploads, refreshed, overlapped>>

\* The limiter refuses a chunk of an upload that is.
ChunkLimited(t) ==
    /\ IsIdle(t)
    /\ Open # {}
    /\ Becomes(t, Recorded(Begun("upload_chunk")))
    /\ UNCHANGED <<approval, saved, inv, opened, uploads, refreshed, overlapped>>

Refreshes(t) ==
    /\ IsIdle(t)
    /\ Becomes(t, AtWork(Begun("refresh_inventory")))
    /\ UNCHANGED <<approval, saved, inv, opened, uploads, refreshed, overlapped>>

------------------------------------------------------------------------------
(* Approval and credential *)

\* ask_approval: in mode agent nobody is asked.
Approves(t) ==
    /\ Does(t, "ask")
    /\ Becomes(t, GoneOn(
          IF approval = "elicitation"
          THEN [call[t] EXCEPT !.approved = call[t].target] ELSE call[t]))
    /\ UNCHANGED <<approval, saved, inv, opened, uploads, refreshed, overlapped>>

\* Declined, cancelled, no answer, or nobody there to ask.
Declines(t) ==
    /\ Does(t, "ask")
    /\ approval = "elicitation"
    /\ Becomes(t, Recorded(call[t]))
    /\ UNCHANGED <<approval, saved, inv, opened, uploads, refreshed, overlapped>>

\* resolve_cred: the daemon opens the document when it is not up, or when the
\* file has changed; a locked file leaves it with what it has open.
GetsCred(t) ==
    /\ Does(t, "cred")
    /\ opened' \in {saved, opened} \ {0}
    /\ Becomes(t, GoneOn([call[t] EXCEPT !.cred = opened']))
    /\ UNCHANGED <<approval, saved, inv, uploads, refreshed, overlapped>>

CredFails(t) ==
    /\ Does(t, "cred")
    /\ Becomes(t, Recorded(call[t]))
    /\ UNCHANGED <<approval, saved, inv, opened, uploads, refreshed, overlapped>>

------------------------------------------------------------------------------
(* Contacts *)

\* Whether what c is about to do may change something on the host.
Changes(c) == c.tool = "exec" \/ Head(c.rest) \in {"write", "drop"}

Contact(t) == [call[t] EXCEPT !.reached = TRUE, !.changed = (@ \/ Changes(call[t]))]

\* What upload_start puts into the map once the temporary is there.
Kept(c) == [target |-> c.target, approved |-> c.approved, since |-> c.since]

\* A contact that succeeds.
Succeeds(t) ==
    /\ \E stage \in {"run", "write", "look", "verify"} : Does(t, stage)
    /\ Becomes(t, GoneOn(Contact(t)))
    /\ call[t].tool = "upload_start" => Cardinality(Open) < MaxUploads
    /\ uploads' = IF call[t].tool = "upload_start"
                  THEN [uploads EXCEPT ![t] = Kept(call[t])] ELSE uploads
    /\ UNCHANGED <<approval, saved, inv, opened, refreshed, overlapped>>

\* It fails, or the file changed before its edit: the call ends there.
Fails(t) ==
    /\ \E stage \in {"run", "write", "look", "verify"} : Does(t, stage)
    /\ Becomes(t, Recorded(Contact(t)))
    /\ UNCHANGED <<approval, saved, inv, opened, uploads, refreshed, overlapped>>

\* A probe of health_check: one that fails is an item of the answer, too.
Probes(t) ==
    /\ Does(t, "try")
    /\ Becomes(t, GoneOn(Contact(t)))
    /\ UNCHANGED <<approval, saved, inv, opened, uploads, refreshed, overlapped>>

\* file_edit refuses a file that is too long or not text, or does not have
\* old_string once: "denied" is answered, and not recorded.
LookRefuses(t) ==
    /\ Does(t, "look")
    /\ Becomes(t, Answered(Contact(t)))
    /\ UNCHANGED <<approval, saved, inv, opened, uploads, refreshed, overlapped>>

\* The temporary is not what upload_finish was told to expect: that is recorded
\* before the temporary is removed.
Mismatch(t) ==
    /\ Does(t, "verify")
    /\ Becomes(t, [Contact(t) EXCEPT !.records = @ + 1, !.rest = <<"drop">>])
    /\ UNCHANGED <<approval, saved, inv, opened, uploads, refreshed, overlapped>>

\* Mutant of AfterDrop: the removal after a mismatch is recorded as well.
AfterDropRecorded(c) == Recorded(c)

AfterDrop(c) ==
    IF c.tool = "upload_abort" THEN Recorded(c) ELSE Answered(c)

\* The temporary is removed, or not: nobody looks.
Drops(t) ==
    /\ Does(t, "drop")
    /\ Becomes(t, AfterDrop(Contact(t)))
    /\ UNCHANGED <<approval, saved, inv, opened, uploads, refreshed, overlapped>>

------------------------------------------------------------------------------
(* refresh_inventory *)

\* Refreshes that have loaded an inventory and not yet put it in place.
Loading == {t \in Calls : Does(t, "swap")}

\* Inventory::load, on a thread of its own
Loads(t) ==
    /\ Does(t, "load")
    /\ Becomes(t, GoneOn([call[t] EXCEPT !.loaded = saved]))
    /\ overlapped' = (overlapped \/ Loading # {})
    /\ UNCHANGED <<approval, saved, inv, opened, uploads, refreshed>>

LoadFails(t) ==
    /\ Does(t, "load")
    /\ Becomes(t, Recorded(call[t]))
    /\ UNCHANGED <<approval, saved, inv, opened, uploads, refreshed, overlapped>>

\* The thread panics: "erro interno" is answered, and not recorded.
LoadPanics(t) ==
    /\ Does(t, "load")
    /\ Becomes(t, Answered(call[t]))
    /\ UNCHANGED <<approval, saved, inv, opened, uploads, refreshed, overlapped>>

\* The write lock is taken for the assignment and no longer.
Swaps(t) ==
    /\ Does(t, "swap")
    /\ inv' = call[t].loaded
    /\ Becomes(t, GoneOn([call[t] EXCEPT !.changed = TRUE]))
    /\ UNCHANGED <<approval, saved, opened, uploads, refreshed, overlapped>>

\* Mutant of Reopen: the daemon goes on with what it has open.
ReopenNot == IF opened = 0 THEN saved ELSE opened

\* The daemon opens the document again, whether or not the file has changed.
Reopen == saved

\* vault::reload succeeds.
Reloads(t) ==
    /\ Does(t, "reload")
    /\ opened' = Reopen
    /\ refreshed' = IF call[t].loaded > refreshed THEN call[t].loaded ELSE refreshed
    /\ Becomes(t, GoneOn(call[t]))
    /\ UNCHANGED <<approval, saved, inv, uploads, overlapped>>

\* The error is a note of the answer and of the record; all else stays done.
ReloadFails(t) ==
    /\ Does(t, "reload")
    /\ Becomes(t, GoneOn(call[t]))
    /\ UNCHANGED <<approval, saved, inv, opened, uploads, refreshed, overlapped>>

------------------------------------------------------------------------------
(* Around the server *)

\* Royal TS saves the document.
Save ==
    /\ saved < Len(Documents)
    /\ saved' = saved + 1
    /\ UNCHANGED <<approval, inv, opened, uploads, call, refreshed, overlapped>>

\* The daemon is discarded, or dies; it is started again when it is needed.
DaemonEnds ==
    /\ opened # 0
    /\ opened' = 0
    /\ UNCHANGED <<approval, saved, inv, uploads, call, refreshed, overlapped>>

\* The server stops, and another one starts: calls and uploads are gone, and
\* the daemon with its pipes.
Restart ==
    /\ inv' = saved
    /\ opened' = 0
    /\ uploads' = [u \in Calls |-> None]
    /\ call' = [t \in Calls |-> Idle]
    /\ refreshed' = saved
    /\ overlapped' = FALSE
    /\ UNCHANGED <<approval, saved>>

------------------------------------------------------------------------------
Next ==
    \/ \E t \in Calls :
          \/ Reads(t) \/ Malformed(t) \/ Passes(t) \/ Denied(t) \/ Return(t)
          \/ FindsUpload(t) \/ FindsNoUpload(t) \/ ChunkLimited(t)
          \/ Approves(t) \/ Declines(t)
          \/ GetsCred(t) \/ CredFails(t)
          \/ Succeeds(t) \/ Fails(t) \/ Probes(t)
          \/ LookRefuses(t) \/ Mismatch(t) \/ Drops(t)
          \/ Refreshes(t) \/ Loads(t) \/ LoadFails(t) \/ LoadPanics(t)
          \/ Swaps(t) \/ Reloads(t) \/ ReloadFails(t)
    \/ Save \/ DaemonEnds \/ Restart

Spec == Init /\ [][Next]_vars

------------------------------------------------------------------------------
(* Properties *)

\* "Registra toda operação" (CONTEXT.md:41): no call writes two records, and one
\* that answers without any has changed nothing, on a host, in the map of uploads
\* or in the inventory; nor has it reached a host, unless it is a file_edit
\* that was refused for what it read there.
AuditedOnce ==
    \A t \in Calls :
        /\ call[t].records <= 1
        /\ call[t].state = "answered" /\ call[t].records = 0 =>
              /\ ~call[t].changed
              /\ call[t].reached => call[t].tool = "file_edit"

\* "Exige aprovação humana": what a call is about to change is on the host, at
\* the uri, that the human was shown when it was asked for, by this call or by
\* the upload_start that opened the upload, however often the inventory has
\* been replaced since.
ApprovedTarget ==
    approval = "elicitation" =>
        \A t \in Calls :
            Does(t, "write") \/ Does(t, "drop") =>
                call[t].target # None /\ call[t].approved = call[t].target

\* "recarrega o inventário" and "força a reabertura do documento"
\* (server.rs:563): when refreshes run one after the other, a call that began
\* after one succeeded uses a uri that is no older than what it read, but for
\* an upload opened before it; and a credential that is no older, whatever
\* else runs.
RefreshReaches ==
    \A t \in Calls :
        /\ call[t].cred # 0 => call[t].cred >= call[t].began
        /\ call[t].target # None /\ ~overlapped =>
              call[t].target.version >= call[t].since

\* "Substring ambígua = negar com candidatos" (server.rs:619): a reference that
\* means a host means one the agent may see; and when it is a part of the name
\* of another one too, it is the id or the name of the one it means.
NeverGuesses ==
    \A ref \in References : \A h \in Resolved(Documents[inv], ref) :
        /\ InScope(h)
        /\ \A i \in Query(Documents[inv], ref, "") :
              Documents[inv][i] = h \/ h.id = ref \/ SameText(h.name, ref)
=============================================================================
