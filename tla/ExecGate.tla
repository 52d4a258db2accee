------------------------------ MODULE ExecGate ------------------------------
(***************************************************************************)
(* What stands between a tool call exec and the host, in src/src/server.rs *)
(* and src/src/ssh.rs: the rate limiter, then the policy, then the form in *)
(* which the command is sent.  The limiter is that of all tools: the other *)
(* tools' checks are its own steps.                                        *)
(***************************************************************************)
EXTENDS RateLimiter, Policy

CONSTANTS
    Commands,  \* commands that exec may be given
    WrapperForms,  \* wrappers with their options, to put before a segment
    InputReaders   \* names of programs that read their input

\* A wrapper, and behind it what effective_bin_index steps over: options, the
\* value of each that takes one, assignments and other wrappers.
IsWrapperForm(form) ==
    /\ form # <<>>
    /\ BaseName(form[1]) \in Wrappers /\ form[1] \notin Assignments \cup Options
    /\ \A i \in 2..Len(form) :
          \/ form[i] \in Options \cup Assignments
          \/ BaseName(form[i]) \in Wrappers
          \/ form[i - 1] \in Options \cap ValueOpts
    /\ form[Len(form)] \notin ValueOpts
    /\ \A i \in 1..Len(form) : form[i] \notin Separators \cup {":(){", ">", ">>"}

ASSUME GateAssumption ==
    /\ Commands \subseteq Seq(Words)
    /\ \A form \in WrapperForms : form \in Seq(Words) /\ IsWrapperForm(form)

VARIABLE
    last  \* one exec: command, answer, what was sent, password fed or not

gateVars == <<vars, last>>

Nothing == [cmd |-> <<>>, answer |-> "none", sent |-> <<>>, fed |-> FALSE]

GateInit == Init /\ last = Nothing

Answered(cmd, answer) == [Nothing EXCEPT !.cmd = cmd, !.answer = answer]

\* 2) Rate-limit.
ExecLimited(cmd) ==
    /\ last = Nothing
    /\ CheckRefused
    /\ last' = Answered(cmd, "ratelimit")

Check == CheckOk \/ CheckDisabled

\* 3) A command that the policy denies has used a slot.
ExecDenied(cmd) ==
    /\ last = Nothing
    /\ Check
    /\ Denies(cmd)
    /\ last' = Answered(cmd, "denied")

\* 4) exec_on_handle: the password goes to the channel behind the command.
ExecRuns(cmd, has_password) ==
    /\ last = Nothing
    /\ Check
    /\ ~Denies(cmd)
    /\ last' = [cmd |-> cmd, answer |-> "ran",
                sent |-> FinalCommand(cmd, has_password),
                fed |-> FeedsPassword(cmd, has_password)]

\* The answer goes out, and the next exec may be looked at.
ExecReturns ==
    /\ last # Nothing
    /\ last' = Nothing
    /\ UNCHANGED vars

\* The limiter's steps for other tools and other execs, and time.
Elsewhere == Next /\ UNCHANGED last

GateNext ==
    \/ \E cmd \in Commands :
          \/ ExecLimited(cmd)
          \/ ExecDenied(cmd)
          \/ \E has_password \in BOOLEAN : ExecRuns(cmd, has_password)
    \/ ExecReturns
    \/ Elsewhere

GateSpec == GateInit /\ [][GateNext]_gateVars

------------------------------------------------------------------------------
(* Properties *)

Programs(cmd) == {Effective(segment) : segment \in Segments(cmd)}

\* An assignment whose value ends in sudo, as in A=/bin/sudo: rewrite_sudo
\* takes it for a sudo, effective_bin_index for an assignment.
AssignsSudo(cmd) ==
    \E i \in 1..Len(cmd) :
        cmd[i] \in Assignments /\ BaseName(cmd[i]) \in {"sudo", "doas"}

\* What is sent runs what was judged: rewrite_sudo, which does not cut the
\* command where split_segments does, changes no program and no argument of
\* one, and so nothing that classify looks at.  The one exception is the
\* assignment of a sudo.
SentAsJudged ==
    last.answer = "ran" /\ ~AssignsSudo(last.cmd) =>
        /\ Programs(last.sent) = Programs(last.cmd)
        /\ ~Denies(last.sent)

\* A word that ends in sudo and runs no sudo: an argument, an assignment or the
\* name of another program, such as visudo.
MentionsSudo(cmd) ==
    \E i \in 1..Len(cmd) :
        /\ cmd[i] \in EndInSudo
        /\ \/ BaseName(cmd[i]) # "sudo" \/ cmd[i] \in Assignments
           \/ i > 1 /\ cmd[i - 1] \notin Separators

\* The segments, by their places, that have the input of the channel, where the
\* password goes: not those behind a pipe.  (What a "&" ends has no input.)
OnInput(cmd) ==
    {r \in Between(cmd, Separators) : r[1] = 1 \/ cmd[r[1] - 1] \in PieceEnds}

Reads(cmd, r) ==
    LET program == Effective(SubSeq(cmd, r[1], r[2]))
    IN  program # <<>> /\ BaseName(Head(program)) \in InputReaders

\* A sudo that reads the password from its input.
Asks(cmd, r) ==
    /\ BaseName(cmd[r[1]]) = "sudo" /\ cmd[r[1]] \notin Assignments
    /\ "-S" \in LeadingOptions(SubSeq(cmd, r[1], r[2]))

\* A program that reads its input stands before a sudo, as in cat; sudo id.
ReaderBeforeSudo(cmd) ==
    \E q, r \in OnInput(cmd) :
        q[1] < r[1] /\ Reads(cmd, q) /\ BaseName(cmd[r[1]]) = "sudo"

\* Something runs in the background, or the caller wrote sudo -S behind a pipe.
InputElsewhere(cmd) ==
    \/ "&" \in ToSet(cmd)
    \/ \E i \in 1..(Len(cmd) - 2) :
          cmd[i] = "|" /\ BaseName(cmd[i + 1]) = "sudo" /\ cmd[i + 2] = "-S"

\* "A senha SÓ é injetada quando o comando FINAL contém `sudo -S`", lest another
\* program "leria o stdin e devolveria a senha" (policy.rs:253-259): the first
\* that reads the input of what is sent is a sudo with -S.  Contained words do
\* not make it so: the exceptions are a command that only mentions or assigns a
\* sudo, one whose sudo does not have the input, and one in which a program that
\* reads it stands before a sudo.
FedSudoReads ==
    last.fed =>
        \/ MentionsSudo(last.cmd) \/ AssignsSudo(last.cmd)
        \/ InputElsewhere(last.cmd) \/ ReaderBeforeSudo(last.cmd)
        \/ \E r \in OnInput(last.sent) :
              /\ Asks(last.sent, r)
              /\ \A q \in OnInput(last.sent) : q[1] < r[1] => ~Reads(last.sent, q)

\* An option stands where the program is looked for.
OptionFirst(cmd) ==
    \E i \in 1..Len(cmd) :
        cmd[i] \in Options /\ \A j \in 1..(i - 1) : cmd[j] \in Assignments

\* "Command segments are inspected after common wrappers such as sudo, env,
\* nohup, and nice" (policy-engine.md:26): a wrapper before a program, with
\* options of its list, does not change whether the command is denied.
WrapperBlind ==
    \A form \in WrapperForms :
        last.answer \in {"ran", "denied"} /\ last.cmd # <<>> /\ ~OptionFirst(last.cmd) =>
            (Denies(form \o last.cmd) <=> last.answer = "denied")
=============================================================================
