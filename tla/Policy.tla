------------------------------- MODULE Policy -------------------------------
(***************************************************************************)
(* The command policy of src/src/policy.rs, and its preparation of a       *)
(* command for sudo.  A command is the sequence of its words, separators   *)
(* among them; what the code reads off the letters of a word is given by   *)
(* the constants below.                                                    *)
(***************************************************************************)
EXTENDS Naturals, Sequences, FiniteSets, SequencesExt

CONSTANTS
    Words,        \* what commands are made of
    BaseNames,    \* word |-> name, for words that base_name changes
    Options,      \* words that start with a dash
    Assignments,  \* words VAR=val
    Recursive,    \* options of rm that make it recursive
    Forced,       \* options of rm that make it force
    Formatters,   \* names that start with mkfs
    Trimmed,      \* path |-> path without the stars and slashes at its end
    SshUnits,     \* words that name the SSH service
    OnDevices,    \* words that start with the path of a block device
    EndInSudo     \* words that end in sudo


Catastrophic == {
    "dd", "shred", "wipefs", "fdisk", "parted", "format", "mkswap",
    "blkdiscard", "mke2fs", "nvme", "shutdown", "reboot", "halt",
    "poweroff", "init", "telinit"}

Wrappers == {
    "sudo", "doas", "nohup", "time", "env", "nice", "ionice", "stdbuf",
    "setsid", "command"}

ValueOpts == {
    "-u", "--user", "-g", "--group", "-p", "--prompt", "-C", "-U", "-h",
    "-R", "-t", "-T", "-D"}

CriticalDirs == {
    "/etc", "/usr", "/var", "/bin", "/boot", "/lib", "/lib64", "/sbin",
    "/home", "/root", "/opt", "/srv", "/sys", "/proc", "/dev"}

\* split_segments cuts a command at all of these, rewrite_sudo at some.
Separators == {";", "|", "&", "&&", "||"}
PieceEnds == {";", "&&", "||"}

\* base_name, in lower case.
BaseName(word) == IF word \in DOMAIN BaseNames THEN BaseNames[word] ELSE word

ASSUME PolicyAssumption ==
    /\ DOMAIN BaseNames \cap Separators = {}
    /\ Recursive \cup Forced \subseteq Options
    /\ Assignments \cap Options = {}
    /\ {"-S", "-p", "''"} \subseteq Words
    /\ {"-S", "-p"} \subseteq Options /\ "''" \notin Options
    /\ {"-S", "-p", "''"} \cap (OnDevices \cup EndInSudo) = {}

\* The stretches of cmd between words of cut: where they begin and end.
Between(cmd, cut) ==
    {r \in (DOMAIN cmd) \X (DOMAIN cmd) :
        /\ r[1] <= r[2]
        /\ \A i \in r[1]..r[2] : cmd[i] \notin cut
        /\ r[1] = 1 \/ cmd[r[1] - 1] \in cut
        /\ r[2] = Len(cmd) \/ cmd[r[2] + 1] \in cut}

\* split_segments
Segments(cmd) == {SubSeq(cmd, r[1], r[2]) : r \in Between(cmd, Separators)}

------------------------------------------------------------------------------
(* effective_bin_index *)

\* Mutant of Skip: the value of a wrapper's option is taken for the program.
SkipNoValue(seen, word) ==
    IF seen = "program" THEN "program"
    ELSE IF seen # "start" /\ word \in Options THEN "wrapped"
    ELSE IF word \in Assignments THEN seen
    ELSE IF BaseName(word) \in Wrappers THEN "wrapped"
    ELSE "program"

\* What a word makes of what was seen before it: nothing but assignments, a
\* wrapper, an option that takes a value, or the program.
Skip(seen, word) ==
    IF seen = "program" THEN "program"
    ELSE IF seen = "value" /\ word \notin Options THEN "wrapped"
    ELSE IF seen # "start" /\ word \in Options
         THEN IF word \in ValueOpts THEN "value" ELSE "wrapped"
    ELSE IF word \in Assignments THEN seen
    ELSE IF BaseName(word) \in Wrappers THEN "wrapped"
    ELSE "program"

\* What has been seen after i words.
Seen(segment) ==
    LET seen[i \in 0..Len(segment)] ==
            IF i = 0 THEN "start" ELSE Skip(seen[i - 1], segment[i])
    IN  seen

\* The program that a segment runs, with its arguments.
Effective(segment) ==
    LET seen == Seen(segment)
        before == {i \in 1..Len(segment) : seen[i] # "program"}
    IN  SubSeq(segment, Cardinality(before) + 1, Len(segment))

------------------------------------------------------------------------------
(* classify *)

IsRootIsh(target) ==
    \/ target \in {"~", "~/"}
    \/ target \in DOMAIN Trimmed /\ Trimmed[target] \in CriticalDirs \cup {""}
    \/ target \in CriticalDirs

DangerousRm(args) ==
    \/ "--no-preserve-root" \in ToSet(args)
    \/ /\ ToSet(args) \cap Recursive # {} /\ ToSet(args) \cap Forced # {}
       /\ \E target \in ToSet(args) \ Options : IsRootIsh(target)

\* systemctl <verb> <targets>, service <target> <verb>
DangerousServiceCtl(bin, args) ==
    LET positional == SelectSeq(args, LAMBDA word : word \notin Options)
        verbAt == IF bin = "systemctl" THEN 1 ELSE 2
        targets == IF bin = "systemctl"
                   THEN ToSet(Tail(positional)) ELSE {Head(positional)}
    IN  /\ verbAt <= Len(positional)
        /\ \/ positional[verbAt] \in {"poweroff", "reboot", "halt"}
           \/ /\ positional[verbAt] \in {"stop", "disable", "mask"}
              /\ targets \cap SshUnits # {}

\* The targets of find stand before its first option.
DangerousFindDelete(args) ==
    /\ "-delete" \in ToSet(args)
    /\ \E i \in DOMAIN args :
          IsRootIsh(args[i]) /\ \A j \in 1..i : args[j] \notin Options

\* catastrophic_pattern: what denies a command wherever it stands.
CatastrophicPattern(cmd) ==
    \E i \in DOMAIN cmd :
        \/ cmd[i] = ":(){"
        \/ /\ cmd[i] \in {">", ">>"} /\ i < Len(cmd)
           /\ cmd[i + 1] \in OnDevices \cup {"/proc/sysrq-trigger"}

DeniedProgram(program) ==
    program # <<>> /\
    LET bin == BaseName(Head(program))
        args == Tail(program)
    IN  \/ bin \in Catastrophic \cup Formatters
        \/ bin = "rm" /\ DangerousRm(args)
        \/ bin \in {"systemctl", "service"} /\ DangerousServiceCtl(bin, args)
        \/ bin = "find" /\ DangerousFindDelete(args)

\* classify returns Decision::Deny.
Denies(cmd) ==
    \/ cmd = <<>>
    \/ CatastrophicPattern(cmd)
    \/ \E segment \in Segments(cmd) : DeniedProgram(Effective(segment))

------------------------------------------------------------------------------
(* prepare_sudo_exec *)

LedBySudo(words) == BaseName(Head(words)) \in {"sudo", "doas"}

CommandUsesSudo(cmd) == \E segment \in Segments(cmd) : LedBySudo(segment)

\* The options right behind the first word.
LeadingOptions(words) ==
    {words[i] : i \in {j \in 2..Len(words) : \A k \in 2..j : words[k] \in Options}}

\* Mutant of Inserted: the empty prompt is forgotten.
InsertedNoPrompt == <<"-S", "-p">>

Inserted == <<"-S", "-p", "''">>

\* Where rewrite_sudo inserts: behind the sudo that leads a piece, unless it
\* has options that read the password from elsewhere.
Rewritten(cmd) ==
    LET Interactive(piece) ==
            LeadingOptions(piece)
                \cap {"-S", "-n", "-A", "--non-interactive", "--stdin"} = {}
    IN  {r[1] : r \in {q \in Between(cmd, PieceEnds) :
            LET piece == SubSeq(cmd, q[1], q[2])
            IN  LedBySudo(piece) /\ Interactive(piece)}}

RewriteSudo(cmd) ==
    LET sudos == Rewritten(cmd)
    IN  FlattenSeq([i \in DOMAIN cmd |->
            IF i \in sudos THEN <<cmd[i]>> \o Inserted ELSE <<cmd[i]>>])

\* contains("sudo -S")
SaysSudoS(cmd) ==
    \E i \in 1..(Len(cmd) - 1) : cmd[i] \in EndInSudo /\ cmd[i + 1] = "-S"

\* Mutant of FeedsPassword: any sudo gets the password.
FeedsPasswordAnySudo(cmd, has_password) == has_password /\ CommandUsesSudo(cmd)

FeedsPassword(cmd, has_password) ==
    has_password /\ CommandUsesSudo(cmd) /\ SaysSudoS(RewriteSudo(cmd))

FinalCommand(cmd, has_password) ==
    IF has_password /\ CommandUsesSudo(cmd) THEN RewriteSudo(cmd) ELSE cmd
=============================================================================
