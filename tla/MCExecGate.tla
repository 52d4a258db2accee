----------------------------- MODULE MCExecGate -----------------------------
(* A small instance of ExecGate: a few programs, harmless and denied, bare *)
(* and behind wrappers, alone and in pairs around every separator.         *)
EXTENDS ExecGate, TLC

OffOneTwo == {0, 1, 2}

MCBaseNames == "/usr/bin/sudo" :> "sudo" @@ "A=/bin/sudo" :> "sudo" @@ "'dd'" :> "dd" @@ "/sbin/mkfs.ext4" :> "mkfs.ext4"
MCOptions == {"-u", "-n", "-S", "-p", "-r", "-rf", "-delete", "--no-preserve-root"}
MCAssignments == {"A=1", "A=/bin/sudo"}
MCRecursive == {"-r", "-rf"}
MCForced == {"-rf"}
MCFormatters == {"mkfs.ext4"}
MCTrimmed == "/" :> "" @@ "/etc/*" :> "/etc"
MCSshUnits == {"sshd"}
MCOnDevices == {"/dev/sda"}
MCEndInSudo == {"sudo", "/usr/bin/sudo", "A=/bin/sudo", "visudo"}

MCReaders == {"cat"}

Wrapped == {
    <<>>, <<"sudo">>, <<"sudo", "-u", "root">>, <<"sudo", "-n">>, <<"doas">>,
    <<"/usr/bin/sudo", "-S">>, <<"nohup", "sudo">>, <<"A=1", "sudo">>,
    <<"A=/bin/sudo">>, <<"A=1", "-n">>}

Plain == {
    <<"uptime">>, <<"rm", "-rf", "/etc/*">>, <<"rm", "-rf", "/tmp">>,
    <<"rm", "-r", "/">>, <<"rm", "--no-preserve-root">>,
    <<"systemctl", "stop", "sshd">>, <<"service", "sshd", "stop">>,
    <<"systemctl", "reboot">>, <<"'dd'">>, <<"/sbin/mkfs.ext4", "/dev/sda">>,
    <<"find", "/", "-delete">>, <<"find", "/tmp", "-delete">>,
    <<"echo", "sudo", "-S">>, <<"echo", "x", ">", "/dev/sda">>, <<":(){">>}

Paired == {
    <<"cat">>, <<"sudo", "uptime">>, <<"sudo", "-n", "uptime">>,
    <<"visudo", "-S">>, <<"doas", "-u", "root", "rm", "-rf", "/etc/*">>}

MCCommands ==
    {<<>>} \cup {w \o p : w \in Wrapped, p \in Plain}
    \cup {a \o <<s>> \o b : a \in Paired, s \in Separators, b \in Paired}

MCForms == {
    <<"sudo">>, <<"sudo", "-u", "root">>, <<"env", "A=1">>, <<"nohup">>,
    <<"nohup", "sudo", "-n">>}

MCWords == {"-S", "-p", "''"} \cup UNION {ToSet(words) : words \in MCCommands \cup MCForms}
=============================================================================
