--------------------------- MODULE MCVaultDaemon ---------------------------
(* Small instances of VaultDaemon for TLC. *)
EXTENDS VaultDaemon

CONSTANTS c1, c2, h1, h2, reload

MCCallers == {c1, c2}
MCHosts == {h1, h2}
=============================================================================
