---------------------------- MODULE Capabilities -----------------------------
(***************************************************************************)
(* The registry of capabilities and the packages that they come in.  The   *)
(* two share no state: a package is checked when it is made, when it is    *)
(* extracted and when a directory is exported, and of what the registry    *)
(* then holds CapabilityRegistry knows the checksum only.                  *)
(***************************************************************************)
EXTENDS CapabilityRegistry, CapabilityPackage

(* Whatever directories are packed: an installed package is exported as it *)
(* was packed (Registry.export), validate_package notices one file         *)
(* changed, left out or added, and a scaffold packs as it stands.  This is *)
(* no matter of the registry's state, and TLC evaluates it before the      *)
(* first command and the server's start only.                              *)
PackagesAreFaithful ==
    commands = 0 /\ ~server.up => ExportReturns /\ DamageShows /\ ScaffoldsPack
=============================================================================
