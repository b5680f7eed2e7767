---------------------------- MODULE MCInstaller ----------------------------
(***************************************************************************)
(* Two releases, two profiles, a run and its repetition.                    *)
(***************************************************************************)
EXTENDS Installer
=============================================================================
