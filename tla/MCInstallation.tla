--------------------------- MODULE MCInstallation ---------------------------
(***************************************************************************)
(* Two profile homes, two releases, one gateway.                           *)
(***************************************************************************)
EXTENDS InstallationPromises, TLC

CONSTANTS default, research

MCVersions == {1, 2}
=============================================================================
