------------------------- MODULE MCSettingsDocument -------------------------
(* Two admins, or an admin and the provisioning script, at work at once. *)
EXTENDS SettingsDocument, TLC

Symmetric == Permutations(Writers)
=============================================================================
