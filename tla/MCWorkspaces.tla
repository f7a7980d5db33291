---------------------------- MODULE MCWorkspaces ----------------------------
(***************************************************************************)
(* Small instances of Workspaces for TLC.                                  *)
(***************************************************************************)
EXTENDS Workspaces

\* Workspace 1 is persistent; a reload makes 2 persistent too.
MCConfigs == {1 :> TRUE, 1 :> TRUE @@ 2 :> TRUE}

\* More persistent workspaces than there are Spaces at the start.
MCStrip == {1 :> TRUE @@ 2 :> TRUE @@ 3 :> TRUE}
=============================================================================
