--------------------------- MODULE MCPersistence ---------------------------
(* Two workspaces, one of which always has a Space, on a strip of two. *)
EXTENDS Persistence

MCStrip == <<1, 2>>
MCConfig == (1 :> TRUE) @@ (2 :> FALSE)
MCConfigs == {MCConfig, (2 :> TRUE) @@ (3 :> FALSE)}
=============================================================================
