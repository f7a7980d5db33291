---------------------------- MODULE MCPlacement ----------------------------
(***************************************************************************)
(* Small instances of Placement for TLC: three windows of three            *)
(* applications, two displays side by side, two workspaces on the first    *)
(* and one, of the same name, on the second.                               *)
(***************************************************************************)
EXTENDS Placement, TLC

MCAppOf     == <<"term", "web", "note">>
MCDisplayOf == <<1, 1, 2>>
MCNameOf    == <<"A", "B", "B">>
MCFrameOf   == <<[x |-> 0, y |-> 0, w |-> 24, h |-> 24], [x |-> 24, y |-> 0, w |-> 24, h |-> 24]>>

MCLoose    == [x |-> 1, y |-> 1, w |-> 5, h |-> 5]
MCCentered == [x |-> 7, y |-> 7, w |-> 10, h |-> 10]

Rule == [app |-> None, title |-> None, workspace |-> None,
         float |-> FALSE, ignore |-> FALSE, target |-> None]

Own(layout, plugin) == [layout |-> layout, plugin |-> plugin]

\* Columns and a master; the web goes to B, dialogs float; one scratchpad.
MCFirst ==
  [workspaces |-> "A" :> Own("columns", None) @@ "B" :> Own("master", None),
   general    |-> Own("stack", None),
   gap |-> 4, padding |-> 1, screen |-> 1, shadow |-> TRUE,
   rules |-> <<[Rule EXCEPT !.app = "web", !.target = "B"],
               [Rule EXCEPT !.title = "dialog", !.float = TRUE]>>,
   pads |-> "pad" :> [app |-> "term", title |-> None]]

\* A plugin in A, a stack elsewhere; notes are ignored, and a dialog in A goes to B.
MCSecond ==
  [workspaces |-> "A" :> Own("master", "grid") @@ "B" :> Own("stack", None),
   general    |-> Own("stack", None),
   gap |-> 4, padding |-> 1, screen |-> 1, shadow |-> FALSE,
   rules |-> <<[Rule EXCEPT !.app = "note", !.ignore = TRUE],
               [Rule EXCEPT !.title = "dialog", !.workspace = "A", !.target = "B"]>>,
   pads |-> "pad" :> [app |-> None, title |-> "dialog"]]

\* Refused: a gap below zero; rules that send windows to an unknown workspace;
\* a pattern that does not compile.
MCNegative == [MCFirst EXCEPT !.gap = 0 - 4]
MCUnknown  == [MCFirst EXCEPT !.rules = <<[Rule EXCEPT !.target = "C"]>>]
MCBroken   == [MCSecond EXCEPT !.rules = <<[Rule EXCEPT !.title = "("]>>]

\* A plugin, or files none of which loads: for another ABI, no module, nameless.
File == [stem |-> "grid", wasm |-> TRUE, compiles |-> TRUE, manifest |-> None]
MCDisks ==
  {{File},
   {[File EXCEPT !.manifest = [name |-> "grid", abi |-> 2]], [File EXCEPT !.wasm = FALSE],
    [File EXCEPT !.compiles = FALSE], [File EXCEPT !.manifest = [name |-> "", abi |-> 1]]}}

MCOrders == {<<1, 2, 3>>, <<3, 2, 1>>}

MCConfigOf ==
  "first" :> MCFirst @@ "second" :> MCSecond
    @@ "negative" :> MCNegative @@ "unknown" :> MCUnknown @@ "broken" :> MCBroken
=============================================================================
