------------------------- MODULE WorkspaceRegistry -------------------------
(***************************************************************************)
(* The workspace registry of one display (rovr-core/src/workspace.rs): a   *)
(* finite function from workspace names to their states.  A name is its    *)
(* number, so the order of numbers is keys_for_display's order.  A Space   *)
(* is a number, and Space positions are given by a sequence.               *)
(***************************************************************************)
EXTENDS Naturals, Sequences, FiniteSets

CONSTANT None

\* WorkspaceBacking.
Normal(s) == [active |-> s, restore |-> None, window |-> None]
FullscreenReplacement(f, r, w) == [active |-> f, restore |-> r, window |-> w]

Active(state)   == IF state.backing = None THEN None ELSE state.backing.active
Restore(state)  == IF state.backing = None THEN None ELSE state.backing.restore
IsNormal(state)     == state.backing # None /\ state.backing.restore = None
IsFullscreen(state) == state.backing # None /\ state.backing.restore # None

ActiveSpaces(ws)  == {Active(ws[n]) : n \in DOMAIN ws} \ {None}
RestoreSpaces(ws) == {Restore(ws[n]) : n \in DOMAIN ws} \ {None}
Claimed(ws)       == ActiveSpaces(ws) \cup RestoreSpaces(ws)
BackingFor(ws, n) == IF n \in DOMAIN ws THEN Active(ws[n]) ELSE None

NewState(persistent, dynamic) ==
  [persistent |-> persistent, dynamic |-> dynamic, backing |-> None]

Without(ws, S) == [n \in DOMAIN ws \ S |-> ws[n]]

\* f, and g where f is not defined.
Over(f, g) == [x \in DOMAIN f \cup DOMAIN g |-> IF x \in DOMAIN f THEN f[x] ELSE g[x]]

\* config: the names it declares, each persistent or volatile.
SyncConfig(ws, config, prune) ==
  LET kept == {n \in DOMAIN ws : prune => ws[n].dynamic}
  IN  [n \in DOMAIN config \cup kept |->
         IF n \notin DOMAIN config THEN ws[n]
         ELSE IF n \notin DOMAIN ws THEN NewState(config[n], FALSE)
         ELSE [ws[n] EXCEPT !.persistent = config[n], !.dynamic = FALSE]]

EnsurePersistent(ws) ==
  {n \in DOMAIN ws : ws[n].persistent /\ Active(ws[n]) = None}

\* The place of x among the numbers S.
Rank(S, x) == Cardinality({y \in S : y <= x})

\* The numbers S in their order.
Ordered(S) == [k \in 1 .. Cardinality(S) |-> CHOOSE x \in S : Rank(S, x) = k]

\* The elements of the sequence s at the places I, in their order.
Chosen(s, I) == [k \in 1 .. Cardinality(I) |-> s[CHOOSE i \in I : Rank(I, i) = k]]

\* The workspaces of moving take the positions of slots in name order; those that
\* find none are left without a Space.
Seated(ws, order, moving, slots) ==
  LET seat(n) == {i \in slots : Rank(slots, i) = Rank(moving, n)}
  IN  [n \in DOMAIN ws |->
         IF n \notin moving THEN ws[n]
         ELSE [ws[n] EXCEPT !.backing =
                 IF seat(n) = {} THEN None ELSE Normal(order[CHOOSE i \in seat(n) : TRUE])]]

\* Mutants of RemapAfterSnapshot: a workspace keeps the Space it has, wherever
\* that stands now; Spaces that windows return to are handed out.
RemapUnbackedOnly(ws, order, spaces) ==
  Seated(ws, order, {n \in DOMAIN ws : ws[n].backing = None},
         {i \in DOMAIN order : order[i] \in spaces \ Claimed(ws)})
RemapOntoRestores(ws, order, spaces) ==
  Seated(ws, order, {n \in DOMAIN ws : ~IsFullscreen(ws[n])},
         {i \in DOMAIN order : order[i] \in spaces})

\* Workspaces take the Spaces of spaces in name order, by their position in
\* order; those on a fullscreen Space keep it, and nobody takes the Space they
\* return to.
RemapAfterSnapshot(ws, order, spaces) ==
  Seated(ws, order, {n \in DOMAIN ws : ~IsFullscreen(ws[n])},
         {i \in DOMAIN order : order[i] \in spaces \ RestoreSpaces(ws)})

\* The names of the RemapMoves it returns.
Moved(ws, new) == {n \in DOMAIN ws : Active(ws[n]) # Active(new[n])}
=============================================================================
