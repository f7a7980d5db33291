---------------------------- MODULE WindowOrder ----------------------------
(***************************************************************************)
(* What the layout engine promises about the order of windows, without     *)
(* trees: each Space has a list.  Observations drop the windows that are   *)
(* not tiled any more and append the new ones; commands exchange two       *)
(* windows, put one right after another, or reverse the list.  Windows     *)
(* that stay keep their order otherwise, whatever the enumeration order.   *)
(***************************************************************************)
EXTENDS Integers, SequencesExt

CONSTANTS Windows, Spaces, None

VARIABLE order

Init == order = [s \in Spaces |-> <<>>]

Exchange(l, a, b) == [i \in DOMAIN l |-> IF l[i] = a THEN b ELSE IF l[i] = b THEN a ELSE l[i]]
PutAfter(l, w, target) ==
  LET others == SelectSeq(l, LAMBDA x : x # w)
      i == SelectInSeq(others, LAMBDA x : x = target)
  IN  InsertAt(others, i + 1, w)

\* The lists that one command can make of l.
Edits(l) ==
  {Reverse(l)}
    \cup {Exchange(l, a, b) : a \in ToSet(l), b \in ToSet(l)}
    \cup {PutAfter(l, x[1], x[2]) :
            x \in {y \in Windows \X ToSet(l) : y[1] # y[2]}}

\* What an observation of the windows in S makes of l.
Refreshed(l, S) ==
  SelectSeq(l, LAMBDA x : x \in S) \o SetToSortSeq(S \ ToSet(l), <)

\* No command or one, then no observation or one, in which every window is on
\* one Space.  A Space without windows may be skipped.
Next ==
  \E s \in Spaces : \E l \in {order[s]} \cup Edits(order[s]) :
    LET edited  == [order EXCEPT ![s] = l]
        changed == {x \in Spaces : order'[x] # edited[x]}
    IN  /\ order' \in [Spaces -> Seq(Windows)]
        /\ \A x \in changed : order'[x] = Refreshed(edited[x], ToSet(order'[x]))
        /\ \A x, y \in changed :
             x # y => ToSet(order'[x]) \cap ToSet(order'[y]) = {}

Spec == Init /\ [][Next]_order
=============================================================================
