----------------------------- MODULE Selections -----------------------------
(***************************************************************************)
(* The filter of the arrays of the tab: the uploader's list and queue, the *)
(* history of undo, the Esc ladder.  Written by the positions it keeps,    *)
(* which proofs can count, and not with SelectSeq, which they cannot       *)
(* unfold.                                                                 *)
(***************************************************************************)
EXTENDS Naturals, Sequences, FiniteSets

\* A finite set of numbers as a sequence, from the least on.
InOrder[some \in SUBSET Nat] ==
    [k \in 1..Cardinality(some) |-> CHOOSE i \in some : Cardinality({j \in some : j <= i}) = k]

\* The elements of a sequence that are in a set, in their order.
Those(s, set) ==
    LET at == InOrder[{i \in DOMAIN s : s[i] \in set}]
    IN  [k \in DOMAIN at |-> s[at[k]]]
=============================================================================
