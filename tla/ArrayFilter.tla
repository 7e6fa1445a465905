----------------------------- MODULE ArrayFilter -----------------------------
(***************************************************************************)
(* Array.prototype.filter of JavaScript, for the parts of the browser that *)
(* keep lists: as a definition the proofs can expand.                      *)
(***************************************************************************)
EXTENDS Naturals, FiniteSets

\* The elements of q in S, each in the place that those before it leave
Only(q, S) ==
    LET I == {i \in DOMAIN q : q[i] \in S} IN
    [n \in 1..Cardinality(I) |->
        q[CHOOSE i \in I : Cardinality({j \in I : j < i}) = n - 1]]
=============================================================================
