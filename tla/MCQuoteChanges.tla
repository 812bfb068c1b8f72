--------------------------- MODULE MCQuoteChanges ---------------------------
(* Instances of QuoteChanges for TLC: charged quotes and proposals of one lead. *)
EXTENDS QuoteChanges, TLC

CONSTANTS q1, x1, x2, l1, r1, p1, p2

OneLead == [q \in Quotes |-> l1]
ProposalSymmetry == Permutations({x1, x2})
ProcSymmetry == Permutations({p1, p2})
Symmetry == ProposalSymmetry \cup ProcSymmetry
=============================================================================
