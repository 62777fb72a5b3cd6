------------------------------- MODULE MCEvals ------------------------------
(* Instances of Evals: matrices of two candidates, as shipped and as the file  *)
(* format allows them.                                                         *)
EXTENDS Evals

Candidate(repo, pinned, dtype) == [repo |-> repo, pinned |-> pinned, dtype |-> dtype]

A == Candidate("A", TRUE, "auto")
Unpinned(repo) == Candidate(repo, FALSE, "auto")

MCMatrices == {<<A, Candidate("B", TRUE, "auto")>>, <<Unpinned("A"), A>>,
               <<A, Unpinned("B")>>, <<A, Unpinned("A")>>}
MCSameRepo == {<<A, Unpinned("A")>>}
MCDeliberate == {<<Candidate("A", TRUE, "fp8")>>}

MCBoth == <<"auto", "fp8">>
MCDefault == <<"auto">>
=============================================================================
