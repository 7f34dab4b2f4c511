--------------------------- MODULE MCMemoryReview ---------------------------
(* Instance of MemoryReview for TLC.                                       *)
EXTENDS MemoryReview, TLC

CONSTANTS x, y

\* The operator proposes a content, which may be edited to y, without a value; a
\* chat states a value that is not the content.
MCRequests   == {[content |-> x, value |-> None]}
MCCandidates == {[content |-> y, value |-> x]}

\* Threads and proposals are interchangeable: claims are not, their order is that
\* of time.
Symmetry == Permutations(Handlers) \cup Permutations(Proposals)
=============================================================================
