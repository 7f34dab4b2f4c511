----------------------- MODULE MCBehavioralDirectives -----------------------
(* Instance of BehavioralDirectives for TLC: a directive for one audience and *)
(* one for all, which the compiler refuses.  Threads are interchangeable.     *)
EXTENDS BehavioralDirectives, TLC

CONSTANTS polite, unsafe, private, stream

MCCandidates == {[value |-> polite, audiences |-> {private}],
                 [value |-> unsafe, audiences |-> {}]}
Symmetry == Permutations(Handlers)
=============================================================================
