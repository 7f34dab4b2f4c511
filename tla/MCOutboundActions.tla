-------------------------- MODULE MCOutboundActions --------------------------
(* Instance of OutboundActions for TLC.                                    *)
EXTENDS OutboundActions, TLC

\* Handler threads are interchangeable, and no property names one.
Symmetry == Permutations(Handlers)
=============================================================================
