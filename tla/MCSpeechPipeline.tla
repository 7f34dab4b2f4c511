-------------------------- MODULE MCSpeechPipeline --------------------------
(* Instance of SpeechPipeline for TLC.                                     *)
EXTENDS SpeechPipeline

CONSTANTS p1, p2, p3

\* Two responses of the same priority, of which one is calm, and a more urgent one.
MCPlans == {p1, p2, p3}
MCCalm == {p2}
MCPriority == [p \in MCPlans |-> IF p = p3 THEN 80 ELSE 50]
=============================================================================
