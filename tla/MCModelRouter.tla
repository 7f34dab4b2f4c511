---------------------------- MODULE MCModelRouter ----------------------------
(* The instance of ModelRouter that TLC checks: a provider without the        *)
(* capabilities, then two that can answer.                                    *)
EXTENDS ModelRouter

CONSTANTS text, zai, mock

MCOrder == <<text, zai, mock>>
=============================================================================
