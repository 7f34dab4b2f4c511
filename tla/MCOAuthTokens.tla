---------------------------- MODULE MCOAuthTokens ----------------------------
(* Instance of OAuthTokens for TLC.                                        *)
EXTENDS OAuthTokens, TLC

\* Threads, providers and states are interchangeable: tokens are not, their order
\* is that of time.
Symmetry == Permutations(Handlers) \cup Permutations(Providers)
              \cup Permutations(States)
=============================================================================
