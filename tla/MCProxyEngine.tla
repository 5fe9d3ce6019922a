---------------------------- MODULE MCProxyEngine ----------------------------
(* Model-checking instance of ProxyEngine.                                  *)
EXTENDS ProxyEngine, TLC

\* The callers are interchangeable in the safety runs.
CallerSymmetry == Permutations(Callers)

\* The safety properties promise nothing once a start() has overlapped with
\* another call, so what follows such a state is not explored.
StartsAlone == overlap # "mixed"
=============================================================================
