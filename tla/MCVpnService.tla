---------------------------- MODULE MCVpnService ----------------------------
(* Model-checking instance of VpnService.                                   *)
EXTENDS VpnService

\* AUTO_SWITCH_ORDER, cut to two of its ten presets.
MCOrder == <<"universal", "minimal">>

\* The properties promise next to nothing once a session was stopped while it
\* started, or started before the previous one had ended: what follows such a
\* state is not explored, nor what follows a second kind of race.
Informative == races \cap {"early", "restart"} = {} /\ Cardinality(races) <= 1
=============================================================================
