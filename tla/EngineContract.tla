--------------------------- MODULE EngineContract ---------------------------
(***************************************************************************)
(* What ProxyEngine promises BypassVpnService, without flags, handles or   *)
(* statements: each library runs at most one event loop, and the protect   *)
(* server is taken down only when no event loop is left to use it.         *)
(***************************************************************************)
CONSTANTS
    Comp,        \* the native libraries
    ThreadId     \* names of event loops

VARIABLES
    live,        \* [Comp -> the event loops that exist]
    server       \* the protect server is running

vars == <<live, server>>

Init ==
    /\ live = [c \in Comp |-> {}]
    /\ server = FALSE

\* A library starts its event loop; it has no other.
Spawn(c, t) ==
    /\ live[c] = {}
    /\ live' = [live EXCEPT ![c] = {t}]
    /\ UNCHANGED server

\* The event loop ends, because it was stopped or because it failed.
Exit(c, t) ==
    /\ live[c] = {t}
    /\ live' = [live EXCEPT ![c] = {}]
    /\ UNCHANGED server

ServerUp ==
    /\ server' = TRUE
    /\ UNCHANGED live

ServerDown ==
    /\ \A c \in Comp : live[c] = {}
    /\ server' = FALSE
    /\ UNCHANGED live

Next ==
    \/ \E c \in Comp, t \in ThreadId : Spawn(c, t) \/ Exit(c, t)
    \/ ServerUp
    \/ ServerDown

Spec == Init /\ [][Next]_vars

=============================================================================
