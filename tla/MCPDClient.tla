----------------------------- MODULE MCPDClient -----------------------------
(***************************************************************************)
(* Instances of PDClient for TLC: scripts of a PD of two servers.          *)
(***************************************************************************)
EXTENDS PDClient

CONSTANTS p1, p2

All == {p1, p2}
ViewOf(l, u) == [members |-> All, leader |-> l, up |-> u]

\* The leader moves, then the server that led before goes down.
MovingLeader == <<ViewOf(p1, All), ViewOf(p2, All), ViewOf(p2, {p2})>>

\* The leader is lost, servers answer without one, then the other is elected
\* and the former goes down.
Election == <<ViewOf(p1, All), ViewOf(NoServer, All), ViewOf(p2, {p2})>>

\* No server can be reached, before and after the leader moves; then PD
\* answers without a leader, and the server that led first does not come back.
Outages == <<ViewOf(NoServer, {}), ViewOf(p1, All), ViewOf(p2, All),
             ViewOf(NoServer, {}), ViewOf(NoServer, All), ViewOf(p2, {p2})>>

=============================================================================
