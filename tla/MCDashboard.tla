----------------------------- MODULE MCDashboard -----------------------------
(***************************************************************************)
(* TLC instances of Dashboard: three connections over two ports, a single  *)
(* address or a pool of three; the rescan, and the pool, offer an IPv6     *)
(* address.                                                                *)
(***************************************************************************)
EXTENDS Dashboard

CONSTANTS a, b, x, p, q

MCConns == 1..3
MCPorts == {p, q}
MCSymmetry == Permutations(MCPorts)
MCPools == {<<>>, <<a, b, x>>}
MCRescanned == {x}
MCIPv6 == {x}
=============================================================================
