----------------------------- MODULE MCLifecycle -----------------------------
(***************************************************************************)
(* TLC instances of Lifecycle: one IPv4 range of two addresses, one IPv6   *)
(* range of one, and two plain addresses, one of them in the range too; two *)
(* starts of the library.                                                  *)
(***************************************************************************)
EXTENDS Lifecycle

CONSTANTS a, b, c, x, r4, r6

MCAddresses == {a, b, c, x}
MCIPv6 == {x}
MCRanges == {r4, r6}
MCHosts(r) == IF r = r4 THEN {a, b} ELSE {x}
MCLines == {r4, r6, a, c}
MCStarts == 1..2
=============================================================================
