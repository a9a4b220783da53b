-------------------------------- MODULE Score --------------------------------
(***************************************************************************)
(* A probe's entry and its score (IpProbeEntry and compute_score in        *)
(* ip_scanner.rs).  The code adds f64 points and rounds; here points are   *)
(* counted in thousandths, rounded down, and the sum is rounded.           *)
(***************************************************************************)
EXTENDS Integers

CONSTANTS
    None,       \* Option::None
    TcpCap,     \* TCP_LATENCY_CAP_MS
    TlsCap,     \* TLS_LATENCY_CAP_MS
    TtfbCap,    \* TTFB_CAP_MS
    DownCap,    \* SPEED_CAP_BPS
    UpCap       \* UPLOAD_SPEED_CAP_BPS

\* validate() asks this of the two speeds only; the defaults satisfy it.
ASSUME CapsAssumption ==
    /\ {TcpCap, TlsCap, TtfbCap, DownCap, UpCap} \subseteq Nat \ {0}
    /\ None \notin Int

Measure == Nat \cup {None}

\* IpProbeEntry without its address and without http_status, which nothing
\* depends on.
Entry == [tcp : Measure, tls_ok : BOOLEAN, tls : Measure, cert : BOOLEAN,
          ttfb : Measure, down : Measure, up : Measure, score : Nat]

-----------------------------------------------------------------------------
Capped(v, cap) == IF v <= cap THEN v ELSE cap

\* points * (1.0 - (v / cap).min(1.0))
Falling(points, v, cap) ==
    IF v = None THEN 0 ELSE (1000 * points * (cap - Capped(v, cap))) \div cap

\* points * (v / cap).min(1.0)
Rising(points, v, cap) ==
    IF v = None THEN 0 ELSE (1000 * points * Capped(v, cap)) \div cap

Flat(points, present) == IF present THEN 1000 * points ELSE 0

\* all_present and, in scan_ip_list, is_healthy: the same six conditions.
Healthy(e) ==
    /\ e.tcp # None /\ e.tls_ok /\ e.cert
    /\ e.ttfb # None /\ e.down # None /\ e.up # None

Thousandths(e) ==
      Rising(20, e.up, UpCap) + Rising(15, e.down, DownCap)
    + Falling(15, e.tcp, TcpCap) + Falling(15, e.tls, TlsCap)
    + Falling(15, e.ttfb, TtfbCap)
    + Flat(5, e.tls_ok) + Flat(5, e.cert) + Flat(10, Healthy(e))

compute_score(e) == (Thousandths(e) + 500) \div 1000

Scored(e) == [e EXCEPT !.score = compute_score(e)]

-----------------------------------------------------------------------------
\* An entry of which only the TCP connect is known, as it is built before
\* it is scored, or left with its score of 0.
TcpOnly(tcp) ==
    [tcp |-> tcp, tls_ok |-> FALSE, tls |-> None, cert |-> FALSE,
     ttfb |-> None, down |-> None, up |-> None, score |-> 0]

\* The entry a probe returns once its TLS handshake succeeded.
TlsEntry(tcp, tls, ttfb, down, up) ==
    Scored([tcp |-> tcp, tls_ok |-> TRUE, tls |-> tls, cert |-> TRUE,
            ttfb |-> ttfb, down |-> down, up |-> up, score |-> 0])
=============================================================================
