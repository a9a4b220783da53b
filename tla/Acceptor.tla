------------------------------ MODULE Acceptor ------------------------------
(***************************************************************************)
(* run_ip_bypass_plus_proxy and what feeds it: the accept loop takes the   *)
(* next address of the pool, or the active address, which the background   *)
(* rescan may change at any time, and spawns a connection that connects    *)
(* there.  A connection is seen from outside: the events it sends, in the  *)
(* order InterceptFlow and handle_tcp_seg_connection_with_ip send them,    *)
(* and the port that stands for it in them.  With tls_frag that is the     *)
(* port of the client, which two clients on different hosts can share;     *)
(* otherwise it is a local port, free again once the sockets are closed,   *)
(* which is before the last event is sent.                                 *)
(***************************************************************************)
EXTENDS Naturals, Sequences, FiniteSets

CONSTANTS
    Conns,      \* connections, numbered in the order they are accepted
    Ports,
    Pools,      \* the pools Startup may choose; <<>> in single mode
    Target,     \* the address selected at start
    Rescanned,  \* the addresses a rescan can find best
    IPv6,       \* those of them that are IPv6
    IndexMod,   \* the pool's counter is a u64: it wraps here
    MaxBytes,   \* bound on the bytes of a connection
    MaxQueued,  \* bound on the events that wait for the dashboard
    MaxSwaps,   \* bound on the rescans that change the address
    NoAddress, NoPort

ASSUME AcceptorAssumption ==
    /\ \A c \in Conns : c \in Nat /\ 1..c \subseteq Conns
    /\ Target \notin IPv6 /\ NoAddress \notin Rescanned \union {Target}
    /\ IndexMod \in Nat \ {0} /\ MaxBytes \in Nat
    /\ \A p \in Pools : p \in Seq({p[n] : n \in DOMAIN p})

VARIABLES
    conn,       \* each connection: state, port, ip, slot in the pool, bytes
                \* sent, and whether its ticker lives
    pool,       \* the addresses of the IpPool
    index,      \* IpPool::index
    target,     \* the active address, shared with the rescan
    announce,   \* the rescan wrote this address and has not sent the event
    swaps,      \* how often the rescan changed the address
    segmenting, \* BYPASS_METHOD is "tls_frag"
    events      \* the channel to the dashboard

acceptVars == <<conn, pool, index, target, announce, swaps, segmenting, events>>

AcceptInit ==
    /\ conn = [c \in Conns |-> [state |-> "none", port |-> NoPort, ip |-> NoAddress,
                                slot |-> 0, bytes |-> 0, ticker |-> FALSE]]
    /\ pool \in Pools
    /\ index = 0
    /\ target = Target
    /\ announce = NoAddress /\ swaps = 0
    /\ segmenting \in BOOLEAN
    /\ events = <<>>

Poolless == pool = <<>>

In(c, states) == conn[c].state \in states

\* Every event names its connection only by the port; "of" is for the reader.
Event(type, c, ip, bytes) ==
    [type |-> type, of |-> c, port |-> conn[c].port, ip |-> ip, bytes |-> bytes]

Send(e) == Len(events) < MaxQueued /\ events' = Append(events, e)

Becomes(c, s) == conn' = [conn EXCEPT ![c].state = s]

-----------------------------------------------------------------------------
\* Mutant of NextInPool: the pool's last address is never reached.
NextOfFirst == (index % (IF Len(pool) > 1 THEN Len(pool) - 1 ELSE 1)) + 1

\* IpPool::next: fetch_add, modulo the pool's length.
NextInPool == (index % Len(pool)) + 1

ConnectIp == IF Poolless THEN target ELSE pool[NextInPool]

\* Ports whose socket is open.
Taken == {conn[c].port : c \in {d \in Conns : In(d, {"connecting", "bypassing", "relaying"})}}

\* The accept loop: an IPv6 address costs the client its connection.
Accept(c) ==
    /\ In(c, {"none"}) /\ \A d \in 1..(c - 1) : ~In(d, {"none"})
    /\ index' = IF Poolless THEN index ELSE (index + 1) % IndexMod
    /\ \E p \in (IF segmenting THEN Ports ELSE Ports \ Taken) :
          conn' = [conn EXCEPT ![c].state = IF ConnectIp \in IPv6 THEN "refused" ELSE "connecting",
                               ![c].port = p, ![c].ip = ConnectIp,
                               ![c].slot = IF Poolless THEN 0 ELSE NextInPool]
    /\ UNCHANGED <<pool, target, announce, swaps, segmenting, events>>

ConnectFails(c) ==
    /\ In(c, {"connecting"})
    /\ Send(Event("ConnectionError", c, NoAddress, 0))
    /\ Becomes(c, "ended")
    /\ UNCHANGED <<pool, index, target, announce, swaps, segmenting>>

\* Mutant of Connects: the ticker is started with the connection.
ConnectsTicking(c) ==
    /\ In(c, {"connecting"})
    /\ Send(Event("ConnectionAccepted", c, conn[c].ip, 0))
    /\ conn' = [conn EXCEPT ![c].state = "bypassing", ![c].ticker = TRUE]
    /\ UNCHANGED <<pool, index, target, announce, swaps, segmenting>>

Connects(c) ==
    /\ In(c, {"connecting"})
    /\ Send(Event("ConnectionAccepted", c, conn[c].ip, 0))
    /\ Becomes(c, "bypassing")
    /\ UNCHANGED <<pool, index, target, announce, swaps, segmenting>>

\* Only the interception reports a failed bypass.
BypassFails(c) ==
    /\ In(c, {"bypassing"}) /\ ~segmenting
    /\ Send(Event("BypassFailed", c, NoAddress, 0))
    /\ Becomes(c, "ended")
    /\ UNCHANGED <<pool, index, target, announce, swaps, segmenting>>

\* set_nodelay fails; with tls_frag also: the ClientHello cannot be read or
\* written.  The task returns its error and sends no event.
EndsSilently(c) ==
    /\ In(c, {"bypassing"})
    /\ Becomes(c, "ended")
    /\ UNCHANGED <<pool, index, target, announce, swaps, segmenting, events>>

Bypassed(c) ==
    /\ In(c, {"bypassing"})
    /\ Send(Event("BypassComplete", c, NoAddress, 0))
    /\ conn' = [conn EXCEPT ![c].state = "relaying", ![c].ticker = TRUE]
    /\ UNCHANGED <<pool, index, target, announce, swaps, segmenting>>

\* The ticker's task reports what has been moved so far.  After its abort it
\* sends at most one event (Relay's FinishedIsLastWord), maybe behind RelayFinished.
\* Of a relay that was cut off that event may show less or more than the end.
Tick(c) ==
    /\ conn[c].ticker
    /\ \E b \in (IF In(c, {"relaying"}) THEN conn[c].bytes ELSE 0)..MaxBytes :
          /\ Send(Event("RelayProgress", c, NoAddress, b))
          /\ conn' = [conn EXCEPT ![c].ticker = In(c, {"relaying"}),
                                  ![c].bytes = IF In(c, {"relaying"}) THEN b ELSE @]
    /\ UNCHANGED <<pool, index, target, announce, swaps, segmenting>>

TickerEnds(c) ==
    /\ conn[c].ticker /\ In(c, {"ended"})
    /\ conn' = [conn EXCEPT ![c].ticker = FALSE]
    /\ UNCHANGED <<pool, index, target, announce, swaps, segmenting, events>>

\* The relay is over and the ticker aborted.  A deadline reads the counters
\* before it aborts the ticker, which may have shown more by then.
RelayCloses(c) ==
    /\ In(c, {"relaying"})
    /\ \E b \in 0..MaxBytes :
          conn' = [conn EXCEPT ![c].state = "closing", ![c].bytes = b]
    /\ UNCHANGED <<pool, index, target, announce, swaps, segmenting, events>>

RelayEnds(c) ==
    /\ In(c, {"closing"})
    /\ Send(Event("RelayFinished", c, NoAddress, conn[c].bytes))
    /\ Becomes(c, "ended")
    /\ UNCHANGED <<pool, index, target, announce, swaps, segmenting>>

Connection(c) ==
    \/ Accept(c)
    \/ ConnectFails(c)
    \/ Connects(c)
    \/ BypassFails(c)
    \/ EndsSilently(c)
    \/ Bypassed(c)
    \/ Tick(c)
    \/ TickerEnds(c)
    \/ RelayCloses(c)
    \/ RelayEnds(c)

-----------------------------------------------------------------------------
\* background_ip_rescan: the best entry, whatever its family or range, if it
\* is another address and scores SNI_SWITCH_MIN_SCORE; pool mode included.
Rescan ==
    /\ announce = NoAddress /\ swaps < MaxSwaps
    /\ \E best \in Rescanned \ {target} : target' = best /\ announce' = best
    /\ swaps' = swaps + 1
    /\ UNCHANGED <<conn, pool, index, segmenting, events>>

\* Mutant of Announce: the rescan was given no sender, as without a terminal.
AnnounceToNobody ==
    /\ announce # NoAddress
    /\ announce' = NoAddress
    /\ UNCHANGED <<conn, pool, index, target, swaps, segmenting, events>>

Announce ==
    /\ announce # NoAddress
    /\ Len(events) < MaxQueued
    /\ events' = Append(events, [type |-> "IpTargetChanged", of |-> 0, port |-> NoPort,
                                 ip |-> announce, bytes |-> 0])
    /\ announce' = NoAddress
    /\ UNCHANGED <<conn, pool, index, target, swaps, segmenting>>

-----------------------------------------------------------------------------
\* How often a slot of the pool was handed out.
Picks(n) == Cardinality({c \in Conns : conn[c].slot = n})

\* Round robin: until the counter wraps, no slot of the pool is more than one
\* connection ahead of another, refused connections included.
PoolIsFair ==
    Cardinality({c \in Conns : ~In(c, {"none"})}) <= IndexMod =>
        \A m, n \in DOMAIN pool : Picks(m) <= Picks(n) + 1
=============================================================================
