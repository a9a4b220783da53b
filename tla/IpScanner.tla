------------------------------ MODULE IpScanner ------------------------------
(***************************************************************************)
(* scan_ip_list (ip_scanner.rs): a TCP probe of every listed address, each *)
(* success handed at once to a TLS probe, an early stop after MAX_IP_SCAN  *)
(* healthy entries, and the merge and sort of the results.  A job is a     *)
(* position in the list.  A probe of module Probe is one step here.        *)
(***************************************************************************)
EXTENDS Score, Sequences, FiniteSets

CONSTANTS
    Ips,            \* the addresses of the list, in its order
    Permits1,       \* IP_MAX_P1_CONCURRENT
    Permits2,       \* IP_MAX_P2_CONCURRENT
    MAX_IP_SCAN,    \* 0: no early stop
    Latencies,      \* bound: the TCP latencies there are
    Measurements    \* bound: what a probe may measure after its handshake

Jobs == DOMAIN Ips

Addresses == {Ips[j] : j \in Jobs}

ASSUME ScannerAssumption ==
    /\ Ips \in Seq(Addresses)
    /\ {Permits1, Permits2, MAX_IP_SCAN} \subseteq Nat
    /\ Latencies \subseteq Nat /\ None \notin Entry
    /\ Measurements \subseteq [tls : Nat, ttfb : Measure, down : Measure, up : Measure]

\* What probe_tls_ttfb may return: no stream, no handshake, or an entry.
Answers(tcp) ==
    {TcpOnly(tcp), Scored(TcpOnly(tcp))}
        \cup {TlsEntry(tcp, m.tls, m.ttfb, m.down, m.up) : m \in Measurements}

VARIABLES
    p1,         \* a job's TCP probe: "queued", "probing", "sent", "received"
    tcp,        \* what it measured
    p1_chan,    \* jobs in the first channel
    p2,         \* a job's TLS probe: "none" until it is spawned
    probed,     \* the entry it returned
    p2_chan,    \* jobs in the second channel
    progress,   \* ProbeComplete events in the progress channel
    pc,         \* where scan_ip_list is
    tcp_results,    \* jobs, in the order their results were received
    tls_results,    \* an entry for an address, or None
    healthy_count,
    all         \* the list it returns

tasks == <<p1, tcp, p1_chan, p2, probed, p2_chan, progress>>
scan  == <<pc, tcp_results, tls_results, healthy_count, all>>
vars  == <<tasks, scan>>

Init ==
    /\ p1 = [j \in Jobs |-> "queued"] /\ tcp = [j \in Jobs |-> None]
    /\ p2 = [j \in Jobs |-> "none"] /\ probed = [j \in Jobs |-> None]
    /\ p1_chan = <<>> /\ p2_chan = <<>> /\ progress = <<>>
    /\ pc = "phase1" /\ tcp_results = <<>> /\ healthy_count = 0 /\ all = <<>>
    /\ tls_results = [a \in Addresses |-> None]

-----------------------------------------------------------------------------
\* The spawned tasks.

\* How many tasks hold a permit.
Probing(p) == Cardinality({j \in Jobs : p[j] \in {"probing", "reporting"}})

StartP1(j) ==
    /\ p1[j] = "queued" /\ Probing(p1) < Permits1
    /\ p1' = [p1 EXCEPT ![j] = "probing"]
    /\ UNCHANGED <<tcp, p1_chan, p2, probed, p2_chan, progress, scan>>

\* The connect returns or times out; the task sends its result and ends.
EndP1(j) ==
    /\ p1[j] = "probing"
    /\ \E ms \in Latencies \cup {None} : tcp' = [tcp EXCEPT ![j] = ms]
    /\ p1' = [p1 EXCEPT ![j] = "sent"]
    /\ p1_chan' = Append(p1_chan, j)
    /\ UNCHANGED <<p2, probed, p2_chan, progress, scan>>

StartP2(j) ==
    /\ p2[j] = "queued" /\ Probing(p2) < Permits2
    /\ p2' = [p2 EXCEPT ![j] = "probing"]
    /\ UNCHANGED <<p1, tcp, p1_chan, probed, p2_chan, progress, scan>>

EndP2(j) ==
    /\ p2[j] = "probing"
    /\ \E e \in Answers(tcp[j]) : probed' = [probed EXCEPT ![j] = e]
    /\ p2' = [p2 EXCEPT ![j] = "reporting"]
    /\ progress' = Append(progress, j)
    /\ UNCHANGED <<p1, tcp, p1_chan, p2_chan, scan>>

\* The second send: another task, or the reader of progress, may come first.
SendP2(j) ==
    /\ p2[j] = "reporting"
    /\ p2' = [p2 EXCEPT ![j] = "sent"]
    /\ p2_chan' = Append(p2_chan, j)
    /\ UNCHANGED <<p1, tcp, p1_chan, probed, progress, scan>>

Task(j) == StartP1(j) \/ EndP1(j) \/ StartP2(j) \/ EndP2(j) \/ SendP2(j)

-----------------------------------------------------------------------------
\* scan_ip_list itself.

\* Mutant of RecvP1: an address already listed is not probed again.
RecvP1Once ==
    /\ pc = "phase1" /\ p1_chan # <<>>
    /\ LET j == Head(p1_chan)
       IN  /\ p1' = [p1 EXCEPT ![j] = "received"]
           /\ IF \E i \in DOMAIN tcp_results : Ips[tcp_results[i]] = Ips[j]
                THEN UNCHANGED <<tcp_results, p2>>
                ELSE /\ tcp_results' = Append(tcp_results, j)
                     /\ p2' = IF tcp[j] # None THEN [p2 EXCEPT ![j] = "queued"] ELSE p2
    /\ p1_chan' = Tail(p1_chan)
    /\ UNCHANGED <<tcp, probed, p2_chan, progress, pc, tls_results, healthy_count, all>>

RecvP1 ==
    /\ pc = "phase1" /\ p1_chan # <<>>
    /\ LET j == Head(p1_chan)
       IN  /\ p1' = [p1 EXCEPT ![j] = "received"]
           /\ tcp_results' = Append(tcp_results, j)
           /\ p2' = IF tcp[j] # None THEN [p2 EXCEPT ![j] = "queued"] ELSE p2
    /\ p1_chan' = Tail(p1_chan)
    /\ UNCHANGED <<tcp, probed, p2_chan, progress, pc, tls_results, healthy_count, all>>

\* recv returns None: every sender is gone, with its message received.
Phase1Over ==
    /\ pc = "phase1" /\ \A j \in Jobs : p1[j] = "received"
    /\ pc' = "phase2"
    /\ UNCHANGED <<tasks, tcp_results, tls_results, healthy_count, all>>

LimitReached(count) == MAX_IP_SCAN > 0 /\ count >= MAX_IP_SCAN

\* Mutant of RecvP2: one entry too many is kept before the scan stops.
RecvP2Late ==
    /\ pc = "phase2" /\ p2_chan # <<>>
    /\ LET j     == Head(p2_chan)
           count == healthy_count + IF Healthy(probed[j]) THEN 1 ELSE 0
           stop  == Healthy(probed[j]) /\ MAX_IP_SCAN > 0 /\ count > MAX_IP_SCAN + 1
       IN  /\ p2' = [p2 EXCEPT ![j] = "received"]
           /\ healthy_count' = count
           /\ pc' = IF stop THEN "merging" ELSE pc
           /\ tls_results' = IF stop THEN tls_results
                             ELSE [tls_results EXCEPT ![Ips[j]] = probed[j]]
    /\ p2_chan' = Tail(p2_chan)
    /\ UNCHANGED <<p1, tcp, p1_chan, probed, progress, tcp_results, all>>

\* The entry that reaches the limit ends the loop before it is inserted.
RecvP2 ==
    /\ pc = "phase2" /\ p2_chan # <<>>
    /\ LET j     == Head(p2_chan)
           count == healthy_count + IF Healthy(probed[j]) THEN 1 ELSE 0
           stop  == Healthy(probed[j]) /\ LimitReached(count)
       IN  /\ p2' = [p2 EXCEPT ![j] = "received"]
           /\ healthy_count' = count
           /\ pc' = IF stop THEN "merging" ELSE pc
           /\ tls_results' = IF stop THEN tls_results
                             ELSE [tls_results EXCEPT ![Ips[j]] = probed[j]]
    /\ p2_chan' = Tail(p2_chan)
    /\ UNCHANGED <<p1, tcp, p1_chan, probed, progress, tcp_results, all>>

Phase2Over ==
    /\ pc = "phase2" /\ \A j \in Jobs : p2[j] \in {"none", "received"}
    /\ pc' = "merging"
    /\ UNCHANGED <<tasks, tcp_results, tls_results, healthy_count, all>>

\* tls_results.remove: only the first result of an address gets its entry.
IsFirst(i) == \A k \in 1 .. i - 1 : Ips[tcp_results[k]] # Ips[tcp_results[i]]

Merged(i) ==
    LET j == tcp_results[i]
    IN  [ip |-> Ips[j],
         entry |-> IF IsFirst(i) /\ tls_results[Ips[j]] # None
                     THEN tls_results[Ips[j]]
                     ELSE Scored(TcpOnly(tcp[j]))]

\* unwrap_or(u64::MAX): no latency comes after any latency.
Sooner(l, m) == l # None /\ (IF m = None THEN TRUE ELSE l < m)

Better(e, f) ==
    \/ e.score > f.score
    \/ e.score = f.score /\ Sooner(e.tcp, f.tcp)

\* The stable sort of n results: a list that shows them in an order in which
\* each is better than those after it, or came first and is not worse.
Sortings(item, n) ==
    {[r \in 1 .. n |-> item[p[r]]] : p \in
        {q \in [1 .. n -> 1 .. n] : \A r, s \in 1 .. n : r < s =>
            \/ Better(item[q[r]].entry, item[q[s]].entry)
            \/ q[r] < q[s] /\ ~Better(item[q[s]].entry, item[q[r]].entry)}}

\* Mutant of Merge: an entry is taken for every job of its address.
MergeCopies ==
    /\ pc = "merging"
    /\ pc' = "returned"
    /\ LET n    == Len(tcp_results)
           item == [i \in 1 .. n |->
                      LET j == tcp_results[i]
                      IN  [ip |-> Ips[j],
                           entry |-> IF tls_results[Ips[j]] # None THEN tls_results[Ips[j]]
                                     ELSE Scored(TcpOnly(tcp[j]))]]
       IN  all' \in Sortings(item, n)
    /\ UNCHANGED <<tasks, tcp_results, tls_results, healthy_count>>

Merge ==
    /\ pc = "merging"
    /\ pc' = "returned"
    /\ LET n == Len(tcp_results)
       IN  \E item \in {[i \in 1 .. n |-> Merged(i)]} : all' \in Sortings(item, n)
    /\ UNCHANGED <<tasks, tcp_results, tls_results, healthy_count>>

Scan == RecvP1 \/ Phase1Over \/ RecvP2 \/ Phase2Over \/ Merge

-----------------------------------------------------------------------------
Next == Scan \/ \E j \in Jobs : Task(j)

Spec == Init /\ [][Next]_vars

-----------------------------------------------------------------------------
\* Types, and which results may exist before the scan returns.
TypeOK ==
    /\ p1 \in [Jobs -> {"queued", "probing", "sent", "received"}]
    /\ p2 \in [Jobs -> {"none", "queued", "probing", "reporting", "sent", "received"}]
    /\ tcp \in [Jobs -> Latencies \cup {None}]
    /\ probed \in [Jobs -> Entry \cup {None}]
    /\ p1_chan \in Seq(Jobs) /\ p2_chan \in Seq(Jobs)
    /\ progress \in Seq(Jobs) /\ tcp_results \in Seq(Jobs)
    /\ pc \in {"phase1", "phase2", "merging", "returned"}
    /\ tls_results \in [Addresses -> Entry \cup {None}]
    /\ healthy_count \in Nat
    /\ all \in Seq([ip : Addresses, entry : Entry])

Returned == pc = "returned"

\* The scan returns every listed address as often as it is listed, however
\* the probes ended and whenever the scan stopped.
EveryAddressReturned ==
    Returned =>
        /\ Len(all) = Len(Ips)
        /\ \E f \in [Jobs -> Jobs] :
              /\ \A j, k \in Jobs : f[j] = f[k] => j = k
              /\ \A r \in Jobs : all[r].ip = Ips[f[r]]

\* The best score is first, and of equal scores the lower TCP latency.
SortedByScore ==
    \A r, s \in DOMAIN all : r < s => ~Better(all[s].entry, all[r].entry)

\* Nothing is made up: a returned entry is what a probe of that address sent,
\* or states only what its TCP probe measured; and no probe's entry is
\* returned twice.
EntriesComeFromProbes ==
    /\ \A r \in DOMAIN all :
          \E j \in Jobs :
             /\ Ips[j] = all[r].ip
             /\ all[r].entry \in {probed[j], Scored(TcpOnly(tcp[j]))}
    /\ \A r, s \in DOMAIN all :
          all[r].entry.tls_ok /\ all[s].entry.tls_ok /\ all[r].ip = all[s].ip => r = s

HealthyReturned == Cardinality({r \in DOMAIN all : Healthy(all[r].entry)})

\* With a limit the scan never returns more healthy addresses than it; an
\* address that was found healthy is missing only if the limit was reached.
LimitIsRespected ==
    Returned =>
        /\ MAX_IP_SCAN > 0 => HealthyReturned <= MAX_IP_SCAN
        /\ \/ LimitReached(healthy_count)
           \/ \A j \in Jobs : tcp[j] # None =>
                 \E r \in DOMAIN all : \E k \in Jobs :
                     Ips[k] = Ips[j] /\ all[r].ip = Ips[j] /\ all[r].entry = probed[k]

\* The scan returns whatever the network does, if there are permits at all;
\* without them it waits for ever, which validate() lets pass.
ScanReturns == Permits1 > 0 /\ Permits2 > 0 => <>Returned

=============================================================================
