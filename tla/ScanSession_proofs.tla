------------------------- MODULE ScanSession_proofs -------------------------
(***************************************************************************)
(* Proofs about the scan and about the session it runs in at the start of  *)
(* the program, for any list of addresses, any limits and any              *)
(* measurements.                                                           *)
(*                                                                         *)
(* The scan: Traffic says that a job is in at most one place of the        *)
(* pipeline, Kept that tls_results holds entries of received probes, and   *)
(* Listed that what is returned is a sorting of the merge.                 *)
(***************************************************************************)
EXTENDS ScanSession, FiniteSetTheorems, TLAPS

\* No phase takes points away: a score is a natural number.
LEMMA Points ==
    ASSUME NEW points \in Nat, NEW cap \in Nat \ {0}, NEW v \in Measure
    PROVE  Falling(points, v, cap) \in Nat /\ Rising(points, v, cap) \in Nat
  <1>1. ASSUME NEW n \in Nat
        PROVE  n \div cap \in Nat
    OBVIOUS
  <1>2. v # None =>
            /\ 1000 * points * (cap - Capped(v, cap)) \in Nat
            /\ 1000 * points * Capped(v, cap) \in Nat
    BY DEF Capped, Measure
  <1> HIDE DEF Capped
  <1> QED BY <1>1, <1>2 DEF Falling, Rising

\* The entries a probe may return, and those of the merge, are entries.
LEMMA ScoredEntry ==
    ASSUME NEW e \in Entry
    PROVE  Scored(e) \in Entry
  <1>1. /\ e.tcp \in Measure /\ e.tls \in Measure /\ e.ttfb \in Measure
        /\ e.down \in Measure /\ e.up \in Measure
    BY DEF Entry
  <1>2. /\ TcpCap \in Nat \ {0} /\ TlsCap \in Nat \ {0} /\ TtfbCap \in Nat \ {0}
        /\ DownCap \in Nat \ {0} /\ UpCap \in Nat \ {0}
    BY CapsAssumption
  <1>3. Rising(20, e.up, UpCap) \in Nat /\ Rising(15, e.down, DownCap) \in Nat
    BY <1>1, <1>2, Points
  <1>4. /\ Falling(15, e.tcp, TcpCap) \in Nat /\ Falling(15, e.tls, TlsCap) \in Nat
        /\ Falling(15, e.ttfb, TtfbCap) \in Nat
    BY <1>1, <1>2, Points
  <1>5. /\ Flat(5, e.tls_ok) \in Nat /\ Flat(5, e.cert) \in Nat
        /\ Flat(10, Healthy(e)) \in Nat
    BY DEF Flat
  <1>6. Thousandths(e) \in Nat
    BY <1>3, <1>4, <1>5 DEF Thousandths
  <1>7. compute_score(e) \in Nat
    <2> HIDE DEF Thousandths
    <2> QED BY <1>6 DEF compute_score
  <1> HIDE DEF compute_score
  <1> QED BY <1>7 DEF Scored, Entry

LEMMA TcpOnlyEntry ==
    ASSUME NEW t \in Measure
    PROVE  TcpOnly(t) \in Entry /\ Scored(TcpOnly(t)) \in Entry
  <1>1. TcpOnly(t) \in Entry
    BY DEF TcpOnly, Entry, Measure
  <1> QED BY <1>1, ScoredEntry

LEMMA AnswersAreEntries ==
    ASSUME NEW t \in Measure
    PROVE  Answers(t) \subseteq Entry
  <1>1. ASSUME NEW m \in Measurements
        PROVE  TlsEntry(t, m.tls, m.ttfb, m.down, m.up) \in Entry
    <2>1. /\ m.tls \in Measure /\ m.ttfb \in Measure
          /\ m.down \in Measure /\ m.up \in Measure
      BY ScannerAssumption DEF Measure
    <2>2. [tcp |-> t, tls_ok |-> TRUE, tls |-> m.tls, cert |-> TRUE, ttfb |-> m.ttfb,
           down |-> m.down, up |-> m.up, score |-> 0] \in Entry
      BY <2>1 DEF Entry
    <2> QED BY <2>2, ScoredEntry DEF TlsEntry
  <1> QED BY <1>1, TcpOnlyEntry DEF Answers

LEMMA Latency ==
    ASSUME TypeOK, NEW j \in Jobs
    PROVE  tcp[j] \in Measure
  BY ScannerAssumption DEF TypeOK, Measure

LEMMA List ==
    /\ Len(Ips) \in Nat /\ Jobs = 1 .. Len(Ips)
    /\ \A j \in Jobs : Ips[j] \in Addresses
  BY ScannerAssumption DEF Jobs, Addresses

-----------------------------------------------------------------------------
\* Types.

LEMMA MergedTyped ==
    ASSUME TypeOK, NEW i \in 1 .. Len(tcp_results)
    PROVE  Merged(i) \in [ip : Addresses, entry : Entry]
  <1>1. tcp_results[i] \in Jobs
    BY DEF TypeOK
  <1>2. Ips[tcp_results[i]] \in Addresses
    BY <1>1, List
  <1>3. Scored(TcpOnly(tcp[tcp_results[i]])) \in Entry
    BY <1>1, Latency, TcpOnlyEntry
  <1>4. tls_results[Ips[tcp_results[i]]] \in Entry \cup {None}
    BY <1>2 DEF TypeOK
  <1> QED BY <1>1, <1>2, <1>3, <1>4 DEF Merged

LEMMA TypingStep == TypeOK /\ [Next]_vars => TypeOK'
  <1> SUFFICES ASSUME TypeOK, [Next]_vars PROVE TypeOK'
    OBVIOUS
  <1>1. ASSUME NEW j \in Jobs, StartP1(j) \/ StartP2(j)
        PROVE  TypeOK'
    BY <1>1 DEF TypeOK, StartP1, StartP2, scan
  <1>2. ASSUME NEW j \in Jobs, EndP1(j)
        PROVE  TypeOK'
    BY <1>2 DEF TypeOK, EndP1, scan
  <1>3. ASSUME NEW j \in Jobs, EndP2(j)
        PROVE  TypeOK'
    <2>1. Answers(tcp[j]) \subseteq Entry
      BY Latency, AnswersAreEntries
    <2> QED BY <1>3, <2>1 DEF TypeOK, EndP2, scan
  <1>4. ASSUME NEW j \in Jobs, SendP2(j)
        PROVE  TypeOK'
    BY <1>4 DEF TypeOK, SendP2, scan
  <1>5. CASE RecvP1
    <2>1. Head(p1_chan) \in Jobs /\ Tail(p1_chan) \in Seq(Jobs)
      BY <1>5 DEF RecvP1, TypeOK
    <2>2. Append(tcp_results, Head(p1_chan)) \in Seq(Jobs)
      BY <2>1 DEF TypeOK
    <2> QED BY <1>5, <2>1, <2>2 DEF TypeOK, RecvP1
  <1>6. CASE RecvP2
    <2>1. Head(p2_chan) \in Jobs /\ Tail(p2_chan) \in Seq(Jobs)
      BY <1>6 DEF RecvP2, TypeOK
    <2>2. Ips[Head(p2_chan)] \in Addresses
      BY <2>1, List
    <2>3. healthy_count' \in Nat
      BY <1>6 DEF RecvP2, TypeOK
    <2>4. tls_results' \in [Addresses -> Entry \cup {None}]
      BY <1>6, <2>1, <2>2 DEF RecvP2, TypeOK
    <2>5. pc' \in {"phase2", "merging"}
      BY <1>6 DEF RecvP2
    <2> QED BY <1>6, <2>1, <2>3, <2>4, <2>5 DEF TypeOK, RecvP2
  <1>7. CASE Phase1Over \/ Phase2Over
    BY <1>7 DEF TypeOK, Phase1Over, Phase2Over, tasks
  <1>8. CASE Merge
    <2> DEFINE n    == Len(tcp_results)
               item == [i \in 1 .. n |-> Merged(i)]
               IE   == [ip : Addresses, entry : Entry]
    <2>1. n \in Nat
      BY DEF TypeOK
    <2>2. \A i \in 1 .. n : item[i] \in IE
      BY MergedTyped
    <2>5. all' \in Sortings(item, n)
      BY <1>8 DEF Merge
    <2> HIDE DEF n, item
    <2>3. PICK p \in [1 .. n -> 1 .. n] : all' = [r \in 1 .. n |-> item[p[r]]]
      BY ONLY <2>5 DEF Sortings
    <2> USE DEF n, item
    <2>4. all' \in Seq(IE)
      <3> HIDE DEF n, item, IE
      <3>1. [r \in 1 .. n |-> item[p[r]]] \in [1 .. n -> IE]
        BY ONLY <2>2, <2>3
      <3>2. ASSUME NEW f \in [1 .. n -> IE] PROVE f \in Seq(IE)
        BY ONLY <2>1
      <3> QED BY ONLY <2>3, <3>1, <3>2
    <2> QED BY <1>8, <2>4 DEF TypeOK, Merge, tasks
  <1>9. CASE UNCHANGED vars
    BY <1>9 DEF TypeOK, vars, tasks, scan
  <1> QED BY <1>1, <1>2, <1>3, <1>4, <1>5, <1>6, <1>7, <1>8, <1>9 DEF Next, Scan, Task

\* Every variable of the scan keeps its type, whatever is probed.
THEOREM Typing == Spec => []TypeOK
  <1>1. Init => TypeOK
    BY DEF Init, TypeOK
  <1> QED BY <1>1, TypingStep, PTL DEF Spec

-----------------------------------------------------------------------------
\* Where jobs are.

\* s names no job twice.
OnceEach(s) == \A i, k \in 1 .. Len(s) : s[i] = s[k] => i = k

Traffic ==
    /\ OnceEach(p1_chan) /\ OnceEach(p2_chan) /\ OnceEach(tcp_results)
    /\ \A i \in 1 .. Len(p1_chan) : p1[p1_chan[i]] = "sent"
    /\ \A i \in 1 .. Len(p2_chan) : p2[p2_chan[i]] = "sent"
    /\ \A i \in 1 .. Len(tcp_results) : p1[tcp_results[i]] = "received"
    /\ \A j \in Jobs : p1[j] = "received" =>
          \E i \in 1 .. Len(tcp_results) : tcp_results[i] = j
    /\ \A j \in Jobs : p1[j] # "received" => p2[j] = "none"
    /\ pc # "phase1" => \A j \in Jobs : p1[j] = "received"

LEMMA HeadTail ==
    ASSUME NEW S, NEW s \in Seq(S), s # <<>>
    PROVE  /\ Len(s) >= 1 /\ Head(s) = s[1] /\ Head(s) \in S
           /\ Tail(s) \in Seq(S) /\ Len(Tail(s)) = Len(s) - 1
           /\ \A i \in 1 .. Len(Tail(s)) : i + 1 \in 1 .. Len(s) /\ Tail(s)[i] = s[i + 1]
  OBVIOUS

LEMMA OnceEachTail ==
    ASSUME NEW S, NEW s \in Seq(S), s # <<>>, OnceEach(s)
    PROVE  /\ OnceEach(Tail(s))
           /\ \A i \in 1 .. Len(Tail(s)) : Tail(s)[i] # Head(s)
  BY HeadTail DEF OnceEach

LEMMA OnceEachAppend ==
    ASSUME NEW S, NEW s \in Seq(S), NEW x \in S, OnceEach(s),
           \A i \in 1 .. Len(s) : s[i] # x
    PROVE  /\ OnceEach(Append(s, x)) /\ Len(Append(s, x)) = Len(s) + 1
           /\ Append(s, x)[Len(s) + 1] = x
           /\ \A i \in 1 .. Len(s) : Append(s, x)[i] = s[i]
  BY DEF OnceEach

LEMMA TrafficStep == TypeOK /\ Traffic /\ [Next]_vars => Traffic'
  <1> SUFFICES ASSUME TypeOK, Traffic, [Next]_vars PROVE Traffic'
    OBVIOUS
  <1>1. ASSUME NEW j \in Jobs, StartP1(j)
        PROVE  Traffic'
    BY <1>1 DEF TypeOK, Traffic, StartP1, scan
  <1>2. ASSUME NEW j \in Jobs, EndP1(j)
        PROVE  Traffic'
    <2>1. \A i \in 1 .. Len(p1_chan) : p1_chan[i] # j
      BY <1>2 DEF EndP1, Traffic
    <2>2. /\ OnceEach(p1_chan') /\ Len(p1_chan') = Len(p1_chan) + 1
          /\ p1_chan'[Len(p1_chan) + 1] = j
          /\ \A i \in 1 .. Len(p1_chan) : p1_chan'[i] = p1_chan[i]
      BY <1>2, <2>1, OnceEachAppend DEF EndP1, TypeOK, Traffic
    <2>3. \A i \in 1 .. Len(p1_chan') : p1'[p1_chan'[i]] = "sent"
      BY <1>2, <2>1, <2>2 DEF EndP1, TypeOK, Traffic
    <2>4. \A k \in Jobs : (p1'[k] = "received") = (p1[k] = "received")
      BY <1>2 DEF EndP1, TypeOK
    <2>5. UNCHANGED <<p2, p2_chan, tcp_results, pc>>
      BY <1>2 DEF EndP1, scan
    <2>6. \A i \in 1 .. Len(tcp_results) : tcp_results[i] \in Jobs
      BY DEF TypeOK
    <2> QED BY <2>2, <2>3, <2>4, <2>5, <2>6 DEF Traffic
  <1>3. ASSUME NEW j \in Jobs, StartP2(j) \/ EndP2(j)
        PROVE  Traffic'
    <2>1. p2[j] \in {"queued", "probing"} /\ p1[j] = "received"
      BY <1>3 DEF StartP2, EndP2, Traffic
    <2>2. p2' \in {[p2 EXCEPT ![j] = "probing"], [p2 EXCEPT ![j] = "reporting"]}
      BY <1>3 DEF StartP2, EndP2
    <2>3. UNCHANGED <<p1, p1_chan, p2_chan, tcp_results, pc>>
      BY <1>3 DEF StartP2, EndP2, scan
    <2> QED BY <2>1, <2>2, <2>3 DEF TypeOK, Traffic
  <1>4. ASSUME NEW j \in Jobs, SendP2(j)
        PROVE  Traffic'
    <2>1. \A i \in 1 .. Len(p2_chan) : p2_chan[i] # j
      BY <1>4 DEF SendP2, Traffic
    <2>2. /\ OnceEach(p2_chan') /\ Len(p2_chan') = Len(p2_chan) + 1
          /\ p2_chan'[Len(p2_chan) + 1] = j
          /\ \A i \in 1 .. Len(p2_chan) : p2_chan'[i] = p2_chan[i]
      BY <1>4, <2>1, OnceEachAppend DEF SendP2, TypeOK, Traffic
    <2>3. \A i \in 1 .. Len(p2_chan') : p2'[p2_chan'[i]] = "sent"
      BY <1>4, <2>1, <2>2 DEF SendP2, TypeOK, Traffic
    <2>4. p1[j] = "received"
      BY <1>4 DEF SendP2, Traffic
    <2>5. \A k \in Jobs : k # j => p2'[k] = p2[k]
      BY <1>4 DEF SendP2, TypeOK
    <2>6. UNCHANGED <<p1, p1_chan, tcp_results, pc>>
      BY <1>4 DEF SendP2, scan
    <2> QED BY <2>2, <2>3, <2>4, <2>5, <2>6 DEF Traffic
  <1>5. CASE RecvP1
    <2> DEFINE j == Head(p1_chan)
    <2>1. /\ j \in Jobs /\ p1[j] = "sent" /\ p2[j] = "none"
          /\ OnceEach(p1_chan') /\ \A i \in 1 .. Len(p1_chan') : p1_chan'[i] # j
          /\ \A i \in 1 .. Len(p1_chan') : p1[p1_chan'[i]] = "sent"
          /\ p1_chan' \in Seq(Jobs)
      BY <1>5, HeadTail, OnceEachTail DEF RecvP1, TypeOK, Traffic
    <2>2. \A i \in 1 .. Len(tcp_results) : tcp_results[i] # j
      BY <2>1 DEF Traffic
    <2>3. /\ OnceEach(tcp_results') /\ Len(tcp_results') = Len(tcp_results) + 1
          /\ tcp_results'[Len(tcp_results) + 1] = j
          /\ \A i \in 1 .. Len(tcp_results) : tcp_results'[i] = tcp_results[i]
      <3>1. tcp_results' = Append(tcp_results, j)
        BY <1>5 DEF RecvP1
      <3>2. tcp_results \in Seq(Jobs) /\ OnceEach(tcp_results)
        BY DEF TypeOK, Traffic
      <3> HIDE DEF j
      <3> QED BY <2>1, <2>2, <3>1, <3>2, OnceEachAppend
    <2>4. /\ p1' = [p1 EXCEPT ![j] = "received"] /\ pc = "phase1"
          /\ p2' \in {p2, [p2 EXCEPT ![j] = "queued"]}
          /\ UNCHANGED <<p2_chan, pc>>
      BY <1>5 DEF RecvP1
    <2>5. /\ Len(tcp_results) \in Nat
          /\ \A i \in 1 .. Len(tcp_results) : tcp_results[i] \in Jobs
          /\ \A k \in Jobs : p1'[k] = IF k = j THEN "received" ELSE p1[k]
      <3> HIDE DEF j
      <3> QED BY <2>4 DEF TypeOK
    <2>6. \A i \in 1 .. Len(tcp_results') : p1'[tcp_results'[i]] = "received"
      <3> HIDE DEF j
      <3> SUFFICES ASSUME NEW i \in 1 .. Len(tcp_results')
                   PROVE  p1'[tcp_results'[i]] = "received"
        OBVIOUS
      <3>1. CASE i = Len(tcp_results) + 1
        BY <2>1, <2>3, <2>5, <3>1
      <3>2. CASE i \in 1 .. Len(tcp_results)
        BY <2>3, <2>5, <3>2 DEF Traffic
      <3> QED BY <2>3, <2>5, <3>1, <3>2
    <2>7. \A k \in Jobs : p1'[k] = "received" =>
             \E i \in 1 .. Len(tcp_results') : tcp_results'[i] = k
      <3> HIDE DEF j
      <3> SUFFICES ASSUME NEW k \in Jobs, p1'[k] = "received"
                   PROVE  \E i \in 1 .. Len(tcp_results') : tcp_results'[i] = k
        OBVIOUS
      <3>1. CASE k = j
        BY <2>3, <2>5, <3>1
      <3>2. CASE k # j
        <4>1. PICK i \in 1 .. Len(tcp_results) : tcp_results[i] = k
          BY <2>5, <3>2 DEF Traffic
        <4> QED BY <2>3, <2>5, <4>1
      <3> QED BY <3>1, <3>2
    <2>8. \A i \in 1 .. Len(p1_chan') : p1'[p1_chan'[i]] = "sent"
      <3> HIDE DEF j
      <3> QED BY <2>1, <2>4 DEF TypeOK
    <2>9. \A i \in 1 .. Len(p2_chan') : p2'[p2_chan'[i]] = "sent"
      <3> HIDE DEF j
      <3> QED BY <2>1, <2>4 DEF TypeOK, Traffic
    <2>10. \A k \in Jobs : p1'[k] # "received" => p2'[k] = "none"
      <3> HIDE DEF j
      <3> QED BY <2>1, <2>4 DEF TypeOK, Traffic
    <2> QED BY <2>1, <2>3, <2>4, <2>6, <2>7, <2>8, <2>9, <2>10 DEF Traffic
  <1>6. CASE RecvP2
    <2> DEFINE j == Head(p2_chan)
    <2>1. /\ j \in Jobs /\ p2[j] = "sent"
          /\ OnceEach(p2_chan') /\ \A i \in 1 .. Len(p2_chan') : p2_chan'[i] # j
          /\ \A i \in 1 .. Len(p2_chan') : p2[p2_chan'[i]] = "sent"
          /\ p2_chan' \in Seq(Jobs)
          /\ \A i \in 1 .. Len(p2_chan') : p2_chan'[i] \in Jobs
      <3>1. p2_chan \in Seq(Jobs) /\ p2_chan # <<>> /\ p2_chan' = Tail(p2_chan)
        BY <1>6 DEF RecvP2, TypeOK
      <3>2. OnceEach(p2_chan) /\ \A i \in 1 .. Len(p2_chan) : p2[p2_chan[i]] = "sent"
        BY DEF Traffic
      <3>3. /\ Len(p2_chan) >= 1 /\ j = p2_chan[1] /\ j \in Jobs
            /\ Tail(p2_chan) \in Seq(Jobs)
            /\ \A i \in 1 .. Len(Tail(p2_chan)) :
                  i + 1 \in 1 .. Len(p2_chan) /\ Tail(p2_chan)[i] = p2_chan[i + 1]
        BY <3>1, HeadTail
      <3>4. OnceEach(Tail(p2_chan)) /\ \A i \in 1 .. Len(Tail(p2_chan)) : Tail(p2_chan)[i] # j
        BY <3>1, <3>2, OnceEachTail
      <3> HIDE DEF j
      <3> QED BY <3>1, <3>2, <3>3, <3>4
    <2>2. /\ p2' = [p2 EXCEPT ![j] = "received"]
          /\ UNCHANGED <<p1, p1_chan, tcp_results>> /\ pc = "phase2"
      BY <1>6 DEF RecvP2
    <2> HIDE DEF j
    <2>3. p1[j] = "received"
      BY <2>1 DEF Traffic
    <2>4. /\ \A i \in 1 .. Len(p2_chan') : p2'[p2_chan'[i]] = "sent"
          /\ \A k \in Jobs : p1'[k] # "received" => p2'[k] = "none"
      BY <2>1, <2>2, <2>3 DEF TypeOK, Traffic
    <2> QED BY <2>1, <2>2, <2>4 DEF Traffic
  <1>7. CASE Phase1Over \/ Phase2Over \/ Merge
    BY <1>7 DEF Traffic, Phase1Over, Phase2Over, Merge, tasks
  <1>8. CASE UNCHANGED vars
    BY <1>8 DEF Traffic, vars, tasks, scan
  <1> QED BY <1>1, <1>2, <1>3, <1>4, <1>5, <1>6, <1>7, <1>8 DEF Next, Scan, Task

LEMMA TrafficInv == Spec => [](TypeOK /\ Traffic)
  <1>1. Init => Traffic
    BY DEF Init, Traffic, OnceEach
  <1> QED BY <1>1, TrafficStep, Typing, PTL DEF Spec

-----------------------------------------------------------------------------
\* What is returned.

Item == [i \in 1 .. Len(tcp_results) |-> Merged(i)]

\* A result is what it was as long as its TCP latency and the entry kept for
\* its address are.
LEMMA ItemKept ==
    ASSUME TypeOK, Traffic, UNCHANGED <<tcp_results, tls_results>>,
           \A j \in Jobs : p1[j] = "received" => tcp'[j] = tcp[j]
    PROVE  Item' = Item
  <1>1. ASSUME NEW i \in 1 .. Len(tcp_results)
        PROVE  Merged(i)' = Merged(i)
    <2>1. /\ tcp_results[i] \in Jobs
          /\ tcp'[tcp_results[i]] = tcp[tcp_results[i]]
      BY DEF TypeOK, Traffic
    <2> QED BY <2>1 DEF Merged, IsFirst
  <1> QED BY <1>1 DEF Item

LEMMA SortingKept ==
    ASSUME pc = "returned" => all \in Sortings(Item, Len(tcp_results)),
           UNCHANGED <<all, tcp_results, pc>>, Item' = Item, pc = "returned"
    PROVE  (all \in Sortings(Item, Len(tcp_results)))'
  BY DEF Sortings

\* The part of Outcome about tls_results, kept by a step that leaves the
\* entries of the received jobs alone.
Kept ==
    \A x \in Addresses : tls_results[x] # None =>
        \E j \in Jobs : Ips[j] = x /\ p2[j] = "received" /\ tls_results[x] = probed[j]

Listed == IF pc = "returned" THEN all \in Sortings(Item, Len(tcp_results)) ELSE all = <<>>

LEMMA KeptStep == TypeOK /\ Traffic /\ Kept /\ [Next]_vars => Kept'
  <1> SUFFICES ASSUME TypeOK, Traffic, Kept, [Next]_vars PROVE Kept'
    OBVIOUS
  <1>1. ASSUME NEW j \in Jobs, StartP1(j) \/ EndP1(j)
        PROVE  Kept'
    BY <1>1 DEF Kept, StartP1, EndP1, scan
  <1>2. ASSUME NEW j \in Jobs, StartP2(j) \/ EndP2(j) \/ SendP2(j)
        PROVE  Kept'
    <2>1. /\ p2[j] # "received" /\ UNCHANGED tls_results
          /\ \A k \in Jobs : k # j => p2'[k] = p2[k] /\ probed'[k] = probed[k]
      BY <1>2 DEF TypeOK, StartP2, EndP2, SendP2, scan
    <2> QED BY <2>1 DEF Kept
  <1>3. CASE RecvP1
    <2> DEFINE j == Head(p1_chan)
    <2>1. j \in Jobs /\ p1[j] = "sent"
      BY <1>3, HeadTail DEF RecvP1, TypeOK, Traffic
    <2>2. p2[j] = "none" /\ UNCHANGED <<tls_results, probed>>
          /\ p2' \in {p2, [p2 EXCEPT ![j] = "queued"]}
      BY <1>3, <2>1 DEF RecvP1, Traffic
    <2> HIDE DEF j
    <2>3. \A k \in Jobs : p2[k] = "received" => p2'[k] = "received"
      BY <2>1, <2>2 DEF TypeOK
    <2> QED BY <2>2, <2>3 DEF Kept
  <1>4. CASE RecvP2
    <2> DEFINE j == Head(p2_chan)
    <2>1. /\ j \in Jobs /\ p2' = [p2 EXCEPT ![j] = "received"] /\ UNCHANGED probed
          /\ tls_results' \in {tls_results, [tls_results EXCEPT ![Ips[j]] = probed[j]]}
      BY <1>4, HeadTail DEF RecvP2, TypeOK
    <2> HIDE DEF j
    <2>2. \A k \in Jobs : p2[k] = "received" => p2'[k] = "received"
      BY <2>1 DEF TypeOK
    <2>3. p2'[j] = "received"
      BY <2>1 DEF TypeOK
    <2>4. \A x \in Addresses : \/ tls_results'[x] = tls_results[x]
                               \/ x = Ips[j] /\ tls_results'[x] = probed[j]
      BY <2>1 DEF TypeOK
    <2> QED BY <2>1, <2>2, <2>3, <2>4 DEF Kept
  <1>5. CASE Phase1Over \/ Phase2Over \/ Merge
    BY <1>5 DEF Kept, Phase1Over, Phase2Over, Merge, tasks
  <1>6. CASE UNCHANGED vars
    BY <1>6 DEF Kept, vars, tasks, scan
  <1> QED BY <1>1, <1>2, <1>3, <1>4, <1>5, <1>6 DEF Next, Scan, Task

LEMMA ListedStep == TypeOK /\ Traffic /\ Listed /\ [Next]_vars => Listed'
  <1> SUFFICES ASSUME TypeOK, Traffic, Listed, [Next]_vars PROVE Listed'
    OBVIOUS
  <1>1. ASSUME UNCHANGED scan,
               \A j \in Jobs : p1[j] = "received" => tcp'[j] = tcp[j]
        PROVE  Listed'
    <2>1. UNCHANGED <<pc, all, tcp_results, tls_results>>
      BY <1>1 DEF scan
    <2>2. Item' = Item
      BY <1>1, <2>1, ItemKept
    <2>3. CASE pc = "returned"
      BY <2>1, <2>2, <2>3, SortingKept DEF Listed
    <2> QED BY <2>1, <2>3 DEF Listed
  <1>2. ASSUME NEW j \in Jobs, Task(j)
        PROVE  UNCHANGED scan /\ \A k \in Jobs : p1[k] = "received" => tcp'[k] = tcp[k]
    BY <1>2 DEF Task, StartP1, EndP1, StartP2, EndP2, SendP2, TypeOK
  <1>3. CASE RecvP1 \/ Phase1Over \/ RecvP2 \/ Phase2Over
    BY <1>3 DEF Listed, RecvP1, Phase1Over, RecvP2, Phase2Over
  <1>4. CASE Merge
    <2>1. UNCHANGED <<tcp, tcp_results, tls_results>> /\ pc' = "returned"
      BY <1>4 DEF Merge, tasks
    <2>2. Item' = Item
      BY <2>1, ItemKept
    <2>3. all' \in Sortings(Item, Len(tcp_results))
      BY <1>4 DEF Merge, Item
    <2>4. all' \in Sortings(Item', Len(tcp_results'))
      BY <2>1, <2>2, <2>3
    <2> QED BY <2>1, <2>4 DEF Listed, Sortings
  <1>5. CASE UNCHANGED vars
    BY <1>1, <1>5 DEF vars, tasks
  <1> QED BY <1>1, <1>2, <1>3, <1>4, <1>5 DEF Next, Scan

LEMMA OutcomeInv == Spec => [](TypeOK /\ Traffic /\ Kept /\ Listed)
  <1>1. Init => Kept /\ Listed
    BY DEF Init, Kept, Listed
  <1> QED BY <1>1, KeptStep, ListedStep, TrafficInv, PTL DEF Spec

-----------------------------------------------------------------------------
\* The properties of what is returned.

LEMMA BetterIsStrict ==
    ASSUME NEW e \in Entry, NEW f \in Entry
    PROVE  ~Better(e, e) /\ (Better(e, f) => ~Better(f, e))
  BY CapsAssumption DEF Better, Sooner, Entry, Measure

\* What Sortings says, with the permutation named.
LEMMA Sorted ==
    ASSUME TypeOK, Listed, pc = "returned"
    PROVE  \E p \in [1 .. Len(tcp_results) -> 1 .. Len(tcp_results)] :
              /\ \A r, s \in 1 .. Len(tcp_results) : p[r] = p[s] => r = s
              /\ all = [r \in 1 .. Len(tcp_results) |-> Merged(p[r])]
              /\ \A r, s \in 1 .. Len(tcp_results) : r < s =>
                    ~Better(Merged(p[s]).entry, Merged(p[r]).entry)
  <1> DEFINE n == Len(tcp_results)
  <1>1. n \in Nat
    BY DEF TypeOK
  <1>2. PICK p \in [1 .. n -> 1 .. n] :
          /\ \A r, s \in 1 .. n : r < s =>
                \/ Better(Item[p[r]].entry, Item[p[s]].entry)
                \/ p[r] < p[s] /\ ~Better(Item[p[s]].entry, Item[p[r]].entry)
          /\ all = [r \in 1 .. n |-> Item[p[r]]]
    BY DEF Listed, Sortings
  <1>3. \A i \in 1 .. n : Item[i] = Merged(i) /\ Merged(i).entry \in Entry
    BY MergedTyped DEF Item
  <1>4. ASSUME NEW r \in 1 .. n, NEW s \in 1 .. n, r < s
        PROVE  p[r] # p[s] /\ ~Better(Item[p[s]].entry, Item[p[r]].entry)
    <2>1. Item[p[r]].entry \in Entry /\ Item[p[s]].entry \in Entry
      BY <1>3
    <2>2. p[r] \in Int
      BY <1>1
    <2> QED BY <1>2, <1>4, <2>1, <2>2, BetterIsStrict
  <1>5. \A r, s \in 1 .. n : p[r] = p[s] => r = s
    <2> SUFFICES ASSUME NEW r \in 1 .. n, NEW s \in 1 .. n, p[r] = p[s], r # s
                 PROVE  FALSE
      OBVIOUS
    <2>1. r < s \/ s < r
      BY <1>1
    <2> QED BY <1>4, <2>1
  <1>6. all = [r \in 1 .. n |-> Merged(p[r])]
    BY <1>2, <1>3
  <1>7. \A r, s \in 1 .. n : r < s => ~Better(Merged(p[s]).entry, Merged(p[r]).entry)
    <2> SUFFICES ASSUME NEW r \in 1 .. n, NEW s \in 1 .. n, r < s
                 PROVE  ~Better(Merged(p[s]).entry, Merged(p[r]).entry)
      OBVIOUS
    <2>1. Item[p[r]] = Merged(p[r]) /\ Item[p[s]] = Merged(p[s])
      BY <1>3
    <2> QED BY <1>4, <2>1
  <1> HIDE DEF n
  <1>8. \E q \in [1 .. n -> 1 .. n] :
          /\ \A r, s \in 1 .. n : q[r] = q[s] => r = s
          /\ all = [r \in 1 .. n |-> Merged(q[r])]
          /\ \A r, s \in 1 .. n : r < s => ~Better(Merged(q[s]).entry, Merged(q[r]).entry)
    BY <1>5, <1>6, <1>7
  <1> QED BY <1>8 DEF n

\* The list is as long as the list of addresses: each job is in it once.
LEMMA OneResultPerJob ==
    ASSUME TypeOK, Traffic, pc # "phase1"
    PROVE  Len(tcp_results) = Len(Ips)
  <1> DEFINE n == Len(tcp_results)
  <1>1. n \in Nat /\ Len(Ips) \in Nat /\ Jobs = 1 .. Len(Ips)
    BY List DEF TypeOK
  <1>2. \A j \in Jobs : \E i \in 1 .. n : tcp_results[i] = j
    BY DEF Traffic
  <1>3. tcp_results \in [1 .. n -> Jobs]
    BY DEF TypeOK
  <1>4. tcp_results \in Surjection(1 .. n, Jobs) /\ tcp_results \in Injection(1 .. n, Jobs)
    <2>1. \A i, k \in 1 .. n : tcp_results[i] = tcp_results[k] => i = k
      BY DEF Traffic, OnceEach
    <2>2. IsInjective(tcp_results)
      BY <1>3, <2>1 DEF IsInjective
    <2> HIDE DEF n
    <2> QED BY <1>2, <1>3, <2>2 DEF Surjection, Injection
  <1>5. /\ IsFiniteSet(1 .. n) /\ Cardinality(1 .. n) = n
        /\ IsFiniteSet(Jobs) /\ Cardinality(Jobs) = Len(Ips)
    <2>1. ASSUME NEW k \in Nat
          PROVE  IsFiniteSet(1 .. k) /\ Cardinality(1 .. k) = k
      BY FS_Interval
    <2> HIDE DEF n
    <2> QED BY <1>1, <2>1
  <1>6. Cardinality(Jobs) = Cardinality(1 .. n)
    BY <1>4, <1>5, FS_Surjection
  <1> QED BY <1>5, <1>6

\* What a returned position holds, and when two of them share an address.
LEMMA Positions ==
    ASSUME TypeOK, Listed, pc = "returned"
    PROVE  \E p \in [1 .. Len(tcp_results) -> 1 .. Len(tcp_results)] :
              /\ DOMAIN all = 1 .. Len(tcp_results) /\ Len(all) = Len(tcp_results)
              /\ \A r \in DOMAIN all : all[r] = Merged(p[r])
              /\ \A r, s \in DOMAIN all : p[r] = p[s] => r = s
              /\ \A r, s \in DOMAIN all : r < s => ~Better(all[s].entry, all[r].entry)
  <1> DEFINE n == Len(tcp_results)
  <1>1. n \in Nat
    BY DEF TypeOK
  <1>2. PICK p \in [1 .. n -> 1 .. n] :
              /\ \A r, s \in 1 .. n : p[r] = p[s] => r = s
              /\ all = [r \in 1 .. n |-> Merged(p[r])]
              /\ \A r, s \in 1 .. n : r < s =>
                    ~Better(Merged(p[s]).entry, Merged(p[r]).entry)
    BY Sorted
  <1>3. all \in Seq([ip : Addresses, entry : Entry])
    BY DEF TypeOK
  <1>4. DOMAIN all = 1 .. n /\ Len(all) = n
    <2>1. DOMAIN all = 1 .. n
      BY <1>2
    <2>2. DOMAIN all = 1 .. Len(all) /\ Len(all) \in Nat
      BY <1>3
    <2> HIDE DEF n
    <2> QED BY <1>1, <2>1, <2>2
  <1>5. \A r \in DOMAIN all : all[r] = Merged(p[r])
    BY <1>2, <1>4
  <1>6. \A r, s \in DOMAIN all : r < s => ~Better(all[s].entry, all[r].entry)
    BY <1>2, <1>4, <1>5
  <1> HIDE DEF n
  <1>7. \E q \in [1 .. n -> 1 .. n] :
              /\ DOMAIN all = 1 .. n /\ Len(all) = n
              /\ \A r \in DOMAIN all : all[r] = Merged(q[r])
              /\ \A r, s \in DOMAIN all : q[r] = q[s] => r = s
              /\ \A r, s \in DOMAIN all : r < s => ~Better(all[s].entry, all[r].entry)
    BY <1>2, <1>4, <1>5, <1>6
  <1> QED BY <1>7 DEF n

\* What the entry of one result may be, and when it has one of a TLS probe.
LEMMA MergedIs ==
    ASSUME TypeOK, Kept, NEW i \in 1 .. Len(tcp_results)
    PROVE  /\ tcp_results[i] \in Jobs /\ Merged(i).ip = Ips[tcp_results[i]]
           /\ \E j \in Jobs : /\ Ips[j] = Merged(i).ip
                              /\ Merged(i).entry \in {probed[j], Scored(TcpOnly(tcp[j]))}
           /\ Merged(i).entry.tls_ok => IsFirst(i)
  <1> DEFINE k == tcp_results[i]
  <1>1. k \in Jobs /\ Ips[k] \in Addresses
    BY List DEF TypeOK
  <1>2. Merged(i).ip = Ips[k]
    BY DEF Merged
  <1>3. CASE IsFirst(i) /\ tls_results[Ips[k]] # None
    <2>1. Merged(i).entry = tls_results[Ips[k]]
      BY <1>3 DEF Merged
    <2>2. \E j \in Jobs : Ips[j] = Ips[k] /\ tls_results[Ips[k]] = probed[j]
      BY <1>1, <1>3 DEF Kept
    <2> QED BY <1>1, <1>2, <1>3, <2>1, <2>2
  <1>4. CASE ~(IsFirst(i) /\ tls_results[Ips[k]] # None)
    <2>1. Merged(i).entry = Scored(TcpOnly(tcp[k]))
      BY <1>4 DEF Merged
    <2>2. ~Scored(TcpOnly(tcp[k])).tls_ok
      BY DEF Scored, TcpOnly
    <2> QED BY <1>1, <1>2, <2>1, <2>2
  <1> QED BY <1>3, <1>4

\* The returned list is sorted: ip_scanner.rs sorts it last.
THEOREM Sorting == Spec => []SortedByScore
  <1>1. TypeOK /\ Listed => SortedByScore
    <2>1. ASSUME TypeOK, Listed, pc = "returned"
          PROVE  SortedByScore
      BY <2>1, Positions DEF SortedByScore
    <2>2. ASSUME Listed, pc # "returned"
          PROVE  SortedByScore
      BY <2>2 DEF Listed, SortedByScore
    <2> QED BY <2>1, <2>2
  <1> QED BY <1>1, OutcomeInv, PTL

\* Every listed address is in the returned list, as often as it is listed,
\* for any list, any limit and any answers of the network.
THEOREM NothingIsLost == Spec => []EveryAddressReturned
  <1>1. ASSUME TypeOK, Traffic, Kept, Listed, pc = "returned"
        PROVE  EveryAddressReturned
    <2> DEFINE n == Len(tcp_results)
    <2>1. n = Len(Ips) /\ Jobs = 1 .. n
      BY <1>1, OneResultPerJob, List
    <2>2. PICK p \in [1 .. n -> 1 .. n] :
              /\ DOMAIN all = 1 .. n /\ Len(all) = n
              /\ \A r \in DOMAIN all : all[r] = Merged(p[r])
              /\ \A r, s \in DOMAIN all : p[r] = p[s] => r = s
      BY <1>1, Positions
    <2> DEFINE f == [r \in Jobs |-> tcp_results[p[r]]]
    <2>3. f \in [Jobs -> Jobs]
      <3>1. \A r \in Jobs : p[r] \in 1 .. n
        BY <2>1
      <3>2. \A i \in 1 .. n : tcp_results[i] \in Jobs
        BY <1>1 DEF TypeOK
      <3> HIDE DEF n
      <3> QED BY <3>1, <3>2
    <2>4. \A j, k \in Jobs : f[j] = f[k] => j = k
      <3>1. \A i, k \in 1 .. n : tcp_results[i] = tcp_results[k] => i = k
        BY <1>1 DEF Traffic, OnceEach
      <3> HIDE DEF n
      <3> QED BY <2>1, <2>2, <3>1
    <2>5. \A r \in Jobs : all[r].ip = Ips[f[r]]
      <3>1. \A i \in 1 .. n : Merged(i).ip = Ips[tcp_results[i]]
        BY <1>1, MergedIs
      <3> HIDE DEF n
      <3>2. \A r \in Jobs : all[r] = Merged(p[r]) /\ p[r] \in 1 .. n /\ f[r] = tcp_results[p[r]]
        BY ONLY <2>1, <2>2
      <3> QED BY ONLY <3>1, <3>2
    <2> HIDE DEF f
    <2> QED BY <2>1, <2>2, <2>3, <2>4, <2>5 DEF EveryAddressReturned
  <1>2. TypeOK /\ Traffic /\ Kept /\ Listed => EveryAddressReturned
    BY <1>1 DEF EveryAddressReturned, Returned
  <1> QED BY <1>2, OutcomeInv, PTL

\* A returned entry is what a probe of its address sent, or what its TCP
\* probe alone gives, and no probe's entry is returned for two positions.
THEOREM NothingIsMadeUp == Spec => []EntriesComeFromProbes
  <1>1. ASSUME TypeOK, Kept, Listed, pc = "returned"
        PROVE  EntriesComeFromProbes
    <2> DEFINE n == Len(tcp_results)
    <2>1. PICK p \in [1 .. n -> 1 .. n] :
              /\ DOMAIN all = 1 .. n
              /\ \A r \in DOMAIN all : all[r] = Merged(p[r])
              /\ \A r, s \in DOMAIN all : p[r] = p[s] => r = s
      BY <1>1, Positions
    <2>2. \A r \in DOMAIN all : \E j \in Jobs :
              Ips[j] = all[r].ip /\ all[r].entry \in {probed[j], Scored(TcpOnly(tcp[j]))}
      BY <1>1, <2>1, MergedIs
    <2>3. ASSUME NEW r \in DOMAIN all, NEW s \in DOMAIN all,
                 all[r].entry.tls_ok, all[s].entry.tls_ok, all[r].ip = all[s].ip
          PROVE  r = s
      <3>1. /\ p[r] \in 1 .. n /\ p[s] \in 1 .. n /\ n \in Nat
            /\ IsFirst(p[r]) /\ IsFirst(p[s])
            /\ Ips[tcp_results[p[r]]] = Ips[tcp_results[p[s]]]
        BY <1>1, <2>1, <2>3, MergedIs DEF TypeOK
      <3>2. p[r] = p[s]
        <4>1. ~(p[r] < p[s]) /\ ~(p[s] < p[r])
          BY <3>1 DEF IsFirst
        <4> QED BY <3>1, <4>1
      <3> QED BY <2>1, <3>2
    <2> QED BY <2>2, <2>3 DEF EntriesComeFromProbes
  <1>2. ASSUME Listed, pc # "returned"
        PROVE  EntriesComeFromProbes
    BY <1>2 DEF Listed, EntriesComeFromProbes
  <1>3. TypeOK /\ Kept /\ Listed => EntriesComeFromProbes
    BY <1>1, <1>2
  <1> QED BY <1>3, OutcomeInv, PTL

-----------------------------------------------------------------------------
\* The early stop.

\* Every result has a first one of its address.
Firsts ==
    \A i \in 1 .. Len(tcp_results) : \E k \in 1 .. i :
        IsFirst(k) /\ Ips[tcp_results[k]] = Ips[tcp_results[i]]

KeptHealthy == {x \in Addresses : tls_results[x] # None /\ Healthy(tls_results[x])}

\* The counter is at least the number of healthy entries that were kept, and
\* the loop ends when it reaches the limit.
Tally ==
    /\ Cardinality(KeptHealthy) <= healthy_count
    /\ MAX_IP_SCAN > 0 => healthy_count <= MAX_IP_SCAN
    /\ MAX_IP_SCAN > 0 /\ pc \in {"phase1", "phase2"} => healthy_count < MAX_IP_SCAN

\* Below the limit, what was received was kept, and all of it was received.
Arrived ==
    /\ \A j \in Jobs : p2[j] \in {"reporting", "sent", "received"} => probed[j] # None
    /\ \A j \in Jobs : p2[j] = "received" =>
          tls_results[Ips[j]] # None \/ LimitReached(healthy_count)
    /\ \A j \in Jobs : p1[j] = "received" /\ tcp[j] # None => p2[j] # "none"
    /\ pc \in {"merging", "returned"} =>
          LimitReached(healthy_count) \/ \A j \in Jobs : p2[j] \in {"none", "received"}

LEMMA FiniteAddresses == IsFiniteSet(Addresses)
  <1>1. Len(Ips) \in Nat /\ Jobs = 1 .. Len(Ips)
    BY List
  <1>2. IsFiniteSet(Jobs)
    <2>1. ASSUME NEW k \in Nat PROVE IsFiniteSet(1 .. k)
      BY FS_Interval
    <2> QED BY <1>1, <2>1
  <1>3. Ips \in [Jobs -> Addresses]
    <2>1. Ips \in Seq(Addresses)
      BY ScannerAssumption
    <2>2. Ips \in [1 .. Len(Ips) -> Addresses]
      BY ONLY <2>1
    <2> QED BY <1>1, <2>2
  <1>4. Ips \in Surjection(Jobs, Addresses)
    BY <1>3 DEF Surjection, Addresses
  <1> QED BY <1>2, <1>4, FS_Surjection

LEMMA FirstsStep == TypeOK /\ Firsts /\ [Next]_vars => Firsts'
  <1> SUFFICES ASSUME TypeOK, Firsts, [Next]_vars PROVE Firsts'
    OBVIOUS
  <1>1. CASE tcp_results' = tcp_results
    BY <1>1 DEF Firsts, IsFirst
  <1>2. CASE RecvP1
    <2> DEFINE new == Head(p1_chan)
    <2>0. PICK n \in Nat : n = Len(tcp_results)
      BY DEF TypeOK
    <2>1. /\ n \in Nat /\ n = Len(tcp_results) /\ tcp_results \in Seq(Jobs) /\ new \in Jobs
          /\ tcp_results' = Append(tcp_results, new)
      BY <1>2, <2>0, HeadTail DEF RecvP1, TypeOK
    <2> HIDE DEF new
    <2>2. /\ Len(tcp_results') = n + 1 /\ tcp_results'[n + 1] = new
          /\ \A i \in 1 .. n : tcp_results'[i] = tcp_results[i]
      BY <2>1
    <2>3. ASSUME NEW i \in 1 .. n, IsFirst(i) PROVE IsFirst(i)'
      <3>1. \A k \in 1 .. i - 1 : k \in 1 .. n
        BY <2>1
      <3> QED BY <2>2, <2>3, <3>1 DEF IsFirst
    <2>4. ASSUME NEW i \in 1 .. n
          PROVE  \E k \in 1 .. i : IsFirst(k)' /\ Ips[tcp_results'[k]] = Ips[tcp_results'[i]]
      <3>1. PICK k \in 1 .. i : IsFirst(k) /\ Ips[tcp_results[k]] = Ips[tcp_results[i]]
        BY <2>1, <2>4 DEF Firsts
      <3>2. k \in 1 .. n
        BY <2>1
      <3> QED BY <2>2, <2>3, <3>1, <3>2
    <2>5. \E k \in 1 .. n + 1 : IsFirst(k)' /\ Ips[tcp_results'[k]] = Ips[tcp_results'[n + 1]]
      <3>1. CASE \E i \in 1 .. n : Ips[tcp_results[i]] = Ips[new]
        <4>1. PICK i \in 1 .. n : Ips[tcp_results[i]] = Ips[new]
          BY <3>1
        <4>2. PICK k \in 1 .. i : IsFirst(k)' /\ Ips[tcp_results'[k]] = Ips[tcp_results'[i]]
          BY <2>4
        <4>3. k \in 1 .. n + 1
          BY <2>1
        <4> QED BY <2>2, <4>1, <4>2, <4>3
      <3>2. CASE ~\E i \in 1 .. n : Ips[tcp_results[i]] = Ips[new]
        <4>1. \A i \in 1 .. n + 1 - 1 : i \in 1 .. n
          BY <2>1
        <4>2. IsFirst(n + 1)'
          BY <2>2, <3>2, <4>1 DEF IsFirst
        <4>3. n + 1 \in 1 .. n + 1
          BY <2>1
        <4> QED BY <4>2, <4>3
      <3> QED BY <3>1, <3>2
    <2>6. \A i \in 1 .. n + 1 : i \in 1 .. n \/ i = n + 1
      BY <2>1
    <2> QED BY <2>2, <2>4, <2>5, <2>6 DEF Firsts
  <1> QED BY <1>1, <1>2 DEF Next, Scan, Task, StartP1, EndP1, StartP2, EndP2, SendP2,
                            Phase1Over, RecvP2, Phase2Over, Merge, vars, scan, tasks

LEMMA TallyStep == TypeOK /\ Tally /\ [Next]_vars => Tally'
  <1> SUFFICES ASSUME TypeOK, Tally, [Next]_vars PROVE Tally'
    OBVIOUS
  <1>0. MAX_IP_SCAN \in Nat /\ healthy_count \in Nat
        /\ IsFiniteSet(KeptHealthy) /\ Cardinality(KeptHealthy) \in Nat
    <2>1. IsFiniteSet(KeptHealthy)
      BY FiniteAddresses, FS_Subset DEF KeptHealthy
    <2> QED BY <2>1, FS_CardinalityType, ScannerAssumption DEF TypeOK
  <1>1. CASE UNCHANGED <<tls_results, healthy_count>> /\ (pc \notin {"phase1", "phase2"} =>
                                                            pc' \notin {"phase1", "phase2"})
    BY <1>1 DEF Tally, KeptHealthy
  <1>2. CASE RecvP2
    <2> DEFINE j == Head(p2_chan)
               count == healthy_count + IF Healthy(probed[j]) THEN 1 ELSE 0
               stop == Healthy(probed[j]) /\ LimitReached(count)
    <2>1. /\ j \in Jobs /\ Ips[j] \in Addresses
          /\ pc = "phase2" /\ healthy_count' = count /\ pc' = IF stop THEN "merging" ELSE "phase2"
          /\ tls_results' = IF stop THEN tls_results
                            ELSE [tls_results EXCEPT ![Ips[j]] = probed[j]]
      BY <1>2, HeadTail, List DEF RecvP2, TypeOK
    <2> HIDE DEF j
    <2>2. /\ count \in Nat /\ count <= healthy_count + 1
          /\ MAX_IP_SCAN > 0 => count <= MAX_IP_SCAN
          /\ MAX_IP_SCAN > 0 /\ ~stop => count < MAX_IP_SCAN
      BY <1>0, <2>1 DEF Tally, LimitReached
    <2>3. Cardinality(KeptHealthy') <= count
      <3>1. CASE Healthy(probed[j])
        <4>1. KeptHealthy' \subseteq KeptHealthy \cup {Ips[j]}
          BY <2>1 DEF KeptHealthy, TypeOK
        <4>2. /\ IsFiniteSet(KeptHealthy \cup {Ips[j]})
              /\ Cardinality(KeptHealthy \cup {Ips[j]}) <= Cardinality(KeptHealthy) + 1
              /\ Cardinality(KeptHealthy \cup {Ips[j]}) \in Nat
          <5>1. /\ IsFiniteSet(KeptHealthy \cup {Ips[j]})
                /\ Cardinality(KeptHealthy \cup {Ips[j]}) =
                     IF Ips[j] \in KeptHealthy THEN Cardinality(KeptHealthy)
                                               ELSE Cardinality(KeptHealthy) + 1
            BY ONLY <1>0, FS_AddElement
          <5> QED BY ONLY <1>0, <5>1
        <4>3. Cardinality(KeptHealthy') <= Cardinality(KeptHealthy \cup {Ips[j]})
              /\ IsFiniteSet(KeptHealthy')
          BY <4>1, <4>2, FS_Subset
        <4>4. Cardinality(KeptHealthy') \in Nat /\ count = healthy_count + 1
          BY <3>1, <4>3, FS_CardinalityType
        <4>5. Cardinality(KeptHealthy) <= healthy_count
          BY DEF Tally
        <4> QED BY <1>0, <4>2, <4>3, <4>4, <4>5
      <3>2. CASE ~Healthy(probed[j])
        <4>1. KeptHealthy' \subseteq KeptHealthy /\ count = healthy_count
          BY <1>0, <2>1, <3>2 DEF KeptHealthy, TypeOK
        <4>2. Cardinality(KeptHealthy') <= Cardinality(KeptHealthy) /\ IsFiniteSet(KeptHealthy')
          BY <1>0, <4>1, FS_Subset
        <4>3. Cardinality(KeptHealthy') \in Nat
          BY <4>2, FS_CardinalityType
        <4>4. Cardinality(KeptHealthy) <= healthy_count
          BY DEF Tally
        <4> QED BY <1>0, <4>1, <4>2, <4>3, <4>4
      <3> QED BY <3>1, <3>2
    <2> HIDE DEF count
    <2> QED BY <2>1, <2>2, <2>3 DEF Tally
  <1> QED BY <1>1, <1>2 DEF Next, Scan, Task, StartP1, EndP1, StartP2, EndP2, SendP2,
                            RecvP1, Phase1Over, Phase2Over, Merge, vars, scan, tasks

LEMMA ArrivedStep == TypeOK /\ Traffic /\ Tally /\ Arrived /\ [Next]_vars => Arrived'
  <1> SUFFICES ASSUME TypeOK, Traffic, Tally, Arrived, [Next]_vars PROVE Arrived'
    OBVIOUS
  <1>0. healthy_count \in Nat /\ MAX_IP_SCAN \in Nat /\ None \notin Entry
    BY ScannerAssumption DEF TypeOK
  <1>1. ASSUME NEW j \in Jobs, StartP1(j) \/ EndP1(j) PROVE Arrived'
    <2>1. /\ UNCHANGED <<p2, probed, tls_results, healthy_count, pc>> /\ p1[j] # "received"
          /\ p1'[j] # "received" /\ \A k \in Jobs : k # j => p1'[k] = p1[k] /\ tcp'[k] = tcp[k]
      BY <1>1 DEF StartP1, EndP1, TypeOK, scan
    <2> QED BY <2>1 DEF Arrived, LimitReached
  <1>2. ASSUME NEW j \in Jobs, StartP2(j) \/ EndP2(j) \/ SendP2(j) PROVE Arrived'
    <2>1. /\ UNCHANGED <<p1, tcp, tls_results, healthy_count, pc>>
          /\ \A k \in Jobs : k # j => p2'[k] = p2[k] /\ probed'[k] = probed[k]
          /\ p2[j] \notin {"none", "received"} /\ p2'[j] \notin {"none", "received"}
      BY <1>2 DEF StartP2, EndP2, SendP2, TypeOK, scan
    <2>2. p2'[j] \in {"reporting", "sent", "received"} => probed'[j] # None
      <3>1. CASE EndP2(j)
        <4>1. tcp[j] \in Measure
          BY Latency
        <4>2. \A e \in Answers(tcp[j]) : e \in Entry
          BY <4>1, AnswersAreEntries
        <4>3. probed'[j] \in Answers(tcp[j])
          BY <3>1 DEF EndP2, TypeOK
        <4> QED BY <1>0, <4>2, <4>3
      <3>2. CASE StartP2(j) \/ SendP2(j)
        BY <3>2 DEF StartP2, SendP2, TypeOK, Arrived
      <3> QED BY <1>2, <3>1, <3>2
    <2> QED BY <2>1, <2>2 DEF Arrived, LimitReached
  <1>3. CASE RecvP1
    <2> DEFINE j == Head(p1_chan)
    <2>1. j \in Jobs /\ p1[j] = "sent" /\ p2[j] = "none" /\ pc = "phase1"
      BY <1>3, HeadTail DEF RecvP1, TypeOK, Traffic
    <2>2. /\ UNCHANGED <<tcp, probed, tls_results, healthy_count, pc>>
          /\ p1' = [p1 EXCEPT ![j] = "received"]
          /\ p2' = IF tcp[j] # None THEN [p2 EXCEPT ![j] = "queued"] ELSE p2
      BY <1>3 DEF RecvP1
    <2> HIDE DEF j
    <2>3. /\ \A k \in Jobs : k # j => p1'[k] = p1[k] /\ p2'[k] = p2[k]
          /\ p2'[j] \in {"none", "queued"} /\ (tcp[j] # None => p2'[j] = "queued")
      BY <2>1, <2>2 DEF TypeOK
    <2> QED BY <2>1, <2>2, <2>3 DEF Arrived, LimitReached
  <1>4. CASE RecvP2
    <2> DEFINE j == Head(p2_chan)
               count == healthy_count + IF Healthy(probed[j]) THEN 1 ELSE 0
               stop == Healthy(probed[j]) /\ LimitReached(count)
    <2>a. j \in Jobs /\ p2[j] = "sent"
      <3>1. p2_chan \in Seq(Jobs) /\ p2_chan # <<>>
        BY <1>4 DEF RecvP2, TypeOK
      <3>2. 1 \in 1 .. Len(p2_chan) /\ j = p2_chan[1] /\ j \in Jobs
        BY ONLY <3>1, HeadTail
      <3> QED BY <3>2 DEF Traffic
    <2>1. /\ j \in Jobs /\ p2[j] = "sent" /\ pc = "phase2"
          /\ UNCHANGED <<p1, tcp, probed>> /\ p2' = [p2 EXCEPT ![j] = "received"]
          /\ healthy_count' = count /\ pc' = IF stop THEN "merging" ELSE "phase2"
          /\ tls_results' = IF stop THEN tls_results
                            ELSE [tls_results EXCEPT ![Ips[j]] = probed[j]]
      BY <1>4, <2>a DEF RecvP2
    <2> HIDE DEF j
    <2>2. count \in Nat /\ count >= healthy_count
      BY <1>0
    <2>3. LimitReached(healthy_count) => LimitReached(healthy_count')
      BY <1>0, <2>1, <2>2 DEF LimitReached
    <2>4. probed[j] # None
      BY <2>1 DEF Arrived
    <2>5. stop => LimitReached(healthy_count')
      BY <2>1
    <2> HIDE DEF count, stop
    <2>6. /\ \A k \in Jobs : k # j => p2'[k] = p2[k]
          /\ p2'[j] = "received"
      BY <2>1 DEF TypeOK
    <2>7. ASSUME NEW k \in Jobs, p2'[k] = "received"
          PROVE  tls_results'[Ips[k]] # None \/ LimitReached(healthy_count')
      <3>1. CASE stop
        BY <2>5, <3>1
      <3>2. CASE ~stop
        <4>1. Ips[k] \in Addresses /\ Ips[j] \in Addresses
          BY <2>1, List
        <4>2. tls_results'[Ips[k]] = IF Ips[k] = Ips[j] THEN probed[j] ELSE tls_results[Ips[k]]
          BY <2>1, <3>2, <4>1 DEF TypeOK
        <4>3. CASE k = j
          BY <2>4, <4>2, <4>3
        <4>4. CASE k # j
          BY <2>3, <2>4, <2>6, <2>7, <4>2, <4>4 DEF Arrived
        <4> QED BY <4>3, <4>4
      <3> QED BY <3>1, <3>2
    <2>8. pc' \in {"merging", "returned"} => LimitReached(healthy_count')
      BY <2>1, <2>5
    <2> QED BY <2>1, <2>4, <2>6, <2>7, <2>8 DEF Arrived
  <1>5. CASE Phase1Over \/ Phase2Over \/ Merge
    BY <1>5 DEF Phase1Over, Phase2Over, Merge, tasks, Arrived
  <1>6. CASE UNCHANGED vars
    BY <1>6 DEF vars, scan, tasks, Arrived
  <1> QED BY <1>1, <1>2, <1>3, <1>4, <1>5, <1>6 DEF Next, Scan, Task

LEMMA StopInv == Spec => [](Firsts /\ Tally /\ Arrived)
  <1>1. Init => Firsts
    BY DEF Init, Firsts
  <1>2. Init => Tally
    <2>1. Init => KeptHealthy = {}
      BY DEF Init, KeptHealthy
    <2>2. Cardinality({}) = 0
      BY FS_EmptySet
    <2>3. MAX_IP_SCAN \in Nat
      BY ScannerAssumption
    <2>4. Init => healthy_count = 0
      BY DEF Init
    <2> QED BY <2>1, <2>2, <2>3, <2>4 DEF Tally
  <1>3. Init => Arrived
    BY DEF Init, Arrived
  <1> QED BY <1>1, <1>2, <1>3, FirstsStep, TallyStep, ArrivedStep, TrafficInv, PTL DEF Spec

\* A limit is never exceeded, and unless it was reached every address that
\* connected is returned with the entry of a probe of its own.
THEOREM WithinTheLimit == Spec => []LimitIsRespected
  <1>1. ASSUME TypeOK, Traffic, Kept, Listed, EntriesComeFromProbes, Firsts, Tally, Arrived,
               pc = "returned"
        PROVE  LimitIsRespected
    <2>0. PICK n \in Nat : n = Len(tcp_results)
      BY <1>1 DEF TypeOK
    <2>1. PICK p \in [1 .. n -> 1 .. n] :
              /\ DOMAIN all = 1 .. n
              /\ \A r \in DOMAIN all : all[r] = Merged(p[r])
              /\ \A r, s \in DOMAIN all : p[r] = p[s] => r = s
      BY <1>1, <2>0, Positions
    <2>2. IsFiniteSet(1 .. n)
      BY FS_Interval
    <2> DEFINE found == {r \in DOMAIN all : Healthy(all[r].entry)}
    <2>3. ASSUME NEW r \in found
          PROVE  all[r].ip \in KeptHealthy /\ all[r].entry.tls_ok
      <3>1. /\ r \in 1 .. n /\ p[r] \in 1 .. Len(tcp_results) /\ all[r] = Merged(p[r])
            /\ Healthy(Merged(p[r]).entry)
        BY <2>0, <2>1
      <3>2. tcp_results[p[r]] \in Jobs /\ Ips[tcp_results[p[r]]] \in Addresses
        <4>1. tcp_results \in Seq(Jobs)
          BY <1>1 DEF TypeOK
        <4>2. \A i \in 1 .. Len(tcp_results) : tcp_results[i] \in Jobs
          BY ONLY <4>1
        <4> QED BY <3>1, <4>2, List
      <3>3. ~Healthy(Scored(TcpOnly(tcp[tcp_results[p[r]]])))
        BY DEF Healthy, Scored, TcpOnly
      <3>4. /\ Merged(p[r]).ip = Ips[tcp_results[p[r]]]
            /\ tls_results[Ips[tcp_results[p[r]]]] # None
            /\ Merged(p[r]).entry = tls_results[Ips[tcp_results[p[r]]]]
        BY <3>1, <3>3 DEF Merged
      <3> QED BY <3>1, <3>2, <3>4 DEF KeptHealthy, Healthy
    <2>4. Cardinality(found) <= Cardinality(KeptHealthy)
      <3> DEFINE f == [r \in found |-> all[r].ip]
      <3>1. f \in [found -> KeptHealthy]
        BY <2>3
      <3>2. \A r, s \in found : f[r] = f[s] => r = s
        BY <1>1, <2>3 DEF EntriesComeFromProbes
      <3>3. IsFiniteSet(KeptHealthy)
        BY FiniteAddresses, FS_Subset DEF KeptHealthy
      <3> HIDE DEF f, found
      <3>4. f \in Injection(found, KeptHealthy)
        BY <3>1, <3>2 DEF Injection, IsInjective
      <3> QED BY <3>3, <3>4, FS_Injection
    <2>5. /\ IsFiniteSet(KeptHealthy) /\ IsFiniteSet(found)
      <3>1. found \in SUBSET (1 .. n)
        BY <2>1
      <3>2. IsFiniteSet(KeptHealthy)
        BY FiniteAddresses, FS_Subset DEF KeptHealthy
      <3> QED BY <2>2, <3>1, <3>2, FS_Subset
    <2>6. Cardinality(found) \in Nat /\ Cardinality(KeptHealthy) \in Nat
      BY <2>5, FS_CardinalityType
    <2>7. MAX_IP_SCAN > 0 => HealthyReturned <= MAX_IP_SCAN
      <3>1. HealthyReturned = Cardinality(found)
        BY DEF HealthyReturned
      <3>2. healthy_count \in Nat /\ MAX_IP_SCAN \in Nat
        BY <1>1, ScannerAssumption DEF TypeOK
      <3> HIDE DEF found
      <3> QED BY <1>1, <2>4, <2>6, <3>1, <3>2 DEF Tally
    <2>8. ASSUME ~LimitReached(healthy_count), NEW j \in Jobs, tcp[j] # None
          PROVE  \E r \in DOMAIN all : \E k \in Jobs :
                     Ips[k] = Ips[j] /\ all[r].ip = Ips[j] /\ all[r].entry = probed[k]
      <3>1. p1[j] = "received"
        BY <1>1 DEF Traffic
      <3>2. p2[j] = "received"
        BY <1>1, <2>8, <3>1 DEF Arrived
      <3>3. tls_results[Ips[j]] # None /\ Ips[j] \in Addresses
        BY <1>1, <2>8, <3>2, List DEF Arrived
      <3>4. PICK k \in Jobs : Ips[k] = Ips[j] /\ tls_results[Ips[j]] = probed[k]
        BY <1>1, <3>3 DEF Kept
      <3>5. PICK i \in 1 .. n : tcp_results[i] = j
        BY <1>1, <2>0, <3>1 DEF Traffic
      <3>6. PICK m \in 1 .. i : IsFirst(m) /\ Ips[tcp_results[m]] = Ips[j]
        BY <1>1, <2>0, <3>5 DEF Firsts
      <3>7. m \in 1 .. n
        BY <2>0, <3>5, <3>6
      <3>8. Merged(m).ip = Ips[j] /\ Merged(m).entry = probed[k]
        BY <3>3, <3>4, <3>6 DEF Merged
      <3>9. PICK r \in 1 .. n : p[r] = m
        <4>1. p \in Injection(1 .. n, 1 .. n)
          BY <2>1 DEF Injection, IsInjective
        <4>2. p \in Surjection(1 .. n, 1 .. n)
          BY <2>2, <4>1, FS_Injection
        <4> QED BY <3>7, <4>2 DEF Surjection
      <3>10. r \in DOMAIN all /\ all[r] = Merged(m)
        BY <2>1, <3>9
      <3> QED BY ONLY <3>4, <3>8, <3>10
    <2> HIDE DEF found
    <2> QED BY <2>7, <2>8 DEF LimitIsRespected
  <1>2. TypeOK /\ Traffic /\ Kept /\ Listed /\ EntriesComeFromProbes /\ Firsts /\ Tally /\ Arrived
          => LimitIsRespected
    BY <1>1 DEF LimitIsRespected, Returned
  <1> QED BY <1>2, OutcomeInv, StopInv, NothingIsMadeUp, PTL

-----------------------------------------------------------------------------
(***************************************************************************)
(* The start-up scan is a scan: whatever its caller does, what is proved   *)
(* of IpScanner holds of the scan inside it, for any list and limits.      *)
(***************************************************************************)
LEMMA SessionStep == [SNext]_session => [Next]_vars
  <1> SUFFICES ASSUME [SNext]_session PROVE [Next]_vars
    OBVIOUS
  <1>1. CASE ScanStep
    BY <1>1 DEF ScanStep, Next
  <1>2. ASSUME NEW j \in Jobs, SpawnedTask(j)
        PROVE  [Next]_vars
    BY <1>2 DEF SpawnedTask, Next
  <1>3. CASE Complete
    BY <1>3 DEF Complete
  <1>4. CASE Caller
    BY <1>4 DEF Caller, Receive, Watched, Leave, HeadlessDone
  <1>5. CASE Quit
    BY <1>5 DEF Quit
  <1>6. CASE UNCHANGED session
    BY <1>6 DEF session
  <1> QED BY <1>1, <1>2, <1>3, <1>4, <1>5, <1>6 DEF SNext

\* Aborting the scan, or no longer reading its progress, is no step a scan
\* may not take: the session implements the scan.
THEOREM SessionScans == SSpec => Spec
  <1>1. SInit => Init
    BY DEF SInit
  <1> QED BY <1>1, SessionStep, PTL DEF SSpec, Spec

\* What a scan returns inside a session is complete, sorted, made of what the
\* probes returned, and within the limit.
THEOREM SessionInherits ==
    SSpec => [](/\ EveryAddressReturned /\ SortedByScore
                /\ EntriesComeFromProbes /\ LimitIsRespected)
  BY SessionScans, NothingIsLost, Sorting, NothingIsMadeUp, WithinTheLimit, PTL

-----------------------------------------------------------------------------
(***************************************************************************)
(* The caller.                                                             *)
(***************************************************************************)
Reported == {"reporting", "sent", "received"}

\* The progress channel got each job whose probe returned, once.
Announced ==
    /\ OnceEach(progress)
    /\ \A i \in 1 .. Len(progress) : p2[progress[i]] \in Reported
    /\ \A j \in Jobs : p2[j] \in Reported =>
          \E i \in 1 .. Len(progress) : progress[i] = j
    /\ \A j \in Jobs : p2[j] # "none" => tcp[j] # None

\* What arrived is the beginning of what was sent.
Reading ==
    /\ Len(arrived) <= Len(progress)
    /\ \A i \in 1 .. Len(arrived) : arrived[i] = progress[i]

\* Everything that arrived is among the entries, as it arrived.
Shown ==
    \A i \in 1 .. Len(arrived) : \E r \in DOMAIN entries :
        entries[r] = [ip |-> Ips[arrived[i]], entry |-> probed[arrived[i]]]

\* The ways to leave, and what each of them goes on with.
Parting ==
    /\ complete => Returned
    /\ ui = "leaving" => mode = "tui"
    /\ cancelled => mode = "tui" /\ ui = "done"
    /\ ui = "done" => \/ Returned /\ entries = all
                      \/ mode = "tui" /\ Shown
    /\ mode = "json" /\ ui = "done" => Disconnected

LEMMA AnnouncedStep == TypeOK /\ Traffic /\ Announced /\ [Next]_vars => Announced'
  <1> SUFFICES ASSUME TypeOK, Traffic, Announced, [Next]_vars PROVE Announced'
    OBVIOUS
  <1>1. ASSUME NEW j \in Jobs, StartP1(j) \/ EndP1(j)
        PROVE  Announced'
    <2>1. /\ UNCHANGED <<p2, progress>> /\ p2[j] = "none"
          /\ \A k \in Jobs : k # j => tcp'[k] = tcp[k]
      BY <1>1 DEF StartP1, EndP1, TypeOK, Traffic, scan
    <2> QED BY <2>1 DEF Announced, OnceEach
  <1>2. ASSUME NEW j \in Jobs, StartP2(j)
        PROVE  Announced'
    <2>1. /\ UNCHANGED <<tcp, progress>> /\ p2[j] = "queued" /\ p2'[j] = "probing"
          /\ \A k \in Jobs : k # j => p2'[k] = p2[k]
          /\ \A i \in 1 .. Len(progress) : progress[i] \in Jobs
      BY <1>2 DEF StartP2, TypeOK, scan
    <2> QED BY <2>1 DEF Announced, OnceEach, Reported
  <1>3. ASSUME NEW j \in Jobs, EndP2(j)
        PROVE  Announced'
    <2>1. /\ UNCHANGED tcp /\ p2[j] = "probing" /\ p2'[j] = "reporting"
          /\ \A k \in Jobs : k # j => p2'[k] = p2[k]
          /\ progress' = Append(progress, j) /\ progress \in Seq(Jobs)
      BY <1>3 DEF EndP2, TypeOK
    <2>2. \A i \in 1 .. Len(progress) : progress[i] # j /\ progress[i] \in Jobs
      BY <2>1 DEF Announced, Reported
    <2>3. /\ OnceEach(progress') /\ Len(progress') = Len(progress) + 1
          /\ progress'[Len(progress) + 1] = j
          /\ \A i \in 1 .. Len(progress) : progress'[i] = progress[i]
      BY <2>1, <2>2, OnceEachAppend DEF Announced
    <2>4. Len(progress) \in Nat
      BY <2>1
    <2>5. \A i \in 1 .. Len(progress') : p2'[progress'[i]] \in Reported
      <3> SUFFICES ASSUME NEW i \in 1 .. Len(progress')
                   PROVE  p2'[progress'[i]] \in Reported
        OBVIOUS
      <3>1. CASE i = Len(progress) + 1
        BY <2>1, <2>3, <3>1 DEF Reported
      <3>2. CASE i \in 1 .. Len(progress)
        BY <2>1, <2>2, <2>3, <3>2 DEF Announced
      <3> QED BY <2>3, <2>4, <3>1, <3>2
    <2>6. \A k \in Jobs : p2'[k] \in Reported =>
              \E i \in 1 .. Len(progress') : progress'[i] = k
      <3> SUFFICES ASSUME NEW k \in Jobs, p2'[k] \in Reported
                   PROVE  \E i \in 1 .. Len(progress') : progress'[i] = k
        OBVIOUS
      <3>1. CASE k = j
        BY <2>3, <2>4, <3>1
      <3>2. CASE k # j
        <4>1. PICK i \in 1 .. Len(progress) : progress[i] = k
          BY <2>1, <3>2 DEF Announced
        <4> QED BY <2>3, <2>4, <4>1
      <3> QED BY <3>1, <3>2
    <2>7. \A k \in Jobs : p2'[k] # "none" => tcp'[k] # None
      BY <2>1 DEF Announced
    <2> QED BY <2>3, <2>5, <2>6, <2>7 DEF Announced
  <1>4. ASSUME NEW j \in Jobs, UNCHANGED <<tcp, progress>>,
               p2[j] \in Reported, p2'[j] \in Reported,
               \A k \in Jobs : k # j => p2'[k] = p2[k]
        PROVE  Announced'
    <2>1. \A i \in 1 .. Len(progress) : progress[i] \in Jobs
      BY DEF TypeOK
    <2> QED BY <1>4, <2>1 DEF Announced, OnceEach, Reported
  <1>5. ASSUME NEW j \in Jobs, SendP2(j)
        PROVE  Announced'
    <2>1. /\ UNCHANGED <<tcp, progress>> /\ p2[j] = "reporting" /\ p2'[j] = "sent"
          /\ \A k \in Jobs : k # j => p2'[k] = p2[k]
      BY <1>5 DEF SendP2, TypeOK, scan
    <2> QED BY <1>4, <2>1 DEF Reported
  <1>6. CASE RecvP1
    <2> DEFINE j == Head(p1_chan)
    <2>1. j \in Jobs /\ p2[j] = "none"
      BY <1>6, HeadTail DEF RecvP1, TypeOK, Traffic
    <2>2. /\ UNCHANGED <<tcp, progress>>
          /\ p2' = IF tcp[j] # None THEN [p2 EXCEPT ![j] = "queued"] ELSE p2
      BY <1>6 DEF RecvP1
    <2>3. \A i \in 1 .. Len(progress) : progress[i] \in Jobs
      BY DEF TypeOK
    <2> HIDE DEF j
    <2>4. /\ \A k \in Jobs : k # j => p2'[k] = p2[k]
          /\ p2'[j] \in {"none", "queued"} /\ (tcp[j] = None => p2'[j] = "none")
      BY <2>1, <2>2 DEF TypeOK
    <2> QED BY <2>1, <2>2, <2>3, <2>4 DEF Announced, OnceEach, Reported
  <1>7. CASE RecvP2
    <2> DEFINE j == Head(p2_chan)
    <2>1. j \in Jobs /\ p2[j] = "sent"
      <3>1. p2_chan \in Seq(Jobs) /\ p2_chan # <<>>
        BY <1>7 DEF RecvP2, TypeOK
      <3>2. 1 \in 1 .. Len(p2_chan) /\ j = p2_chan[1] /\ j \in Jobs
        BY ONLY <3>1, HeadTail
      <3> QED BY <3>2 DEF Traffic
    <2>2. UNCHANGED <<tcp, progress>> /\ p2' = [p2 EXCEPT ![j] = "received"]
      BY <1>7 DEF RecvP2
    <2> HIDE DEF j
    <2>3. p2'[j] = "received" /\ \A k \in Jobs : k # j => p2'[k] = p2[k]
      BY <2>1, <2>2 DEF TypeOK
    <2> QED BY <1>4, <2>1, <2>2, <2>3 DEF Reported
  <1>8. CASE Phase1Over \/ Phase2Over \/ Merge
    BY <1>8 DEF Phase1Over, Phase2Over, Merge, tasks, Announced, OnceEach
  <1>9. CASE UNCHANGED vars
    BY <1>9 DEF vars, tasks, Announced, OnceEach
  <1> QED BY <1>1, <1>2, <1>3, <1>5, <1>6, <1>7, <1>8, <1>9 DEF Next, Scan, Task

LEMMA AnnouncedInv == Spec => []Announced
  <1>1. Init => Announced
    BY DEF Init, Announced, OnceEach, Reported
  <1> QED BY <1>1, AnnouncedStep, TrafficInv, PTL DEF Spec

\* The progress channel is only appended to.
LEMMA ProgressGrows ==
    ASSUME TypeOK, [Next]_vars
    PROVE  /\ Len(progress) \in Nat /\ Len(progress') \in Nat
           /\ Len(progress) <= Len(progress')
           /\ \A i \in 1 .. Len(progress) : progress'[i] = progress[i]
  <1>1. progress' = progress \/ \E j \in Jobs : progress' = Append(progress, j)
    BY DEF Next, Scan, Task, RecvP1, Phase1Over, RecvP2, Phase2Over, Merge, tasks,
           StartP1, EndP1, StartP2, EndP2, SendP2, vars
  <1>2. progress \in Seq(Jobs)
    BY DEF TypeOK
  <1> QED BY <1>1, <1>2

LEMMA ReadingStep ==
    TypeOK /\ SessionTypeOK /\ Reading /\ [SNext]_session => Reading'
  <1> SUFFICES ASSUME TypeOK, SessionTypeOK, Reading, [SNext]_session
               PROVE  Reading'
    OBVIOUS
  <1>0. Len(arrived) \in Nat
    BY DEF SessionTypeOK
  <1>1. CASE UNCHANGED arrived
    <2>1. [Next]_vars
      BY SessionStep
    <2> QED BY <1>0, <1>1, <2>1, ProgressGrows DEF Reading
  <1>2. CASE Receive
    <2>1. /\ Len(arrived) < Len(progress) /\ UNCHANGED progress
          /\ arrived' = Append(arrived, progress[Len(arrived) + 1])
      BY <1>2 DEF Receive, vars, tasks
    <2>2. arrived \in Seq(Jobs) /\ progress \in Seq(Jobs)
      BY DEF SessionTypeOK, TypeOK
    <2>3. /\ Len(arrived') = Len(arrived) + 1
          /\ \A i \in 1 .. Len(arrived) : arrived'[i] = arrived[i]
          /\ arrived'[Len(arrived) + 1] = progress[Len(arrived) + 1]
      BY <2>1, <2>2
    <2>4. Len(progress) \in Nat
      BY <2>2
    <2> QED BY <1>0, <2>1, <2>3, <2>4 DEF Reading
  <1>3. ~Receive => UNCHANGED arrived
    BY DEF SNext, ScanStep, SpawnedTask, Complete, Caller, Watched, Leave,
           HeadlessDone, Quit, caller, session
  <1> QED BY <1>1, <1>2, <1>3

\* A sorting of a list of entries is a list of them with all of them in it.
LEMMA SortingShows ==
    ASSUME NEW n \in Nat, NEW item,
           \A i \in 1 .. n : item[i] \in [ip : Addresses, entry : Entry],
           NEW list \in Sortings(item, n)
    PROVE  /\ list \in Seq([ip : Addresses, entry : Entry]) /\ DOMAIN list = 1 .. n
           /\ \A i \in 1 .. n : \E r \in 1 .. n : list[r] = item[i]
  <1>1. PICK q \in [1 .. n -> 1 .. n] :
          /\ list = [r \in 1 .. n |-> item[q[r]]]
          /\ \A r, s \in 1 .. n : r < s =>
                \/ Better(item[q[r]].entry, item[q[s]].entry)
                \/ q[r] < q[s] /\ ~Better(item[q[s]].entry, item[q[r]].entry)
    BY DEF Sortings
  <1>2. ASSUME NEW r \in 1 .. n, NEW s \in 1 .. n, r < s
        PROVE  q[r] # q[s]
    <2>1. item[q[r]].entry \in Entry /\ q[r] \in Int
      BY <1>1
    <2>2. ~Better(item[q[r]].entry, item[q[r]].entry) /\ ~(q[r] < q[r])
      BY <2>1, BetterIsStrict
    <2>3. \/ Better(item[q[r]].entry, item[q[s]].entry)
          \/ q[r] < q[s]
      BY <1>1, <1>2
    <2> QED BY ONLY <2>2, <2>3
  <1>3. \A r, s \in 1 .. n : q[r] = q[s] => r = s
    <2> SUFFICES ASSUME NEW r \in 1 .. n, NEW s \in 1 .. n, q[r] = q[s], r # s
                 PROVE  FALSE
      OBVIOUS
    <2>1. r < s \/ s < r
      OBVIOUS
    <2> QED BY <1>2, <2>1
  <1>4. q \in Injection(1 .. n, 1 .. n)
    BY <1>3 DEF Injection, IsInjective
  <1>5. q \in Surjection(1 .. n, 1 .. n)
    <2>1. IsFiniteSet(1 .. n)
      BY FS_Interval
    <2> QED BY <1>4, <2>1, FS_Injection
  <1>6. \A i \in 1 .. n : \E r \in 1 .. n : q[r] = i
    BY <1>5 DEF Surjection
  <1>7. list \in [1 .. n -> [ip : Addresses, entry : Entry]]
    BY <1>1
  <1>8. list \in Seq([ip : Addresses, entry : Entry])
    <2>1. ASSUME NEW S, NEW f \in [1 .. n -> S] PROVE f \in Seq(S)
      OBVIOUS
    <2> QED BY <1>7, <2>1
  <1> QED BY <1>1, <1>6, <1>7, <1>8

\* The caller's own list is one of entries, each as it arrived.
LEMMA ArrivedSorted ==
    ASSUME TypeOK, SessionTypeOK, Announced, Arrived, Reading,
           NEW list \in Sortings(ArrivedItems, Len(arrived))
    PROVE  /\ list \in Seq([ip : Addresses, entry : Entry])
           /\ \A i \in 1 .. Len(arrived) : \E r \in DOMAIN list :
                 list[r] = [ip |-> Ips[arrived[i]], entry |-> probed[arrived[i]]]
  <1>0. PICK n : n = Len(arrived)
    OBVIOUS
  <1>1. n \in Nat /\ DOMAIN arrived = 1 .. n
    BY <1>0 DEF SessionTypeOK
  <1>2. ASSUME NEW i \in 1 .. n
        PROVE  /\ ArrivedItems[i] = [ip |-> Ips[arrived[i]], entry |-> probed[arrived[i]]]
               /\ ArrivedItems[i] \in [ip : Addresses, entry : Entry]
    <2>1. arrived[i] \in Jobs /\ arrived[i] = progress[i] /\ i \in 1 .. Len(progress)
      <3>1. arrived \in Seq(Jobs) /\ progress \in Seq(Jobs)
        BY DEF SessionTypeOK, TypeOK
      <3>2. Len(arrived) <= Len(progress) /\ arrived[i] = progress[i]
        BY <1>0, <1>1 DEF Reading
      <3> QED BY <1>1, <3>1, <3>2
    <2>2. probed[arrived[i]] \in Entry
      BY <2>1 DEF Announced, Reported, Arrived, TypeOK
    <2>3. Ips[arrived[i]] \in Addresses
      BY <2>1, List
    <2> QED BY <1>1, <2>2, <2>3 DEF ArrivedItems
  <1>3. /\ list \in Seq([ip : Addresses, entry : Entry]) /\ DOMAIN list = 1 .. n
        /\ \A i \in 1 .. n : \E r \in 1 .. n : list[r] = ArrivedItems[i]
    <2>1. list \in Sortings(ArrivedItems, n)
      BY <1>0
    <2>2. \A i \in 1 .. n : ArrivedItems[i] \in [ip : Addresses, entry : Entry]
      BY <1>2
    <2>3. /\ list \in Seq([ip : Addresses, entry : Entry]) /\ DOMAIN list = 1 .. n
          /\ \A i \in 1 .. n : \E r \in 1 .. n : list[r] = ArrivedItems[i]
      <3>1. PICK item : item = ArrivedItems
        OBVIOUS
      <3>2. n \in Nat /\ list \in Sortings(item, n)
        BY ONLY <1>1, <2>1, <3>1
      <3>3. \A i \in 1 .. n : item[i] \in [ip : Addresses, entry : Entry]
        BY ONLY <2>2, <3>1
      <3>4. /\ list \in Seq([ip : Addresses, entry : Entry]) /\ DOMAIN list = 1 .. n
            /\ \A i \in 1 .. n : \E r \in 1 .. n : list[r] = item[i]
        BY ONLY <3>2, <3>3, SortingShows
      <3> QED BY ONLY <3>1, <3>4
    <2> QED BY ONLY <2>3
  <1>4. /\ list \in Seq([ip : Addresses, entry : Entry])
        /\ \A i \in 1 .. n : \E r \in DOMAIN list :
              list[r] = [ip |-> Ips[arrived[i]], entry |-> probed[arrived[i]]]
    <2>1. ASSUME NEW i \in 1 .. n
          PROVE  \E r \in DOMAIN list :
                    list[r] = [ip |-> Ips[arrived[i]], entry |-> probed[arrived[i]]]
      <3>1. PICK r \in 1 .. n : list[r] = ArrivedItems[i]
        BY <1>3, <2>1
      <3>2. list[r] = [ip |-> Ips[arrived[i]], entry |-> probed[arrived[i]]]
        BY ONLY <1>2, <2>1, <3>1
      <3>3. r \in DOMAIN list
        BY ONLY <1>3, <3>1
      <3> QED BY ONLY <3>2, <3>3
    <2> QED BY ONLY <1>3, <2>1
  <1> QED BY ONLY <1>0, <1>4

LEMMA SessionTypeStep ==
    /\ TypeOK /\ SessionTypeOK /\ Announced /\ Arrived /\ Reading
    /\ [SNext]_session
    => SessionTypeOK'
  <1> SUFFICES ASSUME TypeOK, SessionTypeOK, Announced, Arrived, Reading,
                      [SNext]_session
               PROVE  SessionTypeOK'
    OBVIOUS
  <1>1. CASE UNCHANGED caller
    BY <1>1 DEF caller, SessionTypeOK
  <1>2. CASE Complete \/ Watched \/ Quit
    BY <1>2 DEF Complete, Watched, Quit, SessionTypeOK
  <1>3. CASE Receive
    <2>1. progress[Len(arrived) + 1] \in Jobs
      BY <1>3 DEF Receive, SessionTypeOK, TypeOK
    <2> QED BY <1>3, <2>1 DEF Receive, SessionTypeOK
  <1>4. CASE Leave
    <2>1. entries' \in Seq([ip : Addresses, entry : Entry])
      BY <1>4, ArrivedSorted DEF Leave, TypeOK
    <2>2. cancelled' \in BOOLEAN
      BY <1>4 DEF Leave, SessionTypeOK
    <2> QED BY <1>4, <2>1, <2>2 DEF Leave, SessionTypeOK
  <1>5. CASE HeadlessDone
    BY <1>5 DEF HeadlessDone, SessionTypeOK, TypeOK
  <1> QED BY <1>1, <1>2, <1>3, <1>4, <1>5
          DEF SNext, ScanStep, SpawnedTask, Caller, session

LEMMA PartingStep ==
    /\ TypeOK /\ SessionTypeOK /\ Announced /\ Arrived /\ Reading
    /\ Parting /\ [SNext]_session
    => Parting'
  <1> SUFFICES ASSUME TypeOK, SessionTypeOK, Announced, Arrived, Reading,
                      Parting, [SNext]_session
               PROVE  Parting'
    OBVIOUS
  <1>1. CASE ScanStep
    <2>1. /\ pc # "returned" /\ ~cancelled /\ UNCHANGED <<caller, probed>>
      BY <1>1 DEF ScanStep, Scan, RecvP1, Phase1Over, RecvP2, Phase2Over, Merge, tasks
    <2>2. ~complete /\ (ui = "done" => mode = "tui" /\ Shown)
      BY <2>1 DEF Parting, Returned
    <2>3. mode = "json" => ui # "done"
      BY <2>2 DEF SessionTypeOK
    <2> QED BY <2>1, <2>2, <2>3 DEF Parting, Shown, caller
  <1>2. ASSUME NEW j \in Jobs, SpawnedTask(j)
        PROVE  Parting'
    <2>1. /\ UNCHANGED <<caller, scan>> /\ Task(j)
      BY <1>2 DEF SpawnedTask, Task, StartP1, EndP1, StartP2, EndP2, SendP2
    <2>2. Shown => Shown'
      <3>1. ASSUME NEW i \in 1 .. Len(arrived)
            PROVE  probed'[arrived[i]] = probed[arrived[i]]
        <4>1. arrived[i] \in Jobs /\ p2[arrived[i]] \in Reported
          <5>1. arrived[i] = progress[i] /\ i \in 1 .. Len(progress)
            BY DEF Reading, SessionTypeOK, TypeOK
          <5> QED BY <5>1 DEF Announced, SessionTypeOK
        <4> QED BY <2>1, <4>1 DEF Task, StartP1, EndP1, StartP2, EndP2, SendP2,
                                  TypeOK, Reported
      <3>2. UNCHANGED <<arrived, entries>>
        BY <2>1 DEF caller
      <3> QED BY <3>1, <3>2 DEF Shown
    <2>3. Disconnected => Disconnected'
      BY <2>1 DEF Disconnected, Returned, Task, StartP1, EndP1, StartP2, EndP2,
                  SendP2, TypeOK, caller, scan
    <2> QED BY <2>1, <2>2, <2>3 DEF Parting, Returned, caller, scan
  <1>3. CASE Complete
    <2>1. UNCHANGED <<vars, mode, cancelled, arrived, ui, entries>> /\ Returned
      BY <1>3 DEF Complete
    <2> QED BY <2>1 DEF Parting, Returned, Shown, Disconnected, vars, tasks, scan
  <1>4. CASE Receive
    BY <1>4 DEF Receive, Parting, Returned, vars, scan
  <1>5. CASE Watched \/ Quit
    BY <1>5 DEF Watched, Quit, Parting, Returned, vars, scan
  <1>6. CASE Leave
    <2>1. /\ ui = "leaving" /\ mode = "tui" /\ UNCHANGED <<vars, mode, complete, arrived>>
          /\ ui' = "done"
      BY <1>6 DEF Leave, Parting
    <2>2. CASE complete
      BY <1>6, <2>1, <2>2 DEF Leave, Parting, Returned, vars, scan
    <2>3. CASE ~complete
      <3>1. Shown'
        BY <1>6, <2>1, <2>3, ArrivedSorted DEF Leave, Shown, vars, tasks
      <3> QED BY <2>1, <2>3, <3>1 DEF Parting
    <2> QED BY <2>2, <2>3
  <1>7. CASE HeadlessDone
    BY <1>7 DEF HeadlessDone, Parting, Returned, Disconnected, vars, scan, tasks
  <1>8. CASE UNCHANGED session
    BY <1>8 DEF session, caller, vars, tasks, scan, Parting, Returned, Shown,
                Disconnected
  <1> QED BY <1>1, <1>2, <1>3, <1>4, <1>5, <1>6, <1>7, <1>8 DEF SNext, Caller

\* The caller's variables keep their types, it has read the beginning of what
\* the probes reported, and it goes on with what the scan returned or, if it
\* left before the scan was finished, with everything it had read.
THEOREM SessionInvariant ==
    SSpec => [](TypeOK /\ Announced /\ Arrived /\ SessionTypeOK /\ Reading /\ Parting)
  <1>1. SInit => SessionTypeOK /\ Reading /\ Parting
    <2>1. SInit => SessionTypeOK
      <3>1. SInit => {complete, cancelled, user_quit} \subseteq BOOLEAN
        BY Zenon DEF SInit
      <3> QED BY <3>1 DEF SInit, SessionTypeOK
    <2>2. SInit => Reading /\ Parting
      BY DEF SInit, Init, Reading, Parting
    <2> QED BY <2>1, <2>2
  <1>2. SSpec => [](TypeOK /\ Announced /\ Arrived)
    BY SessionScans, Typing, AnnouncedInv, StopInv, PTL
  <1> QED BY <1>1, <1>2, SessionTypeStep, ReadingStep, PartingStep, PTL DEF SSpec

\* Of n jobs listed once each there are n.
LEMMA Counted ==
    ASSUME NEW s \in Seq(Jobs), OnceEach(s)
    PROVE  Len(s) = Cardinality({s[i] : i \in 1 .. Len(s)})
  <1> DEFINE n == Len(s)
             T == {s[i] : i \in 1 .. n}
  <1>1. n \in Nat /\ s \in [1 .. n -> T]
    OBVIOUS
  <1>2. s \in Surjection(1 .. n, T) /\ s \in Injection(1 .. n, T)
    BY <1>1 DEF Surjection, Injection, IsInjective, OnceEach
  <1>3. IsFiniteSet(1 .. n) /\ Cardinality(1 .. n) = n
    BY <1>1, FS_Interval
  <1> HIDE DEF T
  <1>4. Cardinality(T) = Cardinality(1 .. n)
    BY <1>2, <1>3, FS_Surjection
  <1> QED BY <1>3, <1>4 DEF T

\* With JSON events, an event for every address that connected, and only one,
\* is out before the scan is announced as complete.
THEOREM ProgressIsOut == SSpec => []AllProgressFirst
  <1>1. ASSUME TypeOK, Traffic, Arrived, Announced, SessionTypeOK, Reading, Parting,
               mode = "json", ui = "done"
        PROVE  /\ Len(arrived) = Cardinality({j \in Jobs : tcp[j] # None})
               /\ \A i, k \in DOMAIN arrived : i # k => arrived[i] # arrived[k]
    <2>1. Disconnected /\ Returned
      BY <1>1 DEF Parting
    <2>2. /\ Len(arrived) = Len(progress) /\ arrived \in Seq(Jobs) /\ progress \in Seq(Jobs)
          /\ DOMAIN arrived = 1 .. Len(arrived)
      BY <1>1, <2>1 DEF Disconnected, SessionTypeOK, TypeOK
    <2>3. OnceEach(progress)
      BY <1>1 DEF Announced
    <2>4. \A j \in Jobs : tcp[j] # None <=> \E i \in 1 .. Len(progress) : progress[i] = j
      <3> SUFFICES ASSUME NEW j \in Jobs
                   PROVE  tcp[j] # None <=> \E i \in 1 .. Len(progress) : progress[i] = j
        OBVIOUS
      <3>1. p1[j] = "received"
        BY <1>1, <2>1 DEF Traffic, Returned
      <3>2. p2[j] \in {"none", "sent", "received"}
        BY <1>1, <2>1 DEF Disconnected, TypeOK
      <3>3. p2[j] \in Reported <=> \E i \in 1 .. Len(progress) : progress[i] = j
        BY <1>1 DEF Announced
      <3>4. p2[j] # "none" <=> tcp[j] # None
        BY <1>1, <3>1 DEF Announced, Arrived
      <3> QED BY <3>2, <3>3, <3>4 DEF Reported
    <2>5. {j \in Jobs : tcp[j] # None} = {progress[i] : i \in 1 .. Len(progress)}
      BY <2>2, <2>4
    <2>6. \A i, k \in DOMAIN arrived : i # k => arrived[i] # arrived[k]
      BY <1>1, <2>2, <2>3 DEF Reading, OnceEach
    <2> QED BY <2>2, <2>3, <2>5, <2>6, Counted
  <1>2. SSpec => []Traffic
    BY SessionScans, TrafficInv, PTL
  <1>3. TypeOK /\ Traffic /\ Arrived /\ Announced /\ SessionTypeOK /\ Reading /\ Parting
            => AllProgressFirst
    BY <1>1 DEF AllProgressFirst
  <1> QED BY <1>2, <1>3, SessionInvariant, PTL

\* What the user saw come in as healthy is not lost by leaving, early or not:
\* the scan's list has its address with a healthy entry, or another probe of
\* the same address, listed twice, did worse, or the limit ended the scan.
THEOREM HealthyKept == SSpec => []ShownHealthyIsKept
  <1>1. ASSUME TypeOK, Announced, Arrived, SessionTypeOK, Reading, Parting,
               LimitIsRespected, ui = "done", ~LimitReached(healthy_count),
               NEW i \in DOMAIN arrived, Healthy(probed[arrived[i]])
        PROVE  \/ \E r \in DOMAIN entries :
                     entries[r].ip = Ips[arrived[i]] /\ Healthy(entries[r].entry)
               \/ \E j \in Jobs : /\ Ips[j] = Ips[arrived[i]] /\ probed[j] # None
                                 /\ ~Healthy(probed[j])
    <2>1. i \in 1 .. Len(arrived)
      BY <1>1 DEF SessionTypeOK
    <2>2. arrived[i] \in Jobs /\ tcp[arrived[i]] # None
      <3>1. arrived[i] = progress[i] /\ i \in 1 .. Len(progress) /\ arrived[i] \in Jobs
        BY <1>1, <2>1 DEF Reading, SessionTypeOK, TypeOK
      <3> QED BY <1>1, <3>1 DEF Announced, Reported
    <2>3. CASE Shown
      <3>1. PICK r \in DOMAIN entries :
              entries[r] = [ip |-> Ips[arrived[i]], entry |-> probed[arrived[i]]]
        BY <2>1, <2>3 DEF Shown
      <3> QED BY <1>1, <3>1
    <2>4. CASE Returned /\ entries = all
      <3>1. PICK r \in DOMAIN all, k \in Jobs :
              /\ Ips[k] = Ips[arrived[i]] /\ all[r].ip = Ips[arrived[i]]
              /\ all[r].entry = probed[k]
        <4>1. \A j \in Jobs : tcp[j] # None =>
                 \E r \in DOMAIN all : \E k \in Jobs :
                     Ips[k] = Ips[j] /\ all[r].ip = Ips[j] /\ all[r].entry = probed[k]
          BY <1>1, <2>4 DEF LimitIsRespected
        <4> QED BY <2>2, <4>1
      <3>2. probed[k] # None
        <4>1. all[r].entry \in Entry
          <5>1. all \in Seq([ip : Addresses, entry : Entry])
            BY <1>1 DEF TypeOK
          <5>2. all[r] \in [ip : Addresses, entry : Entry]
            <6>1. ASSUME NEW S, NEW f \in Seq(S), NEW x \in DOMAIN f PROVE f[x] \in S
              OBVIOUS
            <6> QED BY <3>1, <5>1, <6>1
          <5> QED BY <5>2
        <4>2. None \notin Entry
          BY ScannerAssumption
        <4> QED BY <3>1, <4>1, <4>2
      <3> QED BY <2>4, <3>1, <3>2
    <2> QED BY <1>1, <2>3, <2>4 DEF Parting
  <1>2. TypeOK /\ Announced /\ Arrived /\ SessionTypeOK /\ Reading /\ Parting
            /\ LimitIsRespected => ShownHealthyIsKept
    BY <1>1 DEF ShownHealthyIsKept
  <1> QED BY <1>2, SessionInvariant, SessionInherits, PTL

-----------------------------------------------------------------------------
\* What the caller goes on with, however it left.

\* Entries for listed addresses, none for one place of the list twice, best first.
Choice(list) ==
    /\ \E f \in [DOMAIN list -> Jobs] :
          /\ \A r, s \in DOMAIN list : f[r] = f[s] => r = s
          /\ \A r \in DOMAIN list : list[r].ip = Ips[f[r]]
    /\ \A r, s \in DOMAIN list : r < s => ~Better(list[s].entry, list[r].entry)

Chosen == ui = "done" => Choice(entries) \/ (Returned /\ entries = all)

\* A sorting of entries that arrived, one of each job, is a choice.
LEMMA SortingChooses ==
    ASSUME NEW n \in Nat, NEW from \in [1 .. n -> Jobs], NEW item,
           \A i, k \in 1 .. n : from[i] = from[k] => i = k,
           \A i \in 1 .. n : item[i].ip = Ips[from[i]] /\ item[i].entry \in Entry,
           NEW list \in Sortings(item, n)
    PROVE  Choice(list)
  <1>1. PICK q \in [1 .. n -> 1 .. n] :
          /\ list = [r \in 1 .. n |-> item[q[r]]]
          /\ \A r, s \in 1 .. n : r < s =>
                \/ Better(item[q[r]].entry, item[q[s]].entry)
                \/ q[r] < q[s] /\ ~Better(item[q[s]].entry, item[q[r]].entry)
    BY DEF Sortings
  <1>2. /\ DOMAIN list = 1 .. n
        /\ \A r \in 1 .. n : list[r] = item[q[r]] /\ q[r] \in 1 .. n /\ q[r] \in Int
    BY <1>1
  <1>3. ASSUME NEW r \in 1 .. n, NEW s \in 1 .. n, r < s
        PROVE  q[r] # q[s] /\ ~Better(list[s].entry, list[r].entry)
    <2>1. item[q[r]].entry \in Entry /\ item[q[s]].entry \in Entry
      BY <1>2
    <2>2. /\ ~Better(item[q[r]].entry, item[q[r]].entry) /\ ~(q[r] < q[r])
          /\ Better(item[q[r]].entry, item[q[s]].entry)
                => ~Better(item[q[s]].entry, item[q[r]].entry)
      BY <1>2, <2>1, BetterIsStrict
    <2>3. \/ Better(item[q[r]].entry, item[q[s]].entry)
          \/ q[r] < q[s] /\ ~Better(item[q[s]].entry, item[q[r]].entry)
      BY <1>1, <1>3
    <2>4. list[r] = item[q[r]] /\ list[s] = item[q[s]]
      BY <1>2
    <2> QED BY ONLY <2>2, <2>3, <2>4
  <1>4. \A r, s \in 1 .. n : q[r] = q[s] => r = s
    <2> SUFFICES ASSUME NEW r \in 1 .. n, NEW s \in 1 .. n, q[r] = q[s], r # s
                 PROVE  FALSE
      OBVIOUS
    <2>1. r < s \/ s < r
      OBVIOUS
    <2> QED BY <1>3, <2>1
  <1> DEFINE f == [r \in 1 .. n |-> from[q[r]]]
  <1>5. f \in [1 .. n -> Jobs] /\ \A r \in 1 .. n : f[r] = from[q[r]]
    BY <1>2
  <1> HIDE DEF f
  <1>6. \A r, s \in 1 .. n : f[r] = f[s] => r = s
    BY <1>2, <1>4, <1>5
  <1>7. \A r \in 1 .. n : list[r].ip = Ips[f[r]]
    BY <1>2, <1>5
  <1>8. \A r, s \in 1 .. n : r < s => ~Better(list[s].entry, list[r].entry)
    BY <1>3
  <1>9. \E g \in [1 .. n -> Jobs] :
          /\ \A r, s \in 1 .. n : g[r] = g[s] => r = s
          /\ \A r \in 1 .. n : list[r].ip = Ips[g[r]]
    BY ONLY <1>5, <1>6, <1>7
  <1>10. PICK D : D = 1 .. n
    OBVIOUS
  <1>11. DOMAIN list = D
    BY ONLY <1>2, <1>10
  <1>12. /\ \E g \in [D -> Jobs] : /\ \A r, s \in D : g[r] = g[s] => r = s
                                  /\ \A r \in D : list[r].ip = Ips[g[r]]
         /\ \A r, s \in D : r < s => ~Better(list[s].entry, list[r].entry)
    BY ONLY <1>8, <1>9, <1>10
  <1> QED BY ONLY <1>11, <1>12, Zenon DEF Choice

\* What arrived is sorted into a choice.
LEMMA ArrivedChosen ==
    ASSUME TypeOK, SessionTypeOK, Announced, Arrived, Reading,
           NEW list \in Sortings(ArrivedItems, Len(arrived))
    PROVE  Choice(list)
  <1>1. PICK n, item : n = Len(arrived) /\ item = ArrivedItems
    OBVIOUS
  <1>2. /\ arrived \in Seq(Jobs) /\ progress \in Seq(Jobs) /\ n \in Nat
        /\ DOMAIN arrived = 1 .. n
    BY <1>1 DEF SessionTypeOK, TypeOK
  <1>3. arrived \in [1 .. n -> Jobs]
    BY <1>1, <1>2
  <1>4. \A i \in 1 .. n : arrived[i] = progress[i] /\ i \in 1 .. Len(progress)
    BY <1>1, <1>2 DEF Reading
  <1>5. \A i, k \in 1 .. n : arrived[i] = arrived[k] => i = k
    BY <1>4 DEF Announced, OnceEach
  <1>6. ASSUME NEW i \in 1 .. n
        PROVE  item[i].ip = Ips[arrived[i]] /\ item[i].entry \in Entry
    <2>1. item[i] = [ip |-> Ips[arrived[i]], entry |-> probed[arrived[i]]]
      BY <1>1, <1>2 DEF ArrivedItems
    <2>2. arrived[i] \in Jobs /\ p2[arrived[i]] \in Reported
      BY <1>3, <1>4 DEF Announced
    <2>3. probed[arrived[i]] \in Entry
      BY <2>2 DEF Reported, Arrived, TypeOK
    <2> QED BY <2>1, <2>3
  <1>7. list \in Sortings(item, n)
    BY <1>1
  <1>8. \A i \in 1 .. n : item[i].ip = Ips[arrived[i]] /\ item[i].entry \in Entry
    BY <1>6
  <1> QED BY ONLY <1>2, <1>3, <1>5, <1>7, <1>8, SortingChooses

LEMMA ChosenStep ==
    /\ TypeOK /\ SessionTypeOK /\ Announced /\ Arrived /\ Reading
    /\ Parting /\ Chosen /\ [SNext]_session
    => Chosen'
  <1> SUFFICES ASSUME TypeOK, SessionTypeOK, Announced, Arrived, Reading,
                      Parting, Chosen, [SNext]_session
               PROVE  Chosen'
    OBVIOUS
  <1>1. CASE UNCHANGED <<ui, entries>>
    <2>1. Choice(entries) => Choice(entries')
      BY <1>1
    <2>2. Returned /\ entries = all => (Returned /\ entries = all)'
      <3>1. [Next]_vars
        BY SessionStep
      <3>2. pc = "returned" => UNCHANGED <<pc, all>>
        BY <3>1 DEF Next, Task, StartP1, EndP1, StartP2, EndP2, SendP2, Scan, RecvP1,
                    Phase1Over, RecvP2, Phase2Over, Merge, vars, scan
      <3> QED BY <1>1, <3>2 DEF Returned
    <2> QED BY <1>1, <2>1, <2>2 DEF Chosen, Choice
  <1>2. CASE Leave
    <2>1. CASE complete
      <3>1. entries' = all /\ UNCHANGED <<pc, all>> /\ pc = "returned"
        BY <1>2, <2>1 DEF Leave, Parting, Returned, vars, scan
      <3> QED BY <3>1 DEF Chosen, Returned
    <2>2. CASE ~complete
      <3>1. entries' \in Sortings(ArrivedItems, Len(arrived))
        BY <1>2, <2>2 DEF Leave
      <3>2. PICK list \in Sortings(ArrivedItems, Len(arrived)) : list = entries'
        BY <3>1
      <3>3. Choice(list)
        BY ArrivedChosen
      <3>4. Choice(entries')
        BY <3>2, <3>3
      <3> QED BY <3>4 DEF Chosen, Choice
    <2> QED BY <2>1, <2>2
  <1>3. CASE HeadlessDone
    <2>1. entries' = all /\ UNCHANGED <<pc, all>> /\ pc = "returned"
      BY <1>3 DEF HeadlessDone, Returned, vars, scan
    <2> QED BY <2>1 DEF Chosen, Returned
  <1>4. CASE Watched \/ Quit
    BY <1>4 DEF Watched, Quit, Chosen
  <1>5. CASE Complete \/ Receive \/ UNCHANGED caller
    BY <1>1, <1>5 DEF Complete, Receive, caller
  <1> QED BY <1>2, <1>3, <1>4, <1>5 DEF SNext, ScanStep, SpawnedTask, Caller, session

\* However the start-up scan is watched or left, the caller goes on with entries
\* for listed addresses, each place of the list once, all of them without a
\* terminal, and the best first (scan_ip_list_with_ip_progress and _headless).
THEOREM ResultIsAChoice == SSpec => []EntriesAreAChoice
  <1>1. SInit => Chosen
    BY DEF SInit, Chosen
  <1>2. ASSUME TypeOK, SessionTypeOK, Parting, Chosen, EveryAddressReturned, SortedByScore,
               ui = "done"
        PROVE  Choice(entries) /\ (mode # "tui" => Len(entries) = Len(Ips))
    <2>1. Returned /\ entries = all => Choice(entries) /\ Len(entries) = Len(Ips)
      <3> SUFFICES ASSUME Returned, entries = all
                   PROVE  Choice(all) /\ Len(all) = Len(Ips)
        OBVIOUS
      <3>1. PICK f \in [Jobs -> Jobs] :
               /\ \A j, k \in Jobs : f[j] = f[k] => j = k
               /\ \A r \in Jobs : all[r].ip = Ips[f[r]]
        BY <1>2 DEF EveryAddressReturned
      <3>2. Len(all) = Len(Ips)
        BY <1>2 DEF EveryAddressReturned
      <3>3. DOMAIN all = Jobs
        BY <1>2, <3>2, List DEF TypeOK
      <3>4. \A r, s \in DOMAIN all : r < s => ~Better(all[s].entry, all[r].entry)
        BY <1>2 DEF SortedByScore
      <3> QED BY ONLY <3>1, <3>2, <3>3, <3>4 DEF Choice
    <2>2. Choice(entries)
      BY <1>2, <2>1 DEF Chosen
    <2>3. mode # "tui" => Returned /\ entries = all
      BY <1>2 DEF Parting
    <2> QED BY <2>1, <2>2, <2>3
  <1>3. TypeOK /\ SessionTypeOK /\ Parting /\ Chosen /\ EveryAddressReturned /\ SortedByScore
           => EntriesAreAChoice
    BY <1>2 DEF EntriesAreAChoice, Choice
  <1> QED BY <1>1, <1>3, ChosenStep, SessionInvariant, SessionInherits, PTL DEF SSpec
=============================================================================
