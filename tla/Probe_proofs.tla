---------------------------- MODULE Probe_proofs ----------------------------
(***************************************************************************)
(* The bounds of a score, for any caps and any measurements, and what the  *)
(* entry a probe returns says of the probe, for any chunk counts.          *)
(***************************************************************************)
EXTENDS Probe, TLAPS

-----------------------------------------------------------------------------
(***************************************************************************)
(* The score.                                                              *)
(***************************************************************************)

\* A range given by its bound: a solver would spell 0 .. 20000 out.
Upto(n) == {k \in Nat : k <= n}

\* A quotient is bounded by the bound of its dividend.
LEMMA DivBound ==
    ASSUME NEW n \in Nat, NEW k \in Nat, NEW c \in Nat \ {0}, n <= k * c
    PROVE  n \div c \in Upto(k)
  BY DEF Upto

\* A share of at most the whole cap gives at most the points there are.
LEMMA ShareBound ==
    ASSUME NEW k \in Nat, NEW cap \in Nat \ {0}, NEW share \in 0 .. cap
    PROVE  (k * share) \div cap \in Upto(k)
  <1>1. k * share \in Nat /\ k * share <= k * cap
    OBVIOUS
  <1> QED BY <1>1, DivBound

LEMMA FallingBound ==
    ASSUME NEW points \in Nat, NEW cap \in Nat \ {0}, NEW v \in Measure
    PROVE  Falling(points, v, cap) \in Upto(1000 * points)
  <1>1. CASE v = None
    BY <1>1 DEF Falling, Upto
  <1>2. CASE v # None
    <2> DEFINE k == 1000 * points
               s == cap - Capped(v, cap)
    <2>1. s \in 0 .. cap
      BY <1>2 DEF Capped, Measure
    <2>2. k \in Nat
      OBVIOUS
    <2>3. (k * s) \div cap \in Upto(k)
      <3> HIDE DEF k, s
      <3> QED BY <2>1, <2>2, ShareBound
    <2> QED BY <1>2, <2>3 DEF Falling
  <1> QED BY <1>1, <1>2

LEMMA RisingBound ==
    ASSUME NEW points \in Nat, NEW cap \in Nat \ {0}, NEW v \in Measure
    PROVE  Rising(points, v, cap) \in Upto(1000 * points)
  <1>1. CASE v = None
    BY <1>1 DEF Rising, Upto
  <1>2. CASE v # None
    <2> DEFINE k == 1000 * points
               s == Capped(v, cap)
    <2>1. s \in 0 .. cap
      BY <1>2 DEF Capped, Measure
    <2>2. k \in Nat
      OBVIOUS
    <2>3. (k * s) \div cap \in Upto(k)
      <3> HIDE DEF k, s
      <3> QED BY <2>1, <2>2, ShareBound
    <2> QED BY <1>2, <2>3 DEF Rising
  <1> QED BY <1>1, <1>2

-----------------------------------------------------------------------------
LEMMA Caps ==
    /\ TcpCap \in Nat \ {0} /\ TlsCap \in Nat \ {0} /\ TtfbCap \in Nat \ {0}
    /\ DownCap \in Nat \ {0} /\ UpCap \in Nat \ {0}
    /\ 1000 * 20 = 20000 /\ 1000 * 15 = 15000
  BY CapsAssumption

\* What the bounds of one entry's score rest on, phase by phase.
LEMMA Phases ==
    ASSUME NEW e \in Entry
    PROVE  /\ Rising(20, e.up, UpCap) \in Upto(20000)
           /\ Rising(15, e.down, DownCap) \in Upto(15000)
           /\ Falling(15, e.tcp, TcpCap) \in Upto(15000)
           /\ Falling(15, e.tls, TlsCap) \in Upto(15000)
           /\ Falling(15, e.ttfb, TtfbCap) \in Upto(15000)
           /\ Flat(5, e.tls_ok) \in {0, 5000}
           /\ Flat(5, e.cert) \in {0, 5000}
           /\ Flat(10, Healthy(e)) \in {0, 10000}
  <1>1. /\ e.tcp \in Measure /\ e.tls \in Measure /\ e.ttfb \in Measure
        /\ e.down \in Measure /\ e.up \in Measure
    BY DEF Entry
  <1>2. Rising(20, e.up, UpCap) \in Upto(20000)
    BY <1>1, Caps, RisingBound
  <1>3. Rising(15, e.down, DownCap) \in Upto(15000)
    BY <1>1, Caps, RisingBound
  <1>4. Falling(15, e.tcp, TcpCap) \in Upto(15000)
    BY <1>1, Caps, FallingBound
  <1>5. Falling(15, e.tls, TlsCap) \in Upto(15000)
    BY <1>1, Caps, FallingBound
  <1>6. Falling(15, e.ttfb, TtfbCap) \in Upto(15000)
    BY <1>1, Caps, FallingBound
  <1>7. /\ Flat(5, e.tls_ok) \in {0, 5000}
         /\ Flat(5, e.cert) \in {0, 5000}
         /\ Flat(10, Healthy(e)) \in {0, 10000}
    BY DEF Flat
  <1> QED BY <1>2, <1>3, <1>4, <1>5, <1>6, <1>7

\* A score is a percentage: the u8 it is cast to is never cut off.
THEOREM ScoreIsPercentage ==
    ASSUME NEW e \in Entry
    PROVE  compute_score(e) \in 0 .. 100
  <1>1. Thousandths(e) \in Upto(100000)
    BY Phases DEF Thousandths, Upto
  <1>2. (Thousandths(e) + 500) \div 1000 \in 0 .. 100
    <2> HIDE DEF Thousandths
    <2> QED BY <1>1 DEF Upto
  <1> QED BY <1>2 DEF compute_score

\* An address that went through every phase outranks every address whose
\* handshake failed, however slow the first and fast the second: the sort
\* never puts an address that was not probed, or not reached, before a
\* healthy one.
THEOREM HealthyOutranks ==
    ASSUME NEW e \in Entry, NEW f \in Entry, Healthy(e),
           ~f.tls_ok, ~f.cert, f.tls = None, f.ttfb = None,
           f.down = None, f.up = None
    PROVE  compute_score(f) < compute_score(e)
  <1>1. Thousandths(e) \in Upto(100000) /\ Thousandths(e) >= 20000
    BY Phases DEF Thousandths, Flat, Healthy, Upto
  <1>2. Thousandths(f) \in Upto(15000)
    <2>1. ~Healthy(f)
      BY DEF Healthy
    <2> QED BY <2>1, Phases DEF Thousandths, Flat, Rising, Falling, Upto
  <1>3. (Thousandths(f) + 500) \div 1000 < (Thousandths(e) + 500) \div 1000
    <2> HIDE DEF Thousandths
    <2> QED BY <1>1, <1>2 DEF Upto
  <1> QED BY <1>3 DEF compute_score

-----------------------------------------------------------------------------
(***************************************************************************)
(* The probe.                                                              *)
(***************************************************************************)
Before == {"reconnect", "handshake"}

\* What has been measured tells where the probe is: before the handshake
\* nothing, the TTFB with the first byte of the answer and the upload only
\* after its whole body and some of the answer.
Measuring ==
    /\ pc \in Before => tls = None /\ ttfb = None /\ total_read = 0 /\ down = None
    /\ pc \notin Before \cup {"returned"} => tls # None
    /\ ttfb # None => tls # None /\ total_read > 0
    /\ pc = "up_answer" => remaining = 0
    /\ pc \notin {"scoring", "returned"} => up = None
    /\ up # None => remaining = 0 /\ response > 0

\* What was returned is what was measured.
Returning ==
    /\ pc # "returned" => entry = None
    /\ pc = "returned" =>
        \/ /\ entry \in {TcpOnly(tcp), Scored(TcpOnly(tcp))}
           /\ tls = None /\ ttfb = None /\ up = None
        \/ /\ entry = TlsEntry(tcp, tls, ttfb, down, up)
           /\ tls # None

ProbeInv == TypeOK /\ tcp # None /\ Measuring /\ Returning

-----------------------------------------------------------------------------
\* A latency or speed that was measured is not None.
LEMMA Absent == None \notin Times \cup Speeds
  <1>1. Times \subseteq Nat /\ Speeds \subseteq Nat
    BY ProbeAssumption
  <1>2. None \notin Nat
    BY CapsAssumption
  <1> QED BY <1>1, <1>2

\* Scoring gives an entry its percentage and leaves the rest of it alone.
LEMMA ScoredAs ==
    ASSUME NEW e \in Entry
    PROVE  /\ Scored(e) \in Entry /\ Scored(e).score \in 0 .. 100
           /\ Scored(e).tls_ok = e.tls_ok /\ Scored(e).cert = e.cert
           /\ Scored(e).ttfb = e.ttfb /\ Scored(e).up = e.up
  <1>1. compute_score(e) \in 0 .. 100
    BY ScoreIsPercentage
  <1> HIDE DEF compute_score
  <1> QED BY <1>1 DEF Scored, Entry

\* Every value a probe may return is an entry.
LEMMA Returnable ==
    ASSUME TypeOK
    PROVE  /\ TcpOnly(tcp) \in Entry
           /\ Scored(TcpOnly(tcp)) \in Entry
           /\ TlsEntry(tcp, tls, ttfb, down, up) \in Entry
  <1>1. {tcp, tls, ttfb, down, up} \subseteq Measure
    BY ProbeAssumption DEF TypeOK, Measure
  <1>2. TcpOnly(tcp) \in Entry
    BY <1>1 DEF TcpOnly, Entry, Measure
  <1> DEFINE e == [tcp |-> tcp, tls_ok |-> TRUE, tls |-> tls, cert |-> TRUE,
                   ttfb |-> ttfb, down |-> down, up |-> up, score |-> 0]
  <1>3. e \in Entry
    BY <1>1 DEF Entry
  <1>4. Scored(e) \in Entry
    <2> HIDE DEF e
    <2> QED BY <1>3, ScoredAs
  <1> QED BY <1>2, <1>4, ScoredAs DEF TlsEntry

LEMMA InitiallyFresh == Init => ProbeInv
  <1> SUFFICES ASSUME Init PROVE ProbeInv
    OBVIOUS
  <1>1. TypeOK
    BY ProbeAssumption DEF Init, TypeOK, Uploading
  <1>2. tcp # None /\ Measuring /\ Returning
    BY Absent DEF Init, Measuring, Returning, Before
  <1> QED BY <1>1, <1>2 DEF ProbeInv

LEMMA TypingStep == TypeOK /\ [Next]_vars => TypeOK'
  <1> SUFFICES ASSUME TypeOK, [Next]_vars PROVE TypeOK'
    OBVIOUS
  <1> USE ProbeAssumption DEF TypeOK, GoTo, Measured, Return
  <1>1. CASE NoStream
    BY <1>1, Returnable DEF NoStream
  <1>2. CASE Reconnect
    BY <1>2 DEF Reconnect
  <1>3. CASE HandshakeFails
    BY <1>3, Returnable DEF HandshakeFails
  <1>4. CASE Handshake
    BY <1>4 DEF Handshake
  <1>5. CASE RequestFails \/ Request
    BY <1>5 DEF RequestFails, Request
  <1>6. CASE Read
    BY <1>6 DEF Read
  <1>7. CASE ReadOver
    BY <1>7 DEF ReadOver, Uploading
  <1>8. CASE UploadFails \/ UploadReady
    BY <1>8 DEF UploadFails, UploadReady, Uploading
  <1>9. CASE WriteBody
    BY <1>9 DEF WriteBody, Uploading
  <1>10. CASE Flush
    BY <1>10 DEF Flush, Uploading
  <1>11. CASE ReadAnswer
    BY <1>11 DEF ReadAnswer, Uploading
  <1>12. CASE Answered
    BY <1>12 DEF Answered
  <1>13. CASE Finish
    BY <1>13, Returnable DEF Finish
  <1>14. CASE UNCHANGED vars
    BY <1>14 DEF vars
  <1> QED BY <1>1, <1>2, <1>3, <1>4, <1>5, <1>6, <1>7, <1>8, <1>9, <1>10,
             <1>11, <1>12, <1>13, <1>14 DEF Next

LEMMA MeasuringStep == ProbeInv /\ [Next]_vars => Measuring'
  <1> SUFFICES ASSUME ProbeInv, [Next]_vars PROVE Measuring'
    OBVIOUS
  <1> USE Absent DEF ProbeInv, Measuring, Before, GoTo, Measured, Return
  <1>1. CASE NoStream \/ Reconnect
    BY <1>1 DEF NoStream, Reconnect
  <1>2. CASE HandshakeFails
    BY <1>2 DEF HandshakeFails
  <1>3. CASE Handshake
    BY <1>3 DEF Handshake
  <1>4. CASE RequestFails \/ Request
    BY <1>4 DEF RequestFails, Request
  <1>5. CASE Read
    BY <1>5 DEF Read, TypeOK
  <1>6. CASE ReadOver
    BY <1>6 DEF ReadOver
  <1>7. CASE UploadFails \/ UploadReady
    BY <1>7 DEF UploadFails, UploadReady, Uploading
  <1>8. CASE WriteBody \/ Flush
    BY <1>8 DEF WriteBody, Flush
  <1>9. CASE ReadAnswer
    BY <1>9 DEF ReadAnswer, TypeOK
  <1>10. CASE Answered
    BY <1>10 DEF Answered, TypeOK
  <1>11. CASE Finish
    BY <1>11 DEF Finish
  <1>12. CASE UNCHANGED vars
    BY <1>12 DEF vars
  <1> QED BY <1>1, <1>2, <1>3, <1>4, <1>5, <1>6, <1>7, <1>8, <1>9, <1>10,
             <1>11, <1>12 DEF Next

LEMMA ReturningStep ==
    ProbeInv /\ [Next]_vars => tcp' # None /\ Returning'
  <1> SUFFICES ASSUME ProbeInv, [Next]_vars PROVE tcp' # None /\ Returning'
    OBVIOUS
  <1> USE DEF ProbeInv, Returning, GoTo, Return, Measured
  <1>1. CASE NoStream
    BY <1>1 DEF NoStream, Measuring, Before
  <1>2. CASE HandshakeFails
    BY <1>2 DEF HandshakeFails, Measuring, Before
  <1>3. CASE Finish
    BY <1>3 DEF Finish, Measuring, Before
  <1>4. CASE UNCHANGED vars
    BY <1>4 DEF vars
  <1>5. ASSUME Next, ~NoStream, ~HandshakeFails, ~Finish
        PROVE  tcp' # None /\ Returning'
    BY <1>5 DEF Next, Reconnect, Handshake, RequestFails, Request, Read,
                ReadOver, UploadFails, UploadReady, WriteBody, Flush,
                ReadAnswer, Answered, Uploading
  <1> QED BY <1>1, <1>2, <1>3, <1>4, <1>5

\* The types of a probe's state, and what it knows where: it never enters a
\* phase without the measurements of the phases before, and what it returns
\* states them as they were made.
THEOREM ProbeInvariant == Spec => []ProbeInv
  <1>1. ProbeInv /\ [Next]_vars => ProbeInv'
    BY TypingStep, MeasuringStep, ReturningStep DEF ProbeInv
  <1> QED BY InitiallyFresh, <1>1, PTL DEF Spec

\* The entry of a probe is one the scanner can rank, for any latencies,
\* speeds, caps and sizes: its score is a percentage, the TLS latency is there
\* exactly when the handshake succeeded, and it counts as healthy only after
\* an answer to the GET, a whole upload and an answer to that.
THEOREM SoundEntry == Spec => []EntryIsSound
  <1>1. ProbeInv => EntryIsSound
    <2> SUFFICES ASSUME ProbeInv, entry # None PROVE EntryIsSound
      BY DEF EntryIsSound
    <2>1. TypeOK /\ Measuring
      BY DEF ProbeInv
    <2>2. entry \in Entry
      BY <2>1 DEF TypeOK
    <2> DEFINE e == [tcp |-> tcp, tls_ok |-> TRUE, tls |-> tls, cert |-> TRUE,
                     ttfb |-> ttfb, down |-> down, up |-> up, score |-> 0]
    <2>3. /\ entry.score \in 0 .. 100
          /\ entry.tls_ok = (tls # None) /\ entry.cert = entry.tls_ok
          /\ entry.ttfb = ttfb /\ entry.up = up
      <3>1. CASE entry = TcpOnly(tcp) /\ tls = None /\ ttfb = None /\ up = None
        <4>1. /\ entry.score \in 0 .. 100
              /\ entry.tls_ok = FALSE /\ entry.cert = FALSE
              /\ entry.ttfb = None /\ entry.up = None
          BY <3>1 DEF TcpOnly
        <4> QED BY Zenon, <3>1, <4>1
      <3>2. CASE /\ entry = Scored(TcpOnly(tcp))
                 /\ tls = None /\ ttfb = None /\ up = None
        <4>1. TcpOnly(tcp) \in Entry
          BY <2>1, Returnable
        <4> QED BY <3>2, <4>1, ScoredAs DEF TcpOnly
      <3>3. CASE entry = TlsEntry(tcp, tls, ttfb, down, up) /\ tls # None
        <4>1. e \in Entry
          BY <2>1, ProbeAssumption DEF TypeOK, Entry, Measure
        <4>2. /\ entry = Scored(e)
              /\ e.tls_ok = TRUE /\ e.cert = TRUE /\ e.ttfb = ttfb /\ e.up = up
          BY <3>3 DEF TlsEntry
        <4> HIDE DEF e
        <4> QED BY <3>3, <4>1, <4>2, ScoredAs
      <3> QED BY <3>1, <3>2, <3>3 DEF ProbeInv, Returning
    <2>4. Healthy(entry) => total_read > 0 /\ remaining = 0 /\ response > 0
      BY <2>1, <2>3 DEF Healthy, Measuring
    <2> QED BY <2>3, <2>4 DEF EntryIsSound
  <1> QED BY <1>1, ProbeInvariant, PTL
=============================================================================
