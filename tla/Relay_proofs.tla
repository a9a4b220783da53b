----------------------------- MODULE Relay_proofs -----------------------------
(***************************************************************************)
(* Proofs about Relay, for every number of bytes, every buffer size, with  *)
(* and without a deadline.  Bookkeeping is the inductive invariant: where  *)
(* a copy task is fixes how its counts relate, and how far the connection's*)
(* task has come fixes what it joined, aborted and reported.               *)
(***************************************************************************)
EXTENDS Relay, TLAPS

\* The counts of one direction, by where its copy task is.
Copying(d) ==
    /\ Counted(d)
    /\ copier[d] \in {"reading", "closing", "ended"} => counter[d] = taken[d]
    /\ copier[d] \in {"closing", "ended"} =>
         /\ source[d] # "open"
         /\ source[d] = "eof" => taken[d] = sent[d]
    /\ shown[d] <= counter[d]

\* What the connection's task knows of one direction.
Waiting(d) ==
    /\ joined[d] # None => Returned(d) /\ joined[d] = counter[d]
    /\ aborted[d] => main # "waiting" /\ joined[d] = None
                     /\ result.reason = "MaxLifetime"
    /\ main # "waiting" => /\ result.bytes[d] <= counter[d]
                           /\ joined[d] # None => result.bytes[d] = joined[d]
                           /\ result.reason = "Completed" => joined[d] # None

Bookkeeping ==
    /\ \A d \in Dirs : Copying(d)
    /\ \A d \in Dirs : Waiting(d)
    /\ main = "waiting" <=> result = None
    /\ IF main = "finished" THEN final = result ELSE final = None
    /\ ticker = "loaded" => shown["c2s"] <= loaded /\ loaded <= counter["c2s"]
    /\ ~TickerStopped => late = 0
    /\ late <= 1
    /\ ticker = "loaded" => late = 0

-----------------------------------------------------------------------------
LEMMA TypingStep == TypeOK /\ [Next]_vars => TypeOK'
  <1>. SUFFICES ASSUME TypeOK, [Next]_vars PROVE TypeOK'
    OBVIOUS
  <1>. USE RelayAssumption DEF TypeOK, Counts, RelayResult
  <1>1. ASSUME NEW d \in Dirs, Peer(d)
        PROVE  TypeOK'
    BY <1>1 DEF Peer, PeerSends, PeerEnds, PeerBreaks, copy, wait, tick
  <1>2. ASSUME NEW d \in Dirs, ReadSome(d) \/ WriteSome(d) \/ Count(d)
        PROVE  TypeOK'
    <2>1. taken' \in Counts /\ delivered' \in Counts /\ counter' \in Counts
      BY <1>2 DEF ReadSome, WriteSome, Count
    <2>2. copier' \in [Dirs -> {"reading", "writing", "closing", "failing",
                                "ended", "failed", "dropped"}]
      BY <1>2 DEF ReadSome, WriteSome, Count
    <2>3. QED
      BY <1>2, <2>1, <2>2 DEF ReadSome, WriteSome, Count, peers, wait, tick
  <1>3. ASSUME NEW d \in Dirs,
               ReadEnds(d) \/ WriteFails(d) \/ ShutDown(d) \/ Dropped(d)
        PROVE  TypeOK'
    BY <1>3 DEF ReadEnds, WriteFails, ShutDown, Dropped, peers, wait, tick
  <1>4. ASSUME NEW d \in Dirs, Join(d)
        PROVE  TypeOK'
    <2>1. joined' \in [Dirs -> Nat \cup {None}]
      BY <1>4 DEF Join
    <2>2. result' \in RelayResult \cup {None}
      <3>1. CASE \A e \in Dirs : joined'[e] # None
        <4>1. joined' \in Counts
          BY <2>1, <3>1
        <4>2. QED
          BY <1>4, <3>1, <4>1 DEF Join
      <3>2. CASE ~ \A e \in Dirs : joined'[e] # None
        BY <1>4, <3>2 DEF Join
      <3>3. QED
        BY <3>1, <3>2
    <2>3. QED
      BY <1>4, <2>1, <2>2 DEF Join, peers, copy, tick
  <1>5. CASE Deadline
    <2>1. [d \in Dirs |-> IF joined[d] # None THEN joined[d] ELSE counter[d]] \in Counts
      OBVIOUS
    <2>2. QED
      BY <1>5, <2>1 DEF Deadline, peers, copy, tick
  <1>6. CASE StopTicker \/ Finish
    BY <1>6 DEF StopTicker, Finish, peers, copy, tick
  <1>7. CASE Tick
    <2>1. /\ shown' \in Counts /\ loaded' \in Nat /\ late' \in Nat
          /\ ticker' \in {"sleeping", "loaded"}
      BY <1>7 DEF Tick, TickLoads, TickSends, Outrun, Dirs
    <2>2. QED
      BY <1>7, <2>1 DEF Tick, TickLoads, TickSends, peers, copy, wait
  <1>8. CASE UNCHANGED vars
    BY <1>8 DEF vars, peers, copy, wait, tick
  <1>9. QED
    BY <1>1, <1>2, <1>3, <1>4, <1>5, <1>6, <1>7, <1>8 DEF Next, Copy, Main

\* The types hold in every run of the relay.
THEOREM Typing == Spec => []TypeOK
  <1>1. Init => TypeOK
    BY RelayAssumption DEF Init, TypeOK, Counts, RelayResult, Zero, Dirs
  <1>2. QED
    BY <1>1, TypingStep, PTL DEF Spec

-----------------------------------------------------------------------------
LEMMA InitBooks == Init => Bookkeeping
  <1>1. SUFFICES ASSUME Init PROVE Bookkeeping
    OBVIOUS
  <1>2. \A d \in Dirs : Copying(d)
    BY <1>1, RelayAssumption DEF Init, Copying, Counted, Zero
  <1>3. \A d \in Dirs : Waiting(d)
    BY <1>1 DEF Init, Waiting
  <1>4. QED
    BY <1>1, <1>2, <1>3 DEF Init, Bookkeeping, TickerStopped

\* A step of a peer or of the copy tasks.
LEMMA CopySteps ==
    ASSUME TypeOK, Bookkeeping, NEW d \in Dirs, Peer(d) \/ Copy(d)
    PROVE  Bookkeeping'
  <1>0. TypeOK'
    BY TypingStep DEF Next
  <1>. USE RelayAssumption DEF TypeOK, Counts, RelayResult
  <1>1. UNCHANGED <<wait, tick>>
    BY DEF Peer, PeerSends, PeerEnds, PeerBreaks, Copy, ReadSome, ReadEnds,
           WriteSome, WriteFails, Count, ShutDown, Dropped
  <1>2. /\ counter[d] <= counter'[d]
        /\ Returned(d) => Returned(d)' /\ counter'[d] = counter[d]
        /\ \A e \in Dirs : e # d => counter'[e] = counter[e] /\ copier'[e] = copier[e]
    BY DEF Bookkeeping, Copying, Counted, Returned, Running,
           Peer, PeerSends, PeerEnds, PeerBreaks, Copy, ReadSome, ReadEnds,
           WriteSome, WriteFails, Count, ShutDown, Dropped, peers, copy
  <1>3. \A e \in Dirs : e # d => Copying(e)'
    BY <1>1 DEF Bookkeeping, Copying, Counted, Running,
           Peer, PeerSends, PeerEnds, PeerBreaks, Copy, ReadSome, ReadEnds,
           WriteSome, WriteFails, Count, ShutDown, Dropped, peers, copy, wait, tick
  <1>4. Copying(d)'
    <2>. USE <1>1 DEF Bookkeeping, Copying, Counted, Running, wait, tick
    <2>1. CASE Peer(d)
      BY <2>1 DEF Peer, PeerSends, PeerEnds, PeerBreaks, copy
    <2>2. CASE ReadSome(d)
      BY <2>2 DEF ReadSome, peers
    <2>3. CASE WriteSome(d)
      BY <2>3 DEF WriteSome, peers
    <2>4. CASE Count(d)
      BY <2>4 DEF Count, peers
    <2>5. CASE ReadEnds(d) \/ WriteFails(d) \/ ShutDown(d) \/ Dropped(d)
      BY <2>5 DEF ReadEnds, WriteFails, ShutDown, Dropped, peers
    <2>6. QED
      BY <2>1, <2>2, <2>3, <2>4, <2>5 DEF Copy
  <1>5. ASSUME NEW e \in Dirs
        PROVE  Waiting(e)'
    <2>1. counter[e] \in Nat /\ counter'[e] \in Nat
      BY <1>0
    <2>2. counter[e] <= counter'[e]
      BY <1>2, <2>1 DEF Returned
    <2>3. Returned(e) => Returned(e)' /\ counter'[e] = counter[e]
      BY <1>2 DEF Returned
    <2>4. main # "waiting" => result.bytes[e] \in Nat
      BY DEF Bookkeeping
    <2>5. Waiting(e)
      BY DEF Bookkeeping
    <2>6. QED
      BY <1>1, <2>1, <2>2, <2>3, <2>4, <2>5 DEF Waiting, wait
  <1>6. ticker' = "loaded" => shown'["c2s"] <= loaded' /\ loaded' <= counter'["c2s"]
    <2>1. counter["c2s"] \in Nat /\ counter'["c2s"] \in Nat
      BY <1>0 DEF Dirs
    <2>2. counter["c2s"] <= counter'["c2s"]
      BY <1>2, <2>1 DEF Dirs, Returned
    <2>3. QED
      BY <1>1, <2>1, <2>2 DEF Bookkeeping, tick
  <1>7. QED
    BY <1>1, <1>3, <1>4, <1>5, <1>6 DEF Bookkeeping, TickerStopped, wait, tick

LEMMA BooksStep == TypeOK /\ Bookkeeping /\ [Next]_vars => Bookkeeping'
  <1>. SUFFICES ASSUME TypeOK, Bookkeeping, [Next]_vars PROVE Bookkeeping'
    OBVIOUS
  <1>1. ASSUME NEW d \in Dirs, Peer(d) \/ Copy(d)
        PROVE  Bookkeeping'
    BY <1>1, CopySteps
  <1>0. TypeOK'
    BY TypingStep
  <1>2. ASSUME NEW d \in Dirs, Join(d)
        PROVE  Bookkeeping'
    <2>1. \A e \in Dirs : Copying(e)'
      BY <1>2 DEF Join, Bookkeeping, Copying, Counted, peers, copy, tick
    <2>2. ASSUME NEW e \in Dirs
          PROVE  Waiting(e)'
      <3>1. joined'[e] = (IF e = d THEN counter[e] ELSE joined[e])
        BY <1>2 DEF Join, TypeOK
      <3>2. /\ main = "waiting" /\ ~aborted[e] /\ UNCHANGED <<aborted, copier, counter>>
            /\ Returned(d) /\ counter[e] \in Nat /\ counter[e] # None
        BY <1>2, RelayAssumption DEF Join, Bookkeeping, Waiting, copy, TypeOK, Counts
      <3>3. main' # "waiting" => joined'[e] # None /\ result'.bytes[e] = joined'[e]
        BY <1>2 DEF Join
      <3>4. joined[e] # None => Returned(e) /\ joined[e] = counter[e]
        BY DEF Bookkeeping, Waiting
      <3>5. QED
        <4>1. joined'[e] # None => Returned(e)' /\ joined'[e] = counter'[e]
          BY <3>1, <3>2, <3>4 DEF Returned
        <4>2. ~aborted'[e]
          BY <3>2
        <4>3. main' # "waiting" => /\ result'.bytes[e] = joined'[e] /\ joined'[e] # None
                                   /\ result'.bytes[e] <= counter'[e]
          BY <1>0, <3>3, <4>1 DEF Returned, TypeOK, Counts
        <4>4. QED
          BY <4>1, <4>2, <4>3 DEF Waiting
    <2>3. result' \in RelayResult \/ UNCHANGED <<main, result>>
      <3>1. CASE \A e \in Dirs : joined'[e] # None
        <4>1. joined' \in Counts
          BY <1>0, <3>1 DEF TypeOK, Counts
        <4>2. QED
          BY <1>2, <3>1, <4>1 DEF Join, RelayResult
      <3>2. CASE ~ \A e \in Dirs : joined'[e] # None
        BY <1>2, <3>2 DEF Join
      <3>3. QED
        BY <3>1, <3>2
    <2>4. QED
      BY <1>2, <2>1, <2>2, <2>3, RelayAssumption DEF Join, Bookkeeping, TickerStopped, copy, tick
  <1>3. CASE Deadline
    <2>1. \A e \in Dirs : Copying(e)'
      BY <1>3 DEF Deadline, Bookkeeping, Copying, Counted, peers, copy, tick
    <2>2. ASSUME NEW e \in Dirs
          PROVE  Waiting(e)'
      BY <1>3 DEF Deadline, Bookkeeping, Waiting, Returned, TypeOK, Counts, RelayResult, copy
    <2>3. result' \in RelayResult
      BY <1>3 DEF Deadline, TypeOK, Counts, RelayResult
    <2>4. QED
      BY <1>3, <2>1, <2>2, <2>3, RelayAssumption DEF Deadline, Bookkeeping, TickerStopped, copy, tick
  <1>4. CASE StopTicker \/ Finish
    BY <1>4 DEF StopTicker, Finish, Bookkeeping, Copying, Counted, Waiting,
                Returned, TickerStopped, peers, copy, tick
  <1>5. CASE TickLoads
    BY <1>5 DEF TickLoads, Bookkeeping, Copying, Counted, Waiting, Returned, TickerStopped,
                TypeOK, Counts, RelayResult, Dirs, peers, copy, wait
  <1>6. CASE TickSends
    <2>1. \A e \in Dirs : Copying(e)'
      BY <1>6 DEF TickSends, Bookkeeping, Copying, Counted, TypeOK, Counts, RelayResult, Dirs, peers, copy
    <2>2. QED
      BY <1>6, <2>1 DEF TickSends, Outrun, Bookkeeping, Waiting, Returned, TickerStopped,
                        copy, wait
  <1>7. CASE UNCHANGED vars
    BY <1>7 DEF vars, Bookkeeping, Copying, Counted, Waiting, Returned,
                TickerStopped, peers, copy, wait, tick
  <1>8. QED
    BY <1>1, <1>2, <1>3, <1>4, <1>5, <1>6, <1>7 DEF Next, Main, Tick

THEOREM Books == Spec => []Bookkeeping
  <1>1. QED
    BY InitBooks, BooksStep, Typing, PTL DEF Spec

-----------------------------------------------------------------------------
\* What is counted was delivered, read and sent, and at most one buffer is
\* under way.
THEOREM Flight == Spec => []InFlight
  <1>1. Bookkeeping => InFlight
    BY DEF Bookkeeping, Copying, InFlight
  <1>2. QED
    BY <1>1, Books, PTL

\* No event of a relay shows more than went through.
THEOREM NoOverstatement == Spec => []NeverOverstated
  <1>1. TypeOK /\ Bookkeeping => NeverOverstated
    <2>1. SUFFICES ASSUME TypeOK, Bookkeeping, NEW d \in Dirs
                   PROVE  /\ shown[d] <= delivered[d]
                          /\ final # None => final.bytes[d] <= delivered[d]
      BY DEF NeverOverstated
    <2>2. shown[d] <= counter[d] /\ counter[d] <= delivered[d]
      BY <2>1 DEF Bookkeeping, Copying, Counted
    <2>3. final # None => final.bytes[d] <= counter[d] /\ final.bytes[d] \in Nat
      BY <2>1 DEF Bookkeeping, Waiting, TypeOK, Counts, RelayResult
    <2>4. QED
      BY <2>1, <2>2, <2>3 DEF TypeOK, Counts, RelayResult
  <1>2. QED
    BY <1>1, Typing, Books, PTL

\* A completed relay reports exactly what was delivered, to the end of both
\* streams.
THEOREM Exactness == Spec => []CompletedIsExact
  <1>1. TypeOK /\ Bookkeeping => CompletedIsExact
    <2>1. SUFFICES ASSUME TypeOK, Bookkeeping, final # None,
                          final.reason = "Completed", NEW d \in Dirs
                   PROVE  /\ copier[d] \in {"ended", "failed"}
                          /\ copier[d] = "ended" => final.bytes[d] = delivered[d]
                          /\ copier[d] = "ended" /\ source[d] = "eof"
                               => delivered[d] = sent[d]
                          /\ delivered[d] - final.bytes[d] <= BufSize
      BY DEF CompletedIsExact
    <2>2. final.bytes[d] = counter[d] /\ Returned(d)
      BY <2>1 DEF Bookkeeping, Waiting
    <2>3. Copying(d) /\ counter[d] \in Nat /\ delivered[d] \in Nat
          /\ taken[d] \in Nat /\ sent[d] \in Nat
      BY <2>1 DEF Bookkeeping, TypeOK, Counts, RelayResult
    <2>4. QED
      BY <2>2, <2>3, RelayAssumption DEF Copying, Counted, Returned
  <1>2. QED
    BY <1>1, Typing, Books, PTL

\* A direction that was over before the deadline keeps its total.
THEOREM CutOff == Spec => []CutOffKeepsTotals
  <1>1. Bookkeeping => CutOffKeepsTotals
    BY DEF Bookkeeping, Waiting, CutOffKeepsTotals
  <1>2. QED
    BY <1>1, Books, PTL

\* Once it is told to stop, the ticker sends at most the event it is building,
\* and no progress of a completed relay shows more than its end does.
THEOREM LastWord == Spec => []FinishedIsLastWord
  <1>1. TypeOK /\ Bookkeeping => FinishedIsLastWord
    <2>1. ASSUME TypeOK, Bookkeeping, final # None,
                 final.reason = "Completed", NEW d \in Dirs
          PROVE  shown[d] <= final.bytes[d]
      <3>1. final.bytes[d] = counter[d]
        BY <2>1 DEF Bookkeeping, Waiting
      <3>2. QED
        BY <2>1, <3>1 DEF Bookkeeping, Copying
    <2>2. Bookkeeping => late <= 1
      BY DEF Bookkeeping
    <2>3. QED
      BY <2>1, <2>2 DEF FinishedIsLastWord
  <1>2. QED
    BY <1>1, Typing, Books, PTL

\* Progress never goes back.
THEOREM Progress == Spec => ProgressIsMonotone
  <1>1. TypeOK /\ Bookkeeping /\ [Next]_vars
          => [\A d \in Dirs : shown[d] <= shown'[d]]_shown
    <2>1. SUFFICES ASSUME TypeOK, Bookkeeping, [Next]_vars, shown' # shown,
                          NEW d \in Dirs
                   PROVE  shown[d] <= shown'[d]
      OBVIOUS
    <2>2. TickSends
      BY <2>1 DEF Next, vars, tick, Peer, PeerSends, PeerEnds, PeerBreaks, Copy,
            ReadSome, ReadEnds, WriteSome, WriteFails, Count, ShutDown, Dropped,
            Main, Join, Deadline, StopTicker, Finish, Tick, TickLoads
    <2>3. QED
      BY <2>1, <2>2 DEF TickSends, Bookkeeping, Copying, Dirs
  <1>2. QED
    BY <1>1, Typing, Books, PTL DEF Spec, ProgressIsMonotone
=============================================================================
