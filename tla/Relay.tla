-------------------------------- MODULE Relay --------------------------------
(***************************************************************************)
(* The counting relay (counting_relay_with_client_fragmentation and its    *)
(* two copy loops in proxy.rs): one copy task per direction, a ticker that *)
(* reports progress, and the connection's task, which waits for both, or   *)
(* for the deadline, and reports the end.  Bytes are counted, not named;   *)
(* a stream's bytes keep their order, so counts say which bytes they are.  *)
(***************************************************************************)
EXTENDS Integers

CONSTANTS
    None,
    MaxSent,        \* bound: bytes a peer sends in one direction
    BufSize         \* the copy buffer (64 KiB)

Dirs == {"c2s", "s2c"}

Counts == [Dirs -> Nat]

RelayResult == [bytes : Counts, reason : {"Completed", "MaxLifetime"}]

ASSUME RelayAssumption ==
    /\ MaxSent \in Nat
    /\ BufSize \in Nat \ {0}
    /\ None \notin Nat /\ None \notin RelayResult

VARIABLES
    limited,    \* RELAY_MAX_LIFETIME_SECS > 0
    sent,       \* bytes the source has put into its socket
    source,     \* "open", "eof" or "broken"
    taken,      \* bytes the copy task has read
    delivered,  \* bytes it has written to the destination socket
    counter,    \* c2s_atomic and s2c_atomic, and the task's own total
    copier,     \* where the copy task is
    aborted,    \* abort() was called on it
    joined,     \* c2s_done and s2c_done
    main,       \* where the connection's task is
    result,     \* the RelayResult
    ticker,     \* where the ticker is
    loaded,     \* the first counter of the event it is building
    shown,      \* the last RelayProgress in the channel
    late,       \* how many were sent since the ticker was told to stop; history
    final       \* the RelayFinished in the channel, or None

peers == <<sent, source>>
copy  == <<taken, delivered, counter, copier>>
wait  == <<limited, aborted, joined, main, result, final>>
tick  == <<ticker, loaded, shown, late>>

vars == <<peers, copy, wait, tick>>

Zero == [d \in Dirs |-> 0]

Init ==
    /\ limited \in BOOLEAN
    /\ sent = Zero /\ source = [d \in Dirs |-> "open"]
    /\ taken = Zero /\ delivered = Zero /\ counter = Zero
    /\ copier = [d \in Dirs |-> "reading"]
    /\ aborted = [d \in Dirs |-> FALSE]
    /\ joined = [d \in Dirs |-> None]
    /\ main = "waiting" /\ result = None /\ final = None
    /\ ticker = "sleeping" /\ loaded = 0 /\ shown = Zero /\ late = 0

-----------------------------------------------------------------------------
\* The peers.

PeerSends(d) ==
    /\ source[d] = "open" /\ sent[d] < MaxSent
    /\ sent' = [sent EXCEPT ![d] = @ + 1]
    /\ UNCHANGED <<source, copy, wait, tick>>

PeerEnds(d) ==
    /\ source[d] = "open"
    /\ source' = [source EXCEPT ![d] = "eof"]
    /\ UNCHANGED <<sent, copy, wait, tick>>

PeerBreaks(d) ==
    /\ source[d] # "broken"
    /\ source' = [source EXCEPT ![d] = "broken"]
    /\ UNCHANGED <<sent, copy, wait, tick>>

-----------------------------------------------------------------------------
\* A copy task.  An aborted task stops at its next await, so while it is
\* being polled on another thread it may still take any of these steps.

Running(d, l) == copier[d] = l

\* reader.read returns n > 0 bytes; a reset discards what was not read.
ReadSome(d) ==
    /\ Running(d, "reading") /\ source[d] # "broken"
    /\ \E n \in 1 .. BufSize :
          /\ taken[d] + n <= sent[d]
          /\ taken' = [taken EXCEPT ![d] = @ + n]
    /\ copier' = [copier EXCEPT ![d] = "writing"]
    /\ UNCHANGED <<delivered, counter, peers, wait, tick>>

\* Mutant of ReadEnds: a read error does not end the loop.
ReadEndsOnEof(d) ==
    /\ Running(d, "reading") /\ source[d] = "eof" /\ taken[d] = sent[d]
    /\ copier' = [copier EXCEPT ![d] = "closing"]
    /\ UNCHANGED <<taken, delivered, counter, peers, wait, tick>>

\* Mutant of ReadEnds: the end of the stream is seen before its last bytes.
ReadEndsEarly(d) ==
    /\ Running(d, "reading") /\ source[d] # "open"
    /\ copier' = [copier EXCEPT ![d] = "closing"]
    /\ UNCHANGED <<taken, delivered, counter, peers, wait, tick>>

\* Ok(0) | Err(_)
ReadEnds(d) ==
    /\ Running(d, "reading")
    /\ \/ source[d] = "eof" /\ taken[d] = sent[d]
       \/ source[d] = "broken"
    /\ copier' = [copier EXCEPT ![d] = "closing"]
    /\ UNCHANGED <<taken, delivered, counter, peers, wait, tick>>

\* write_all, or write_fragmented, gets some bytes into the socket.
WriteSome(d) ==
    /\ Running(d, "writing") /\ delivered[d] < taken[d]
    /\ \E n \in 1 .. BufSize :
          /\ delivered[d] + n <= taken[d]
          /\ delivered' = [delivered EXCEPT ![d] = @ + n]
    /\ UNCHANGED <<taken, counter, copier, peers, wait, tick>>

WriteFails(d) ==
    /\ Running(d, "writing") /\ delivered[d] < taken[d]
    /\ copier' = [copier EXCEPT ![d] = "failing"]
    /\ UNCHANGED <<taken, delivered, counter, peers, wait, tick>>

\* Mutant of Count: the bytes are counted when read, not when written.
CountRead(d) ==
    /\ Running(d, "writing")
    /\ counter' = [counter EXCEPT ![d] = taken[d]]
    /\ copier' = [copier EXCEPT ![d] = IF delivered[d] = taken[d] THEN "reading" ELSE @]
    /\ UNCHANGED <<taken, delivered, peers, wait, tick>>

\* total += n and counter.store(total)
Count(d) ==
    /\ Running(d, "writing") /\ delivered[d] = taken[d]
    /\ counter' = [counter EXCEPT ![d] = taken[d]]
    /\ copier' = [copier EXCEPT ![d] = "reading"]
    /\ UNCHANGED <<taken, delivered, peers, wait, tick>>

\* writer.shutdown(), and the task returns its total.
ShutDown(d) ==
    /\ copier[d] \in {"closing", "failing"}
    /\ copier' = [copier EXCEPT ![d] = IF @ = "closing" THEN "ended" ELSE "failed"]
    /\ UNCHANGED <<taken, delivered, counter, peers, wait, tick>>

Returned(d) == copier[d] \in {"ended", "failed"}

\* The scheduler drops an aborted task at an await.
Dropped(d) ==
    /\ aborted[d] /\ ~Returned(d) /\ copier[d] # "dropped"
    /\ copier' = [copier EXCEPT ![d] = "dropped"]
    /\ UNCHANGED <<taken, delivered, counter, peers, wait, tick>>

Copy(d) ==
    \/ ReadSome(d) \/ ReadEnds(d)
    \/ WriteSome(d) \/ WriteFails(d) \/ Count(d)
    \/ ShutDown(d) \/ Dropped(d)

-----------------------------------------------------------------------------
\* The connection's task.

\* Mutant of Join: select! over the two tasks, not join!.
JoinFirst(d) ==
    /\ main = "waiting" /\ Returned(d) /\ joined[d] = None
    /\ joined' = [joined EXCEPT ![d] = counter[d]]
    /\ main' = "stopping"
    /\ result' = [bytes |-> counter, reason |-> "Completed"]
    /\ UNCHANGED <<limited, aborted, final, peers, copy, tick>>

\* A JoinHandle is ready: select! without the deadline is join!.
Join(d) ==
    /\ main = "waiting" /\ Returned(d) /\ joined[d] = None
    /\ joined' = [joined EXCEPT ![d] = counter[d]]
    /\ LET both == \A e \in Dirs : joined'[e] # None
       IN  /\ main' = IF both THEN "stopping" ELSE main
           /\ result' = IF both THEN [bytes |-> joined', reason |-> "Completed"]
                                ELSE result
    /\ UNCHANGED <<limited, aborted, final, peers, copy, tick>>

\* Mutant of Deadline: what is not joined counts for nothing.
DeadlineForgets ==
    /\ limited /\ main = "waiting"
    /\ aborted' = [d \in Dirs |-> joined[d] = None]
    /\ result' = [bytes  |-> Zero, reason |-> "MaxLifetime"]
    /\ main' = "stopping"
    /\ UNCHANGED <<limited, joined, final, peers, copy, tick>>

\* Mutant of Deadline: it is only looked at once one direction has ended.
DeadlineAfterOne ==
    /\ limited /\ main = "waiting" /\ \E d \in Dirs : joined[d] # None
    /\ aborted' = [d \in Dirs |-> joined[d] = None]
    /\ result' = [bytes  |-> counter, reason |-> "MaxLifetime"]
    /\ main' = "stopping"
    /\ UNCHANGED <<limited, joined, final, peers, copy, tick>>

\* The deadline fires: what is not joined is aborted, its counter is read.
Deadline ==
    /\ limited /\ main = "waiting"
    /\ aborted' = [d \in Dirs |-> joined[d] = None]
    /\ result' = [bytes  |-> [d \in Dirs |-> IF joined[d] # None THEN joined[d]
                                                                 ELSE counter[d]],
                  reason |-> "MaxLifetime"]
    /\ main' = "stopping"
    /\ UNCHANGED <<limited, joined, final, peers, copy, tick>>

\* t.abort() on the ticker.
StopTicker ==
    /\ main = "stopping"
    /\ main' = "reporting"
    /\ UNCHANGED <<limited, aborted, joined, result, final, peers, copy, tick>>

\* The caller sends RelayFinished.
Finish ==
    /\ main = "reporting"
    /\ final' = result
    /\ main' = "finished"
    /\ UNCHANGED <<limited, aborted, joined, result, peers, copy, tick>>

Main == (\E d \in Dirs : Join(d)) \/ Deadline \/ StopTicker \/ Finish

-----------------------------------------------------------------------------
\* The ticker: it builds an event with two loads; an abort takes effect when
\* it sleeps.

TickerStopped == main \in {"reporting", "finished"}

\* Mutant of TickLoads: nobody aborts the ticker.
TickLoadsForEver ==
    /\ ticker = "sleeping" /\ late < 3
    /\ ticker' = "loaded"
    /\ loaded' = counter["c2s"]
    /\ UNCHANGED <<shown, late, peers, copy, wait>>

TickLoads ==
    /\ ticker = "sleeping" /\ ~TickerStopped
    /\ ticker' = "loaded"
    /\ loaded' = counter["c2s"]
    /\ UNCHANGED <<shown, late, peers, copy, wait>>

\* An event sent behind abort() is counted.
Outrun == late' = IF TickerStopped THEN late + 1 ELSE late

\* Mutant of TickSends: it sends what was copied since the last event.
TickSendsDelta ==
    /\ ticker = "loaded"
    /\ ticker' = "sleeping"
    /\ loaded' = 0
    /\ shown' = [d \in Dirs |-> (IF d = "c2s" THEN loaded ELSE counter[d]) - shown[d]]
    /\ Outrun
    /\ UNCHANGED <<peers, copy, wait>>

TickSends ==
    /\ ticker = "loaded"
    /\ ticker' = "sleeping"
    /\ loaded' = 0
    /\ shown' = [d \in Dirs |-> IF d = "c2s" THEN loaded ELSE counter[d]]
    /\ Outrun
    /\ UNCHANGED <<peers, copy, wait>>

Tick == TickLoads \/ TickSends

-----------------------------------------------------------------------------
Peer(d) == PeerSends(d) \/ PeerEnds(d) \/ PeerBreaks(d)

Next ==
    \/ \E d \in Dirs : Peer(d) \/ Copy(d)
    \/ Main
    \/ Tick

Spec == Init /\ [][Next]_vars

\* The runtime polls what is ready and its timer fires.  With a deadline a
\* peer may send nothing, read nothing and stay silent for ever; without one
\* the destinations are assumed to take what is written, or to reset.
FairSpec ==
    /\ Spec
    /\ WF_vars(Main)
    /\ \A d \in Dirs : WF_vars(~limited /\ Copy(d))

-----------------------------------------------------------------------------
\* Types: counts are natural numbers and a report, once there is one, gives
\* a number for each direction.
TypeOK ==
    /\ limited \in BOOLEAN
    /\ {sent, taken, delivered, counter, shown} \subseteq Counts
    /\ source \in [Dirs -> {"open", "eof", "broken"}]
    /\ copier \in [Dirs -> {"reading", "writing", "closing", "failing",
                            "ended", "failed", "dropped"}]
    /\ aborted \in [Dirs -> BOOLEAN]
    /\ joined \in [Dirs -> Nat \cup {None}]
    /\ main \in {"waiting", "stopping", "reporting", "finished"}
    /\ {result, final} \subseteq RelayResult \cup {None}
    /\ ticker \in {"sleeping", "loaded"}
    /\ loaded \in Nat /\ late \in Nat

\* The order of one direction's counts.
Counted(d) ==
    /\ counter[d] <= delivered[d]
    /\ delivered[d] <= taken[d]
    /\ taken[d] <= sent[d]
    /\ taken[d] - counter[d] <= BufSize

\* At any moment what is counted was delivered, what is delivered was read,
\* what was read was sent, and no more than one buffer is under way.
InFlight == \A d \in Dirs : Counted(d)

\* Nothing the channel shows of a relay exceeds what really went through,
\* even for events that were built before, or sent after, the end.
NeverOverstated ==
    \A d \in Dirs :
        /\ shown[d] <= delivered[d]
        /\ final # None => final.bytes[d] <= delivered[d]

\* A relay that completes reports both directions to their end: exactly what
\* was delivered, or, if a write failed, all but a part of the last buffer.
\* A direction whose source ended in order lost nothing.
CompletedIsExact ==
    final # None /\ final.reason = "Completed" =>
        \A d \in Dirs :
            /\ copier[d] \in {"ended", "failed"}
            /\ copier[d] = "ended" => final.bytes[d] = delivered[d]
            /\ copier[d] = "ended" /\ source[d] = "eof" => delivered[d] = sent[d]
            /\ delivered[d] - final.bytes[d] <= BufSize

\* When the deadline cuts the relay off, a direction that was already over is
\* reported in full; no task is aborted without a deadline.
CutOffKeepsTotals ==
    \A d \in Dirs :
        /\ aborted[d] => result.reason = "MaxLifetime"
        /\ main # "waiting" /\ joined[d] # None => result.bytes[d] = counter[d]

\* The ticker, which abort() stops at its next await only, sends at most one
\* more event, the one it is building; and the last word of a completed relay is
\* its RelayFinished: no progress, sent before it or after, shows more.  (Of a
\* relay that is cut off it may.)
FinishedIsLastWord ==
    /\ late <= 1
    /\ final # None /\ final.reason = "Completed" =>
           \A d \in Dirs : shown[d] <= final.bytes[d]

\* The progress a reader sees of one relay never goes back.
ProgressIsMonotone ==
    [][\A d \in Dirs : shown[d] <= shown'[d]]_shown

\* A relay with a deadline ends, whatever the peers do or do not do; without
\* one it ends if both sources end and the destinations take what is written
\* (one closed direction alone does not end it).
RelayEnds ==
    /\ limited => <>(main = "finished")
    /\ (~limited /\ \A d \in Dirs : source[d] # "open") ~> (main = "finished")
=============================================================================
