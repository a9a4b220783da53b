---------------------------- MODULE InterceptFlow ----------------------------
(***************************************************************************)
(* One connection of the intercepting proxy: the packet handler and the    *)
(* proxy task (handle_intercept_connection in proxy.rs) sharing a          *)
(* FlowEntry.  The task registers the entry, connects, waits for the       *)
(* handler, forwards the first client bytes when the handler asks for      *)
(* them, waits again, unregisters the entry and relays.  The network and   *)
(* the two kernels are not constrained: the handler may see any packet of  *)
(* the flow at any time, except that no payload leaves this host before    *)
(* the task has written some.                                              *)
(***************************************************************************)
EXTENDS Handler, Sequences

CONSTANT Nodelay     \* TCP_SEGMENTATION nodelay: the task calls set_nodelay

ASSUME NodelayAssumption == Nodelay \in BOOLEAN

VARIABLES
    pc,       \* where the proxy task is
    stage,    \* 1: before the first client bytes are read, 2: from then on
    result,   \* what the wait returned: an outcome, or None for a timeout
    events    \* the ProxyEvents sent for this connection

proxyVars == <<pc, stage, result, events>>

vars == <<registered, handlerVars, notifyVars, proxyVars>>

ProxyPoints ==
    {"connecting", "check", "arm", "parked", "prefix", "writing", "report",
     "accepted", "failing", "dropping", "relaying", "closed", "failed", "dropped"}

Accepted         == [type |-> "ConnectionAccepted", outcome |-> None]
ConnectionError  == [type |-> "ConnectionError", outcome |-> None]
BypassComplete(o) == [type |-> "BypassComplete", outcome |-> o]
RelayFinished    == [type |-> "RelayFinished", outcome |-> None]

Init ==
    /\ HandlerInit
    /\ registered = TRUE
    /\ pc = "connecting"
    /\ stage = 1
    /\ result = None
    /\ events = <<>>

-----------------------------------------------------------------------------
\* Shared shapes of the proxy task's steps.

Emit(e) == events' = Append(events, e)

Goto(l) == pc' = l

\* The select! or the timeout is over: its Notified futures are dropped.
DropWaiters == waiters' = {} /\ woken' = {}

\* Mutant of Abandon: the error returns without the event.
AbandonSilently ==
    /\ Finish("UnexpectedClose")
    /\ UNCHANGED events
    /\ Goto("failing")

\* entry.finish(UnexpectedClose), the event, and the error return.
Abandon ==
    /\ Finish("UnexpectedClose")
    /\ Emit(BypassComplete("UnexpectedClose"))
    /\ Goto("failing")

-----------------------------------------------------------------------------
\* The proxy task.

\* socket.connect returns.
Connected ==
    /\ pc = "connecting"
    /\ Emit(Accepted)
    /\ Goto("check")
    /\ UNCHANGED <<registered, handlerVars, notifyVars, stage, result>>

ConnectFails ==
    /\ pc = "connecting"
    /\ Finish("UnexpectedClose")
    /\ Emit(ConnectionError)
    /\ Goto("failing")
    /\ UNCHANGED <<registered, hpc, finishing, rewrites, stage, result>>

\* Mutant of Check: the SYN-ACK is enough to ask for the client's bytes.
CheckSynAck ==
    /\ pc = "check"
    /\ IF flow.outcome # None
       THEN result' = flow.outcome /\ Goto("report")
       ELSE /\ Goto(IF stage = 1 /\ flow.synAckSeq # None THEN "prefix" ELSE "arm")
            /\ UNCHANGED result
    /\ UNCHANGED <<registered, handlerVars, notifyVars, stage, events>>

\* The test at the head of the loop of either wait, under the flow's mutex.
\* Only the first wait looks at waiting_for_data.
Check ==
    /\ pc = "check"
    /\ \/ /\ flow.outcome # None
          /\ result' = flow.outcome
          /\ Goto("report")
       \/ /\ flow.outcome = None /\ stage = 1 /\ flow.waitingForData
          /\ Goto("prefix")
          /\ UNCHANGED result
       \/ /\ flow.outcome = None /\ ~(stage = 1 /\ flow.waitingForData)
          /\ Goto("arm")
          /\ UNCHANGED result
    /\ UNCHANGED <<registered, handlerVars, notifyVars, stage, events>>

\* The calls of notified(), after the mutex was released.
Arm ==
    /\ pc = "arm"
    /\ waiters' = IF stage = 1 THEN Topics ELSE {"notify"}
    /\ woken' = {}
    /\ Goto("parked")
    /\ UNCHANGED <<registered, handlerVars, stage, result, events>>

Wake ==
    /\ pc = "parked" /\ woken # {}
    /\ DropWaiters
    /\ Goto("check")
    /\ UNCHANGED <<registered, handlerVars, stage, result, events>>

\* Mutant of Timeout: the second wait has none.
TimeoutFirstWaitOnly ==
    /\ pc = "parked" /\ stage = 1
    /\ DropWaiters
    /\ result' = None
    /\ Goto("report")
    /\ UNCHANGED <<registered, handlerVars, stage, events>>

\* BYPASS_TIMEOUT_SECS have passed.  A timeout polls the wait first, but a
\* notification may still come between that poll and the one of its timer.
Timeout ==
    /\ pc = "parked"
    /\ DropWaiters
    /\ result' = None
    /\ Goto("report")
    /\ UNCHANGED <<registered, handlerVars, stage, events>>

\* finish_bypass_or_error
ReportSuccess ==
    /\ pc = "report" /\ result = "FakeDataAcked"
    /\ Emit(BypassComplete("FakeDataAcked"))
    /\ Goto("accepted")
    /\ UNCHANGED <<registered, handlerVars, notifyVars, stage, result>>

ReportClosed ==
    /\ pc = "report" /\ result = "UnexpectedClose"
    /\ Emit(BypassComplete("UnexpectedClose"))
    /\ Goto("failing")
    /\ UNCHANGED <<registered, handlerVars, notifyVars, stage, result>>

ReportTimeout ==
    /\ pc = "report" /\ result = None
    /\ Abandon
    /\ UNCHANGED <<registered, hpc, finishing, rewrites, stage, result>>

\* set_nodelay fails: the error is returned with no finish and no event.
NodelayFails ==
    /\ pc = "prefix" /\ Nodelay
    /\ Goto("dropping")
    /\ UNCHANGED <<registered, handlerVars, notifyVars, stage, result, events>>

\* The ClientHello, or the first client write, was read.
ReadPrefix ==
    /\ pc = "prefix"
    /\ stage' = 2
    /\ Goto("writing")
    /\ UNCHANGED <<registered, handlerVars, notifyVars, result, events>>

\* ... or the client closed, sent something else, or let the time pass.
ReadPrefixFails ==
    /\ pc = "prefix"
    /\ Abandon
    /\ UNCHANGED <<registered, hpc, finishing, rewrites, stage, result>>

WritePrefix ==
    /\ pc = "writing"
    /\ Goto("check")
    /\ UNCHANGED <<registered, handlerVars, notifyVars, stage, result, events>>

WritePrefixFails ==
    /\ pc = "writing"
    /\ Abandon
    /\ UNCHANGED <<registered, hpc, finishing, rewrites, stage, result>>

\* Mutant of StartRelay: the guard lives to the end of the function.
StartRelayTracked ==
    /\ pc = "accepted"
    /\ Goto("relaying")
    /\ UNCHANGED <<registered, handlerVars, notifyVars, stage, result, events>>

\* drop(cleanup): the flow leaves the table before the relay starts.
StartRelay ==
    /\ pc = "accepted"
    /\ registered' = FALSE
    /\ Goto("relaying")
    /\ UNCHANGED <<handlerVars, notifyVars, stage, result, events>>

RelayEnds ==
    /\ pc = "relaying"
    /\ Emit(RelayFinished)
    /\ Goto("closed")
    /\ UNCHANGED <<registered, handlerVars, notifyVars, stage, result>>

\* Mutant of CleanUp: a statement at each error return instead of a guard.
CleanUpOnErrorOnly ==
    /\ pc = "failing"
    /\ registered' = FALSE
    /\ Goto("failed")
    /\ UNCHANGED <<handlerVars, notifyVars, stage, result, events>>

\* The guard removes the flow when the task returns early or is dropped.
CleanUp ==
    /\ pc \in {"failing", "dropping"}
    /\ registered' = FALSE
    /\ Goto(IF pc = "failing" THEN "failed" ELSE "dropped")
    /\ UNCHANGED <<handlerVars, notifyVars, stage, result, events>>

\* The runtime is dropped while the task awaits.
Cancelled ==
    /\ pc \in {"connecting", "parked", "prefix", "writing", "relaying"}
    /\ DropWaiters
    /\ Goto("dropping")
    /\ UNCHANGED <<registered, handlerVars, stage, result, events>>

-----------------------------------------------------------------------------
\* The packets the handler can see: payload leaves this host only once the
\* task writes.
Observable(p) == (p.dir = "Outbound" /\ p.data) => stage = 2

HandlerStep ==
    \/ Lookup
    \/ NotMonitored
    \/ \E p \in Packet : Observable(p) /\ OnPacket(p)
    \/ FinishAfterUnlock

Packets == HandlerStep /\ UNCHANGED proxyVars

Report == ReportSuccess \/ ReportClosed \/ ReportTimeout

Prefix == ReadPrefix \/ ReadPrefixFails \/ NodelayFails

Write == WritePrefix \/ WritePrefixFails

ProxyStep ==
    \/ Connected \/ ConnectFails
    \/ Check \/ Arm \/ Wake \/ Timeout \/ Report
    \/ Prefix \/ Write
    \/ StartRelay \/ RelayEnds
    \/ CleanUp \/ Cancelled

Next == Packets \/ ProxyStep

Spec == Init /\ [][Next]_vars

\* The tokio scheduler runs a ready task, timers fire, connect returns, and
\* a socket write of the few prefix bytes returns.  Nothing is assumed of
\* the handler, of the packets, of the relay's end or of cancellation.
Settle ==
    \/ Connected \/ ConnectFails
    \/ Check \/ Arm \/ Wake \/ Timeout \/ Report
    \/ Prefix \/ Write
    \/ StartRelay \/ CleanUp

FairSpec == Spec /\ WF_vars(Settle)

-----------------------------------------------------------------------------
\* Types: every variable stays in the range the code's types give it.
TypeOK ==
    /\ registered \in BOOLEAN
    /\ flow \in FlowState
    /\ hpc \in {"idle", "holding", "finishing"}
    /\ finishing \in Outcomes \cup {None}
    /\ rewrites \in [ack : Nat, data : Nat]
    /\ waiters \in SUBSET Topics
    /\ woken \in SUBSET waiters
    /\ pc \in ProxyPoints
    /\ stage \in {1, 2}
    /\ result \in Outcomes \cup {None}
    /\ events \in Seq([type : {"ConnectionAccepted", "ConnectionError",
                               "BypassComplete", "RelayFinished"},
                       outcome : Outcomes \cup {None}])

\* Whatever packet comes, the handler does not reach the expect() on a
\* missing SYN-ACK number in its post-fake branch: a panic there would kill
\* the interceptor thread, and with it every other flow.
HandlerNeverPanics ==
    \A p \in Packet : Monitored => ~Panics(flow, p)

\* The first handshake number the handler settles for is the one the whole
\* exchange is judged by: a stage that waits for data, or that has sent the
\* fake, was reached through SYN and SYN-ACK, and a rewritten handshake ACK
\* or data packet is rewritten once: retransmissions are never rewritten.
RewrittenOnce ==
    /\ flow.fakeSent \/ flow.waitingForData \/ flow.firstDataModified
         => flow.synSeq # None /\ flow.synAckSeq # None
    /\ rewrites.ack = (IF flow.fakeSent THEN 1 ELSE 0)
    /\ rewrites.data <= (IF flow.firstDataModified THEN 1 ELSE 0)

\* The proxy asks the client for its first bytes only when the handler is
\* in position for them: it saw the whole handshake and waits for data, and
\* it still does however long the client takes, unless the flow was closed.
ReadyForPrefix ==
    pc = "prefix" => /\ flow.waitingForData /\ ~flow.firstDataModified
                     /\ flow.synSeq # None /\ flow.synAckSeq # None

\* The relay carries only connections whose bypass was decided a success,
\* reported as one, and which the handler no longer tracks.
RelayOnlyAfterBypass ==
    pc \in {"relaying", "closed"} =>
        /\ flow.outcome = "FakeDataAcked"
        /\ BypassComplete("FakeDataAcked") = events[2]
        /\ ~registered

\* What a reader of the event channel sees of one connection, by where its
\* task is: at most one verdict, after the acceptance and before the relay's
\* end, and a failed connection always with its reason.
EventsTellTheStory ==
    LET accepted == <<Accepted>>
        success  == <<Accepted, BypassComplete("FakeDataAcked")>>
        failure  == {<<ConnectionError>>,
                     <<Accepted, BypassComplete("UnexpectedClose")>>}
    IN  /\ pc = "connecting" => events = <<>>
        /\ pc \in {"check", "arm", "parked", "prefix", "writing", "report"}
             => events = accepted
        /\ pc \in {"accepted", "relaying"} => events = success
        /\ pc = "closed" => events = Append(success, RelayFinished)
        /\ pc \in {"failing", "failed"} => events \in failure
        /\ pc \in {"dropping", "dropped"} => events \in {<<>>, accepted, success}

\* A method that passes the handshake ACK through (tls_record_frag) never
\* has a connection succeed, or relay, before the proxy itself forwarded
\* the first client bytes for the handler to rewrite.
PrefixBeforeSuccess ==
    HandshakeActions = {"PassThrough"} =>
        /\ ~flow.fakeSent
        /\ flow.outcome = "FakeDataAcked" \/ finishing = "FakeDataAcked"
             => flow.firstDataModified
        /\ flow.firstDataModified => stage = 2

\* The two sides agree: the flow is monitored exactly while undecided, the
\* outcome the task reports is the flow's, a success it acts on cannot be
\* taken back, and a failure it reports was decided for the flow as well.
SidesAgree ==
    /\ flow.monitor <=> flow.outcome = None
    /\ flow.synAckSeq # None => flow.synSeq # None
    /\ hpc = "finishing" <=> finishing # None
    /\ flow.firstDataModified \/ pc = "writing" => stage = 2
    /\ pc = "prefix" => stage = 1
    /\ pc = "report" /\ result # None => flow.outcome = result
    /\ pc = "accepted" => flow.outcome = "FakeDataAcked"
    /\ pc \in {"failing", "failed"} => flow.outcome # None

\* Once decided, a flow's state is frozen: neither a late packet, nor the
\* handler's finish after its unlock, nor the proxy giving up changes it.
OutcomeIsFinal == [][flow.outcome = None]_flow

\* No packet is rewritten after the flow was decided, in particular none
\* after the proxy gave up on it.
RewritesOnlyUndecided ==
    [][flow.outcome = None /\ finishing = None]_rewrites

\* The abstract promise: phase by where the task is, the reported outcome
\* from the events.
Phase ==
    CASE pc = "relaying" -> "relaying"
      [] pc = "closed" -> "closed"
      [] pc \in {"failing", "failed", "dropping", "dropped"} -> "failed"
      [] OTHER -> "opening"

Reported == IF Len(events) >= 2 THEN events[2].outcome ELSE None

Promise == INSTANCE Bypass WITH
    outcome <- flow.outcome, reported <- Reported,
    tracked <- registered, phase <- Phase

\* The connection implements that promise.
KeepsPromise == Promise!Spec

\* However the packets go, and even if a notification was missed, the task
\* stops waiting: the connection relays or ends, and has left the table.
SettlesEventually ==
    pc = "connecting" ~> /\ pc \in {"relaying", "closed", "failed", "dropped"}
                         /\ ~registered

=============================================================================
