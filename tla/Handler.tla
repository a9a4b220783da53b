------------------------------- MODULE Handler -------------------------------
(***************************************************************************)
(* Handler::on_packet (handler.rs) for one tracked flow.  One thread calls *)
(* it, one packet at a time: it looks the flow up in the table, locks the  *)
(* flow state, decides and returns a verdict.  Three points of the call    *)
(* are separate steps because the proxy task can run between them:         *)
(*   - the lookup in the flow table (hpc = "idle" -> "holding");           *)
(*   - the decision, taken under the flow's mutex;                         *)
(*   - where the code drops the lock before it calls entry.finish, that    *)
(*     call (hpc = "finishing"), which takes the lock again.               *)
(* Packets that belong to no entry of the table are accepted unchanged and *)
(* leave no trace: they are stuttering steps.                              *)
(***************************************************************************)
EXTENDS Flow

VARIABLES
    registered,  \* the entry is in the flow table
    flow,        \* FlowEntry::state
    hpc,         \* where the handler thread is
    finishing,   \* the outcome it is about to pass to entry.finish
    rewrites,    \* how many packets it returned AcceptModified for, by stage
    waiters,     \* the Notify objects the proxy task holds a Notified of
    woken        \* ... and those notified since it got them

handlerVars == <<flow, hpc, finishing, rewrites>>
notifyVars  == <<waiters, woken>>

\* entry.notify and entry.ready_for_data.
Topics == {"notify", "readyForData"}

HandlerInit ==
    /\ flow = NewFlowState
    /\ hpc = "idle"
    /\ finishing = None
    /\ rewrites = [ack |-> 0, data |-> 0]
    /\ waiters = {}
    /\ woken = {}

\* Notify::notify_waiters wakes the Notified that exist and stores nothing
\* for those created later.
NotifyWaiters(topics) ==
    /\ woken' = woken \cup (waiters \cap topics)
    /\ UNCHANGED waiters

\* FlowEntry::finish, one critical section of the flow's mutex.
Finish(o) ==
    /\ flow' = Finished(flow, o)
    /\ NotifyWaiters(IF FinishNotifies(flow) THEN {"notify"} ELSE {})

-----------------------------------------------------------------------------
\* When on_packet accepts a packet as part of the exchange it follows.

ExpectedSyn(f, p) ==
    /\ p.dir = "Outbound" /\ IsBareSyn(p)
    /\ p.ack = 0
    /\ f.synSeq \in {None, p.seq}

ExpectedSynAck(f, p) ==
    /\ p.dir = "Inbound" /\ IsSynAck(p)
    /\ f.synSeq # None
    /\ p.ack = Succ(f.synSeq)
    /\ f.synAckSeq \in {None, p.seq}

\* Mutant of ExpectedHandshakeAck: the missing SYN-ACK is not an error.
AckBeforeSynAck(f, p) ==
    /\ p.dir = "Outbound" /\ IsBareAck(p)
    /\ ~f.fakeSent /\ ~f.waitingForData
    /\ f.synSeq # None /\ p.seq = Succ(f.synSeq)
    /\ f.synAckSeq # None => p.ack = Succ(f.synAckSeq)

\* Mutant of ExpectedHandshakeAck: a repeated ACK is handled like the first.
AckAgain(f, p) ==
    /\ p.dir = "Outbound" /\ IsBareAck(p)
    /\ f.synSeq # None /\ p.seq = Succ(f.synSeq)
    /\ f.synAckSeq # None /\ p.ack = Succ(f.synAckSeq)

ExpectedHandshakeAck(f, p) ==
    /\ p.dir = "Outbound" /\ IsBareAck(p)
    /\ ~f.fakeSent /\ ~f.waitingForData
    /\ f.synSeq # None /\ p.seq = Succ(f.synSeq)
    /\ f.synAckSeq # None /\ p.ack = Succ(f.synAckSeq)

ExpectedFirstData(f, p) ==
    /\ p.dir = "Outbound" /\ p.data
    /\ f.waitingForData /\ ~f.firstDataModified

\* An inbound ACK once the fake was sent: the branch that unwraps synAckSeq.
PostFakeAck(f, p) ==
    /\ p.dir = "Inbound" /\ IsBareAck(p)
    /\ f.synSeq # None /\ f.fakeSent

ExpectedPostFakeAck(f, p) ==
    /\ PostFakeAck(f, p)
    /\ f.synAckSeq # None
    /\ p.seq = Succ(f.synAckSeq)
    /\ p.ack = Succ(f.synSeq)

\* state.syn_ack_seq.expect(..) on None: the interceptor thread would die.
Panics(f, p) == PostFakeAck(f, p) /\ f.synAckSeq = None

Expected(f, p) ==
    \/ ExpectedSyn(f, p)
    \/ ExpectedSynAck(f, p)
    \/ ExpectedHandshakeAck(f, p)
    \/ ExpectedFirstData(f, p)
    \/ ExpectedPostFakeAck(f, p)

-----------------------------------------------------------------------------
\* What the method's answer makes the handler do.

\* Answers after which the handler waits for the first data packet.
Defers == {"EmitAndWaitForData", "PassThrough"}

\* The flow after the method saw the handshake ACK, or the first data.
AfterHandshake(f, a) ==
    [f EXCEPT !.fakeSent = IF a \in Emits THEN TRUE ELSE @,
              !.waitingForData = IF a \in Defers THEN TRUE ELSE @]

AfterFirstData(f, a) ==
    IF a = "PassThrough" THEN f
    ELSE [f EXCEPT !.firstDataModified = TRUE, !.waitingForData = FALSE]

\* The outcome the handler passes to entry.finish, if any.
ConcludesWith(a) ==
    CASE a \in {"EmitAndComplete", "CompleteAndAccept"} -> "FakeDataAcked"
      [] a = "AbortAndAccept"                           -> "UnexpectedClose"
      [] OTHER                                          -> None

\* The lock is released; if there is an outcome, entry.finish comes next.
Conclude(o) ==
    /\ finishing' = o
    /\ hpc' = IF o = None THEN "idle" ELSE "finishing"

-----------------------------------------------------------------------------
\* The steps of on_packet.

\* self.flows.get(&key)
Lookup ==
    /\ hpc = "idle" /\ registered
    /\ hpc' = "holding"
    /\ UNCHANGED <<registered, flow, finishing, rewrites, notifyVars>>

\* if !state.monitor { return Accept }
NotMonitored ==
    /\ hpc = "holding" /\ ~flow.monitor
    /\ hpc' = "idle"
    /\ UNCHANGED <<registered, flow, finishing, rewrites, notifyVars>>

\* Mutant of Monitored: the early return on !state.monitor is missing.
AnyFlowMonitored == hpc = "holding"

Monitored == hpc = "holding" /\ flow.monitor

OnSyn(p) ==
    /\ Monitored /\ ExpectedSyn(flow, p)
    /\ flow' = [flow EXCEPT !.synSeq = p.seq]
    /\ Conclude(None)
    /\ UNCHANGED <<registered, rewrites, notifyVars>>

OnSynAck(p) ==
    /\ Monitored /\ ExpectedSynAck(flow, p)
    /\ flow' = [flow EXCEPT !.synAckSeq = p.seq]
    /\ Conclude(None)
    /\ UNCHANGED <<registered, rewrites, notifyVars>>

\* The ACK that completes the handshake goes to the bypass method.
OnHandshakeAck(p, a) ==
    /\ Monitored /\ ExpectedHandshakeAck(flow, p)
    /\ flow' = AfterHandshake(flow, a)
    /\ rewrites' = [rewrites EXCEPT !.ack = IF a \in Emits THEN @ + 1 ELSE @]
    /\ NotifyWaiters(IF a \in Defers THEN {"readyForData"} ELSE {})
    /\ Conclude(ConcludesWith(a))
    /\ UNCHANGED registered

\* The first outbound data goes to the method that deferred to it.
OnFirstData(p, a) ==
    /\ Monitored /\ ExpectedFirstData(flow, p)
    /\ flow' = AfterFirstData(flow, a)
    /\ rewrites' = [rewrites EXCEPT !.data = IF a \in Emits THEN @ + 1 ELSE @]
    /\ Conclude(ConcludesWith(a))
    /\ UNCHANGED <<registered, notifyVars>>

\* The server's ACK of the fake ends the bypass unless data is awaited.
OnPostFakeAck(p) ==
    /\ Monitored /\ ExpectedPostFakeAck(flow, p)
    /\ Conclude(IF flow.waitingForData THEN None ELSE "FakeDataAcked")
    /\ UNCHANGED <<registered, flow, rewrites, notifyVars>>

\* Anything else closes the flow.
Unexpected(p) ==
    /\ Monitored /\ ~Expected(flow, p) /\ ~Panics(flow, p)
    /\ Finish("UnexpectedClose")
    /\ Conclude(None)
    /\ UNCHANGED <<registered, rewrites>>

\* entry.finish(..) after drop(state).
FinishAfterUnlock ==
    /\ hpc = "finishing"
    /\ Finish(finishing)
    /\ Conclude(None)
    /\ UNCHANGED <<registered, rewrites>>

OnPacket(p) ==
    \/ OnSyn(p)
    \/ OnSynAck(p)
    \/ \E a \in HandshakeActions : OnHandshakeAck(p, a)
    \/ \E a \in DataActions : OnFirstData(p, a)
    \/ OnPostFakeAck(p)
    \/ Unexpected(p)
=============================================================================
