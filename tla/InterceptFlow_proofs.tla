------------------------- MODULE InterceptFlow_proofs -------------------------
(***************************************************************************)
(* Proofs about InterceptFlow, for every SeqMod, every method and every    *)
(* packet.  TypeOK and SidesAgree carry the induction; the other safety    *)
(* properties are proved on top of them, one after the other.              *)
(***************************************************************************)
EXTENDS InterceptFlow, SequenceTheorems, TLAPS

LEMMA SuccType ==
    ASSUME NEW s \in SeqNum
    PROVE  Succ(s) \in SeqNum
  BY FlowAssumption DEF SeqNum, Succ

LEMMA FinishedType ==
    ASSUME NEW f \in FlowState, NEW o \in Outcomes
    PROVE  /\ Finished(f, o) \in FlowState
           /\ f.outcome # None => Finished(f, o) = f
           /\ f.outcome = None => /\ Finished(f, o).outcome = o
                                  /\ ~Finished(f, o).monitor
           /\ Finished(f, o).synSeq = f.synSeq
           /\ Finished(f, o).synAckSeq = f.synAckSeq
           /\ Finished(f, o).fakeSent = f.fakeSent
           /\ Finished(f, o).waitingForData = f.waitingForData
           /\ Finished(f, o).firstDataModified = f.firstDataModified
  BY DEF FlowState, Finished

\* What the method's answers do to the flow.
LEMMA AfterHandshakeFlow ==
    ASSUME NEW f \in FlowState, NEW a
    PROVE  LET g == AfterHandshake(f, a)
           IN  /\ g \in FlowState
               /\ g.fakeSent = (IF a \in Emits THEN TRUE ELSE f.fakeSent)
               /\ g.waitingForData = (IF a \in Defers THEN TRUE ELSE f.waitingForData)
               /\ g.monitor = f.monitor /\ g.outcome = f.outcome
               /\ g.synSeq = f.synSeq /\ g.synAckSeq = f.synAckSeq
               /\ g.firstDataModified = f.firstDataModified
  BY DEF FlowState, AfterHandshake

LEMMA AfterFirstDataFlow ==
    ASSUME NEW f \in FlowState, NEW a
    PROVE  LET g == AfterFirstData(f, a)
           IN  /\ g \in FlowState
               /\ a # "PassThrough" => g.firstDataModified /\ ~g.waitingForData
               /\ a = "PassThrough" => g = f
               /\ g.monitor = f.monitor /\ g.outcome = f.outcome
               /\ g.synSeq = f.synSeq /\ g.synAckSeq = f.synAckSeq
               /\ g.fakeSent = f.fakeSent
  BY DEF FlowState, AfterFirstData

LEMMA RewritesType ==
    ASSUME NEW r \in [ack : Nat, data : Nat], NEW a
    PROVE  /\ [r EXCEPT !.ack = IF a \in Emits THEN @ + 1 ELSE @]
                \in [ack : Nat, data : Nat]
           /\ [r EXCEPT !.data = IF a \in Emits THEN @ + 1 ELSE @]
                \in [ack : Nat, data : Nat]
  <1>1. CASE a \in Emits
    BY <1>1
  <1>2. CASE a \notin Emits
    BY <1>2
  <1>3. QED
    BY <1>1, <1>2

LEMMA NewFlowStateType == NewFlowState \in FlowState
  BY DEF NewFlowState, FlowState

LEMMA ConcludesWithType ==
    ASSUME NEW a \in MethodActions
    PROVE  ConcludesWith(a) \in Outcomes \cup {None}
  BY DEF ConcludesWith, Outcomes

\* Notifying any topics, or dropping the futures, keeps woken a part of
\* waiters.
LEMMA NotifyType ==
    ASSUME waiters \in SUBSET Topics, woken \in SUBSET waiters,
           \/ \E t \in SUBSET Topics : NotifyWaiters(t)
           \/ DropWaiters
           \/ UNCHANGED notifyVars
    PROVE  waiters' \in SUBSET Topics /\ woken' \in SUBSET waiters'
  BY DEF NotifyWaiters, DropWaiters, notifyVars

-----------------------------------------------------------------------------
\* The steps of the handler keep the types.
LEMMA TypingHandler ==
    ASSUME TypeOK, SidesAgree, HandlerStep, UNCHANGED proxyVars
    PROVE  TypeOK'
  <1>1. ASSUME NEW p \in Packet, OnSyn(p)
        PROVE  TypeOK'
    BY <1>1 DEF TypeOK, OnSyn, Conclude, proxyVars, notifyVars, FlowState, Packet
  <1>2. ASSUME NEW p \in Packet, OnSynAck(p)
        PROVE  TypeOK'
    BY <1>2 DEF TypeOK, OnSynAck, Conclude, proxyVars, notifyVars, FlowState, Packet
  <1>3. ASSUME NEW p \in Packet, NEW a \in HandshakeActions, OnHandshakeAck(p, a)
        PROVE  TypeOK'
    <2>1. ConcludesWith(a) \in Outcomes \cup {None}
      BY ConcludesWithType, FlowAssumption
    <2>2. flow' \in FlowState /\ rewrites' \in [ack : Nat, data : Nat]
      BY <1>3, AfterHandshakeFlow, RewritesType DEF TypeOK, OnHandshakeAck
    <2>3. waiters' \in SUBSET Topics /\ woken' \in SUBSET waiters'
      BY <1>3 DEF TypeOK, OnHandshakeAck, NotifyWaiters
    <2>4. QED
      BY <1>3, <2>1, <2>2, <2>3 DEF TypeOK, OnHandshakeAck, Conclude, proxyVars
  <1>4. ASSUME NEW p \in Packet, NEW a \in DataActions, OnFirstData(p, a)
        PROVE  TypeOK'
    <2>1. ConcludesWith(a) \in Outcomes \cup {None}
      BY ConcludesWithType, FlowAssumption
    <2>2. flow' \in FlowState /\ rewrites' \in [ack : Nat, data : Nat]
      BY <1>4, AfterFirstDataFlow, RewritesType DEF TypeOK, OnFirstData
    <2>3. QED
      BY <1>4, <2>1, <2>2 DEF TypeOK, OnFirstData, Conclude, proxyVars, notifyVars
  <1>5. ASSUME NEW p \in Packet, OnPostFakeAck(p)
        PROVE  TypeOK'
    BY <1>5 DEF TypeOK, OnPostFakeAck, Conclude, proxyVars, notifyVars, Outcomes
  <1>6. ASSUME NEW p \in Packet, Unexpected(p)
        PROVE  TypeOK'
    <2>1. flow' \in FlowState
      BY <1>6, FinishedType DEF TypeOK, Unexpected, Finish, Outcomes
    <2>2. waiters' \in SUBSET Topics /\ woken' \in SUBSET waiters'
      BY <1>6 DEF TypeOK, Unexpected, Finish, NotifyWaiters
    <2>3. QED
      BY <1>6, <2>1, <2>2 DEF TypeOK, Unexpected, Conclude, proxyVars
  <1>7. CASE FinishAfterUnlock
    <2>1. SUFFICES ASSUME finishing \in Outcomes PROVE TypeOK'
      BY <1>7 DEF TypeOK, SidesAgree, FinishAfterUnlock
    <2>2. flow' \in FlowState
      BY <1>7, <2>1, FinishedType DEF TypeOK, FinishAfterUnlock, Finish
    <2>3. waiters' \in SUBSET Topics /\ woken' \in SUBSET waiters'
      BY <1>7 DEF TypeOK, FinishAfterUnlock, Finish, NotifyWaiters
    <2>4. QED
      BY <1>7, <2>2, <2>3 DEF TypeOK, FinishAfterUnlock, Conclude, proxyVars
  <1>8. CASE Lookup \/ NotMonitored
    BY <1>8 DEF TypeOK, Lookup, NotMonitored, proxyVars, notifyVars
  <1>9. QED
    BY <1>1, <1>2, <1>3, <1>4, <1>5, <1>6, <1>7, <1>8 DEF HandlerStep, OnPacket

-----------------------------------------------------------------------------
\* The steps of the proxy task keep the types.
Event == [type : {"ConnectionAccepted", "ConnectionError",
                  "BypassComplete", "RelayFinished"},
          outcome : Outcomes \cup {None}]

LEMMA EventTypes ==
    /\ Accepted \in Event
    /\ ConnectionError \in Event
    /\ RelayFinished \in Event
    /\ \A o \in Outcomes : BypassComplete(o) \in Event
  BY DEF Event, Accepted, ConnectionError, RelayFinished, BypassComplete

LEMMA TypingAbandon ==
    ASSUME TypeOK, Finish("UnexpectedClose")
    PROVE  /\ flow' \in FlowState
           /\ waiters' \in SUBSET Topics /\ woken' \in SUBSET waiters'
  <1>1. flow' \in FlowState
    BY FinishedType DEF TypeOK, Finish, Outcomes
  <1>2. waiters' \in SUBSET Topics /\ woken' \in SUBSET waiters'
    BY DEF TypeOK, Finish, NotifyWaiters
  <1>3. QED
    BY <1>1, <1>2

LEMMA TypingProxy ==
    ASSUME TypeOK, ProxyStep
    PROVE  TypeOK'
  <1> USE DEF handlerVars, notifyVars, proxyVars, Goto, Emit, ProxyPoints
  <1>0. events \in Seq(Event)
    BY DEF TypeOK, Event
  <1>a. "UnexpectedClose" \in Outcomes /\ "FakeDataAcked" \in Outcomes
    BY DEF Outcomes
  <1>1. CASE Connected \/ RelayEnds
    <2>1. events' \in Seq(Event)
      BY <1>0, <1>1, EventTypes DEF Connected, RelayEnds
    <2>2. QED
      BY <1>1, <2>1 DEF TypeOK, Event, Connected, RelayEnds
  <1>2. CASE ConnectFails
    <2>1. events' \in Seq(Event)
      BY <1>0, <1>2, EventTypes DEF ConnectFails
    <2>2. QED
      BY <1>2, <2>1, TypingAbandon DEF TypeOK, Event, ConnectFails
  <1>3. CASE ReportTimeout \/ ReadPrefixFails \/ WritePrefixFails
    <2>1. events' \in Seq(Event)
      BY <1>0, <1>a, <1>3, EventTypes
      DEF ReportTimeout, ReadPrefixFails, WritePrefixFails, Abandon
    <2>2. QED
      BY <1>3, <2>1, TypingAbandon
      DEF TypeOK, Event, ReportTimeout, ReadPrefixFails, WritePrefixFails, Abandon
  <1>4. CASE ReportSuccess \/ ReportClosed
    <2>1. events' \in Seq(Event)
      BY <1>0, <1>a, <1>4, EventTypes DEF ReportSuccess, ReportClosed
    <2>2. QED
      BY <1>4, <2>1 DEF TypeOK, Event, ReportSuccess, ReportClosed
  <1>5. CASE Check
    BY <1>5 DEF TypeOK, Check, FlowState
  <1>6. CASE Arm \/ Wake \/ Timeout \/ Cancelled
    BY <1>6 DEF TypeOK, Arm, Wake, Timeout, Cancelled, DropWaiters, Topics
  <1>7. CASE ReadPrefix \/ NodelayFails \/ WritePrefix \/ StartRelay \/ CleanUp
    BY <1>7 DEF TypeOK, ReadPrefix, NodelayFails, WritePrefix, StartRelay, CleanUp
  <1>8. QED
    BY <1>1, <1>2, <1>3, <1>4, <1>5, <1>6, <1>7 DEF ProxyStep, Report, Prefix, Write

-----------------------------------------------------------------------------
\* The two sides stay in agreement.
LEMMA SidesAgreeHandler ==
    ASSUME TypeOK, SidesAgree, HandlerStep, UNCHANGED proxyVars
    PROVE  SidesAgree'
  <1> USE DEF TypeOK, SidesAgree, proxyVars
  <1>n. None \notin Outcomes
    BY FlowAssumption
  <1>1. ASSUME NEW p \in Packet, OnSyn(p)
        PROVE  SidesAgree'
    BY <1>1, FlowAssumption DEF OnSyn, Conclude, FlowState, Packet
  <1>2. ASSUME NEW p \in Packet, OnSynAck(p)
        PROVE  SidesAgree'
    BY <1>2 DEF OnSynAck, Conclude, FlowState, Packet, ExpectedSynAck
  <1>3. ASSUME NEW p \in Packet, NEW a \in HandshakeActions, OnHandshakeAck(p, a)
        PROVE  SidesAgree'
    <2>2. /\ flow'.monitor = flow.monitor /\ flow'.outcome = flow.outcome
          /\ flow'.synSeq = flow.synSeq /\ flow'.synAckSeq = flow.synAckSeq
          /\ flow'.firstDataModified = flow.firstDataModified
      BY <1>3, AfterHandshakeFlow DEF OnHandshakeAck
    <2>3. hpc' = "finishing" <=> finishing' # None
      BY <1>3 DEF OnHandshakeAck, Conclude
    <2>4. QED
      BY <2>2, <2>3
  <1>4. ASSUME NEW p \in Packet, NEW a \in DataActions, OnFirstData(p, a), Observable(p)
        PROVE  SidesAgree'
    <2>1. stage = 2
      BY <1>4 DEF OnFirstData, ExpectedFirstData, Observable
    <2>2. /\ flow'.monitor = flow.monitor /\ flow'.outcome = flow.outcome
          /\ flow'.synSeq = flow.synSeq /\ flow'.synAckSeq = flow.synAckSeq
      BY <1>4, AfterFirstDataFlow DEF OnFirstData
    <2>3. hpc' = "finishing" <=> finishing' # None
      BY <1>4 DEF OnFirstData, Conclude
    <2>4. QED
      BY <2>1, <2>2, <2>3
  <1>5. ASSUME NEW p \in Packet, OnPostFakeAck(p)
        PROVE  SidesAgree'
    BY <1>5 DEF OnPostFakeAck, Conclude
  <1>6. ASSUME NEW p \in Packet, Unexpected(p)
        PROVE  SidesAgree'
    BY <1>6, <1>n, FinishedType DEF Unexpected, Finish, Conclude, Outcomes
  <1>7. CASE FinishAfterUnlock
    <2>1. finishing \in Outcomes
      BY <1>7 DEF FinishAfterUnlock
    <2>2. flow' = Finished(flow, finishing)
      BY <1>7 DEF FinishAfterUnlock, Finish
    <2>3. /\ flow.outcome # None => flow' = flow
          /\ flow.outcome = None => flow'.outcome # None /\ flow'.monitor = FALSE
          /\ flow'.synSeq = flow.synSeq /\ flow'.synAckSeq = flow.synAckSeq
          /\ flow'.firstDataModified = flow.firstDataModified
      BY <1>n, <2>1, <2>2, FinishedType
    <2>4. hpc' = "idle" /\ finishing' = None
      BY <1>7 DEF FinishAfterUnlock, Conclude
    <2>5. CASE flow.outcome = None
      BY <1>n, <2>3, <2>4, <2>5 DEF Outcomes
    <2>6. CASE flow.outcome # None
      BY <2>3, <2>4, <2>6
    <2>7. QED
      BY <2>5, <2>6
  <1>8. CASE Lookup \/ NotMonitored
    BY <1>8 DEF Lookup, NotMonitored
  <1>9. QED
    BY <1>1, <1>2, <1>3, <1>4, <1>5, <1>6, <1>7, <1>8 DEF HandlerStep, OnPacket

LEMMA SidesAgreeProxy ==
    ASSUME TypeOK, SidesAgree, ProxyStep
    PROVE  SidesAgree'
  <1> USE DEF TypeOK, SidesAgree, handlerVars, notifyVars, Goto
  <1>n. None \notin Outcomes
    BY FlowAssumption
  <1>1. ASSUME Finish("UnexpectedClose"), pc' = "failing",
               UNCHANGED <<hpc, finishing, stage, result>>
        PROVE  SidesAgree'
    BY <1>1, <1>n, FinishedType DEF Finish, Outcomes
  <1>2. CASE ConnectFails \/ ReportTimeout \/ ReadPrefixFails \/ WritePrefixFails
    BY <1>1, <1>2
    DEF ConnectFails, ReportTimeout, ReadPrefixFails, WritePrefixFails, Abandon
  <1>3. CASE ReportSuccess \/ ReportClosed
    BY <1>3, <1>n DEF ReportSuccess, ReportClosed, Outcomes
  <1>4. CASE Check
    BY <1>4 DEF Check
  <1>5. CASE Connected \/ RelayEnds \/ Arm \/ Wake \/ Timeout \/ Cancelled
    BY <1>5 DEF Connected, RelayEnds, Arm, Wake, Timeout, Cancelled
  <1>6. CASE ReadPrefix \/ NodelayFails \/ WritePrefix \/ StartRelay \/ CleanUp
    BY <1>6 DEF ReadPrefix, NodelayFails, WritePrefix, StartRelay, CleanUp
  <1>7. QED
    BY <1>2, <1>3, <1>4, <1>5, <1>6 DEF ProxyStep, Report, Prefix, Write

-----------------------------------------------------------------------------
\* The inductive invariant the theorems below start from.
Base == TypeOK /\ SidesAgree

LEMMA BaseInit == Init => Base
  BY NewFlowStateType
  DEF Init, HandlerInit, Base, TypeOK, SidesAgree, ProxyPoints, Topics, NewFlowState

LEMMA BaseStep == Base /\ [Next]_vars => Base'
  <1>1. CASE Packets
    BY <1>1, TypingHandler, SidesAgreeHandler DEF Base, Packets
  <1>2. CASE ProxyStep
    BY <1>2, TypingProxy, SidesAgreeProxy DEF Base
  <1>3. CASE UNCHANGED vars
    BY <1>3 DEF Base, TypeOK, SidesAgree, vars, handlerVars, notifyVars, proxyVars
  <1>4. QED
    BY <1>1, <1>2, <1>3 DEF Next

\* Every variable keeps its type.
THEOREM Typing == Spec => []TypeOK
  <1>1. Base => TypeOK
    BY DEF Base
  <1>2. QED
    BY <1>1, BaseInit, BaseStep, PTL DEF Spec

\* Handler and proxy task agree on the flow: monitored exactly while it is
\* undecided, reported as decided.
THEOREM Agreement == Spec => []SidesAgree
  <1>1. Base => SidesAgree
    BY DEF Base
  <1>2. QED
    BY <1>1, BaseInit, BaseStep, PTL DEF Spec

-----------------------------------------------------------------------------
\* A decided flow does not change.
LEMMA FinalStep == Base /\ [Next]_vars => [flow.outcome = None]_flow
  <1> SUFFICES ASSUME Base, [Next]_vars, flow.outcome # None
               PROVE  flow' = flow
    OBVIOUS
  <1>1. flow \in FlowState /\ ~flow.monitor
    BY DEF Base, TypeOK, SidesAgree
  <1>2. ASSUME NEW o \in Outcomes, Finish(o)
        PROVE  flow' = flow
    BY <1>1, <1>2, FinishedType DEF Finish
  <1>3. CASE Packets
    <2>1. CASE FinishAfterUnlock
      <3>1. finishing \in Outcomes
        BY <2>1 DEF Base, TypeOK, SidesAgree, FinishAfterUnlock
      <3>2. QED
        BY <1>2, <2>1, <3>1 DEF FinishAfterUnlock
    <2>2. CASE Lookup \/ NotMonitored
      BY <2>2 DEF Lookup, NotMonitored
    <2>3. CASE \E p \in Packet : OnPacket(p)
      BY <1>1, <2>3
      DEF OnPacket, OnSyn, OnSynAck, OnHandshakeAck, OnFirstData, OnPostFakeAck,
          Unexpected, Monitored
    <2>4. QED
      BY <1>3, <2>1, <2>2, <2>3 DEF Packets, HandlerStep
  <1>4. CASE ProxyStep
    <2>1. CASE ConnectFails \/ ReportTimeout \/ ReadPrefixFails \/ WritePrefixFails
      BY <1>2, <2>1
      DEF ConnectFails, ReportTimeout, ReadPrefixFails, WritePrefixFails, Abandon,
          Outcomes
    <2>2. QED
      BY <1>4, <2>1
      DEF ProxyStep, Report, Prefix, Write, handlerVars, Connected, Check, Arm, Wake,
          Timeout, ReportSuccess, ReportClosed, ReadPrefix, NodelayFails, WritePrefix,
          StartRelay, RelayEnds, CleanUp, Cancelled
  <1>5. CASE UNCHANGED vars
    BY <1>5 DEF vars, handlerVars
  <1>6. QED
    BY <1>3, <1>4, <1>5 DEF Next

\* The outcome is decided once, whoever decides it, and freezes the flow.
THEOREM Finality == Spec => OutcomeIsFinal
  <1>1. Base /\ [Next]_vars => [flow.outcome = None]_flow
    BY FinalStep
  <1>2. QED
    BY <1>1, BaseInit, BaseStep, PTL DEF Spec, OutcomeIsFinal

\* Nothing is rewritten for a flow that is decided, or about to be.
THEOREM NoLateRewrite == Spec => RewritesOnlyUndecided
  <1>1. Base /\ [Next]_vars => [flow.outcome = None /\ finishing = None]_rewrites
    <2> SUFFICES ASSUME Base, [Next]_vars, rewrites' # rewrites
                 PROVE  flow.outcome = None /\ finishing = None
      OBVIOUS
    <2>1. ~UNCHANGED vars /\ ~ProxyStep
      BY DEF ProxyStep, Report, Prefix, Write, vars, handlerVars, Connected,
          ConnectFails, Check, Arm, Wake, Timeout, ReportSuccess, ReportClosed,
          ReportTimeout, ReadPrefix, ReadPrefixFails, NodelayFails, WritePrefix,
          WritePrefixFails, StartRelay, RelayEnds, CleanUp, Cancelled
    <2>2. \E p \in Packet : OnPacket(p)
      BY <2>1 DEF Next, Packets, HandlerStep, Lookup, NotMonitored, FinishAfterUnlock
    <2>3. Monitored
      BY <2>2 DEF OnPacket, OnSyn, OnSynAck, OnHandshakeAck, OnFirstData,
          OnPostFakeAck, Unexpected
    <2>4. QED
      BY <2>3 DEF Monitored, Base, SidesAgree
  <1>2. QED
    BY <1>1, BaseInit, BaseStep, PTL DEF Spec, RewritesOnlyUndecided

-----------------------------------------------------------------------------
\* A flow that waits for data, or has sent the fake, saw both handshake
\* numbers, and each stage is rewritten at most once.
LEMMA RewrittenOnceStep == Base /\ RewrittenOnce /\ [Next]_vars => RewrittenOnce'
  <1> SUFFICES ASSUME Base, RewrittenOnce, [Next]_vars
               PROVE  RewrittenOnce'
    OBVIOUS
  <1>t. flow \in FlowState /\ rewrites \in [ack : Nat, data : Nat]
    BY DEF Base, TypeOK
  <1>n. None \notin SeqNum
    BY FlowAssumption
  <1>1. ASSUME NEW o \in Outcomes, Finish(o), UNCHANGED rewrites
        PROVE  RewrittenOnce'
    BY <1>1, <1>t, FinishedType DEF Finish, RewrittenOnce
  <1>2. CASE Packets
    <2>1. ASSUME NEW p \in Packet, OnSyn(p)
          PROVE  RewrittenOnce'
      BY <1>t, <1>n, <2>1 DEF OnSyn, RewrittenOnce, FlowState, Packet
    <2>2. ASSUME NEW p \in Packet, OnSynAck(p)
          PROVE  RewrittenOnce'
      BY <1>t, <1>n, <2>2 DEF OnSynAck, RewrittenOnce, FlowState, Packet
    <2>3. ASSUME NEW p \in Packet, NEW a, OnHandshakeAck(p, a)
          PROVE  RewrittenOnce'
      <3>1. ~flow.fakeSent /\ flow.synSeq # None /\ flow.synAckSeq # None
        BY <2>3 DEF OnHandshakeAck, ExpectedHandshakeAck
      <3>2. /\ flow'.synSeq # None /\ flow'.synAckSeq # None
            /\ flow'.firstDataModified = flow.firstDataModified
            /\ a \in Emits => flow'.fakeSent = TRUE
            /\ a \notin Emits => flow'.fakeSent = flow.fakeSent
        BY <1>t, <2>3, <3>1, AfterHandshakeFlow DEF OnHandshakeAck
      <3>3. /\ a \in Emits => rewrites'.ack = rewrites.ack + 1
            /\ a \notin Emits => rewrites'.ack = rewrites.ack
            /\ rewrites'.data = rewrites.data
        BY <1>t, <2>3 DEF OnHandshakeAck
      <3>4. rewrites.ack = 0
        BY <3>1 DEF RewrittenOnce
      <3>5. QED
        BY <3>1, <3>2, <3>3, <3>4 DEF RewrittenOnce
    <2>4. ASSUME NEW p \in Packet, NEW a, OnFirstData(p, a)
          PROVE  RewrittenOnce'
      <3>1. flow.waitingForData /\ ~flow.firstDataModified
        BY <2>4 DEF OnFirstData, ExpectedFirstData
      <3>2. CASE a \in Emits
        BY <1>t, <2>4, <3>1, <3>2, AfterFirstDataFlow
        DEF OnFirstData, RewrittenOnce, Emits
      <3>3. CASE a \notin Emits
        BY <1>t, <2>4, <3>1, <3>3, AfterFirstDataFlow DEF OnFirstData, RewrittenOnce
      <3>4. QED
        BY <3>2, <3>3
    <2>5. ASSUME NEW p \in Packet, OnPostFakeAck(p)
          PROVE  RewrittenOnce'
      BY <2>5 DEF OnPostFakeAck, RewrittenOnce
    <2>6. ASSUME NEW p \in Packet, Unexpected(p)
          PROVE  RewrittenOnce'
      BY <1>1, <2>6 DEF Unexpected, Outcomes
    <2>7. CASE FinishAfterUnlock
      <3>1. finishing \in Outcomes
        BY <2>7 DEF Base, TypeOK, SidesAgree, FinishAfterUnlock
      <3>2. QED
        BY <1>1, <2>7, <3>1 DEF FinishAfterUnlock
    <2>8. CASE Lookup \/ NotMonitored
      BY <2>8 DEF Lookup, NotMonitored, RewrittenOnce
    <2>9. QED
      BY <1>2, <2>1, <2>2, <2>3, <2>4, <2>5, <2>6, <2>7, <2>8
      DEF Packets, HandlerStep, OnPacket
  <1>3. CASE ProxyStep
    <2>1. CASE ConnectFails \/ ReportTimeout \/ ReadPrefixFails \/ WritePrefixFails
      BY <1>1, <2>1
      DEF ConnectFails, ReportTimeout, ReadPrefixFails, WritePrefixFails, Abandon,
          Outcomes
    <2>2. CASE UNCHANGED <<flow, rewrites>>
      BY <2>2 DEF RewrittenOnce
    <2>3. QED
      BY <1>3, <2>1, <2>2
      DEF ProxyStep, Report, Prefix, Write, handlerVars, Connected, Check, Arm, Wake,
          Timeout, ReportSuccess, ReportClosed, ReadPrefix, NodelayFails, WritePrefix,
          StartRelay, RelayEnds, CleanUp, Cancelled
  <1>4. CASE UNCHANGED vars
    BY <1>4 DEF vars, handlerVars, RewrittenOnce
  <1>5. QED
    BY <1>2, <1>3, <1>4 DEF Next

LEMMA RewrittenOnceInit == Init => RewrittenOnce
  BY DEF Init, HandlerInit, NewFlowState, RewrittenOnce

\* Retransmitted packets are never rewritten a second time.
THEOREM SingleRewrite == Spec => []RewrittenOnce
  BY BaseInit, BaseStep, RewrittenOnceInit, RewrittenOnceStep, PTL DEF Spec

\* No packet makes the interceptor thread panic.
THEOREM NoPanic == Spec => []HandlerNeverPanics
  <1>1. RewrittenOnce => HandlerNeverPanics
    BY DEF RewrittenOnce, HandlerNeverPanics, Panics, PostFakeAck
  <1>2. QED
    BY <1>1, SingleRewrite, PTL

-----------------------------------------------------------------------------
LEMMA AppendPair ==
    ASSUME NEW d, NEW e
    PROVE  Append(<<d>>, e) = <<d, e>>
  <1>1. <<d>> \in Seq({d, e}) /\ <<d, e>> \in Seq({d, e})
    OBVIOUS
  <1>2. /\ Append(<<d>>, e) \in Seq({d, e})
        /\ Len(Append(<<d>>, e)) = 2
        /\ Append(<<d>>, e)[1] = d /\ Append(<<d>>, e)[2] = e
    BY <1>1, AppendProperties
  <1>3. \A i \in 1 .. 2 : Append(<<d>>, e)[i] = <<d, e>>[i]
    BY <1>2
  <1>4. QED
    BY <1>1, <1>2, <1>3, SeqEqual

\* The events of a connection tell where its task is.
LEMMA StoryInit == Init => EventsTellTheStory
  BY DEF Init, EventsTellTheStory

LEMMA StoryStep == EventsTellTheStory /\ [Next]_vars => EventsTellTheStory'
  <1> SUFFICES ASSUME EventsTellTheStory, [Next]_vars
               PROVE  EventsTellTheStory'
    OBVIOUS
  <1> USE DEF EventsTellTheStory, Goto
  <1>a. /\ \A e : Append(<<>>, e) = <<e>>
        /\ \A e : Append(<<Accepted>>, e) = <<Accepted, e>>
    <2>1. ASSUME NEW e PROVE Append(<<>>, e) = <<e>>
      OBVIOUS
    <2>2. QED
      BY <2>1, AppendPair
  <1>1. CASE Packets \/ UNCHANGED vars
    BY <1>1 DEF Packets, vars, proxyVars
  <1>2. CASE Connected \/ ConnectFails
    BY <1>a, <1>2 DEF Connected, ConnectFails, Emit
  <1>3. CASE ReportSuccess \/ ReportClosed \/ RelayEnds
    BY <1>a, <1>3 DEF ReportSuccess, ReportClosed, RelayEnds, Emit
  <1>4. CASE ReportTimeout \/ ReadPrefixFails \/ WritePrefixFails
    BY <1>a, <1>4 DEF ReportTimeout, ReadPrefixFails, WritePrefixFails, Abandon, Emit
  <1>5. CASE Check \/ Arm \/ Wake \/ Timeout
    BY <1>5 DEF Check, Arm, Wake, Timeout
  <1>6. CASE ReadPrefix \/ NodelayFails \/ WritePrefix \/ StartRelay
    BY <1>6 DEF ReadPrefix, NodelayFails, WritePrefix, StartRelay
  <1>7. CASE CleanUp \/ Cancelled
    BY <1>7 DEF CleanUp, Cancelled
  <1>8. QED
    BY <1>1, <1>2, <1>3, <1>4, <1>5, <1>6, <1>7
    DEF Next, ProxyStep, Report, Prefix, Write

\* One verdict per connection at most, and a reason for every failure.
THEOREM Story == Spec => []EventsTellTheStory
  BY StoryInit, StoryStep, PTL DEF Spec

-----------------------------------------------------------------------------
\* The relay carries only what the handler decided to be a success.
LEMMA RelayStep ==
    Base /\ EventsTellTheStory /\ RelayOnlyAfterBypass /\ [Next]_vars
      => RelayOnlyAfterBypass'
  <1> SUFFICES ASSUME Base, EventsTellTheStory, RelayOnlyAfterBypass, [Next]_vars,
                      pc' \in {"relaying", "closed"}
               PROVE  /\ flow'.outcome = "FakeDataAcked"
                      /\ BypassComplete("FakeDataAcked") = events'[2]
                      /\ ~registered'
    BY DEF RelayOnlyAfterBypass
  <1>n. "FakeDataAcked" # None
    BY FlowAssumption DEF Outcomes
  <1>1. flow.outcome = "FakeDataAcked" => flow' = flow
    BY <1>n, FinalStep
  <1>2. CASE StartRelay
    <2>1. events' = <<Accepted, BypassComplete("FakeDataAcked")>>
      BY <1>2 DEF StartRelay, EventsTellTheStory
    <2>2. flow' = flow /\ flow.outcome = "FakeDataAcked" /\ ~registered'
      BY <1>2 DEF StartRelay, handlerVars, Base, SidesAgree
    <2>3. QED
      BY <2>1, <2>2
  <1>3. CASE RelayEnds
    <2>1. /\ events = <<Accepted, BypassComplete("FakeDataAcked")>>
          /\ events' = Append(events, RelayFinished)
      BY <1>3 DEF RelayEnds, Emit, EventsTellTheStory
    <2>2. events'[2] = BypassComplete("FakeDataAcked")
      BY <2>1
    <2>3. QED
      BY <1>3, <2>2 DEF RelayEnds, handlerVars, RelayOnlyAfterBypass
  <1>4. CASE Packets \/ UNCHANGED vars
    <2>1. UNCHANGED <<pc, events, registered>>
      BY <1>4 DEF Packets, proxyVars, vars, HandlerStep, Lookup, NotMonitored, OnPacket,
                  OnSyn, OnSynAck, OnHandshakeAck, OnFirstData, OnPostFakeAck,
                  Unexpected, FinishAfterUnlock
    <2>2. QED
      BY <1>1, <2>1 DEF RelayOnlyAfterBypass
  <1>5. QED
    BY <1>2, <1>3, <1>4
    DEF Next, ProxyStep, Report, Prefix, Write, Goto, Connected, ConnectFails, Check,
        Arm, Wake, Timeout, ReportSuccess, ReportClosed, ReportTimeout, Abandon,
        ReadPrefix, ReadPrefixFails, NodelayFails, WritePrefix, WritePrefixFails,
        CleanUp, Cancelled

\* A connection is relayed only after a decided and reported success, and
\* when the handler no longer tracks it.
THEOREM RelaySafety == Spec => []RelayOnlyAfterBypass
  <1>1. Init => RelayOnlyAfterBypass
    BY DEF Init, RelayOnlyAfterBypass
  <1>2. QED
    BY <1>1, BaseInit, BaseStep, StoryInit, StoryStep, RelayStep, PTL DEF Spec

-----------------------------------------------------------------------------
\* While the task waits for the client's first bytes, the handler stays in
\* position for them: no data can leave before the task reads it.
LEMMA ReadyStep ==
    Base /\ RewrittenOnce /\ ReadyForPrefix /\ [Next]_vars => ReadyForPrefix'
  <1> SUFFICES ASSUME Base, RewrittenOnce, ReadyForPrefix, [Next]_vars, pc' = "prefix"
               PROVE  ReadyForPrefix'
    BY DEF ReadyForPrefix
  <1>r. RewrittenOnce'
    BY RewrittenOnceStep
  <1> SUFFICES flow'.waitingForData /\ ~flow'.firstDataModified
    BY <1>r DEF ReadyForPrefix, RewrittenOnce
  <1>t. flow \in FlowState
    BY DEF Base, TypeOK
  <1>1. CASE Check
    <2>1. stage = 1 \/ pc' # "prefix"
      BY <1>1 DEF Check, Goto
    <2>2. QED
      BY <1>1, <2>1 DEF Check, Goto, Base, SidesAgree, handlerVars
  <1>2. CASE Packets
    <2>1. /\ stage = 1 /\ flow.waitingForData /\ ~flow.firstDataModified
      BY <1>2 DEF Packets, proxyVars, Base, SidesAgree, ReadyForPrefix
    <2>2. ASSUME NEW o \in Outcomes, Finish(o)
          PROVE  flow'.waitingForData /\ ~flow'.firstDataModified
      BY <1>t, <2>1, <2>2, FinishedType DEF Finish
    <2>3. ASSUME NEW p \in Packet, Observable(p), OnPacket(p)
          PROVE  flow'.waitingForData /\ ~flow'.firstDataModified
      <3>1. CASE OnSyn(p) \/ OnSynAck(p)
        BY <1>t, <2>1, <3>1 DEF OnSyn, OnSynAck, FlowState
      <3>2. ASSUME NEW a, OnHandshakeAck(p, a)
            PROVE  FALSE
        BY <2>1, <3>2 DEF OnHandshakeAck, ExpectedHandshakeAck
      <3>3. ASSUME NEW a, OnFirstData(p, a)
            PROVE  FALSE
        BY <2>1, <2>3, <3>3 DEF OnFirstData, ExpectedFirstData, Observable
      <3>4. CASE OnPostFakeAck(p)
        BY <2>1, <3>4 DEF OnPostFakeAck
      <3>5. CASE Unexpected(p)
        BY <2>2, <3>5 DEF Unexpected, Outcomes
      <3>6. QED
        BY <2>3, <3>1, <3>2, <3>3, <3>4, <3>5 DEF OnPacket
    <2>4. CASE FinishAfterUnlock
      <3>1. finishing \in Outcomes
        BY <2>4 DEF Base, TypeOK, SidesAgree, FinishAfterUnlock
      <3>2. QED
        BY <2>2, <2>4, <3>1 DEF FinishAfterUnlock
    <2>5. CASE Lookup \/ NotMonitored
      BY <2>1, <2>5 DEF Lookup, NotMonitored
    <2>6. QED
      BY <1>2, <2>3, <2>4, <2>5 DEF Packets, HandlerStep
  <1>3. CASE UNCHANGED vars
    BY <1>3 DEF vars, handlerVars, proxyVars, ReadyForPrefix
  <1>4. QED
    BY <1>1, <1>2, <1>3
    DEF Next, ProxyStep, Report, Prefix, Write, Goto, Connected, ConnectFails, Arm, Wake,
        Timeout, ReportSuccess, ReportClosed, ReportTimeout, Abandon, ReadPrefix,
        ReadPrefixFails, NodelayFails, WritePrefix, WritePrefixFails, StartRelay,
        RelayEnds, CleanUp, Cancelled

\* The proxy reads the client's first bytes only while the handler is ready
\* to rewrite them.
THEOREM Readiness == Spec => []ReadyForPrefix
  <1>1. Init => ReadyForPrefix
    BY DEF Init, ReadyForPrefix
  <1>2. QED
    BY <1>1, BaseInit, BaseStep, RewrittenOnceInit, RewrittenOnceStep, ReadyStep, PTL
    DEF Spec

-----------------------------------------------------------------------------
\* With a method that passes the handshake ACK through, success needs the
\* first data packet, and that one needs the proxy.
LEMMA PrefixStep == Base /\ PrefixBeforeSuccess /\ [Next]_vars => PrefixBeforeSuccess'
  <1> SUFFICES ASSUME Base, PrefixBeforeSuccess, [Next]_vars,
                      HandshakeActions = {"PassThrough"}
               PROVE  PrefixBeforeSuccess'
    BY DEF PrefixBeforeSuccess
  <1> DEFINE Inv == /\ ~flow.fakeSent
                    /\ flow.outcome = "FakeDataAcked" \/ finishing = "FakeDataAcked"
                         => flow.firstDataModified
                    /\ flow.firstDataModified => stage = 2
  <1> SUFFICES Inv'
    BY DEF PrefixBeforeSuccess
  <1>i. Inv /\ flow \in FlowState
    BY DEF PrefixBeforeSuccess, Base, TypeOK
  <1>n. "FakeDataAcked" # None
    BY FlowAssumption DEF Outcomes
  <1>s. ASSUME stage' = stage \/ stage' = 2, Finish("UnexpectedClose"),
               finishing' \in {None, finishing}
        PROVE  Inv'
    BY <1>i, <1>n, <1>s, FinishedType DEF Finish, Outcomes
  <1>1. CASE Packets
    <2>0. stage' = stage
      BY <1>1 DEF Packets, proxyVars
    <2>1. ASSUME NEW p \in Packet, Observable(p), OnPacket(p)
          PROVE  Inv'
      <3>1. CASE OnSyn(p) \/ OnSynAck(p)
        BY <1>i, <1>n, <2>0, <3>1 DEF OnSyn, OnSynAck, Conclude, FlowState
      <3>2. CASE \E a \in HandshakeActions : OnHandshakeAck(p, a)
        <4>1. OnHandshakeAck(p, "PassThrough")
          BY <3>2
        <4>2. finishing' = None
          BY <4>1 DEF OnHandshakeAck, Conclude, ConcludesWith
        <4>3. ~flow'.fakeSent /\ flow'.outcome = flow.outcome
              /\ flow'.firstDataModified = flow.firstDataModified
          <5>1. flow' = AfterHandshake(flow, "PassThrough")
            BY <4>1 DEF OnHandshakeAck
          <5>2. flow \in FlowState /\ "PassThrough" \notin Emits
            BY <1>i DEF Emits
          <5>3. ~flow.fakeSent
            BY <1>i
          <5>4. QED
            BY ONLY <5>1, <5>2, <5>3, AfterHandshakeFlow
        <4>4. QED
          BY <1>i, <1>n, <2>0, <4>2, <4>3
      <3>3. ASSUME NEW a \in DataActions, OnFirstData(p, a)
            PROVE  Inv'
        <4>1. stage = 2
          BY <2>1, <3>3 DEF OnFirstData, ExpectedFirstData, Observable
        <4>2. a = "PassThrough" => finishing' = None /\ flow' = flow
          BY <3>3, AfterFirstDataFlow, <1>i DEF OnFirstData, Conclude, ConcludesWith
        <4>3. a # "PassThrough" => flow'.firstDataModified /\ flow'.fakeSent = flow.fakeSent
          BY <3>3, AfterFirstDataFlow, <1>i DEF OnFirstData
        <4>4. QED
          BY <1>i, <1>n, <2>0, <4>1, <4>2, <4>3
      <3>4. CASE OnPostFakeAck(p)
        BY <1>i, <3>4 DEF OnPostFakeAck, ExpectedPostFakeAck, PostFakeAck
      <3>5. CASE Unexpected(p)
        BY <1>s, <2>0, <3>5 DEF Unexpected, Conclude
      <3>6. QED
        BY <2>1, <3>1, <3>2, <3>3, <3>4, <3>5 DEF OnPacket
    <2>2. CASE FinishAfterUnlock
      <3>1. finishing \in Outcomes
        BY <2>2 DEF Base, TypeOK, SidesAgree, FinishAfterUnlock
      <3>2. flow' = Finished(flow, finishing) /\ finishing' = None
        BY <2>2 DEF FinishAfterUnlock, Finish, Conclude
      <3>3. /\ flow'.fakeSent = flow.fakeSent
            /\ flow'.firstDataModified = flow.firstDataModified
            /\ flow'.outcome \in {flow.outcome, finishing}
        BY <1>i, <3>1, <3>2, FinishedType
      <3>4. QED
        BY <1>i, <1>n, <2>0, <3>2, <3>3
    <2>3. CASE Lookup \/ NotMonitored
      BY <1>i, <2>0, <2>3 DEF Lookup, NotMonitored
    <2>4. QED
      BY <1>1, <2>1, <2>2, <2>3 DEF Packets, HandlerStep
  <1>2. CASE ConnectFails \/ ReportTimeout \/ ReadPrefixFails \/ WritePrefixFails
    BY <1>s, <1>2
    DEF ConnectFails, ReportTimeout, ReadPrefixFails, WritePrefixFails, Abandon
  <1>3. CASE UNCHANGED <<flow, finishing>> /\ (stage' = stage \/ stage' = 2)
    BY <1>i, <1>3
  <1>4. QED
    BY <1>1, <1>2, <1>3
    DEF Next, ProxyStep, Report, Prefix, Write, vars, proxyVars, handlerVars, Connected,
        Check, Arm, Wake, Timeout, ReportSuccess, ReportClosed, ReadPrefix,
        NodelayFails, WritePrefix, StartRelay, RelayEnds, CleanUp, Cancelled

\* tls_record_frag: no connection succeeds before the proxy forwarded the
\* client's first bytes and the handler saw them.
THEOREM PrefixFirst == Spec => []PrefixBeforeSuccess
  <1>1. Init => PrefixBeforeSuccess
    BY FlowAssumption DEF Init, HandlerInit, NewFlowState, PrefixBeforeSuccess, Outcomes
  <1>2. QED
    BY <1>1, BaseInit, BaseStep, PrefixStep, PTL DEF Spec

-----------------------------------------------------------------------------
\* InterceptFlow implements Bypass: every step is a step of the promise, or
\* leaves its variables alone.
LEMMA PromiseInit == Init => Promise!Init
  <1> SUFFICES ASSUME Init PROVE Promise!Init
    OBVIOUS
  <1>1. Len(events) = 0
    BY DEF Init
  <1>2. QED
    BY <1>1 DEF Init, HandlerInit, NewFlowState, Promise!Init, Reported, Phase

\* What has been reported, by where the task is.
ReportedSoFar ==
    /\ pc \in {"connecting", "check", "arm", "parked", "prefix", "writing", "report"}
         => Reported = None
    /\ pc \in {"accepted", "relaying", "closed"} => Reported = "FakeDataAcked"

LEMMA ReportedStory == EventsTellTheStory => ReportedSoFar
  <1> SUFFICES ASSUME EventsTellTheStory PROVE ReportedSoFar
    OBVIOUS
  <1> DEFINE success == <<Accepted, BypassComplete("FakeDataAcked")>>
  <1>1. CASE pc \in {"connecting", "check", "arm", "parked", "prefix", "writing", "report"}
    <2>1. events = <<>> \/ events = <<Accepted>>
      BY <1>1 DEF EventsTellTheStory
    <2>2. QED
      BY <1>1, <2>1 DEF Reported, ReportedSoFar
  <1>2. CASE pc \in {"accepted", "relaying"}
    <2>1. events = success
      BY <1>2 DEF EventsTellTheStory
    <2>2. QED
      BY <1>2, <2>1 DEF Reported, ReportedSoFar, BypassComplete
  <1>3. CASE pc = "closed"
    <2>1. events = Append(success, RelayFinished)
      BY <1>3 DEF EventsTellTheStory
    <2>2. Len(events) = 3 /\ events[2] = BypassComplete("FakeDataAcked")
      BY <2>1
    <2>3. QED
      BY <1>3, <2>2 DEF Reported, ReportedSoFar, BypassComplete
  <1>4. QED
    BY <1>1, <1>2, <1>3 DEF ReportedSoFar

LEMMA PromiseStep ==
    Base /\ EventsTellTheStory /\ [Next]_vars => [Promise!Next]_(Promise!vars)
  <1> SUFFICES ASSUME Base, EventsTellTheStory, [Next]_vars
               PROVE  Promise!Next \/ UNCHANGED Promise!vars
    OBVIOUS
  <1>t. /\ flow \in FlowState /\ flow' \in FlowState
        /\ EventsTellTheStory' /\ Base'
    BY BaseStep, StoryStep DEF Base, TypeOK
  <1>n. None # "FakeDataAcked" /\ None # "UnexpectedClose"
    BY FlowAssumption DEF Outcomes
  <1>f. flow.outcome # None => flow' = flow
    BY FinalStep
  <1> DEFINE Undecided == {"connecting", "check", "arm", "parked", "prefix",
                           "writing", "report"}
  \* The reported outcome, by where the task is, before and after the step.
  <1>r. /\ pc \in Undecided => Reported = None
        /\ pc \in {"accepted", "relaying", "closed"} => Reported = "FakeDataAcked"
    BY ReportedStory DEF ReportedSoFar
  <1>rp. /\ pc' \in Undecided => Reported' = None
         /\ pc' \in {"accepted", "relaying", "closed"} => Reported' = "FakeDataAcked"
    <2>1. EventsTellTheStory'
      BY <1>t
    <2>2. ReportedSoFar'
      BY <2>1, ReportedStory, PTL
    <2>3. QED
      BY <2>2 DEF ReportedSoFar
  <1>qp. /\ events' = <<ConnectionError>> => Reported' = None
         /\ events' = <<Accepted, BypassComplete("UnexpectedClose")>>
              => Reported' = "UnexpectedClose"
    BY DEF Reported, BypassComplete
  <1>1. CASE Packets
    <2>1. UNCHANGED <<pc, events, registered>>
      BY <1>1 DEF Packets, proxyVars, HandlerStep, Lookup, NotMonitored, OnPacket,
                  OnSyn, OnSynAck, OnHandshakeAck, OnFirstData, OnPostFakeAck,
                  Unexpected, FinishAfterUnlock
    <2>2. UNCHANGED <<Reported, Phase, registered>>
      BY <2>1 DEF Reported, Phase
    <2>3. CASE flow.outcome = None /\ flow'.outcome # None
      BY <1>t, <2>2, <2>3 DEF Promise!Next, Promise!Decide, FlowState, Outcomes
    <2>4. CASE flow'.outcome = flow.outcome
      BY <2>2, <2>4 DEF Promise!vars
    <2>5. QED
      BY <1>f, <2>3, <2>4
  <1>2. CASE Connected \/ Check \/ Arm \/ Wake \/ Timeout \/ ReadPrefix \/ WritePrefix
    <2>1. UNCHANGED <<flow, registered>>
      BY <1>2 DEF handlerVars, Connected, Check, Arm, Wake, Timeout, ReadPrefix, WritePrefix
    <2>2. pc \in Undecided /\ pc' \in Undecided
      BY <1>2 DEF Goto, Connected, Check, Arm, Wake, Timeout, ReadPrefix, WritePrefix
    <2>3. UNCHANGED <<Reported, Phase>>
      BY <1>r, <1>rp, <2>2 DEF Phase
    <2>4. QED
      BY <2>1, <2>3 DEF Promise!vars
  <1>3. CASE ReportSuccess
    <2>1. /\ pc = "report" /\ pc' = "accepted" /\ result = "FakeDataAcked"
          /\ UNCHANGED <<flow, registered>>
      BY <1>3 DEF ReportSuccess, handlerVars, Goto
    <2>2. flow.outcome = "FakeDataAcked"
      BY <1>n, <2>1 DEF Base, SidesAgree
    <2>3. Reported = None /\ Reported' = "FakeDataAcked"
      BY <1>r, <1>rp, <2>1
    <2>4. Phase = "opening" /\ Phase' = "opening"
      BY <2>1 DEF Phase
    <2>5. QED
      BY <2>1, <2>2, <2>3, <2>4 DEF Promise!Next, Promise!ReportSuccess
  \* The failures that are reported.
  <1>g. ASSUME pc \in Undecided, pc' = "failing", UNCHANGED registered,
               events' = <<Accepted, BypassComplete("UnexpectedClose")>>,
               \/ flow.outcome # None /\ flow' = flow
               \/ flow'.outcome = (IF flow.outcome = None THEN "UnexpectedClose"
                                   ELSE flow.outcome)
        PROVE  Promise!GiveUp
    <2>1. Phase = "opening" /\ Phase' = "failed"
      BY <1>g DEF Phase
    <2>2. Reported = None /\ Reported' = "UnexpectedClose"
      BY <1>r, <1>qp, <1>g
    <2>3. QED
      BY <1>g, <2>1, <2>2 DEF Promise!GiveUp
  <1>c. Finish("UnexpectedClose")
          => flow'.outcome = (IF flow.outcome = None THEN "UnexpectedClose"
                              ELSE flow.outcome)
    BY <1>t, FinishedType DEF Finish, Outcomes
  <1>4. CASE ReportClosed \/ ReportTimeout \/ ReadPrefixFails \/ WritePrefixFails
    <2>1. pc \in Undecided /\ pc' = "failing" /\ UNCHANGED registered
      BY <1>4 DEF ReportClosed, ReportTimeout, ReadPrefixFails, WritePrefixFails,
                  Abandon, Goto
    <2>2. events = <<Accepted>> /\ events' = Append(events, BypassComplete("UnexpectedClose"))
      BY <1>4 DEF EventsTellTheStory, ReportClosed, ReportTimeout, ReadPrefixFails,
                  WritePrefixFails, Abandon, Emit
    <2>3. events' = <<Accepted, BypassComplete("UnexpectedClose")>>
      BY <2>2, AppendPair
    <2>4. CASE ReportClosed
      <3>1. flow.outcome # None /\ flow' = flow
        BY <1>n, <2>4 DEF ReportClosed, handlerVars, Base, SidesAgree
      <3>2. QED
        BY <1>g, <2>1, <2>3, <3>1 DEF Promise!Next
    <2>5. CASE ReportTimeout \/ ReadPrefixFails \/ WritePrefixFails
      <3>1. Finish("UnexpectedClose")
        BY <2>5 DEF ReportTimeout, ReadPrefixFails, WritePrefixFails, Abandon
      <3>2. QED
        BY <1>c, <1>g, <2>1, <2>3, <3>1 DEF Promise!Next
    <2>6. QED
      BY <1>4, <2>4, <2>5
  \* The failures that are not.
  <1>5. CASE ConnectFails
    <2>1. /\ pc = "connecting" /\ pc' = "failing" /\ UNCHANGED registered
          /\ Finish("UnexpectedClose")
      BY <1>5 DEF ConnectFails, Goto
    <2>2. events = <<>> /\ events' = Append(events, ConnectionError)
      BY <1>5 DEF ConnectFails, Emit, EventsTellTheStory
    <2>3. events' = <<ConnectionError>>
      BY <2>2
    <2>4. Reported = None /\ Reported' = None
      BY <1>r, <1>qp, <2>1, <2>3
    <2>5. Phase = "opening" /\ Phase' = "failed"
      BY <2>1 DEF Phase
    <2>6. QED
      BY <1>c, <2>1, <2>4, <2>5 DEF Promise!Next, Promise!Break
  <1>6. CASE NodelayFails \/ Cancelled
    <2>1. /\ pc \in {"connecting", "parked", "prefix", "writing", "relaying"}
          /\ pc' = "dropping" /\ UNCHANGED <<flow, registered, events>>
      BY <1>6 DEF NodelayFails, Cancelled, Goto, handlerVars
    <2>2. UNCHANGED Reported
      BY <2>1 DEF Reported
    <2>3. /\ Phase' = "failed"
          /\ \/ Phase = "opening" /\ Reported = None
             \/ Phase = "relaying"
      BY <1>r, <2>1 DEF Phase
    <2>4. QED
      BY <2>1, <2>2, <2>3 DEF Promise!Next, Promise!Break
  <1>7. CASE StartRelay
    <2>1. /\ pc = "accepted" /\ pc' = "relaying" /\ UNCHANGED <<flow, events>>
          /\ registered' = FALSE
      BY <1>7 DEF StartRelay, Goto, handlerVars
    <2>2. Reported = "FakeDataAcked" /\ Reported' = Reported
      BY <1>r, <2>1 DEF Reported
    <2>3. Phase = "opening" /\ Phase' = "relaying"
      BY <2>1 DEF Phase
    <2>4. QED
      BY <2>1, <2>2, <2>3 DEF Promise!Next, Promise!StartRelay
  <1>8. CASE RelayEnds
    <2>1. pc = "relaying" /\ pc' = "closed" /\ UNCHANGED <<flow, registered>>
      BY <1>8 DEF RelayEnds, Goto, handlerVars
    <2>2. Reported = "FakeDataAcked" /\ Reported' = "FakeDataAcked"
      BY <1>r, <1>rp, <2>1
    <2>3. Phase = "relaying" /\ Phase' = "closed"
      BY <2>1 DEF Phase
    <2>4. QED
      BY <2>1, <2>2, <2>3 DEF Promise!Next, Promise!EndRelay
  <1>9. CASE CleanUp
    <2>1. /\ pc \in {"failing", "dropping"} /\ pc' \in {"failed", "dropped"}
          /\ UNCHANGED <<flow, events>> /\ registered' = FALSE
      BY <1>9 DEF CleanUp, Goto, handlerVars
    <2>2. Reported' = Reported /\ Phase = "failed" /\ Phase' = "failed"
      BY <2>1 DEF Phase, Reported
    <2>3. QED
      BY <2>1, <2>2 DEF Promise!Next, Promise!Untrack
  <1>10. CASE UNCHANGED vars
    BY <1>10 DEF vars, handlerVars, proxyVars, Promise!vars, Reported, Phase
  <1>11. QED
    BY <1>1, <1>2, <1>3, <1>4, <1>5, <1>6, <1>7, <1>8, <1>9, <1>10
    DEF Next, ProxyStep, Report, Prefix, Write

\* Every connection keeps the promise of Bypass: one decision, a report of
\* success only after it, a relay only after the report.
THEOREM Implementation == Spec => KeepsPromise
  BY BaseInit, BaseStep, StoryInit, StoryStep, PromiseInit, PromiseStep, PTL
  DEF Spec, KeepsPromise, Promise!Spec
=============================================================================
