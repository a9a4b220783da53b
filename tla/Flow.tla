-------------------------------- MODULE Flow --------------------------------
(***************************************************************************)
(* The data shared by the proxy task and the packet handler: the state of  *)
(* one tracked TCP flow (flow.rs), the packets a backend shows the handler *)
(* (interceptor.rs) and the answers of a bypass method (methods/mod.rs).   *)
(* Sequence numbers are u32 in the code and wrap; here they wrap at        *)
(* SeqMod.  Bytes, addresses and the spoofed payload are abstracted away.  *)
(***************************************************************************)
EXTENDS Integers

CONSTANTS
    None,               \* Rust's Option::None
    SeqMod,             \* sequence numbers are taken modulo SeqMod (2^32)
    HandshakeActions,   \* what the method may answer to the handshake ACK
    DataActions         \* what the method may answer to the first data

SeqNum == 0 .. SeqMod - 1

\* seq.wrapping_add(1)
Succ(s) == (s + 1) % SeqMod

Outcomes == {"FakeDataAcked", "UnexpectedClose"}

\* The answers a method can build: PassThrough and the five constructors.
MethodActions == {"EmitAndWaitForAck", "EmitAndComplete", "EmitAndWaitForData",
                  "CompleteAndAccept", "PassThrough", "AbortAndAccept"}

\* TlsRecordFrag's answers, the one method that is built for the interceptor.
TlsRecordFragHandshake == {"PassThrough"}

TlsRecordFragData == {"EmitAndComplete", "CompleteAndAccept"}

\* Answers that come with staged mutations of the packet.
Emits == {"EmitAndWaitForAck", "EmitAndComplete", "EmitAndWaitForData"}

ASSUME FlowAssumption ==
    /\ SeqMod \in Nat \ {0}
    /\ None \notin SeqNum
    /\ None \notin Outcomes
    /\ HandshakeActions \subseteq MethodActions
    /\ DataActions \subseteq MethodActions

-----------------------------------------------------------------------------
\* The flow state behind the entry's mutex.

FlowState ==
    [ monitor         : BOOLEAN,
      synSeq          : SeqNum \cup {None},
      synAckSeq       : SeqNum \cup {None},
      fakeSent        : BOOLEAN,
      waitingForData  : BOOLEAN,
      firstDataModified : BOOLEAN,
      outcome         : Outcomes \cup {None} ]

NewFlowState ==
    [ monitor |-> TRUE, synSeq |-> None, synAckSeq |-> None,
      fakeSent |-> FALSE, waitingForData |-> FALSE,
      firstDataModified |-> FALSE, outcome |-> None ]

\* Mutant of Finished: the flow stays monitored.
FinishedMonitored(f, o) == IF f.outcome = None THEN [f EXCEPT !.outcome = o] ELSE f

\* FlowEntry::finish and Handler::unexpected both set the outcome once.
Finished(f, o) ==
    IF f.outcome = None THEN [f EXCEPT !.outcome = o, !.monitor = FALSE] ELSE f

\* ... and notify the waiters exactly when they set it.
FinishNotifies(f) == f.outcome = None

-----------------------------------------------------------------------------
\* Packets: direction, control bits, sequence and acknowledgement numbers,
\* and whether there is a payload.  PSH plays no part in any decision.

Packet ==
    [ dir   : {"Outbound", "Inbound"},
      flags : SUBSET {"syn", "ack", "rst", "fin"},
      seq   : SeqNum,
      ack   : SeqNum,
      data  : BOOLEAN ]

IsBareAck(p) == p.flags = {"ack"} /\ ~p.data

IsSynAck(p) == p.flags = {"syn", "ack"} /\ ~p.data

IsBareSyn(p) == p.flags = {"syn"} /\ ~p.data
=============================================================================
