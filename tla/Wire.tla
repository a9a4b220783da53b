-------------------------------- MODULE Wire --------------------------------
(***************************************************************************)
(* The client's bytes on their way to the server, once the upstream socket *)
(* is connected and, with tls_record_frag, the handler waits for the first *)
(* data packet.  The proxy reads and writes them (tcp_segmentation.rs,     *)
(* proxy.rs), the kernel puts them into packets, the interceptor may       *)
(* rewrite one (tls_record_frag.rs, linux.rs, windows.rs), and the         *)
(* server's TCP puts them together again by their sequence numbers.        *)
(* A TLS record is a unit for its type and version, a unit for the length  *)
(* of its body, and one unit per byte of the body.                         *)
(***************************************************************************)
EXTENDS Integers, Sequences, SequencesExt

CONSTANTS
    None,
    Stream,         \* what the client sends: whole TLS records
    Settings,       \* the configurations a run covers
    MaxRecordBody,  \* MAX_TLS_RECORD_BODY
    MaxSegment,     \* the largest payload the kernel puts into a packet
    MaxPacket       \* the largest payload an IPv4 packet holds

\* What Int32Range::parse and TlsFragPackets::parse let through.
IsRange(r) == r.min \in Int /\ r.max \in Int /\ r.min <= r.max

IsPackets(p) == p = None \/ (p.start \in Nat \ {0} /\ p.end \in Nat /\ p.start <= p.end)

LengthRange(c) ==
    IF c.TLS_FRAG_LENGTH # None THEN c.TLS_FRAG_LENGTH
    ELSE [min |-> c.TCP_SEG_SIZE, max |-> c.TCP_SEG_SIZE]

\* validate(), where it is about the bytes; packets is None for "tlshello".
Valid(c) ==
    /\ c.BYPASS_METHOD \in {"tls_record_frag", "tls_frag"}
    /\ c.TLS_RECORD_FRAG_SIZE \in Nat \ {0}
    /\ c.TCP_SEG_SIZE \in Nat \ {0}
    /\ IsPackets(c.packets)
    /\ IsRange(LengthRange(c)) /\ LengthRange(c).min >= 1

ASSUME WireAssumption ==
    /\ Stream \in Seq(Nat) /\ Len(Stream) >= 2
    /\ None \notin {"FakeDataAcked", "UnexpectedClose"} \cup Seq(Nat)
    /\ \A c \in Settings : Valid(c)
    /\ {MaxRecordBody, MaxSegment, MaxPacket} \subseteq Nat \ {0}

VARIABLES
    conf,       \* the configuration
    pc,         \* where the connection's task is
    taken,      \* how much of Stream it has read
    reads,      \* in how many pieces
    rest,       \* what is left to write of the last piece
    split,      \* that piece is written in fragments
    index,      \* write_index
    reported,   \* the outcome of the BypassComplete event, or None
    sent,       \* what was written to the upstream socket
    nxt,        \* how much of it the kernel has sent
    packet,     \* the outbound packet at the interceptor, or None
    waiting,    \* the handler waits for the first data packet
    outcome,    \* how it decided the flow, or None
    rewritten,  \* the payload it replaced and the one it put there, or None
    got         \* what the server's TCP has put together

proxy  == <<taken, reads, rest, split, index>>
kernel == <<sent, nxt>>
flow   == <<waiting, outcome>>

vars == <<conf, pc, proxy, reported, kernel, packet, flow, rewritten, got>>

Intercepted == conf.BYPASS_METHOD = "tls_record_frag"

\* Reading starts at once, except that tls_frag leaves a range of writes to
\* the relay.
Init ==
    /\ conf \in Settings
    /\ pc = IF Intercepted \/ conf.packets = None THEN "first" ELSE "report"
    /\ taken = 0 /\ reads = 0 /\ rest = <<>> /\ split = FALSE /\ index = 0
    /\ reported = None
    /\ sent = <<>> /\ nxt = 0 /\ packet = None
    /\ waiting = Intercepted /\ outcome = None
    /\ rewritten = None /\ got = <<>>

-----------------------------------------------------------------------------
\* The proxy reads.

\* TlsFragPackets::includes_write.
Includes(packets, i) == packets # None /\ packets.start <= i /\ i <= packets.end

HelloLen == 2 + Stream[2]

\* A piece of n units goes from the client's socket into the buffer.
Take(n, fragment) ==
    /\ taken + n <= Len(Stream)
    /\ taken' = taken + n
    /\ reads' = reads + 1
    /\ rest' = SubSeq(Stream, taken + 1, taken + n)
    /\ split' = fragment
    /\ pc' = "writing"
    /\ UNCHANGED <<conf, reported, kernel, packet, flow, rewritten, got>>

\* Mutant of ReadRecord: what one read returned beyond the record is lost.
ReadRecordAhead ==
    /\ pc = "first" /\ conf.packets = None
    /\ Stream[2] <= MaxRecordBody
    /\ rest' = SubSeq(Stream, 1, HelloLen) /\ split' = TRUE
    /\ \E ahead \in 0 .. Len(Stream) - HelloLen : taken' = HelloLen + ahead
    /\ reads' = 1
    /\ pc' = "writing"
    /\ UNCHANGED <<conf, index, reported, kernel, packet, flow, rewritten, got>>

\* read_one_tls_record, always written in fragments.
ReadRecord ==
    /\ pc = "first" /\ conf.packets = None
    /\ Stream[2] <= MaxRecordBody
    /\ Take(HelloLen, TRUE)
    /\ UNCHANGED index

\* Mutant of ReadFirstWrite: the relay counts from the start again.
ReadFirstWriteUncounted ==
    /\ pc = "first" /\ conf.packets # None
    /\ \E n \in 1 .. Len(Stream) : Take(n, Includes(conf.packets, 1))
    /\ UNCHANGED index

\* read_one_client_write, written as write 1; the relay counts on from it.
ReadFirstWrite ==
    /\ pc = "first" /\ conf.packets # None
    /\ \E n \in 1 .. Len(Stream) : Take(n, Includes(conf.packets, 1))
    /\ index' = 1

\* The client closes within the record, or too long a one, or a timeout.
\* tls_record_frag gives the flow up; tls_frag returns without an event.
ReadFirstFails ==
    /\ pc = "first"
    /\ pc' = "failed"
    /\ outcome' = IF Intercepted /\ outcome = None THEN "UnexpectedClose" ELSE outcome
    /\ reported' = IF Intercepted THEN "UnexpectedClose" ELSE None
    /\ waiting' = FALSE
    /\ UNCHANGED <<conf, proxy, kernel, packet, rewritten, got>>

\* copy_counting_client_to_server: a range of writes goes on in the relay.
RelayReads ==
    /\ pc = "relay"
    /\ index' = index + 1
    /\ \E n \in 1 .. Len(Stream) : Take(n, Includes(conf.packets, index'))

-----------------------------------------------------------------------------
\* The proxy writes.

\* sample_i32, cut to what is left.
ChunkLengths ==
    {IF n < Len(rest) THEN n ELSE Len(rest) : n \in LengthRange(conf).min .. LengthRange(conf).max}

Wrote(n) ==
    /\ sent' = sent \o SubSeq(rest, 1, n)
    /\ rest' = SubSeq(rest, n + 1, Len(rest))

\* write_fragmented or write_all.
Write ==
    /\ pc = "writing"
    /\ \E n \in (IF split THEN ChunkLengths ELSE {Len(rest)}) : Wrote(n)
    /\ pc' = IF rest' # <<>> THEN "writing"
             ELSE IF reported # None THEN "relay"
             ELSE IF Intercepted THEN "await" ELSE "report"
    /\ UNCHANGED <<conf, taken, reads, split, index, reported, nxt, packet, flow, rewritten, got>>

\* In the relay a failed write ends the copy; before it, the connection.
WriteFails ==
    /\ pc = "writing"
    /\ pc' = IF reported # None THEN "ended" ELSE "failed"
    /\ IF reported = None /\ Intercepted
       THEN /\ outcome' = IF outcome = None THEN "UnexpectedClose" ELSE outcome
            /\ reported' = "UnexpectedClose" /\ waiting' = FALSE
       ELSE UNCHANGED <<flow, reported>>
    /\ UNCHANGED <<conf, proxy, kernel, packet, rewritten, got>>

\* tls_frag: BypassComplete follows the fragments, or precedes them all.
Report ==
    /\ pc = "report"
    /\ reported' = "FakeDataAcked"
    /\ pc' = "relay"
    /\ UNCHANGED <<conf, proxy, kernel, packet, flow, rewritten, got>>

\* Mutant of AwaitBypass: the outcome is awaited while the hello is written.
AwaitBypassAtOnce ==
    /\ pc \in {"writing", "await"} /\ reported = None
    /\ outcome # None
    /\ reported' = outcome
    /\ pc' = IF outcome = "FakeDataAcked" THEN "relay" ELSE "failed"
    /\ UNCHANGED <<conf, proxy, kernel, packet, flow, rewritten, got>>

AwaitBypass ==
    /\ pc = "await"
    /\ outcome # None
    /\ reported' = outcome
    /\ pc' = IF outcome = "FakeDataAcked" THEN "relay" ELSE "failed"
    /\ UNCHANGED <<conf, proxy, kernel, packet, flow, rewritten, got>>

AwaitTimesOut ==
    /\ pc = "await" /\ outcome = None
    /\ outcome' = "UnexpectedClose" /\ reported' = "UnexpectedClose"
    /\ waiting' = FALSE
    /\ pc' = "failed"
    /\ UNCHANGED <<conf, proxy, kernel, packet, rewritten, got>>

-----------------------------------------------------------------------------
\* The kernel, which may also join what two writes gave it.

Segment ==
    /\ packet = None
    /\ \E n \in 1 .. MaxSegment :
          /\ nxt + n <= Len(sent)
          /\ packet' = [seq |-> nxt, payload |-> SubSeq(sent, nxt + 1, nxt + n)]
          /\ nxt' = nxt + n
    /\ UNCHANGED <<conf, pc, proxy, reported, sent, flow, rewritten, got>>

\* What the server has not acknowledged is sent again.
Retransmit ==
    /\ packet = None /\ Len(got) < nxt
    /\ nxt' = Len(got)
    /\ UNCHANGED <<conf, pc, proxy, reported, sent, packet, flow, rewritten, got>>

-----------------------------------------------------------------------------
\* The interceptor.

\* Mutant of SplitRecord: every piece is said to be a full one.
SplitRecordFull(type, body, size) ==
    LET Piece(k) == SubSeq(body, (k - 1) * size + 1,
                           IF k * size < Len(body) THEN k * size ELSE Len(body))
    IN  IF body = <<>> THEN <<type, 0>>
        ELSE FlattenSeq([k \in 1 .. (Len(body) + size - 1) \div size |->
                            <<type, size>> \o Piece(k)])

\* One record of fragment_payload: its body in pieces of at most size units,
\* each under a header of its own.
SplitRecord(type, body, size) ==
    LET Piece(k) == SubSeq(body, (k - 1) * size + 1,
                           IF k * size < Len(body) THEN k * size ELSE Len(body))
    IN  IF body = <<>> THEN <<type, 0>>
        ELSE FlattenSeq([k \in 1 .. (Len(body) + size - 1) \div size |->
                            <<type, Len(Piece(k))>> \o Piece(k)])

\* fragment_payload: None unless data is whole records.
FragmentPayload(data, size) ==
    LET from[o \in 1 .. Len(data) + 1] ==
            IF o = Len(data) + 1 THEN <<>>
            ELSE IF o = Len(data) \/ o + 1 + data[o + 1] > Len(data) THEN None
            ELSE LET end   == o + 1 + data[o + 1]
                     later == from[end + 1]
                 IN  IF later = None THEN None
                     ELSE SplitRecord(data[o], SubSeq(data, o + 2, end), size) \o later
    IN  from[1]

\* on_first_data_packet: the payload to put into p, or None to accept p.
OnFirstData(p) == FragmentPayload(p.payload, conf.TLS_RECORD_FRAG_SIZE)

\* build_modified: other payload, same sequence number; it fails if the
\* packet would be too long, and then the original is accepted.
BuildModified(p, payload) ==
    IF Len(payload) > MaxPacket THEN p ELSE [p EXCEPT !.payload = payload]

\* The server takes what is next and new to it; what is ahead of it is left to
\* a retransmission.
Deliver(p) ==
    got' = IF p.seq > Len(got) \/ p.seq + Len(p.payload) <= Len(got) THEN got
           ELSE got \o SubSeq(p.payload, Len(got) - p.seq + 1, Len(p.payload))

\* The verdict reaches the kernel, or the packet is gone.
Release(p) ==
    /\ packet' = None
    /\ Deliver(p) \/ UNCHANGED got

\* NFQUEUE and WinDivert both let pass what the handler does not want.
Forward ==
    /\ packet # None /\ ~waiting
    /\ Release(packet)
    /\ UNCHANGED <<conf, pc, proxy, reported, kernel, flow, rewritten>>

\* The handler has the method look at the first data packet.  However that
\* goes, the packet passes and the flow is decided.
Rewrite ==
    /\ packet # None /\ waiting
    /\ LET payload == OnFirstData(packet)
           out     == IF payload = None THEN packet ELSE BuildModified(packet, payload)
       IN  /\ Release(out)
           /\ rewritten' = IF out = packet THEN None
                           ELSE [from |-> packet.payload, to |-> out.payload]
    /\ waiting' = FALSE /\ outcome' = "FakeDataAcked"
    /\ UNCHANGED <<conf, pc, proxy, reported, kernel>>

-----------------------------------------------------------------------------
Proxy ==
    \/ ReadRecord \/ ReadFirstWrite \/ ReadFirstFails \/ RelayReads
    \/ Write \/ WriteFails
    \/ Report \/ AwaitBypass \/ AwaitTimesOut

Network == Segment \/ Retransmit \/ Forward \/ Rewrite

Next == Proxy \/ Network

Spec == Init /\ [][Next]_vars

-----------------------------------------------------------------------------
TypeOK ==
    /\ conf \in Settings
    /\ pc \in {"first", "writing", "await", "report", "relay", "failed", "ended"}
    /\ {taken, reads, index, nxt} \subseteq Nat
    /\ {rest, sent, got} \subseteq Seq(Nat)
    /\ {split, waiting} \subseteq BOOLEAN
    /\ {reported, outcome} \subseteq {None, "FakeDataAcked", "UnexpectedClose"}
    /\ packet # None => packet.seq \in Nat /\ packet.payload \in Seq(Nat)

\* However the client's bytes are cut, delayed and handed from the code that
\* reads the first ones to the relay, the socket gets them in order, each
\* once; and if no interceptor changes packets, so does the server.
BytesStayInOrder ==
    /\ sent \o rest = SubSeq(Stream, 1, taken)
    /\ ~Intercepted => IsPrefix(got, Stream)

\* The pieces of the client's stream that the configuration names are
\* written in fragments of the configured length, only the last of a piece
\* shorter; the others go out whole.  The pieces are counted over the whole
\* connection, the one read before the relay included.
Chosen(i) == IF conf.packets = None THEN i = 1 ELSE Includes(conf.packets, i)

FragmentsTheChosen ==
    [][LET n == Len(sent') - Len(sent)
       IN  IF Chosen(reads)
           THEN /\ n <= LengthRange(conf).max
                /\ n >= LengthRange(conf).min \/ rest' = <<>>
           ELSE rest' = <<>>]_sent

\* A success is not reported before the whole hello is written and, with
\* tls_record_frag, the handler has had its first packet.
SuccessAfterHello ==
    reported = "FakeDataAcked" =>
        /\ Intercepted \/ conf.packets = None => rest = <<>> \/ reads > 1
        /\ conf.packets = None => Len(sent) >= HelloLen
        /\ Intercepted => ~waiting /\ outcome = reported

\* The bodies of the records in data, joined; the last may be cut short.
Bodies(data) ==
    LET from[o \in 1 .. Len(data) + 1] ==
            IF o >= Len(data) THEN <<>>
            ELSE IF o + 1 + data[o + 1] >= Len(data) THEN SubSeq(data, o + 2, Len(data))
            ELSE SubSeq(data, o + 2, o + 1 + data[o + 1]) \o from[o + 2 + data[o + 1]]
    IN  from[1]

\* The lengths of the records in data.
Lengths(data) ==
    LET from[o \in 1 .. Len(data) + 1] ==
            IF o >= Len(data) THEN {}
            ELSE {data[o + 1]} \cup
                 (IF o + 1 + data[o + 1] >= Len(data) THEN {} ELSE from[o + 2 + data[o + 1]])
    IN  from[1]

\* A rewritten payload says what the original said, in whole records no
\* longer than configured: to split it again changes nothing.
SplitKeepsTheBytes ==
    rewritten # None =>
        /\ Bodies(rewritten.to) = Bodies(rewritten.from)
        /\ \A n \in Lengths(rewritten.to) : n <= conf.TLS_RECORD_FRAG_SIZE
        /\ FragmentPayload(rewritten.to, conf.TLS_RECORD_FRAG_SIZE) = rewritten.to

\* "splits the real TLS ClientHello into multiple small TLS record-layer
\* fragments" (tls_record_frag.rs:1): when tls_record_frag reports success,
\* what the server has of the hello is in records of the configured size.
HelloIsSplit ==
    Intercepted /\ reported = "FakeDataAcked" =>
        \A n \in Lengths(got) : n <= conf.TLS_RECORD_FRAG_SIZE

\* "The upstream server receives all fragments in order and reassembles them
\* identically" (tls_record_frag.rs:17): the server reads a prefix of what
\* the client said.
ServerReadsTheClient == IsPrefix(Bodies(got), Bodies(Stream))
=============================================================================
