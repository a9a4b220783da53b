------------------------------- MODULE MCWire -------------------------------
\* The TLC instances of Wire: a hello of two body bytes and a record of three.
EXTENDS Wire

MCStream == <<22, 2, 101, 102>> \o <<22, 3, 103, 104, 105>>

Between(lo, hi) == [min |-> lo, max |-> hi]

PacketChoices == {None, [start |-> 1, end |-> 1], [start |-> 2, end |-> 3]}

LengthChoices == {None, Between(1, 2), Between(2, 2), Between(4, 5)}

Setting(method, packets, length, size) ==
    [BYPASS_METHOD |-> method, packets |-> packets, TLS_FRAG_LENGTH |-> length,
     TCP_SEG_SIZE |-> 1, TLS_RECORD_FRAG_SIZE |-> size]

AllSettings ==
    {Setting("tls_frag", p, l, 1) : p \in PacketChoices, l \in LengthChoices} \cup
    {Setting("tls_record_frag", p, l, s) :
        p \in PacketChoices, l \in LengthChoices, s \in {1, 2}}

\* tls_record_frag with the other keys as they are by default: writes 1 to 3
\* go out in fragments shorter than a hello.  And with fragments that hold it.
DefaultSetting == {Setting("tls_record_frag", [start |-> 1, end |-> 3], Between(1, 2), 1)}

WholeHelloSetting == {Setting("tls_record_frag", None, Between(4, 4), 1)}
=============================================================================
