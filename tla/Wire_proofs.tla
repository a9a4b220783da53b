----------------------------- MODULE Wire_proofs -----------------------------
(***************************************************************************)
(* Proofs about Wire, for any stream, any valid configurations and any     *)
(* limits of the kernel: the socket gets the client's bytes in order, the  *)
(* chosen pieces are fragmented, and a success is reported after the hello *)
(* was written; and a rewritten payload says what the original said, in    *)
(* records of the configured size.  fragment_payload is a function defined *)
(* at each position of the data by its value at a later one, so the last   *)
(* of these goes from the end of the data to its beginning.                *)
(***************************************************************************)
EXTENDS Wire, SequenceTheorems, WellFoundedInduction, TLAPS

\* The proxy's side: what was written and what is left is what was read.
ProxyInv ==
    /\ conf \in Settings
    /\ taken \in 0 .. Len(Stream) /\ reads \in Nat /\ index \in Nat
    /\ sent \in Seq(Nat) /\ rest \in Seq(Nat)
    /\ Len(sent) + Len(rest) = taken
    /\ \A i \in 1 .. Len(sent) : sent[i] = Stream[i]
    /\ \A i \in 1 .. Len(rest) : rest[i] = Stream[Len(sent) + i]
    /\ pc \in {"first", "await", "report", "relay"} => rest = <<>>
    /\ pc = "writing" => rest # <<>>

\* The server's side, when no packet is changed.
ServerInv ==
    ~Intercepted =>
        /\ waiting = FALSE
        /\ got \in Seq(Nat) /\ Len(got) <= Len(sent)
        /\ nxt \in 0 .. Len(sent)
        /\ \A i \in 1 .. Len(got) : got[i] = sent[i]
        /\ packet # None =>
             /\ packet.seq \in Nat /\ packet.payload \in Seq(Nat)
             /\ packet.seq + Len(packet.payload) <= Len(sent)
             /\ \A i \in 1 .. Len(packet.payload) : packet.payload[i] = sent[packet.seq + i]

\* From the first piece to the relay, and what was reported on the way.
HandoverInv ==
    /\ conf.packets # None => index = reads
    /\ pc = "first" => reads = 0
    /\ pc = "writing" => (split <=> Chosen(reads))
    /\ pc \in {"first", "await", "report"} => reported = None
    /\ pc = "report" => ~Intercepted
    /\ pc = "relay" => reported = "FakeDataAcked"
    /\ pc = "writing" => reported \in {None, "FakeDataAcked"}
    /\ conf.packets = None => reads = 0 \/ taken >= HelloLen
    /\ (Intercepted \/ conf.packets = None) /\ pc \notin {"first", "failed"} => reads > 0
    /\ conf.packets = None /\ reported = "FakeDataAcked" => Len(sent) >= HelloLen
    /\ (Intercepted \/ conf.packets = None) /\ reported = "FakeDataAcked"
         => rest = <<>> \/ reads > 1
    /\ reported = "FakeDataAcked" => reads > 0 \/ ~(Intercepted \/ conf.packets = None)
    /\ outcome # None => ~waiting
    /\ Intercepted /\ reported = "FakeDataAcked" => outcome = reported

Inv == ProxyInv /\ ServerInv /\ HandoverInv

-----------------------------------------------------------------------------
LEMMA Limits ==
    ASSUME conf \in Settings
    PROVE  /\ LengthRange(conf).min \in Int /\ LengthRange(conf).max \in Int
           /\ 1 <= LengthRange(conf).min /\ LengthRange(conf).min <= LengthRange(conf).max
  BY WireAssumption DEF Valid, IsRange

\* How much a write takes.
LEMMA ChunkSizes ==
    ASSUME conf \in Settings, rest \in Seq(Nat), rest # <<>>, NEW n \in ChunkLengths
    PROVE  /\ n \in 1 .. Len(rest)
           /\ n <= LengthRange(conf).max
           /\ n >= LengthRange(conf).min \/ n = Len(rest)
  <1>1. Len(rest) \in Nat \ {0}
    OBVIOUS
  <1>2. QED
    BY <1>1, Limits DEF ChunkLengths

\* What a piece of a sequence holds.
LEMMA Piece ==
    ASSUME NEW S, NEW s \in Seq(S), NEW m \in Nat, NEW n \in Nat, m <= n, n <= Len(s)
    PROVE  /\ SubSeq(s, m + 1, n) \in Seq(S) /\ Len(SubSeq(s, m + 1, n)) = n - m
           /\ \A i \in 1 .. n - m : SubSeq(s, m + 1, n)[i] = s[m + i]
  <1>1. \A i \in m + 1 .. n : s[i] \in S
    OBVIOUS
  <1>2. m + 1 \in Int /\ n \in Int
    OBVIOUS
  <1>3. /\ SubSeq(s, m + 1, n) \in Seq(S)
        /\ Len(SubSeq(s, m + 1, n)) = IF m + 1 <= n THEN n - (m + 1) + 1 ELSE 0
        /\ \A i \in 1 .. n - (m + 1) + 1 : SubSeq(s, m + 1, n)[i] = s[m + 1 + i - 1]
    BY ONLY <1>1, <1>2, SubSeqProperties
  <1>4. Len(SubSeq(s, m + 1, n)) = n - m
    BY <1>3
  <1>5. ASSUME NEW i \in 1 .. n - m PROVE SubSeq(s, m + 1, n)[i] = s[m + i]
    <2>1. i \in 1 .. n - (m + 1) + 1 /\ m + 1 + i - 1 = m + i
      OBVIOUS
    <2>2. SubSeq(s, m + 1, n)[i] = s[m + 1 + i - 1]
      BY ONLY <1>3, <2>1
    <2>3. QED
      BY ONLY <2>1, <2>2
  <1>6. QED
    BY ONLY <1>3, <1>4, <1>5

\* The same, by the place it starts at.
LEMMA PieceAt ==
    ASSUME NEW s \in Seq(Nat), NEW k \in Nat \ {0}, NEW n \in Nat, k - 1 <= n, n <= Len(s)
    PROVE  /\ SubSeq(s, k, n) \in Seq(Nat) /\ Len(SubSeq(s, k, n)) = n - (k - 1)
           /\ \A i \in 1 .. n - (k - 1) : SubSeq(s, k, n)[i] = s[k - 1 + i]
  <1>1. PICK m \in Nat : m = k - 1
    OBVIOUS
  <1>2. m + 1 = k /\ m <= n
    BY <1>1
  <1>3. /\ SubSeq(s, m + 1, n) \in Seq(Nat) /\ Len(SubSeq(s, m + 1, n)) = n - m
        /\ \A i \in 1 .. n - m : SubSeq(s, m + 1, n)[i] = s[m + i]
    <2>1. s \in Seq(Nat) /\ m \in Nat /\ n \in Nat /\ m <= n /\ n <= Len(s)
      BY <1>2
    <2> QED BY ONLY <2>1, Piece
  <1> QED BY ONLY <1>1, <1>2, <1>3

\* A write of n units.
LEMMA WriteMoves ==
    ASSUME ProxyInv, NEW n \in 1 .. Len(rest), Wrote(n)
    PROVE  /\ sent' \in Seq(Nat) /\ rest' \in Seq(Nat)
           /\ Len(sent') = Len(sent) + n /\ Len(rest') = Len(rest) - n
           /\ \A i \in 1 .. Len(sent) : sent'[i] = sent[i]
           /\ \A i \in 1 .. Len(sent') : sent'[i] = Stream[i]
           /\ \A i \in 1 .. Len(rest') : rest'[i] = Stream[Len(sent') + i]
  <1>0. /\ sent \in Seq(Nat) /\ rest \in Seq(Nat) /\ Len(sent) \in Nat /\ Len(rest) \in Nat
        /\ \A i \in 1 .. Len(sent) : sent[i] = Stream[i]
        /\ \A i \in 1 .. Len(rest) : rest[i] = Stream[Len(sent) + i]
    BY DEF ProxyInv
  <1>. DEFINE chunk == SubSeq(rest, 1, n)
  <1>1. chunk \in Seq(Nat) /\ Len(chunk) = n /\ \A i \in 1 .. n : chunk[i] = rest[i]
    BY <1>0
  <1>2. sent' = sent \o chunk
    BY DEF Wrote
  <1>. HIDE DEF chunk
  <1>3. /\ sent' \in Seq(Nat) /\ Len(sent') = Len(sent) + n
        /\ \A i \in 1 .. Len(sent) + n :
              sent'[i] = IF i <= Len(sent) THEN sent[i] ELSE chunk[i - Len(sent)]
    BY <1>0, <1>1, <1>2, ConcatProperties
  <1>4. \A i \in 1 .. Len(sent') : sent'[i] = Stream[i]
    <2>1. TAKE i \in 1 .. Len(sent')
    <2>2. CASE i <= Len(sent)
      <3>1. i \in 1 .. Len(sent) /\ i \in 1 .. Len(sent) + n
        BY <1>0, <1>3, <2>2
      <3>2. sent'[i] = sent[i]
        BY <1>3, <2>2, <3>1
      <3>3. QED
        BY <1>0, <3>1, <3>2
    <2>3. CASE i > Len(sent)
      <3>1. i - Len(sent) \in 1 .. n
        BY <1>0, <1>3, <2>3
      <3>2. sent'[i] = rest[i - Len(sent)] /\ i - Len(sent) \in 1 .. Len(rest)
        <4>1. i \in 1 .. Len(sent) + n /\ ~(i <= Len(sent)) /\ i - Len(sent) \in 1 .. Len(rest)
          BY <1>0, <1>3, <2>3, <3>1
        <4>2. sent'[i] = IF i <= Len(sent) THEN sent[i] ELSE chunk[i - Len(sent)]
          BY ONLY <1>3, <4>1
        <4>3. chunk[i - Len(sent)] = rest[i - Len(sent)]
          BY ONLY <1>1, <3>1
        <4>4. QED
          BY ONLY <4>1, <4>2, <4>3
      <3>3. Len(sent) + (i - Len(sent)) = i
        BY <1>0
      <3>4. QED
        BY <1>0, <3>2, <3>3
    <2>4. QED
      BY <1>0, <1>3, <2>2, <2>3
  <1>5. /\ rest' \in Seq(Nat) /\ Len(rest') = Len(rest) - n
        /\ \A i \in 1 .. Len(rest') : rest'[i] = rest[n + i]
    <2>. DEFINE tail == SubSeq(rest, n + 1, Len(rest))
    <2>1. n \in Nat /\ n <= Len(rest)
      BY <1>0
    <2>2. /\ tail \in Seq(Nat) /\ Len(tail) = Len(rest) - n
          /\ \A i \in 1 .. Len(rest) - n : tail[i] = rest[n + i]
      BY ONLY <1>0, <2>1, Piece
    <2>3. rest' = tail
      BY DEF Wrote
    <2>. HIDE DEF tail
    <2>4. QED
      BY ONLY <2>2, <2>3
  <1>6. \A i \in 1 .. Len(rest') : rest'[i] = Stream[Len(sent') + i]
    <2>1. TAKE i \in 1 .. Len(rest')
    <2>2. n + i \in 1 .. Len(rest)
      BY <1>0, <1>5
    <2>3. rest'[i] = Stream[Len(sent) + (n + i)]
      BY <1>0, <1>5, <2>2
    <2>4. Len(sent) + (n + i) = Len(sent') + i
      BY <1>0, <1>3
    <2>5. QED
      BY <2>3, <2>4
  <1>7. \A i \in 1 .. Len(sent) : sent'[i] = sent[i]
    <2>1. TAKE i \in 1 .. Len(sent)
    <2>2. i \in 1 .. Len(sent) + n /\ i <= Len(sent)
      BY <1>0
    <2>3. sent'[i] = IF i <= Len(sent) THEN sent[i] ELSE chunk[i - Len(sent)]
      BY ONLY <1>3, <2>2
    <2>4. QED
      BY ONLY <2>2, <2>3
  <1>8. QED
    BY ONLY <1>3, <1>4, <1>5, <1>6, <1>7, Zenon

\* A piece of n units is read when nothing is left to write.
LEMMA TakeMoves ==
    ASSUME ProxyInv, rest = <<>>, NEW n \in Nat \ {0}, NEW fragment, Take(n, fragment),
           index' \in Nat
    PROVE  ProxyInv'
  <1>1. /\ taken \in 0 .. Len(Stream) /\ sent \in Seq(Nat) /\ Len(sent) = taken
        /\ Stream \in Seq(Nat) /\ reads \in Nat
    BY WireAssumption DEF ProxyInv
  <1>2. /\ taken' = taken + n /\ taken + n <= Len(Stream)
        /\ rest' = SubSeq(Stream, taken + 1, taken + n)
        /\ sent' = sent /\ pc' = "writing" /\ conf' = conf /\ reads' = reads + 1
    BY DEF Take, kernel
  <1>3. /\ rest' \in Seq(Nat) /\ Len(rest') = n
        /\ \A i \in 1 .. n : rest'[i] = Stream[taken + i]
    BY <1>1, <1>2
  <1>4. rest' # <<>>
    BY <1>3
  <1>5. \A i \in 1 .. Len(rest') : rest'[i] = Stream[Len(sent') + i]
    BY <1>1, <1>2, <1>3
  <1>6. /\ conf' \in Settings /\ taken' \in 0 .. Len(Stream) /\ reads' \in Nat
        /\ \A i \in 1 .. Len(sent') : sent'[i] = Stream[i]
    BY <1>1, <1>2 DEF ProxyInv
  <1>7. QED
    BY <1>1, <1>2, <1>3, <1>4, <1>5, <1>6 DEF ProxyInv

LEMMA HelloIsSome == HelloLen \in Nat \ {0}
  BY WireAssumption DEF HelloLen

LEMMA ProxyStep == Inv /\ [Next]_vars => ProxyInv'
  <1>. SUFFICES ASSUME Inv, [Next]_vars PROVE ProxyInv'
    OBVIOUS
  <1>0. ProxyInv
    BY DEF Inv
  <1>1. CASE ReadRecord
    BY <1>0, <1>1, TakeMoves, HelloIsSome DEF ReadRecord, ProxyInv
  <1>2. CASE ReadFirstWrite
    <2>1. PICK n \in 1 .. Len(Stream) : Take(n, Includes(conf.packets, 1))
      BY <1>2 DEF ReadFirstWrite
    <2>2. QED
      BY <1>0, <1>2, <2>1, TakeMoves DEF ReadFirstWrite, ProxyInv
  <1>3. CASE RelayReads
    <2>1. PICK n \in 1 .. Len(Stream) : Take(n, Includes(conf.packets, index'))
      BY <1>3 DEF RelayReads
    <2>2. index' \in Nat
      BY <1>0, <1>3 DEF RelayReads, ProxyInv
    <2>3. QED
      BY <1>0, <1>3, <2>1, <2>2, TakeMoves DEF RelayReads, ProxyInv
  <1>4. CASE Write
    <2>1. rest \in Seq(Nat) /\ rest # <<>> /\ conf \in Settings
      BY <1>0, <1>4 DEF Write, ProxyInv
    <2>2. PICK n \in (IF split THEN ChunkLengths ELSE {Len(rest)}) : Wrote(n)
      BY <1>4 DEF Write
    <2>3. n \in 1 .. Len(rest)
      BY <2>1, <2>2, ChunkSizes
    <2>4. /\ sent' \in Seq(Nat) /\ rest' \in Seq(Nat)
          /\ Len(sent') = Len(sent) + n /\ Len(rest') = Len(rest) - n
          /\ \A i \in 1 .. Len(sent') : sent'[i] = Stream[i]
          /\ \A i \in 1 .. Len(rest') : rest'[i] = Stream[Len(sent') + i]
      BY <1>0, <2>2, <2>3, WriteMoves
    <2>5. Len(sent') + Len(rest') = taken
      <3>1. Len(sent) \in Nat /\ Len(rest) \in Nat /\ Len(sent) + Len(rest) = taken
        BY <1>0 DEF ProxyInv
      <3>2. Len(sent') = Len(sent) + n /\ Len(rest') = Len(rest) - n
        BY <2>4
      <3>3. QED
        BY <2>3, <3>1, <3>2
    <2>6. /\ conf' = conf /\ taken' = taken /\ reads' = reads /\ index' = index
          /\ pc' = "writing" => rest' # <<>>
          /\ pc' \in {"relay", "await", "report"} => rest' = <<>>
          /\ pc' \in {"writing", "relay", "await", "report"}
      BY <1>4 DEF Write
    <2>7. QED
      BY <1>0, <2>4, <2>5, <2>6 DEF ProxyInv
  <1>5. CASE ReadFirstFails \/ WriteFails \/ AwaitTimesOut
    BY <1>0, <1>5 DEF ReadFirstFails, WriteFails, AwaitTimesOut, ProxyInv, proxy, kernel
  <1>6. CASE Report \/ AwaitBypass
    BY <1>0, <1>6 DEF Report, AwaitBypass, ProxyInv, proxy, kernel
  <1>7. CASE Network \/ UNCHANGED vars
    BY <1>0, <1>7 DEF Network, Segment, Retransmit, Forward, Rewrite, Release, vars, proxy, kernel,
                      ProxyInv
  <1>8. QED
    BY <1>1, <1>2, <1>3, <1>4, <1>5, <1>6, <1>7 DEF Next, Proxy

-----------------------------------------------------------------------------
\* A step appends to what was written, or leaves it.
LEMMA SentGrows ==
    ASSUME Inv, [Next]_vars
    PROVE  /\ sent' \in Seq(Nat) /\ Len(sent) \in Nat /\ Len(sent') \in Nat
           /\ Len(sent) <= Len(sent')
           /\ \A i \in 1 .. Len(sent) : sent'[i] = sent[i]
           /\ ~Write => sent' = sent
  <1>1. sent' \in Seq(Nat) /\ sent \in Seq(Nat) /\ ProxyInv
    BY ProxyStep DEF Inv, ProxyInv
  <1>2. CASE Write
    <2>1. rest \in Seq(Nat) /\ rest # <<>> /\ conf \in Settings
      BY <1>1, <1>2 DEF Write, ProxyInv
    <2>2. PICK n \in (IF split THEN ChunkLengths ELSE {Len(rest)}) : Wrote(n)
      BY <1>2 DEF Write
    <2>3. n \in 1 .. Len(rest)
      BY <2>1, <2>2, ChunkSizes
    <2>4. Len(sent') = Len(sent) + n /\ \A i \in 1 .. Len(sent) : sent'[i] = sent[i]
      BY <1>1, <2>2, <2>3, WriteMoves
    <2>5. QED
      BY <1>1, <1>2, <2>3, <2>4
  <1>3. CASE ~Write
    <2>1. sent' = sent
      BY <1>3 DEF Next, Proxy, Network, ReadRecord, ReadFirstWrite, RelayReads, Take, ReadFirstFails,
         WriteFails, Report, AwaitBypass, AwaitTimesOut, Segment, Retransmit, Forward, Rewrite,
         vars, kernel
    <2>2. QED
      BY <1>1, <1>3, <2>1
  <1>4. QED
    BY <1>2, <1>3

\* The server takes a prefix of what was written, when packets are unchanged.
LEMMA DeliverMoves ==
    ASSUME Inv, ~Intercepted, packet # None, Deliver(packet)
    PROVE  /\ got' \in Seq(Nat) /\ Len(got') <= Len(sent)
           /\ \A i \in 1 .. Len(got') : got'[i] = sent[i]
  <1>. DEFINE seq == packet.seq  payload == packet.payload
  <1>1. /\ got \in Seq(Nat) /\ Len(got) \in Nat /\ Len(got) <= Len(sent) /\ Len(sent) \in Nat
        /\ \A i \in 1 .. Len(got) : got[i] = sent[i]
        /\ seq \in Nat /\ payload \in Seq(Nat) /\ Len(payload) \in Nat
        /\ seq + Len(payload) <= Len(sent)
        /\ \A i \in 1 .. Len(payload) : payload[i] = sent[seq + i]
    <2>1. sent \in Seq(Nat)
      BY DEF Inv, ProxyInv
    <2>2. /\ got \in Seq(Nat) /\ Len(got) <= Len(sent)
          /\ \A i \in 1 .. Len(got) : got[i] = sent[i]
          /\ packet.seq \in Nat /\ packet.payload \in Seq(Nat)
          /\ packet.seq + Len(packet.payload) <= Len(sent)
          /\ \A i \in 1 .. Len(packet.payload) : packet.payload[i] = sent[packet.seq + i]
      BY DEF Inv, ServerInv
    <2>3. Len(got) \in Nat /\ Len(sent) \in Nat /\ Len(packet.payload) \in Nat
      BY ONLY <2>1, <2>2
    <2>4. QED
      BY ONLY <2>2, <2>3, Zenon
  <1>2. CASE seq > Len(got) \/ seq + Len(payload) <= Len(got)
    BY <1>1, <1>2 DEF Deliver
  <1>3. CASE ~(seq > Len(got) \/ seq + Len(payload) <= Len(got))
    <2>. DEFINE from == Len(got) - seq + 1
                new == SubSeq(payload, from, Len(payload))
    <2>1. got' = got \o new
      BY <1>3 DEF Deliver
    <2>2. from \in 1 .. Len(payload)
      BY <1>1, <1>3
    <2>. HIDE DEF seq, payload
    <2>3. /\ new \in Seq(Nat) /\ Len(new) = Len(payload) - from + 1
          /\ \A i \in 1 .. Len(new) : new[i] = payload[from + i - 1]
      BY <1>1, <2>2
    <2>. HIDE DEF new
    <2>4. /\ got' \in Seq(Nat) /\ Len(got') = Len(got) + Len(new)
          /\ \A i \in 1 .. Len(got) + Len(new) :
                got'[i] = IF i <= Len(got) THEN got[i] ELSE new[i - Len(got)]
      BY <1>1, <2>1, <2>3, ConcatProperties
    <2>5. Len(got') = seq + Len(payload)
      BY <1>1, <2>2, <2>3, <2>4
    <2>6. ASSUME NEW i \in 1 .. Len(got') PROVE got'[i] = sent[i]
      <3>1. CASE i <= Len(got)
        <4>1. i \in 1 .. Len(got) /\ i \in 1 .. Len(got) + Len(new)
          BY <1>1, <2>4, <2>6, <3>1
        <4>2. got'[i] = got[i]
          BY <2>4, <3>1, <4>1
        <4>3. QED
          BY <1>1, <4>1, <4>2
      <3>2. CASE i > Len(got)
        <4>0. /\ i \in Nat /\ Len(got) \in Nat /\ seq \in Nat /\ Len(payload) \in Nat
              /\ seq <= Len(got) /\ Len(got) < i /\ i <= seq + Len(payload)
              /\ Len(new) = Len(payload) - (Len(got) - seq + 1) + 1
          BY <1>1, <1>3, <2>3, <2>5, <2>6, <3>2
        <4>1. /\ i - Len(got) \in 1 .. Len(new)
              /\ i - seq \in 1 .. Len(payload)
              /\ from + (i - Len(got)) - 1 = i - seq /\ seq + (i - seq) = i
          BY <4>0
        <4>2. got'[i] = new[i - Len(got)]
          <5>1. i \in 1 .. Len(got) + Len(new) /\ ~(i <= Len(got))
            BY <4>0, <4>1
          <5>2. got'[i] = IF i <= Len(got) THEN got[i] ELSE new[i - Len(got)]
            BY ONLY <2>4, <5>1
          <5>3. QED
            BY ONLY <5>1, <5>2
        <4>3. new[i - Len(got)] = payload[i - seq]
          BY <2>3, <4>1
        <4>4. QED
          BY <1>1, <4>1, <4>2, <4>3
      <3>3. QED
        BY <1>1, <2>4, <2>6, <3>1, <3>2
    <2>7. QED
      BY <1>1, <2>4, <2>5, <2>6
  <1>4. QED
    BY <1>2, <1>3

\* What holds of a shorter log holds of a longer one.
LEMMA ServerCarries ==
    ASSUME Inv, [Next]_vars, UNCHANGED <<conf, waiting, got, nxt, packet>>
    PROVE  ServerInv'
  <1>. SUFFICES ASSUME ~Intercepted PROVE ServerInv'
    BY DEF ServerInv, Intercepted
  <1>1. /\ waiting = FALSE
        /\ got \in Seq(Nat) /\ Len(got) <= Len(sent) /\ nxt \in 0 .. Len(sent)
        /\ \A i \in 1 .. Len(got) : got[i] = sent[i]
    BY DEF Inv, ServerInv
  <1>2. packet # None =>
             /\ packet.seq \in Nat /\ packet.payload \in Seq(Nat)
             /\ packet.seq + Len(packet.payload) <= Len(sent)
             /\ \A i \in 1 .. Len(packet.payload) : packet.payload[i] = sent[packet.seq + i]
    BY DEF Inv, ServerInv
  <1>3. /\ Len(sent) \in Nat /\ Len(sent') \in Nat /\ Len(sent) <= Len(sent')
        /\ \A i \in 1 .. Len(sent) : sent'[i] = sent[i]
    BY SentGrows
  <1>4. /\ Len(got) <= Len(sent') /\ nxt \in 0 .. Len(sent')
        /\ \A i \in 1 .. Len(got) : got[i] = sent'[i]
    <2>1. Len(got) \in Nat
      BY <1>1
    <2>2. QED
      BY <1>1, <1>3, <2>1
  <1>5. ASSUME packet # None
        PROVE  /\ packet.seq + Len(packet.payload) <= Len(sent')
               /\ \A i \in 1 .. Len(packet.payload) : packet.payload[i] = sent'[packet.seq + i]
    <2>1. packet.seq \in Nat /\ Len(packet.payload) \in Nat
      BY <1>2, <1>5
    <2>2. ASSUME NEW i \in 1 .. Len(packet.payload)
          PROVE  packet.payload[i] = sent'[packet.seq + i]
      <3>1. packet.seq + i \in 1 .. Len(sent)
        <4>1. packet.seq + Len(packet.payload) <= Len(sent)
          BY <1>2, <1>5
        <4>2. QED
          BY ONLY <2>1, <4>1, Len(sent) \in Nat, i \in 1 .. Len(packet.payload), <1>3
      <3>2. QED
        BY <1>2, <1>3, <1>5, <3>1
    <2>3. QED
      BY <1>2, <1>3, <1>5, <2>1, <2>2
  <1>6. QED
    BY <1>1, <1>2, <1>4, <1>5 DEF ServerInv

LEMMA ServerStep == Inv /\ [Next]_vars => ServerInv'
  <1>. SUFFICES ASSUME Inv, [Next]_vars PROVE ServerInv'
    OBVIOUS
  <1>1. CASE Proxy \/ UNCHANGED vars
    <2>1. UNCHANGED <<conf, got, nxt, packet>> /\ (waiting' = waiting \/ waiting' = FALSE)
      BY <1>1 DEF Proxy, ReadRecord, ReadFirstWrite, RelayReads, Take, ReadFirstFails, Write,
         WriteFails, Report, AwaitBypass, AwaitTimesOut, vars, kernel, flow
    <2>2. CASE waiting' = waiting
      BY <2>1, <2>2, ServerCarries
    <2>3. CASE waiting' = FALSE /\ ~Intercepted
      <3>1. waiting' = waiting
        BY <2>3 DEF Inv, ServerInv
      <3>2. QED
        BY <2>1, <3>1, ServerCarries
    <2>4. CASE Intercepted
      BY <2>1, <2>4 DEF ServerInv, Intercepted
    <2>5. QED
      BY <2>1, <2>2, <2>3, <2>4
  <1>2. CASE Network
    <2>0. conf' = conf
      BY <1>2 DEF Network, Segment, Retransmit, Forward, Rewrite
    <2>. SUFFICES ASSUME ~Intercepted PROVE ServerInv'
      BY <2>0 DEF ServerInv, Intercepted
    <2>1. /\ sent \in Seq(Nat) /\ Len(sent) \in Nat
          /\ got \in Seq(Nat) /\ Len(got) \in Nat /\ Len(got) <= Len(sent)
          /\ nxt \in 0 .. Len(sent) /\ waiting = FALSE
          /\ \A i \in 1 .. Len(got) : got[i] = sent[i]
      BY DEF Inv, ProxyInv, ServerInv
    <2>2. CASE Segment
      <3>1. PICK n \in 1 .. MaxSegment :
                /\ nxt + n <= Len(sent)
                /\ packet' = [seq |-> nxt, payload |-> SubSeq(sent, nxt + 1, nxt + n)]
                /\ nxt' = nxt + n
        BY <2>2 DEF Segment
      <3>2. MaxSegment \in Nat /\ n \in Nat
        BY WireAssumption
      <3>3. packet'.seq = nxt /\ packet'.payload = SubSeq(sent, nxt + 1, nxt + n)
        BY <3>1
      <3>4. /\ packet'.payload \in Seq(Nat) /\ Len(packet'.payload) = n
            /\ \A i \in 1 .. n : packet'.payload[i] = sent[nxt + i]
        BY <2>1, <3>1, <3>2, <3>3
      <3>5. UNCHANGED <<sent, got, waiting, conf>>
        BY <2>2 DEF Segment, flow
      <3>6. nxt' \in 0 .. Len(sent) /\ packet'.seq \in Nat /\ packet'.seq + n <= Len(sent)
        BY <2>1, <3>1, <3>2, <3>3
      <3>7. QED
        BY <2>1, <3>3, <3>4, <3>5, <3>6 DEF ServerInv
    <2>3. CASE Retransmit
      <3>1. nxt' = Len(got) /\ UNCHANGED <<sent, got, waiting, conf, packet>>
        BY <2>3 DEF Retransmit, flow
      <3>2. nxt' \in 0 .. Len(sent)
        BY <2>1, <3>1
      <3>3. QED
        BY <2>1, <3>1, <3>2 DEF Inv, ServerInv
    <2>4. CASE Forward
      <3>1. packet # None /\ packet' = None /\ (Deliver(packet) \/ got' = got)
            /\ UNCHANGED <<sent, nxt, waiting, conf>>
        BY <2>4 DEF Forward, Release, kernel, flow
      <3>2. /\ got' \in Seq(Nat) /\ Len(got') <= Len(sent)
            /\ \A i \in 1 .. Len(got') : got'[i] = sent[i]
        BY <2>1, <3>1, DeliverMoves
      <3>3. QED
        BY <2>1, <3>1, <3>2 DEF ServerInv
    <2>5. CASE Rewrite
      BY <2>1, <2>5 DEF Rewrite
    <2>6. QED
      BY <1>2, <2>2, <2>3, <2>4, <2>5 DEF Network
  <1>3. QED
    BY <1>1, <1>2 DEF Next

-----------------------------------------------------------------------------
\* The piece before the relay counts as the first, the relay's as the next.
LEMMA TakeHandsOver ==
    ASSUME Inv, pc \in {"first", "relay"}, NEW n \in Nat \ {0}, NEW fragment \in BOOLEAN,
           Take(n, fragment), conf.packets # None => index' = reads + 1,
           fragment <=> Chosen(reads + 1),
           pc = "first" /\ conf.packets = None => n >= HelloLen
    PROVE  HandoverInv'
  <1>1. /\ taken \in Nat /\ reads \in Nat /\ HelloLen \in Nat
        /\ Len(sent) \in Nat /\ rest = <<>> /\ Len(sent) = taken
    BY HelloIsSome, WireAssumption DEF Inv, ProxyInv
  <1>2. /\ taken' = taken + n /\ reads' = reads + 1 /\ split' = fragment /\ pc' = "writing"
        /\ UNCHANGED <<conf, reported, sent, waiting, outcome>>
    BY DEF Take, kernel, flow
  <1>3. pc = "first" => reads = 0 /\ reported = None
    BY DEF Inv, HandoverInv
  <1>4. pc = "relay" => reported = "FakeDataAcked" /\ (reads > 0 \/ ~(Intercepted \/ conf.packets = None))
    BY DEF Inv, HandoverInv
  <1>5. None # "FakeDataAcked"
    BY WireAssumption
  <1>6. Chosen(reads)' <=> Chosen(reads + 1)
    BY <1>2 DEF Chosen, Includes
  <1>7. (conf.packets = None => reads = 0 \/ taken >= HelloLen)'
    BY <1>1, <1>2, <1>3, <1>4 DEF Inv, HandoverInv
  <1>8. (conf.packets = None /\ reported = "FakeDataAcked" => Len(sent) >= HelloLen)'
    BY <1>2 DEF Inv, HandoverInv, HelloLen
  <1>9. (outcome # None => ~waiting)' /\ (Intercepted /\ reported = "FakeDataAcked" => outcome = reported)'
    BY <1>2 DEF Inv, HandoverInv, Intercepted
  <1>10. QED
    BY <1>1, <1>2, <1>3, <1>4, <1>5, <1>6, <1>7, <1>8, <1>9 DEF HandoverInv, Intercepted

LEMMA HandoverStep == Inv /\ [Next]_vars => HandoverInv'
  <1>. SUFFICES ASSUME Inv, [Next]_vars PROVE HandoverInv'
    OBVIOUS
  <1>0. /\ HandoverInv /\ ProxyInv
        /\ None # "FakeDataAcked" /\ None # "UnexpectedClose"
        /\ HelloLen \in Nat /\ taken \in Nat /\ reads \in Nat
        /\ Len(sent) \in Nat /\ Len(rest) \in Nat
        /\ rest = <<>> => Len(sent) = taken
    <2>1. None # "FakeDataAcked" /\ None # "UnexpectedClose"
      BY WireAssumption
    <2>2. /\ HandoverInv /\ ProxyInv /\ sent \in Seq(Nat) /\ rest \in Seq(Nat)
          /\ Len(sent) + Len(rest) = taken /\ reads \in Nat
      BY DEF Inv, ProxyInv
    <2>3. QED
      BY <2>1, <2>2, HelloIsSome
  <1>1. CASE ReadRecord
    <2>1. pc = "first" /\ conf.packets = None /\ Take(HelloLen, TRUE) /\ reads = 0
      BY <1>0, <1>1 DEF ReadRecord, HandoverInv
    <2>2. Chosen(reads + 1)
      BY <2>1 DEF Chosen
    <2>3. HelloLen \in Nat \ {0} /\ HelloLen >= HelloLen
      BY HelloIsSome
    <2>4. QED
      BY <2>1, <2>2, <2>3, TakeHandsOver, Zenon
  <1>2. CASE ReadFirstWrite
    <2>1. PICK n \in 1 .. Len(Stream) : Take(n, Includes(conf.packets, 1))
      BY <1>2 DEF ReadFirstWrite
    <2>2. pc = "first" /\ conf.packets # None /\ index' = 1 /\ reads = 0
      BY <1>0, <1>2 DEF ReadFirstWrite, HandoverInv
    <2>3. Chosen(reads + 1) <=> Includes(conf.packets, 1)
      BY <2>2 DEF Chosen
    <2>4. Includes(conf.packets, 1) \in BOOLEAN
      BY DEF Includes
    <2>5. n \in Nat \ {0}
      BY <2>1, WireAssumption
    <2>6. QED
      BY <2>1, <2>2, <2>3, <2>4, <2>5, TakeHandsOver
  <1>3. CASE RelayReads
    <2>1. PICK n \in 1 .. Len(Stream) : Take(n, Includes(conf.packets, index'))
      BY <1>3 DEF RelayReads
    <2>2. /\ pc = "relay" /\ index' = index + 1
          /\ conf.packets # None => index' = reads + 1
          /\ conf.packets = None => reads > 0
      BY <1>0, <1>3 DEF RelayReads, HandoverInv
    <2>3. Chosen(reads + 1) <=> Includes(conf.packets, index')
      BY <1>0, <2>2 DEF Chosen, Includes
    <2>4. Includes(conf.packets, index') \in BOOLEAN
      BY DEF Includes
    <2>5. n \in Nat \ {0}
      BY <2>1, WireAssumption
    <2>6. QED
      BY <2>1, <2>2, <2>3, <2>4, <2>5, TakeHandsOver
  <1>4. CASE Write
    <2>1. /\ UNCHANGED <<conf, taken, reads, split, index, reported, waiting, outcome>>
          /\ pc = "writing"
          /\ pc' = IF rest' # <<>> THEN "writing"
                   ELSE IF reported # None THEN "relay"
                   ELSE IF Intercepted THEN "await" ELSE "report"
      BY <1>4 DEF Write, flow
    <2>2. Len(sent) <= Len(sent') /\ Len(sent') \in Nat
      BY SentGrows
    <2>3. reported \in {None, "FakeDataAcked"}
      BY <1>0, <2>1 DEF HandoverInv
    <2>4. reported = "FakeDataAcked" => rest' = <<>> \/ reads > 1 \/ ~(Intercepted \/ conf.packets = None)
      BY <1>0, <2>1 DEF HandoverInv, ProxyInv
    <2>5. (Chosen(reads)' <=> Chosen(reads)) /\ (Intercepted' <=> Intercepted)
      BY <2>1 DEF Chosen, Includes, Intercepted
    <2>6. QED
      BY <1>0, <2>1, <2>2, <2>3, <2>4, <2>5 DEF HandoverInv
  <1>5. CASE ReadFirstFails \/ WriteFails \/ AwaitTimesOut
    <2>1. /\ UNCHANGED <<conf, taken, reads, rest, split, index, sent>>
          /\ pc' \in {"failed", "ended"} /\ (pc' = "ended" => pc = "writing")
          /\ reported' = reported \/ reported' \in {"UnexpectedClose", None}
          /\ (outcome' = outcome /\ waiting' = waiting) \/ ~waiting'
          /\ Intercepted /\ reported' = "FakeDataAcked" => outcome' = outcome
          /\ reported' = "FakeDataAcked" => reported = "FakeDataAcked"
      BY <1>0, <1>5 DEF ReadFirstFails, WriteFails, AwaitTimesOut, HandoverInv, proxy, kernel, flow
    <2>2. Intercepted' <=> Intercepted
      BY <2>1 DEF Intercepted
    <2>3. QED
      BY <1>0, <2>1, <2>2 DEF HandoverInv
  <1>6. CASE Report \/ AwaitBypass
    <2>1. /\ UNCHANGED <<conf, taken, reads, rest, split, index, sent, waiting, outcome>>
          /\ pc \in {"report", "await"} /\ rest = <<>>
          /\ \/ pc' = "relay" /\ reported' = "FakeDataAcked"
             \/ pc' = "failed" /\ reported' # "FakeDataAcked"
          /\ Intercepted /\ reported' = "FakeDataAcked" /\ pc = "await" => outcome = "FakeDataAcked"
      BY <1>0, <1>6 DEF Report, AwaitBypass, ProxyInv, proxy, kernel, flow
    <2>2. (Intercepted' <=> Intercepted) /\ HelloLen' = HelloLen
      BY <2>1 DEF Intercepted, HelloLen
    <2>3. Intercepted => pc = "await"
      BY <2>1 DEF Inv, HandoverInv
    <2>4. conf.packets = None => Len(sent) >= HelloLen
      BY <1>0, <2>1 DEF HandoverInv
    <2>5. (Intercepted \/ conf.packets = None) => reads > 0
      BY <1>0, <2>1 DEF HandoverInv
    <2>6. QED
      BY <1>0, <2>1, <2>2, <2>3, <2>4, <2>5 DEF HandoverInv
  <1>7. CASE Network \/ UNCHANGED vars
    BY <1>0, <1>7 DEF Network, Segment, Retransmit, Forward, Rewrite, vars, proxy, kernel, flow,
                      HandoverInv, Chosen, Includes, Intercepted
  <1>8. QED
    BY <1>1, <1>2, <1>3, <1>4, <1>5, <1>6, <1>7 DEF Next, Proxy

-----------------------------------------------------------------------------
LEMMA Initially == Init => Inv
  <1>. SUFFICES ASSUME Init PROVE Inv
    OBVIOUS
  <1>0. None # "FakeDataAcked" /\ None # "UnexpectedClose"
    BY WireAssumption
  <1>1. /\ <<>> \in Seq(Nat) /\ Len(<<>>) = 0 /\ Len(Stream) \in Nat
        /\ conf \in Settings /\ sent = <<>> /\ rest = <<>> /\ got = <<>> /\ packet = None
        /\ taken = 0 /\ reads = 0 /\ index = 0 /\ nxt = 0
        /\ reported = None /\ outcome = None
        /\ waiting = Intercepted
        /\ pc = IF Intercepted \/ conf.packets = None THEN "first" ELSE "report"
    BY WireAssumption DEF Init
  <1>2. ProxyInv
    BY <1>1 DEF ProxyInv
  <1>3. ServerInv
    <2>1. ~Intercepted => waiting = FALSE
      BY <1>1, Zenon DEF Intercepted
    <2>2. QED
      BY <1>1, <2>1 DEF ServerInv
  <1>4. HandoverInv
    BY <1>0, <1>1 DEF HandoverInv
  <1>5. QED
    BY <1>2, <1>3, <1>4 DEF Inv

LEMMA Always == Spec => []Inv
  <1>1. Inv /\ [Next]_vars => Inv'
    BY ProxyStep, ServerStep, HandoverStep DEF Inv
  <1>2. QED
    BY <1>1, Initially, PTL DEF Spec

\* The upstream socket gets the client's bytes in order, each once, however
\* they are cut, and with tls_frag so does the server, however the kernel
\* segments and repeats them.
THEOREM Order == Spec => []BytesStayInOrder
  <1>1. Inv => BytesStayInOrder
    <2>. SUFFICES ASSUME Inv PROVE BytesStayInOrder
      OBVIOUS
    <2>1. /\ sent \in Seq(Nat) /\ rest \in Seq(Nat) /\ Stream \in Seq(Nat)
          /\ Len(sent) \in Nat /\ Len(rest) \in Nat
          /\ taken = Len(sent) + Len(rest) /\ taken <= Len(Stream)
          /\ \A i \in 1 .. Len(sent) : sent[i] = Stream[i]
          /\ \A i \in 1 .. Len(rest) : rest[i] = Stream[Len(sent) + i]
      BY WireAssumption DEF Inv, ProxyInv
    <2>2. sent \o rest = SubSeq(Stream, 1, taken)
      <3>1. /\ sent \o rest \in Seq(Nat) /\ Len(sent \o rest) = taken
            /\ \A i \in 1 .. taken :
                  (sent \o rest)[i] = IF i <= Len(sent) THEN sent[i] ELSE rest[i - Len(sent)]
        BY <2>1, ConcatProperties
      <3>2. /\ SubSeq(Stream, 1, taken) \in Seq(Nat) /\ Len(SubSeq(Stream, 1, taken)) = taken
            /\ \A i \in 1 .. taken : SubSeq(Stream, 1, taken)[i] = Stream[i]
        BY <2>1
      <3>3. ASSUME NEW i \in 1 .. taken PROVE (sent \o rest)[i] = Stream[i]
        <4>1. CASE i <= Len(sent)
          <5>1. i \in 1 .. Len(sent)
            BY <2>1, <4>1
          <5>2. QED
            BY <2>1, <3>1, <4>1, <5>1
        <4>2. CASE i > Len(sent)
          <5>1. i - Len(sent) \in 1 .. Len(rest) /\ Len(sent) + (i - Len(sent)) = i
            BY <2>1, <4>2
          <5>2. (sent \o rest)[i] = rest[i - Len(sent)]
            BY <2>1, <3>1, <4>2
          <5>3. QED
            BY <2>1, <5>1, <5>2
        <4>3. i <= Len(sent) \/ i > Len(sent)
          BY <2>1
        <4>4. QED
          BY <4>1, <4>2, <4>3, Zenon
      <3>4. QED
        BY <3>1, <3>2, <3>3, SeqEqual
    <2>3. ~Intercepted => IsPrefix(got, Stream)
      <3>. SUFFICES ASSUME ~Intercepted PROVE IsPrefix(got, Stream)
        OBVIOUS
      <3>1. /\ got \in Seq(Nat) /\ Len(got) \in Nat /\ Len(got) <= Len(sent)
            /\ \A i \in 1 .. Len(got) : got[i] = sent[i]
        BY DEF Inv, ServerInv
      <3>2. Len(got) <= Len(Stream)
        BY <2>1, <3>1
      <3>3. \A i \in 1 .. Len(got) : got[i] = Stream[i]
        BY <2>1, <3>1
      <3>4. /\ SubSeq(got, 1, Len(got)) \in Seq(Nat) /\ Len(SubSeq(got, 1, Len(got))) = Len(got)
            /\ \A i \in 1 .. Len(got) : SubSeq(got, 1, Len(got))[i] = got[i]
        BY <3>1
      <3>5. /\ SubSeq(Stream, 1, Len(got)) \in Seq(Nat)
            /\ Len(SubSeq(Stream, 1, Len(got))) = Len(got)
            /\ \A i \in 1 .. Len(got) : SubSeq(Stream, 1, Len(got))[i] = Stream[i]
        BY <2>1, <3>1, <3>2
      <3>6. SubSeq(got, 1, Len(got)) = SubSeq(Stream, 1, Len(got))
        BY <3>3, <3>4, <3>5, SeqEqual
      <3>7. QED
        BY <3>2, <3>6 DEF IsPrefix
    <2>4. QED
      BY <2>2, <2>3 DEF BytesStayInOrder
  <1>2. QED
    BY <1>1, Always, PTL

\* No success is reported before the hello is written, and with
\* tls_record_frag before the handler decided the flow.
THEOREM Success == Spec => []SuccessAfterHello
  <1>1. Inv => SuccessAfterHello
    <2>. SUFFICES ASSUME Inv PROVE SuccessAfterHello
      OBVIOUS
    <2>1. None # "FakeDataAcked"
      BY WireAssumption
    <2>2. QED
      BY <2>1 DEF Inv, HandoverInv, SuccessAfterHello
  <1>2. QED
    BY <1>1, Always, PTL

\* Exactly the pieces that the configuration names are written in fragments
\* of the configured lengths, for any ranges of writes and of lengths.
THEOREM Fragments == Spec => FragmentsTheChosen
  <1>1. Inv /\ [Next]_vars =>
           [LET n == Len(sent') - Len(sent)
            IN  IF Chosen(reads)
                THEN /\ n <= LengthRange(conf).max
                     /\ n >= LengthRange(conf).min \/ rest' = <<>>
                ELSE rest' = <<>>]_sent
    <2>. SUFFICES ASSUME Inv, [Next]_vars, sent' # sent
                  PROVE  LET n == Len(sent') - Len(sent)
                         IN  IF Chosen(reads)
                             THEN /\ n <= LengthRange(conf).max
                                  /\ n >= LengthRange(conf).min \/ rest' = <<>>
                             ELSE rest' = <<>>
      OBVIOUS
    <2>1. Write
      BY SentGrows
    <2>2. ProxyInv /\ rest \in Seq(Nat) /\ rest # <<>> /\ conf \in Settings
          /\ (split <=> Chosen(reads))
      BY <2>1 DEF Write, Inv, ProxyInv, HandoverInv
    <2>3. PICK n \in (IF split THEN ChunkLengths ELSE {Len(rest)}) : Wrote(n)
      BY <2>1 DEF Write
    <2>4. n \in 1 .. Len(rest)
      BY <2>2, <2>3, ChunkSizes
    <2>5. /\ Len(sent) \in Nat /\ Len(sent') = Len(sent) + n
          /\ Len(rest') = Len(rest) - n /\ rest' \in Seq(Nat)
      BY <2>2, <2>3, <2>4, WriteMoves DEF ProxyInv
    <2>6. Len(sent') - Len(sent) = n
      BY <2>4, <2>5
    <2>7. n = Len(rest) => rest' = <<>>
      BY <2>5
    <2>8. split => n <= LengthRange(conf).max /\ (n >= LengthRange(conf).min \/ n = Len(rest))
      BY <2>2, <2>3, ChunkSizes
    <2>9. ~split => n = Len(rest)
      BY <2>3
    <2>10. QED
      BY <2>2, <2>6, <2>7, <2>8, <2>9
  <1>2. QED
    BY <1>1, Always, PTL DEF Spec, FragmentsTheChosen

-----------------------------------------------------------------------------
\* Induction, over sets of numbers.
LEMMA Least ==
    ASSUME NEW S \in SUBSET Nat, S # {}
    PROVE  \E m \in S : \A k \in S : m <= k
  <1>1. PICK x \in S : \A y \in S : ~ (<<y, x>> \in OpToRel(<, Nat))
    <2>1. \E x \in S : \A y \in S : ~ (<<y, x>> \in OpToRel(<, Nat))
      BY NatLessThanWellFounded, WFMin
    <2> QED BY <2>1
  <1>2. \A y \in S : ~ (y < x)
    BY <1>1 DEF OpToRel
  <1> QED BY <1>2

\* Induction from 0 on.
LEMMA Upwards ==
    ASSUME NEW S \in SUBSET Nat, 0 \in S, \A n \in S : n + 1 \in S
    PROVE  S = Nat
  <1> SUFFICES ASSUME Nat \ S # {} PROVE FALSE
    OBVIOUS
  <1>1. PICK m \in Nat \ S : \A k \in Nat \ S : m <= k
    BY Least
  <1>2. m # 0 /\ m - 1 \in Nat
    BY <1>1
  <1> QED BY <1>1, <1>2

\* From the end of a range to its beginning.
LEMMA Downwards ==
    ASSUME NEW n \in Nat, NEW S,
           \A o \in 1 .. n : (\A k \in 1 .. n : k > o => k \in S) => o \in S
    PROVE  1 .. n \subseteq S
  <1> DEFINE T == {d \in 0 .. n - 1 : n - d \notin S}
  <1> SUFFICES ASSUME T # {} PROVE FALSE
    <2>1. ASSUME NEW o \in 1 .. n, o \notin S PROVE n - o \in T
      <3>1. n - o \in 0 .. n - 1 /\ n - (n - o) = o
        OBVIOUS
      <3> QED BY <2>1, <3>1
    <2> QED BY <2>1
  <1>1. PICK d \in T : \A e \in T : d <= e
    <2>1. T \in SUBSET Nat
      OBVIOUS
    <2> HIDE DEF T
    <2> QED BY <2>1, Least
  <1>2. ASSUME NEW k \in 1 .. n, k > n - d PROVE k \in S
    <2>1. n - k \in 0 .. n - 1 /\ n - (n - k) = k /\ n - k < d
      BY <1>2
    <2>2. n - k \notin T
      BY <1>1, <2>1
    <2> QED BY <2>1, <2>2
  <1>3. n - d \in 1 .. n
    OBVIOUS
  <1> QED BY <1>2, <1>3

\* A function defined at each position by its value at a later one exists.
Backwards(f, c, n, last, next, base, step) ==
    \A o \in c .. n : f[o] = IF o \in last THEN base[o] ELSE step[o][f[next[o]]]

\* One position more to the front.
LEMMA OneMore ==
    ASSUME NEW n \in Nat, NEW c \in 1 .. n,
           NEW V, NEW last, NEW next, NEW base, NEW step,
           IF c \in last THEN base[c] \in V
           ELSE next[c] \in c + 1 .. n /\ \A v \in V : step[c][v] \in V,
           \A o \in c + 1 .. n : o \notin last => next[o] \in o + 1 .. n,
           NEW g \in [c + 1 .. n -> V], Backwards(g, c + 1, n, last, next, base, step)
    PROVE  \E f \in [c .. n -> V] : Backwards(f, c, n, last, next, base, step)
  <1> DEFINE x == IF c \in last THEN base[c] ELSE step[c][g[next[c]]]
             f == [o \in c .. n |-> IF o = c THEN x ELSE g[o]]
  <1>1. x \in V
    OBVIOUS
  <1>2. f \in [c .. n -> V]
    <2> HIDE DEF x
    <2> QED BY <1>1
  <1>3. f[c] = x /\ \A o \in c + 1 .. n : f[o] = g[o]
    <2> HIDE DEF x
    <2> QED OBVIOUS
  <1> HIDE DEF f
  <1>4. f[c] = IF c \in last THEN base[c] ELSE step[c][f[next[c]]]
    BY <1>3
  <1> HIDE DEF x
  <1>5. ASSUME NEW o \in c + 1 .. n
        PROVE  f[o] = IF o \in last THEN base[o] ELSE step[o][f[next[o]]]
    <2>1. g[o] = IF o \in last THEN base[o] ELSE step[o][g[next[o]]]
      BY DEF Backwards
    <2>2. o \notin last => next[o] \in c + 1 .. n
      OBVIOUS
    <2> QED BY <1>3, <2>1, <2>2
  <1>6. Backwards(f, c, n, last, next, base, step)
    BY <1>4, <1>5 DEF Backwards
  <1> QED BY <1>2, <1>6

\* So the whole function exists, and has the type that its steps keep.
LEMMA DefinedBackwards ==
    ASSUME NEW n \in Nat, NEW V, NEW last, NEW next, NEW base, NEW step,
           \A o \in 1 .. n : IF o \in last THEN base[o] \in V
                             ELSE next[o] \in o + 1 .. n /\ \A v \in V : step[o][v] \in V
    PROVE  \E f \in [1 .. n -> V] : Backwards(f, 1, n, last, next, base, step)
  <1> DEFINE S == {c \in 1 .. n + 1 :
                     \E f \in [c .. n -> V] : Backwards(f, c, n, last, next, base, step)}
  <1>1. n + 1 \in S
    <2>1. n + 1 .. n = {}
      OBVIOUS
    <2>2. [o \in {} |-> base[o]] \in [{} -> V]
      OBVIOUS
    <2>3. \A f : Backwards(f, n + 1, n, last, next, base, step)
      BY <2>1 DEF Backwards
    <2>4. \E f \in [n + 1 .. n -> V] : Backwards(f, n + 1, n, last, next, base, step)
      BY <2>1, <2>2, <2>3
    <2> QED BY <2>4
  <1>2. ASSUME NEW c \in 1 .. n, \A k \in 1 .. n : k > c => k \in S
        PROVE  c \in S
    <2>1. c + 1 \in S
      <3>1. c + 1 \in 1 .. n \/ c + 1 = n + 1
        OBVIOUS
      <3> HIDE DEF S
      <3> QED BY <1>1, <1>2, <3>1
    <2>2. PICK g \in [c + 1 .. n -> V] : Backwards(g, c + 1, n, last, next, base, step)
      BY <2>1
    <2>3. \E f \in [c .. n -> V] : Backwards(f, c, n, last, next, base, step)
      <3>1. /\ IF c \in last THEN base[c] \in V
               ELSE next[c] \in c + 1 .. n /\ \A v \in V : step[c][v] \in V
            /\ \A o \in c + 1 .. n : o \notin last => next[o] \in o + 1 .. n
        OBVIOUS
      <3> QED BY <2>2, <3>1, OneMore
    <2> QED BY <2>3
  <1> HIDE DEF S
  <1>3. 1 .. n \subseteq S
    BY <1>2, Downwards
  <1>4. 1 \in S
    BY <1>1, <1>3
  <1> QED BY <1>4 DEF S

-----------------------------------------------------------------------------
\* The same within a range.
LEMMA Stepwise ==
    ASSUME NEW n \in Nat, NEW S, 1 \in S,
           \A i \in 2 .. n : i - 1 \in S => i \in S
    PROVE  1 .. n \subseteq S
  <1> DEFINE T == {k \in Nat : k \in 1 .. n => k \in S}
  <1>1. ASSUME NEW k \in T PROVE k + 1 \in T
    <2> SUFFICES ASSUME k + 1 \in 1 .. n PROVE k + 1 \in S
      OBVIOUS
    <2>1. CASE k = 0
      BY <2>1
    <2>2. CASE k # 0
      <3>1. k \in 1 .. n /\ k + 1 \in 2 .. n /\ (k + 1) - 1 = k
        BY <2>2
      <3>2. k \in S
        BY <3>1
      <3>3. (k + 1) - 1 \in S => k + 1 \in S
        BY <3>1
      <3> HIDE DEF T
      <3> QED BY <3>1, <3>2, <3>3
    <2> QED BY <2>1, <2>2
  <1>2. T \in SUBSET Nat /\ 0 \in T
    OBVIOUS
  <1>3. T = Nat
    <2> HIDE DEF T
    <2> QED BY <1>1, <1>2, Upwards
  <1> QED BY <1>3

-----------------------------------------------------------------------------
\* FlattenSeq joins one after the other.

Joining(f, s) == f = [i \in 1 .. Len(s) |-> IF i = 1 THEN s[i] ELSE f[i - 1] \o s[i]]

\* FlattenSeq's function, taken from its last value on.
LEMMA JoiningExists ==
    ASSUME NEW s \in Seq(Seq(Nat))
    PROVE  \E f : Joining(f, s)
  <1> DEFINE n == Len(s)
             base == [o \in 1 .. n |-> s[1]]
             next == [o \in 1 .. n |-> o + 1]
             step == [o \in 1 .. n |-> [v \in Seq(Nat) |-> v \o s[n + 1 - o]]]
  <1>1. n \in Nat /\ \A i \in 1 .. n : s[i] \in Seq(Nat)
    OBVIOUS
  <1>2. \A o \in 1 .. n : IF o \in {n} THEN base[o] \in Seq(Nat)
                          ELSE next[o] \in o + 1 .. n /\ \A v \in Seq(Nat) : step[o][v] \in Seq(Nat)
    <2> SUFFICES ASSUME NEW o \in 1 .. n
                 PROVE  IF o \in {n} THEN base[o] \in Seq(Nat)
                        ELSE next[o] \in o + 1 .. n /\ \A v \in Seq(Nat) : step[o][v] \in Seq(Nat)
      OBVIOUS
    <2>1. s[1] \in Seq(Nat) /\ s[n + 1 - o] \in Seq(Nat)
      BY <1>1
    <2>2. \A v \in Seq(Nat) : v \o s[n + 1 - o] \in Seq(Nat)
      BY <2>1, ConcatProperties
    <2>3. base[o] = s[1] /\ next[o] = o + 1
      OBVIOUS
    <2>4. step[o] = [v \in Seq(Nat) |-> v \o s[n + 1 - o]]
      OBVIOUS
    <2> HIDE DEF base, next, step, n
    <2>5. \A v \in Seq(Nat) : step[o][v] \in Seq(Nat)
      BY <2>2, <2>4
    <2>6. o # n => o + 1 \in o + 1 .. n
      BY <1>1
    <2> QED BY <2>1, <2>3, <2>5, <2>6
  <1>3. PICK g \in [1 .. n -> Seq(Nat)] : Backwards(g, 1, n, {n}, next, base, step)
    <2> HIDE DEF n, base, next, step
    <2> QED BY <1>1, <1>2, DefinedBackwards
  <1> DEFINE f == [i \in 1 .. n |-> g[n + 1 - i]]
  <1>4. ASSUME NEW i \in 1 .. n
        PROVE  f[i] = IF i = 1 THEN s[i] ELSE f[i - 1] \o s[i]
    <2> DEFINE o == n + 1 - i
    <2>1. o \in 1 .. n /\ n + 1 - o = i /\ (o = n <=> i = 1)
      BY <1>1
    <2>2. f[i] = IF o \in {n} THEN base[o] ELSE step[o][g[next[o]]]
      BY <1>3, <2>1 DEF Backwards
    <2>3. CASE i = 1
      BY <2>1, <2>2, <2>3
    <2>4. CASE i # 1
      <3>1. i - 1 \in 1 .. n /\ o + 1 = n + 1 - (i - 1) /\ o + 1 \in 1 .. n
        BY <1>1, <2>4
      <3>2. next[o] = o + 1 /\ g[o + 1] \in Seq(Nat) /\ f[i - 1] = g[o + 1]
        BY <1>3, <2>1, <3>1
      <3>3. step[o][g[o + 1]] = g[o + 1] \o s[i]
        BY <2>1, <3>2
      <3> HIDE DEF base, step, next, f, o
      <3> QED BY <2>1, <2>2, <2>4, <3>2, <3>3
    <2> QED BY <2>3, <2>4
  <1>5. Joining(f, s)
    <2>1. f = [i \in 1 .. n |-> f[i]]
      OBVIOUS
    <2> HIDE DEF f
    <2>2. f = [i \in 1 .. n |-> IF i = 1 THEN s[i] ELSE f[i - 1] \o s[i]]
      BY <1>4, <2>1
    <2> QED BY <2>2 DEF Joining
  <1> QED BY <1>5

\* FlattenSeq(s) is the last of the partial joins.
LEMMA Flatten ==
    ASSUME NEW s \in Seq(Seq(Nat)), Len(s) # 0
    PROVE  \E f \in [1 .. Len(s) -> Seq(Nat)] :
               /\ FlattenSeq(s) = f[Len(s)] /\ f[1] = s[1]
               /\ \A i \in 2 .. Len(s) : f[i] = f[i - 1] \o s[i]
  <1> DEFINE n == Len(s)
             f == CHOOSE f : Joining(f, s)
  <1>1. n \in Nat /\ n >= 1 /\ \A i \in 1 .. n : s[i] \in Seq(Nat)
    OBVIOUS
  <1>2. Joining(f, s)
    BY JoiningExists
  <1>3. FlattenSeq(s) = f[n]
    BY DEF FlattenSeq, Joining
  <1> HIDE DEF f
  <1>4. /\ f[1] = s[1] /\ \A i \in 2 .. n : f[i] = f[i - 1] \o s[i]
        /\ f = [i \in 1 .. n |-> IF i = 1 THEN s[i] ELSE f[i - 1] \o s[i]]
    <2>1. f = [i \in 1 .. n |-> IF i = 1 THEN s[i] ELSE f[i - 1] \o s[i]]
      BY <1>2 DEF Joining
    <2> HIDE DEF n
    <2>2. DOMAIN f = 1 .. n /\ \A i \in 1 .. n : f[i] = IF i = 1 THEN s[i] ELSE f[i - 1] \o s[i]
      BY <2>1
    <2>3. 1 \in 1 .. n /\ 2 .. n \subseteq 1 .. n /\ \A i \in 2 .. n : i # 1
      BY <1>1
    <2>4. f[1] = s[1]
      BY <2>2, <2>3
    <2>5. \A i \in 2 .. n : f[i] = f[i - 1] \o s[i]
      BY <2>2, <2>3
    <2> QED BY <2>1, <2>4, <2>5
  <1> HIDE DEF n
  <1> DEFINE S == {i \in 1 .. n : f[i] \in Seq(Nat)}
  <1>5. 1 .. n \subseteq S
    <2>1. 1 \in S
      <3>1. s[1] \in Seq(Nat) /\ 1 \in 1 .. n
        BY <1>1
      <3>2. f[1] = s[1]
        BY <1>4
      <3> QED BY <3>1, <3>2
    <2>2. ASSUME NEW i \in 2 .. n, i - 1 \in S
          PROVE  i \in S
      <3>1. s[i] \in Seq(Nat) /\ i \in 1 .. n /\ f[i - 1] \in Seq(Nat)
        BY <1>1, <2>2
      <3>2. f[i] = f[i - 1] \o s[i]
        BY <1>4
      <3>3. f[i] \in Seq(Nat)
        BY <3>1, <3>2, ConcatProperties
      <3> QED BY <3>1, <3>3
    <2> HIDE DEF S
    <2> QED BY <1>1, <2>1, <2>2, Stepwise
  <1>6. \A i \in 1 .. n : (IF i = 1 THEN s[i] ELSE f[i - 1] \o s[i]) \in Seq(Nat)
    <2>1. \A i \in 1 .. n : f[i] = IF i = 1 THEN s[i] ELSE f[i - 1] \o s[i]
      BY <1>4
    <2> QED BY <1>5, <2>1
  <1>7. f \in [1 .. n -> Seq(Nat)]
    BY <1>4, <1>6
  <1> QED BY <1>3, <1>4, <1>7 DEF n

-----------------------------------------------------------------------------
\* SplitRecord.

Until(body, size, k) == IF k * size < Len(body) THEN k * size ELSE Len(body)

Cut(body, size, k) == SubSeq(body, (k - 1) * size + 1, Until(body, size, k))

Fragment(type, b) == <<type, Len(b)>> \o b

\* The number of pieces: full ones but for the last.
LEMMA Division ==
    ASSUME NEW n \in Nat, n >= 1, NEW c \in Nat \ {0}
    PROVE  LET k == (n + c - 1) \div c
           IN  k \in Nat \ {0} /\ (k - 1) * c < n /\ n <= k * c
  <1> DEFINE k == (n + c - 1) \div c
  <1>1. k \in Int /\ k * c <= n + c - 1 /\ n + c - 1 < (k + 1) * c
    OBVIOUS
  <1> HIDE DEF k
  <1>2. (k + 1) * c = k * c + c /\ (k - 1) * c = k * c - c
    BY <1>1
  <1>3. k >= 1
    <2> SUFFICES ASSUME k <= 0 PROVE FALSE
      BY <1>1
    <2>1. k * c <= 0
      BY <1>1
    <2> QED BY <1>1, <1>2, <2>1
  <1> QED BY <1>1, <1>2, <1>3 DEF k

\* A record's units.
LEMMA FragmentTyped ==
    ASSUME NEW type \in Nat, NEW b \in Seq(Nat)
    PROVE  /\ Fragment(type, b) \in Seq(Nat) /\ Len(Fragment(type, b)) = Len(b) + 2
           /\ Fragment(type, b)[1] = type /\ Fragment(type, b)[2] = Len(b)
           /\ \A i \in 1 .. Len(b) : Fragment(type, b)[i + 2] = b[i]
  <1>1. /\ <<type, Len(b)>> \in Seq(Nat) /\ Len(<<type, Len(b)>>) = 2
        /\ <<type, Len(b)>>[1] = type /\ <<type, Len(b)>>[2] = Len(b) /\ Len(b) \in Nat
    OBVIOUS
  <1> DEFINE h == <<type, Len(b)>>
  <1> HIDE DEF h
  <1>2. /\ h \o b \in Seq(Nat) /\ Len(h \o b) = 2 + Len(b)
        /\ \A i \in 1 .. 2 + Len(b) : (h \o b)[i] = IF i <= 2 THEN h[i] ELSE b[i - 2]
    BY <1>1, ConcatProperties DEF h
  <1>3. /\ (h \o b)[1] = h[1] /\ (h \o b)[2] = h[2]
        /\ \A i \in 1 .. Len(b) : (h \o b)[i + 2] = b[i]
    <2>1. \A i \in 1 .. Len(b) : i + 2 \in 1 .. 2 + Len(b) /\ ~(i + 2 <= 2) /\ (i + 2) - 2 = i
      BY <1>1
    <2> QED BY <1>1, <1>2, <2>1
  <1> QED BY <1>1, <1>2, <1>3 DEF h, Fragment

\* The k-th piece of a body continues what the earlier ones hold.
LEMMA CutTyped ==
    ASSUME NEW body \in Seq(Nat), NEW size \in Nat \ {0}, NEW k \in Nat \ {0},
           (k - 1) * size < Len(body)
    PROVE  /\ (k - 1) * size \in Nat /\ Until(body, size, k) \in Nat
           /\ (k - 1) * size < Until(body, size, k) /\ Until(body, size, k) <= Len(body)
           /\ Cut(body, size, k) \in Seq(Nat) /\ Len(Cut(body, size, k)) \in 1 .. size
           /\ SubSeq(body, 1, (k - 1) * size) \o Cut(body, size, k)
                = SubSeq(body, 1, Until(body, size, k))
  <1> DEFINE m == (k - 1) * size
             u == Until(body, size, k)
  <1>1. m \in Nat /\ k * size = m + size /\ k * size \in Nat
    OBVIOUS
  <1> HIDE DEF m
  <1>2. u \in Nat /\ m < u /\ u <= Len(body) /\ u - m \in 1 .. size
    BY <1>1 DEF Until, m
  <1> HIDE DEF u
  <1>3. Cut(body, size, k) = SubSeq(body, m + 1, u)
    BY DEF Cut, m, u
  <1>4. SubSeq(body, m + 1, u) \in Seq(Nat) /\ Len(SubSeq(body, m + 1, u)) = u - m
    BY <1>1, <1>2
  <1>5. SubSeq(body, 1, m) \o SubSeq(body, m + 1, u) = SubSeq(body, 1, u)
    <2>1. /\ 1 \in 1 .. Len(body) + 1 /\ m \in 1 - 1 .. Len(body) /\ u \in m .. Len(body)
      BY <1>1, <1>2
    <2> QED BY <2>1, ConcatAdjacentSubSeq
  <1> QED BY <1>1, <1>2, <1>3, <1>4, <1>5 DEF m, u

\* The fragments of the K pieces of a body, joined as far as f[k].
Pieced(K, f, type, body, size) ==
    /\ SplitRecord(type, body, size) = f[K]
    /\ (K - 1) * size < Len(body) /\ Len(body) <= K * size
    /\ \A k \in 1 .. K : (k - 1) * size < Len(body)
    /\ f[1] = Fragment(type, Cut(body, size, 1))
    /\ \A k \in 2 .. K : f[k] = f[k - 1] \o Fragment(type, Cut(body, size, k))

\* A body that is not empty goes out in some K pieces.
LEMMA Pieces ==
    ASSUME NEW type \in Nat, NEW body \in Seq(Nat), body # <<>>, NEW size \in Nat \ {0}
    PROVE  \E K \in Nat \ {0} : \E f \in [1 .. K -> Seq(Nat)] : Pieced(K, f, type, body, size)
  <1> DEFINE K == (Len(body) + size - 1) \div size
             s == [k \in 1 .. K |-> Fragment(type, Cut(body, size, k))]
  <1>1. SplitRecord(type, body, size) = FlattenSeq(s)
    BY DEF SplitRecord, Fragment, Cut, Until
  <1>2. K \in Nat \ {0} /\ (K - 1) * size < Len(body) /\ Len(body) <= K * size
    <2>1. Len(body) \in Nat /\ Len(body) >= 1
      OBVIOUS
    <2> QED BY ONLY <2>1, Division, size \in Nat \ {0} DEF K
  <1> HIDE DEF K
  <1>3. ASSUME NEW k \in 1 .. K PROVE (k - 1) * size < Len(body)
    <2>1. (k - 1) * size <= (K - 1) * size
      <3>1. (K - k) * size \in Nat /\ (K - 1) * size = (k - 1) * size + (K - k) * size
        BY <1>2
      <3>2. (k - 1) * size \in Int
        BY <1>2
      <3> QED BY <3>1, <3>2
    <2>2. (k - 1) * size \in Int /\ (K - 1) * size \in Int /\ Len(body) \in Int
      BY <1>2
    <2> QED BY <1>2, <2>1, <2>2
  <1>4. \A k \in 1 .. K : Fragment(type, Cut(body, size, k)) \in Seq(Nat)
    <2> SUFFICES ASSUME NEW k \in 1 .. K
                 PROVE  Fragment(type, Cut(body, size, k)) \in Seq(Nat)
      OBVIOUS
    <2>1. k \in Nat \ {0}
      BY <1>2
    <2>2. Cut(body, size, k) \in Seq(Nat)
      BY <1>3, <2>1, CutTyped
    <2> QED BY <2>2, FragmentTyped
  <1>5. s \in Seq(Seq(Nat)) /\ Len(s) = K
    <2>1. s \in [1 .. K -> Seq(Nat)]
      BY <1>4
    <2> HIDE DEF s
    <2> QED BY <1>2, <2>1
  <1>6. /\ s[1] = Fragment(type, Cut(body, size, 1))
        /\ \A k \in 2 .. K : s[k] = Fragment(type, Cut(body, size, k))
    BY <1>2
  <1> HIDE DEF s
  <1>7. PICK f \in [1 .. K -> Seq(Nat)] :
          /\ FlattenSeq(s) = f[K] /\ f[1] = s[1]
          /\ \A i \in 2 .. K : f[i] = f[i - 1] \o s[i]
    BY <1>2, <1>5, Flatten
  <1>8. \A k \in 2 .. K : f[k] = f[k - 1] \o Fragment(type, Cut(body, size, k))
    BY <1>6, <1>7
  <1>9. Pieced(K, f, type, body, size)
    BY <1>1, <1>2, <1>3, <1>6, <1>7, <1>8 DEF Pieced
  <1> QED BY <1>2, <1>9

\* SplitRecord yields units.
LEMMA SplitTyped ==
    ASSUME NEW type \in Nat, NEW body \in Seq(Nat), NEW size \in Nat \ {0}
    PROVE  SplitRecord(type, body, size) \in Seq(Nat)
  <1>1. CASE body = <<>>
    BY <1>1 DEF SplitRecord
  <1>2. CASE body # <<>>
    <2>1. PICK K \in Nat \ {0} : \E f \in [1 .. K -> Seq(Nat)] : Pieced(K, f, type, body, size)
      BY <1>2, Pieces
    <2>2. PICK f \in [1 .. K -> Seq(Nat)] : Pieced(K, f, type, body, size)
      BY <2>1
    <2>3. SplitRecord(type, body, size) = f[K] /\ K \in 1 .. K
      BY <2>2 DEF Pieced
    <2> QED BY <2>3
  <1> QED BY <1>1, <1>2

\* A record that is no longer than configured stays as it is.
LEMMA SmallRecord ==
    ASSUME NEW type \in Nat, NEW body \in Seq(Nat), NEW size \in Nat \ {0},
           Len(body) <= size
    PROVE  SplitRecord(type, body, size) = Fragment(type, body)
  <1>1. CASE body = <<>>
    <2>1. SplitRecord(type, body, size) = <<type, 0>>
      BY <1>1 DEF SplitRecord
    <2>2. <<type, 0>> \in Seq(Nat) /\ Len(body) = 0
      BY <1>1
    <2>3. <<type, 0>> \o <<>> = <<type, 0>>
      BY <2>2, ConcatEmptySeq
    <2>4. Fragment(type, body) = <<type, 0>> \o <<>>
      BY <1>1, <2>2 DEF Fragment
    <2> QED BY <2>1, <2>3, <2>4
  <1>2. CASE body # <<>>
    <2>1. PICK K \in Nat \ {0} : \E f \in [1 .. K -> Seq(Nat)] : Pieced(K, f, type, body, size)
      BY <1>2, Pieces
    <2>6. PICK f \in [1 .. K -> Seq(Nat)] : Pieced(K, f, type, body, size)
      BY <2>1
    <2>2. K = 1
      <3> SUFFICES ASSUME K >= 2 PROVE FALSE
        OBVIOUS
      <3>1. (K - 2) * size \in Nat /\ (K - 1) * size = (K - 2) * size + size
        OBVIOUS
      <3>2. (K - 1) * size < Len(body)
        BY <2>6 DEF Pieced
      <3>3. Len(body) \in Nat
        OBVIOUS
      <3>4. size <= (K - 1) * size /\ (K - 1) * size \in Nat
        BY <3>1
      <3> QED BY ONLY <3>2, <3>3, <3>4, Len(body) <= size, size \in Nat
    <2>3. Cut(body, size, 1) = SubSeq(body, 1, Len(body))
      <3>1. (1 - 1) * size = 0 /\ 1 * size = size /\ Len(body) \in Nat
        OBVIOUS
      <3>2. Until(body, size, 1) = Len(body)
        BY <3>1 DEF Until
      <3> QED BY <3>1, <3>2 DEF Cut
    <2>4. SubSeq(body, 1, Len(body)) = body
      BY SubSeqFull
    <2>5. SplitRecord(type, body, size) = Fragment(type, Cut(body, size, 1))
      BY <2>6, <2>2 DEF Pieced
    <2> QED BY <2>3, <2>4, <2>5
  <1> QED BY <1>1, <1>2

-----------------------------------------------------------------------------
\* One function's values from 1 on are another's from m + 1 on.
Aligned(m, n, last, next, base, step, lastg, nextg, baseg, stepg) ==
    \A o \in 1 .. n :
        /\ m + o \in lastg <=> o \in last
        /\ o \in last => baseg[m + o] = base[o]
        /\ o \notin last =>
             /\ next[o] \in o + 1 .. n /\ nextg[m + o] = m + next[o]
             /\ stepg[m + o] = step[o]

\* So the two agree from there on.
LEMMA Shifted ==
    ASSUME NEW m \in Nat, NEW n \in Nat,
           NEW f, NEW last, NEW next, NEW base, NEW step,
           NEW g, NEW lastg, NEW nextg, NEW baseg, NEW stepg,
           Backwards(f, 1, n, last, next, base, step),
           Backwards(g, 1, m + n, lastg, nextg, baseg, stepg),
           Aligned(m, n, last, next, base, step, lastg, nextg, baseg, stepg)
    PROVE  \A o \in 1 .. n : g[m + o] = f[o]
  <1>0. \A o \in 1 .. n :
            /\ m + o \in lastg <=> o \in last
            /\ o \in last => baseg[m + o] = base[o]
            /\ o \notin last =>
                 /\ next[o] \in o + 1 .. n /\ nextg[m + o] = m + next[o]
                 /\ stepg[m + o] = step[o]
    BY DEF Aligned
  <1> DEFINE S == {o \in 1 .. n : g[m + o] = f[o]}
  <1>1. ASSUME NEW o \in 1 .. n, \A k \in 1 .. n : k > o => k \in S
        PROVE  o \in S
    <2>1. /\ m + o \in 1 .. m + n
          /\ g[m + o] = IF m + o \in lastg THEN baseg[m + o] ELSE stepg[m + o][g[nextg[m + o]]]
          /\ f[o] = IF o \in last THEN base[o] ELSE step[o][f[next[o]]]
      <3>1. m + o \in 1 .. m + n
        OBVIOUS
      <3> QED BY <3>1 DEF Backwards
    <2>2. CASE o \in last
      BY <1>0, <2>1, <2>2
    <2>3. CASE o \notin last
      <3>1. next[o] \in o + 1 .. n /\ nextg[m + o] = m + next[o]
        BY <1>0, <2>3
      <3>2. g[m + next[o]] = f[next[o]]
        <4>1. next[o] \in 1 .. n /\ next[o] > o
          BY <3>1
        <4> QED BY <1>1, <4>1
      <3>3. g[m + o] = stepg[m + o][g[nextg[m + o]]] /\ f[o] = step[o][f[next[o]]]
        BY <1>0, <2>1, <2>3
      <3>4. stepg[m + o] = step[o]
        BY <1>0, <2>3
      <3>5. g[m + o] = f[o]
        BY <3>1, <3>2, <3>3, <3>4
      <3> QED BY <3>5
    <2> QED BY <2>2, <2>3
  <1> HIDE DEF S
  <1>2. 1 .. n \subseteq S
    BY <1>1, Downwards
  <1> QED BY <1>2 DEF S

\* What is behind p.
LEMMA Suffix ==
    ASSUME NEW p \in Seq(Nat), NEW r \in Seq(Nat)
    PROVE  /\ p \o r \in Seq(Nat) /\ Len(p \o r) = Len(p) + Len(r)
           /\ \A i \in 1 .. Len(p) : (p \o r)[i] = p[i]
           /\ \A i \in 1 .. Len(r) : (p \o r)[Len(p) + i] = r[i]
           /\ \A a \in 1 .. Len(r) + 1, b \in 0 .. Len(r) :
                SubSeq(p \o r, Len(p) + a, Len(p) + b) = SubSeq(r, a, b)
  <1> DEFINE q == p \o r
  <1>1. /\ q \in Seq(Nat) /\ Len(q) = Len(p) + Len(r) /\ Len(p) \in Nat /\ Len(r) \in Nat
        /\ \A i \in 1 .. Len(p) + Len(r) : q[i] = IF i <= Len(p) THEN p[i] ELSE r[i - Len(p)]
    BY ConcatProperties
  <1> HIDE DEF q
  <1>2. \A i \in 1 .. Len(p) : q[i] = p[i]
    BY <1>1
  <1>3. ASSUME NEW i \in 1 .. Len(r) PROVE q[Len(p) + i] = r[i]
    <2>1. Len(p) + i \in 1 .. Len(p) + Len(r) /\ ~(Len(p) + i <= Len(p)) /\ (Len(p) + i) - Len(p) = i
      BY <1>1
    <2> QED BY <1>1, <2>1
  <1>4. ASSUME NEW a \in 1 .. Len(r) + 1, NEW b \in 0 .. Len(r)
        PROVE  SubSeq(q, Len(p) + a, Len(p) + b) = SubSeq(r, a, b)
    <2> DEFINE N == IF a <= b THEN b - a + 1 ELSE 0
    <2>1. /\ SubSeq(r, a, b) \in Seq(Nat) /\ Len(SubSeq(r, a, b)) = N
          /\ \A i \in 1 .. b - a + 1 : SubSeq(r, a, b)[i] = r[a + i - 1]
      <3>1. \A i \in a .. b : r[i] \in Nat
        <4>1. \A i \in 1 .. Len(r) : r[i] \in Nat
          OBVIOUS
        <4>2. 1 <= a /\ b <= Len(r) /\ a \in Int /\ b \in Int /\ Len(r) \in Nat
          BY <1>1
        <4> QED BY ONLY <4>1, <4>2
      <3> QED BY <3>1, SubSeqProperties
    <2>2. /\ SubSeq(q, Len(p) + a, Len(p) + b) \in Seq(Nat)
          /\ Len(SubSeq(q, Len(p) + a, Len(p) + b)) = N
          /\ \A i \in 1 .. b - a + 1 : SubSeq(q, Len(p) + a, Len(p) + b)[i] = q[Len(p) + (a + i - 1)]
      <3>0. Len(p) + a \in Int /\ Len(p) + b \in Int
        BY <1>1
      <3>1. PICK c \in Int, d \in Int : c = Len(p) + a /\ d = Len(p) + b
        BY ONLY <3>0, Zenon
      <3>2. /\ (c <= d <=> a <= b) /\ d - c + 1 = b - a + 1
            /\ \A i \in 1 .. b - a + 1 : c + i - 1 = Len(p) + (a + i - 1)
        BY <1>1, <3>1
      <3>3. \A i \in c .. d : q[i] \in Nat
        <4>1. \A i \in 1 .. Len(p) + Len(r) : q[i] \in Nat
          BY <1>1
        <4>2. 1 <= c /\ d <= Len(p) + Len(r) /\ Len(p) + Len(r) \in Int
          BY <1>1, <3>1
        <4> QED BY ONLY <4>1, <4>2, c \in Int, d \in Int
      <3>4. /\ SubSeq(q, c, d) \in Seq(Nat)
            /\ Len(SubSeq(q, c, d)) = IF c <= d THEN d - c + 1 ELSE 0
            /\ \A i \in 1 .. d - c + 1 : SubSeq(q, c, d)[i] = q[c + i - 1]
        BY ONLY <3>3, c \in Int, d \in Int, SubSeqProperties
      <3> QED BY ONLY <3>1, <3>2, <3>4
    <2>3. ASSUME NEW i \in 1 .. N
          PROVE  SubSeq(q, Len(p) + a, Len(p) + b)[i] = SubSeq(r, a, b)[i]
      <3>1. i \in 1 .. b - a + 1 /\ a + i - 1 \in 1 .. Len(r)
        BY <1>1
      <3>2. q[Len(p) + (a + i - 1)] = r[a + i - 1]
        BY <1>3, <3>1
      <3> HIDE DEF N
      <3> QED BY ONLY <2>1, <2>2, <3>1, <3>2
    <2> HIDE DEF N
    <2> QED BY ONLY <2>1, <2>2, <2>3, SeqEqual
  <1> QED BY <1>1, <1>2, <1>3, <1>4 DEF q

-----------------------------------------------------------------------------
\* The record at o, and where the next one begins.
Record(data, o) == SubSeq(data, o + 2, o + 1 + data[o + 1])

After(data) == [o \in 1 .. Len(data) + 1 |-> o + 1 + data[o + 1] + 1]

\* fragment_payload as such a function.
PayloadBody(f, data, size, o) ==
    IF o = Len(data) + 1 THEN <<>>
    ELSE IF o = Len(data) \/ o + 1 + data[o + 1] > Len(data) THEN None
    ELSE LET end   == o + 1 + data[o + 1]
             later == f[end + 1]
         IN  IF later = None THEN None
             ELSE SplitRecord(data[o], SubSeq(data, o + 2, end), size) \o later

PayloadDef(f, data, size) == f = [o \in 1 .. Len(data) + 1 |-> PayloadBody(f, data, size, o)]

PayloadEnds(data) ==
    {o \in 1 .. Len(data) + 1 : o >= Len(data) \/ o + 1 + data[o + 1] > Len(data)}

PayloadBase(data) ==
    [o \in 1 .. Len(data) + 1 |-> IF o = Len(data) + 1 THEN <<>> ELSE None]

PayloadStep(data, size) ==
    [o \in 1 .. Len(data) + 1 |->
        [v \in {None} \cup Seq(Nat) |->
            IF v = None THEN None ELSE SplitRecord(data[o], Record(data, o), size) \o v]]

PayloadIs(f, data, size) ==
    /\ f \in [1 .. Len(data) + 1 -> {None} \cup Seq(Nat)]
    /\ Backwards(f, 1, Len(data) + 1, PayloadEnds(data), After(data), PayloadBase(data),
                 PayloadStep(data, size))

\* A record that ends within data.
LEMMA RecordTyped ==
    ASSUME NEW data \in Seq(Nat), NEW o \in 1 .. Len(data) + 1, o < Len(data),
           o + 1 + data[o + 1] <= Len(data)
    PROVE  /\ data[o] \in Nat /\ data[o + 1] \in Nat
           /\ Record(data, o) \in Seq(Nat) /\ Len(Record(data, o)) = data[o + 1]
           /\ After(data)[o] = o + 1 + data[o + 1] + 1
           /\ After(data)[o] \in o + 1 .. Len(data) + 1
  <1>1. /\ Len(data) \in Nat /\ data[o] \in Nat /\ data[o + 1] \in Nat
    OBVIOUS
  <1> DEFINE m == o + 1
             n == o + 1 + data[o + 1]
  <1>2. m \in Nat /\ n \in Nat /\ m <= n /\ n <= Len(data) /\ n - m = data[o + 1] /\ m + 1 = o + 2
    BY <1>1
  <1> HIDE DEF m, n
  <1>3. SubSeq(data, m + 1, n) \in Seq(Nat) /\ Len(SubSeq(data, m + 1, n)) = n - m
    <2>1. data \in Seq(Nat) /\ m \in Nat /\ n \in Nat /\ m <= n /\ n <= Len(data)
      BY <1>2
    <2> QED BY ONLY <2>1, Piece
  <1>4. Record(data, o) = SubSeq(data, m + 1, n)
    BY <1>2 DEF Record, n
  <1>5. After(data)[o] = o + 1 + data[o + 1] + 1
    BY DEF After
  <1>6. o + 1 + data[o + 1] + 1 \in o + 1 .. Len(data) + 1
    <2>1. PICK k \in Nat, l \in Nat : k = data[o + 1] /\ l = Len(data)
      BY <1>1
    <2>2. o + 1 + k <= l /\ o \in 1 .. l + 1
      BY <2>1
    <2>3. o + 1 + k + 1 \in o + 1 .. l + 1
      BY ONLY <2>1, <2>2
    <2> QED BY ONLY <2>1, <2>3
  <1> QED BY <1>1, <1>2, <1>3, <1>4, <1>5, <1>6

\* Each position's value is of the type, given a later one that is.
LEMMA PayloadAt ==
    ASSUME NEW data \in Seq(Nat), NEW size \in Nat \ {0}, NEW o \in 1 .. Len(data) + 1
    PROVE  IF o \in PayloadEnds(data) THEN PayloadBase(data)[o] \in {None} \cup Seq(Nat)
           ELSE /\ After(data)[o] \in o + 1 .. Len(data) + 1
                /\ \A v \in {None} \cup Seq(Nat) :
                     PayloadStep(data, size)[o][v] \in {None} \cup Seq(Nat)
  <1>1. CASE o \in PayloadEnds(data)
    BY <1>1 DEF PayloadBase
  <1>2. CASE o \notin PayloadEnds(data)
    <2>1. o < Len(data) /\ o + 1 + data[o + 1] <= Len(data)
      <3>1. ~(o >= Len(data)) /\ ~(o + 1 + data[o + 1] > Len(data))
        BY <1>2 DEF PayloadEnds
      <3>2. Len(data) \in Nat /\ o < Len(data)
        BY <3>1
      <3>3. data[o + 1] \in Nat
        BY <3>2
      <3> QED BY <3>1, <3>2, <3>3
    <2>2. /\ data[o] \in Nat /\ Record(data, o) \in Seq(Nat)
          /\ After(data)[o] \in o + 1 .. Len(data) + 1
      BY <2>1, RecordTyped
    <2>3. SplitRecord(data[o], Record(data, o), size) \in Seq(Nat)
      BY <2>2, SplitTyped
    <2>4. ASSUME NEW v \in {None} \cup Seq(Nat)
          PROVE  PayloadStep(data, size)[o][v] \in {None} \cup Seq(Nat)
      <3>1. PayloadStep(data, size)[o][v]
              = IF v = None THEN None ELSE SplitRecord(data[o], Record(data, o), size) \o v
        BY DEF PayloadStep
      <3>2. v # None => SplitRecord(data[o], Record(data, o), size) \o v \in Seq(Nat)
        BY <2>3, ConcatProperties
      <3> QED BY <3>1, <3>2
    <2> QED BY <1>2, <2>2, <2>4
  <1> QED BY <1>1, <1>2

\* The two ways to write the value at o.
LEMMA PayloadForm ==
    ASSUME NEW data \in Seq(Nat), NEW size \in Nat \ {0}, NEW f, NEW o \in 1 .. Len(data) + 1,
           o \notin PayloadEnds(data) => f[After(data)[o]] \in {None} \cup Seq(Nat)
    PROVE  (IF o \in PayloadEnds(data) THEN PayloadBase(data)[o]
            ELSE PayloadStep(data, size)[o][f[After(data)[o]]])
           = PayloadBody(f, data, size, o)
  <1>1. Len(data) \in Nat
    OBVIOUS
  <1>2. CASE o \in PayloadEnds(data)
    <2>1. o >= Len(data) \/ o + 1 + data[o + 1] > Len(data)
      BY <1>2 DEF PayloadEnds
    <2>2. PayloadBase(data)[o] = IF o = Len(data) + 1 THEN <<>> ELSE None
      BY DEF PayloadBase
    <2> QED BY <1>1, <1>2, <2>1, <2>2 DEF PayloadBody
  <1>3. CASE o \notin PayloadEnds(data)
    <2>1. ~(o >= Len(data)) /\ ~(o + 1 + data[o + 1] > Len(data))
      BY <1>3 DEF PayloadEnds
    <2>2. o # Len(data) + 1 /\ o # Len(data)
      BY <1>1, <2>1
    <2>3. After(data)[o] = o + 1 + data[o + 1] + 1
      BY DEF After
    <2>4. \A v \in {None} \cup Seq(Nat) : PayloadStep(data, size)[o][v]
              = IF v = None THEN None ELSE SplitRecord(data[o], Record(data, o), size) \o v
      BY DEF PayloadStep
    <2>5. Record(data, o) = SubSeq(data, o + 2, o + 1 + data[o + 1])
      BY DEF Record
    <2> DEFINE v == f[o + 1 + data[o + 1] + 1]
    <2>6. v \in {None} \cup Seq(Nat)
      BY <1>3, <2>3
    <2>7. PayloadStep(data, size)[o][f[After(data)[o]]]
            = IF v = None THEN None
              ELSE SplitRecord(data[o], SubSeq(data, o + 2, o + 1 + data[o + 1]), size) \o v
      BY <2>3, <2>4, <2>5, <2>6
    <2> QED BY ONLY <1>3, <2>1, <2>2, <2>7, Zenon DEF PayloadBody
  <1> QED BY <1>2, <1>3

\* fragment_payload's function is that one.
LEMMA PayloadKnown ==
    ASSUME NEW data \in Seq(Nat), NEW size \in Nat \ {0}
    PROVE  \E f : FragmentPayload(data, size) = f[1] /\ PayloadIs(f, data, size)
  <1> DEFINE n == Len(data) + 1
             V == {None} \cup Seq(Nat)
  <1>0. n \in Nat /\ 1 \in 1 .. n
    OBVIOUS
  <1>1. PICK g \in [1 .. n -> V] :
          Backwards(g, 1, n, PayloadEnds(data), After(data), PayloadBase(data), PayloadStep(data, size))
    <2>1. \A o \in 1 .. n : IF o \in PayloadEnds(data) THEN PayloadBase(data)[o] \in V
                            ELSE /\ After(data)[o] \in o + 1 .. n
                                 /\ \A v \in V : PayloadStep(data, size)[o][v] \in V
      BY PayloadAt
    <2> HIDE DEF n, V
    <2> QED BY <1>0, <2>1, DefinedBackwards
  <1>2. ASSUME NEW o \in 1 .. n PROVE o \notin PayloadEnds(data) => After(data)[o] \in o + 1 .. n
    BY PayloadAt
  <1>3. PayloadDef(g, data, size)
    <2>1. ASSUME NEW o \in 1 .. n
          PROVE  g[o] = PayloadBody(g, data, size, o)
      <3>1. g[o] = IF o \in PayloadEnds(data) THEN PayloadBase(data)[o]
                   ELSE PayloadStep(data, size)[o][g[After(data)[o]]]
        BY <1>1 DEF Backwards
      <3>2. o \notin PayloadEnds(data) => g[After(data)[o]] \in V
        BY <1>1, <1>2
      <3> QED BY <3>1, <3>2, PayloadForm
    <2>2. g = [o \in 1 .. n |-> g[o]]
      BY <1>1
    <2> QED BY <2>1, <2>2 DEF PayloadDef
  <1> DEFINE f == CHOOSE f : PayloadDef(f, data, size)
  <1>4. PayloadDef(f, data, size)
    BY <1>3
  <1>5. FragmentPayload(data, size) = f[1]
    BY DEF FragmentPayload, PayloadDef, PayloadBody
  <1> HIDE DEF f
  <1>6. \A o \in 1 .. n : f[o] = g[o]
    <2> DEFINE S == {o \in 1 .. n : f[o] = g[o]}
    <2>1. ASSUME NEW o \in 1 .. n, \A k \in 1 .. n : k > o => k \in S
          PROVE  o \in S
      <3>1. /\ o \notin PayloadEnds(data) => f[After(data)[o]] = g[After(data)[o]]
            /\ o \notin PayloadEnds(data) => f[After(data)[o]] \in V
        <4>1. o \notin PayloadEnds(data) => After(data)[o] \in 1 .. n /\ After(data)[o] > o
          BY <1>2
        <4> QED BY <1>1, <2>1, <4>1
      <3>2. f[o] = PayloadBody(f, data, size, o)
        BY <1>4 DEF PayloadDef
      <3>3. f[o] = IF o \in PayloadEnds(data) THEN PayloadBase(data)[o]
                   ELSE PayloadStep(data, size)[o][f[After(data)[o]]]
        BY <3>1, <3>2, PayloadForm
      <3>4. g[o] = IF o \in PayloadEnds(data) THEN PayloadBase(data)[o]
                   ELSE PayloadStep(data, size)[o][g[After(data)[o]]]
        BY <1>1 DEF Backwards
      <3>5. f[o] = g[o]
        BY <3>1, <3>3, <3>4
      <3> QED BY <3>5
    <2> HIDE DEF S
    <2>2. 1 .. n \subseteq S
      BY <1>0, <2>1, Downwards
    <2> QED BY <2>2 DEF S
  <1>7. FragmentPayload(data, size) = g[1]
    BY <1>0, <1>5, <1>6
  <1> QED BY <1>1, <1>7 DEF PayloadIs

\* What is behind p is fragmented as if it were alone.
LEMMA PayloadTail ==
    ASSUME NEW p \in Seq(Nat), NEW r \in Seq(Nat), NEW size \in Nat \ {0},
           NEW g, PayloadIs(g, p \o r, size)
    PROVE  g[Len(p) + 1] = FragmentPayload(r, size)
  <1> DEFINE q == p \o r
             m == Len(p)
             n == Len(r) + 1
  <1>1. PICK f : FragmentPayload(r, size) = f[1] /\ PayloadIs(f, r, size)
    BY PayloadKnown
  <1>8. Len(q) = m + Len(r) /\ m \in Nat /\ Len(r) \in Nat
    BY Suffix
  <1>2. Len(q) = m + Len(r) /\ m \in Nat /\ Len(r) \in Nat /\ Len(q) \in Nat
    <2> HIDE DEF q, m
    <2> QED BY ONLY <1>8
  <1>9. \A i \in 1 .. Len(r) : q[m + i] = r[i]
    BY Suffix
  <1>10. \A a \in 1 .. Len(r) + 1, b \in 0 .. Len(r) : SubSeq(q, m + a, m + b) = SubSeq(r, a, b)
    BY Suffix
  <1> HIDE DEF q, m
  <1>3. ASSUME NEW o \in 1 .. n
        PROVE  /\ m + o \in PayloadEnds(q) <=> o \in PayloadEnds(r)
               /\ o \in PayloadEnds(r) => PayloadBase(q)[m + o] = PayloadBase(r)[o]
               /\ o \notin PayloadEnds(r) =>
                    /\ After(r)[o] \in o + 1 .. n /\ After(q)[m + o] = m + After(r)[o]
                    /\ PayloadStep(q, size)[m + o] = PayloadStep(r, size)[o]
    <2>0. o \in Nat /\ 1 <= o /\ o <= Len(r) + 1
      BY <1>2
    <2>1. /\ m + o \in 1 .. Len(q) + 1 /\ (m + o >= Len(q) <=> o >= Len(r))
          /\ (m + o = Len(q) + 1 <=> o = Len(r) + 1)
      <3>1. m + o \in 1 .. Len(q) + 1
        BY ONLY <1>2, <2>0
      <3>2. (m + o >= Len(q)) <=> (o >= Len(r))
        BY ONLY <1>2, <2>0
      <3>3. (m + o = Len(q) + 1) <=> (o = Len(r) + 1)
        <4>1. m + o <= Len(q) + 1 /\ o <= Len(r) + 1
          BY ONLY <1>2, <2>0
        <4>2. (m + o >= Len(q) + 1) <=> (o >= Len(r) + 1)
          BY ONLY <1>2, <2>0
        <4>3. m + o \in Int /\ Len(q) + 1 \in Int /\ Len(r) + 1 \in Int
          BY ONLY <1>2, <2>0
        <4> DEFINE x == m + o
                   y == Len(q) + 1
                   z == Len(r) + 1
        <4> HIDE DEF x, y, z
        <4>4. (x = y) <=> (o = z)
          BY ONLY <2>0, <4>1, <4>2, <4>3 DEF x, y, z
        <4> QED BY <4>4 DEF x, y, z
      <3> QED BY ONLY <3>1, <3>2, <3>3
    <2>2. ASSUME o < Len(r)
          PROVE  /\ q[m + o] = r[o] /\ q[m + o + 1] = r[o + 1] /\ r[o + 1] \in Nat
                 /\ (m + o + 1 + q[m + o + 1] > Len(q) <=> o + 1 + r[o + 1] > Len(r))
      <3>1. o \in 1 .. Len(r) /\ o + 1 \in 1 .. Len(r) /\ m + (o + 1) = m + o + 1
        BY ONLY <1>2, <2>0, <2>2
      <3>2. q[m + o] = r[o] /\ q[m + o + 1] = r[o + 1] /\ r[o + 1] \in Nat
        BY <1>9, <3>1
      <3> DEFINE c == r[o + 1]
                 d == q[m + o + 1]
      <3>3. c = d /\ c \in Nat
        BY <3>2
      <3> HIDE DEF c, d
      <3>4. m + o + 1 + d > Len(q) <=> o + 1 + c > Len(r)
        BY ONLY <1>2, <2>0, <3>3
      <3> QED BY <3>2, <3>4 DEF c, d
    <2>3. m + o \in PayloadEnds(q) <=> o \in PayloadEnds(r)
      <3>1. CASE o >= Len(r)
        BY <2>1, <3>1 DEF PayloadEnds
      <3>2. CASE o < Len(r)
        <4>1. (m + o + 1 + q[m + o + 1] > Len(q) <=> o + 1 + r[o + 1] > Len(r))
          BY <2>2, <3>2
        <4>2. ~(m + o >= Len(q)) /\ ~(o >= Len(r))
          BY <1>2, <2>1, <3>2
        <4> QED BY <2>1, <4>1, <4>2, Zenon DEF PayloadEnds
      <3> QED BY <1>2, <3>1, <3>2
    <2>4. PayloadBase(q)[m + o] = PayloadBase(r)[o]
      BY <2>1 DEF PayloadBase
    <2>5. ASSUME o \notin PayloadEnds(r)
          PROVE  /\ After(r)[o] \in o + 1 .. n /\ After(q)[m + o] = m + After(r)[o]
                 /\ PayloadStep(q, size)[m + o] = PayloadStep(r, size)[o]
      <3>1. o < Len(r) /\ o + 1 + r[o + 1] <= Len(r)
        <4>1. ~(o >= Len(r)) /\ ~(o + 1 + r[o + 1] > Len(r))
          BY <2>5 DEF PayloadEnds
        <4>2. o < Len(r)
          BY ONLY <1>2, <2>0, <4>1
        <4>3. r[o + 1] \in Nat
          BY <2>2, <4>2
        <4> QED BY ONLY <1>2, <2>0, <4>1, <4>2, <4>3
      <3>2. After(r)[o] = o + 1 + r[o + 1] + 1 /\ After(r)[o] \in o + 1 .. n
        BY <3>1, RecordTyped
      <3>3. After(q)[m + o] = m + o + 1 + q[m + o + 1] + 1
        BY <2>1 DEF After
      <3>4. q[m + o] = r[o] /\ q[m + o + 1] = r[o + 1] /\ r[o + 1] \in Nat
        BY <2>2, <3>1
      <3>5. After(q)[m + o] = m + After(r)[o]
        <4> DEFINE c == r[o + 1]
                   d == q[m + o + 1]
        <4>1. c = d /\ c \in Nat
          BY <3>4
        <4> HIDE DEF c, d
        <4>2. m + o + 1 + d + 1 = m + (o + 1 + c + 1)
          BY ONLY <1>2, <2>0, <4>1
        <4> QED BY <3>2, <3>3, <4>2 DEF c, d
      <3>6. Record(q, m + o) = Record(r, o)
        <4>1. /\ o + 2 \in 1 .. Len(r) + 1 /\ o + 1 + r[o + 1] \in 0 .. Len(r)
              /\ m + (o + 2) = m + o + 2 /\ m + (o + 1 + r[o + 1]) = m + o + 1 + q[m + o + 1]
          <5> DEFINE c == r[o + 1]
                     d == q[m + o + 1]
          <5>1. c = d /\ c \in Nat /\ o + 1 + c <= Len(r)
            BY <3>1, <3>4
          <5> HIDE DEF c, d
          <5>2. /\ o + 2 \in 1 .. Len(r) + 1 /\ o + 1 + c \in 0 .. Len(r)
                /\ m + (o + 2) = m + o + 2 /\ m + (o + 1 + c) = m + o + 1 + d
            BY ONLY <1>2, <2>0, <3>1, <5>1
          <5> QED BY <5>2 DEF c, d
        <4>2. SubSeq(q, m + (o + 2), m + (o + 1 + r[o + 1])) = SubSeq(r, o + 2, o + 1 + r[o + 1])
          BY <1>10, <4>1
        <4>3. Record(q, m + o) = SubSeq(q, m + o + 2, m + o + 1 + q[m + o + 1])
          BY DEF Record
        <4> QED BY <4>1, <4>2, <4>3 DEF Record
      <3>7. PayloadStep(q, size)[m + o] = PayloadStep(r, size)[o]
        <4>1. PayloadStep(q, size)[m + o] = [v \in {None} \cup Seq(Nat) |->
                IF v = None THEN None ELSE SplitRecord(q[m + o], Record(q, m + o), size) \o v]
          BY <2>1 DEF PayloadStep
        <4>2. PayloadStep(r, size)[o] = [v \in {None} \cup Seq(Nat) |->
                IF v = None THEN None ELSE SplitRecord(r[o], Record(r, o), size) \o v]
          BY DEF PayloadStep
        <4> QED BY <3>4, <3>6, <4>1, <4>2
      <3> QED BY <3>2, <3>5, <3>7
    <2> QED BY <2>3, <2>4, <2>5
  <1>4. /\ Backwards(f, 1, n, PayloadEnds(r), After(r), PayloadBase(r), PayloadStep(r, size))
        /\ Backwards(g, 1, m + n, PayloadEnds(q), After(q), PayloadBase(q), PayloadStep(q, size))
    <2>1. Len(q) + 1 = m + n
      BY <1>2
    <2> QED BY <1>1, <2>1 DEF PayloadIs, q
  <1>5. n \in Nat /\ 1 \in 1 .. n
    BY <1>2
  <1>11. Aligned(m, n, PayloadEnds(r), After(r), PayloadBase(r), PayloadStep(r, size),
                PayloadEnds(q), After(q), PayloadBase(q), PayloadStep(q, size))
    <2> HIDE DEF n
    <2> QED BY ONLY <1>3 DEF Aligned
  <1> HIDE DEF n
  <1>6. \A o \in 1 .. n : g[m + o] = f[o]
    <2>1. m \in Nat
      BY <1>2
    <2> HIDE DEF m
    <2> QED BY ONLY <1>4, <1>5, <1>11, <2>1, Shifted
  <1>7. g[m + 1] = f[1]
    BY <1>5, <1>6
  <1> QED BY <1>1, <1>7 DEF m

\* No data, no fragments.
LEMMA PayloadNothing ==
    ASSUME NEW size \in Nat \ {0}
    PROVE  FragmentPayload(<<>>, size) = <<>>
  <1>1. <<>> \in Seq(Nat) /\ Len(<<>>) = 0
    OBVIOUS
  <1>2. PICK f : FragmentPayload(<<>>, size) = f[1] /\ PayloadIs(f, <<>>, size)
    BY <1>1, PayloadKnown
  <1>3. f[1] = IF 1 \in PayloadEnds(<<>>) THEN PayloadBase(<<>>)[1]
               ELSE PayloadStep(<<>>, size)[1][f[After(<<>>)[1]]]
    <2>1. 1 \in 1 .. Len(<<>>) + 1
      BY <1>1
    <2> QED BY <1>2, <2>1 DEF PayloadIs, Backwards
  <1>4. 1 \in PayloadEnds(<<>>)
    BY <1>1 DEF PayloadEnds
  <1>5. PayloadBase(<<>>)[1] = <<>>
    BY <1>1 DEF PayloadBase
  <1> QED BY <1>2, <1>3, <1>4, <1>5

\* A whole record in front.
LEMMA FrontRecord ==
    ASSUME NEW type \in Nat, NEW b \in Seq(Nat), NEW r \in Seq(Nat)
    PROVE  LET data == Fragment(type, b) \o r
           IN  /\ data \in Seq(Nat) /\ Len(data) = Len(b) + 2 + Len(r)
               /\ Len(b) \in Nat /\ Len(r) \in Nat
               /\ data[1] = type /\ data[2] = Len(b)
               /\ SubSeq(data, 3, Len(b) + 2) = b
  <1> DEFINE p == Fragment(type, b)
             data == p \o r
  <1>1. p \in Seq(Nat) /\ Len(p) = Len(b) + 2 /\ p[1] = type /\ p[2] = Len(b)
    BY FragmentTyped
  <1>2. Len(b) \in Nat /\ Len(r) \in Nat
    OBVIOUS
  <1>3. \A i \in 1 .. Len(b) : p[i + 2] = b[i]
    BY FragmentTyped
  <1> HIDE DEF p
  <1>4. data \in Seq(Nat) /\ Len(data) = Len(p) + Len(r)
    BY <1>1, Suffix
  <1>5. \A i \in 1 .. Len(p) : data[i] = p[i]
    BY <1>1, Suffix
  <1> HIDE DEF data
  <1>6. data[1] = type /\ data[2] = Len(b)
    BY <1>1, <1>2, <1>5
  <1>7. \A i \in 1 .. Len(b) : data[2 + i] = b[i]
    <2> TAKE i \in 1 .. Len(b)
    <2>1. i + 2 \in 1 .. Len(p) /\ 2 + i = i + 2
      BY <1>1, <1>2
    <2> QED BY <1>3, <1>5, <2>1
  <1>8. SubSeq(data, 3, Len(b) + 2) = b
    <2> DEFINE n == Len(b) + 2
    <2>1. n \in Nat /\ 2 <= n /\ n <= Len(data) /\ n - 2 = Len(b)
      BY <1>1, <1>2, <1>4
    <2> HIDE DEF n
    <2>2. /\ SubSeq(data, 3, n) \in Seq(Nat) /\ Len(SubSeq(data, 3, n)) = n - 2
          /\ \A i \in 1 .. n - 2 : SubSeq(data, 3, n)[i] = data[2 + i]
      <3>1. /\ data \in Seq(Nat) /\ 3 \in Nat \ {0} /\ n \in Nat /\ 3 - 1 <= n
            /\ n <= Len(data) /\ 3 - 1 = 2
        BY <1>4, <2>1
      <3> QED BY ONLY <3>1, PieceAt
    <2>3. SubSeq(data, 3, n) = b
      BY ONLY <1>7, <2>1, <2>2, SeqEqual, b \in Seq(Nat)
    <2> QED BY <2>1, <2>3 DEF n
  <1>9. Len(data) = Len(b) + 2 + Len(r)
    BY <1>1, <1>2, <1>4
  <1> QED BY <1>2, <1>4, <1>6, <1>8, <1>9 DEF data, p

\* A payload, unless it is None.
LEMMA PayloadTyped ==
    ASSUME NEW r \in Seq(Nat), NEW size \in Nat \ {0}, FragmentPayload(r, size) # None
    PROVE  FragmentPayload(r, size) \in Seq(Nat)
  <1>1. PICK f : FragmentPayload(r, size) = f[1] /\ PayloadIs(f, r, size)
    BY PayloadKnown
  <1>2. 1 \in 1 .. Len(r) + 1
    OBVIOUS
  <1>3. f[1] \in {None} \cup Seq(Nat)
    BY <1>1, <1>2 DEF PayloadIs
  <1> QED BY <1>1, <1>3

\* A whole record in front is split, if the rest is whole records.
LEMMA PayloadFront ==
    ASSUME NEW type \in Nat, NEW b \in Seq(Nat), NEW r \in Seq(Nat), NEW size \in Nat \ {0}
    PROVE  /\ FragmentPayload(r, size) = None =>
                FragmentPayload(Fragment(type, b) \o r, size) = None
           /\ FragmentPayload(r, size) # None =>
                FragmentPayload(Fragment(type, b) \o r, size)
                  = SplitRecord(type, b, size) \o FragmentPayload(r, size)
  <1> DEFINE p == Fragment(type, b)
             data == p \o r
  <1>1. /\ data \in Seq(Nat) /\ Len(data) = Len(b) + 2 + Len(r)
        /\ Len(b) \in Nat /\ Len(r) \in Nat
        /\ data[1] = type /\ data[2] = Len(b)
        /\ SubSeq(data, 3, Len(b) + 2) = b
    BY FrontRecord
  <1>2. p \in Seq(Nat) /\ Len(p) = Len(b) + 2
    BY FragmentTyped
  <1>3. PICK g : FragmentPayload(data, size) = g[1] /\ PayloadIs(g, data, size)
    <2> HIDE DEF data
    <2> QED BY <1>1, PayloadKnown
  <1>4. g[Len(p) + 1] = FragmentPayload(r, size)
    <2> HIDE DEF p
    <2> QED BY <1>2, <1>3, PayloadTail
  <1> HIDE DEF data, p
  <1>5. /\ 1 \in 1 .. Len(data) + 1 /\ 1 \notin PayloadEnds(data) /\ After(data)[1] = Len(p) + 1
        /\ Record(data, 1) = b
    <2>1. 1 \in 1 .. Len(data) + 1 /\ 1 < Len(data) /\ 1 + 1 = 2 /\ 1 + 2 = 3
      BY <1>1
    <2>2. 1 + 1 + data[2] = Len(b) + 2 /\ 1 + 1 + data[2] <= Len(data)
      BY <1>1
    <2>3. 1 \notin PayloadEnds(data)
      <3>1. ~(1 >= Len(data)) /\ ~(1 + 1 + data[2] > Len(data))
        BY <1>1, <2>1, <2>2
      <3> QED BY <2>1, <3>1 DEF PayloadEnds
    <2>4. After(data)[1] = Len(p) + 1
      BY <1>1, <1>2, <2>1, <2>2 DEF After
    <2>5. Record(data, 1) = b
      BY <1>1, <2>1, <2>2 DEF Record
    <2> QED BY <2>1, <2>3, <2>4, <2>5
  <1>6. g[1] = PayloadStep(data, size)[1][g[Len(p) + 1]] /\ g[Len(p) + 1] \in {None} \cup Seq(Nat)
    <2>1. g[1] = IF 1 \in PayloadEnds(data) THEN PayloadBase(data)[1]
                 ELSE PayloadStep(data, size)[1][g[After(data)[1]]]
      BY <1>3, <1>5 DEF PayloadIs, Backwards
    <2>2. Len(p) + 1 \in 1 .. Len(data) + 1
      BY <1>1, <1>2
    <2>3. g \in [1 .. Len(data) + 1 -> {None} \cup Seq(Nat)]
      BY <1>3 DEF PayloadIs
    <2> QED BY <1>5, <2>1, <2>2, <2>3
  <1> DEFINE v == g[Len(p) + 1]
  <1>7. PayloadStep(data, size)[1][v] = IF v = None THEN None ELSE SplitRecord(type, b, size) \o v
    <2>1. v \in {None} \cup Seq(Nat)
      BY <1>6
    <2> HIDE DEF v
    <2> QED BY <1>1, <1>5, <2>1 DEF PayloadStep
  <1>8. FragmentPayload(data, size) = IF v = None THEN None ELSE SplitRecord(type, b, size) \o v
    BY <1>3, <1>6, <1>7
  <1> QED BY ONLY <1>4, <1>8 DEF data, p

\* fragment_payload rewrites nothing but whole records.
LEMMA PayloadWhole ==
    ASSUME NEW data \in Seq(Nat), data # <<>>, NEW size \in Nat \ {0},
           FragmentPayload(data, size) # None
    PROVE  \E type \in Nat, b \in Seq(Nat), r \in Seq(Nat) :
              data = Fragment(type, b) \o r /\ Len(r) < Len(data)
  <1>1. PICK f : FragmentPayload(data, size) = f[1] /\ PayloadIs(f, data, size)
    BY PayloadKnown
  <1>2. Len(data) \in Nat /\ 1 \in 1 .. Len(data) + 1 /\ 1 # Len(data) + 1
    OBVIOUS
  <1>3. 1 \notin PayloadEnds(data)
    <2>1. f[1] = IF 1 \in PayloadEnds(data) THEN PayloadBase(data)[1]
                 ELSE PayloadStep(data, size)[1][f[After(data)[1]]]
      BY <1>1, <1>2 DEF PayloadIs, Backwards
    <2>2. PayloadBase(data)[1] = None
      BY <1>2 DEF PayloadBase
    <2> QED BY <1>1, <2>1, <2>2
  <1>4. 1 < Len(data) /\ data[1] \in Nat /\ data[2] \in Nat /\ 2 + data[2] <= Len(data)
    <2>1. ~(1 >= Len(data)) /\ ~(1 + 1 + data[2] > Len(data))
      <3>1. 1 + 1 = 2
        OBVIOUS
      <3> QED BY <1>2, <1>3, <3>1 DEF PayloadEnds
    <2>2. 1 < Len(data)
      BY <1>2, <2>1
    <2>3. data[1] \in Nat /\ data[2] \in Nat
      BY <2>2
    <2> QED BY <1>2, <2>1, <2>2, <2>3
  <1> DEFINE n == 2 + data[2]
             b == SubSeq(data, 3, n)
             r == SubSeq(data, n + 1, Len(data))
             p == Fragment(data[1], b)
  <1>5. n \in Nat /\ 2 <= n /\ n <= Len(data) /\ n - 2 = data[2]
    BY <1>4
  <1> HIDE DEF n
  <1>6. /\ b \in Seq(Nat) /\ Len(b) = n - 2 /\ \A i \in 1 .. n - 2 : b[i] = data[2 + i]
    <2>1. /\ data \in Seq(Nat) /\ 3 \in Nat \ {0} /\ n \in Nat /\ 3 - 1 <= n
          /\ n <= Len(data) /\ 3 - 1 = 2
      BY <1>5
    <2> QED BY ONLY <2>1, PieceAt
  <1>7. /\ r \in Seq(Nat) /\ Len(r) = Len(data) - n
        /\ \A i \in 1 .. Len(data) - n : r[i] = data[n + i]
    <2>1. /\ data \in Seq(Nat) /\ n \in Nat /\ Len(data) \in Nat /\ n <= Len(data)
          /\ Len(data) <= Len(data)
      BY <1>2, <1>5
    <2>2. /\ SubSeq(data, n + 1, Len(data)) \in Seq(Nat)
          /\ Len(SubSeq(data, n + 1, Len(data))) = Len(data) - n
          /\ \A i \in 1 .. Len(data) - n : SubSeq(data, n + 1, Len(data))[i] = data[n + i]
      BY ONLY <2>1, Piece
    <2> QED BY ONLY <2>2
  <1> HIDE DEF b, r
  <1>8. /\ p \in Seq(Nat) /\ Len(p) = n /\ p[1] = data[1] /\ p[2] = data[2]
        /\ \A i \in 1 .. n - 2 : p[i + 2] = b[i]
    <2>1. /\ p \in Seq(Nat) /\ Len(p) = Len(b) + 2 /\ p[1] = data[1] /\ p[2] = Len(b)
          /\ \A i \in 1 .. Len(b) : p[i + 2] = b[i]
      <3>1. data[1] \in Nat /\ b \in Seq(Nat)
        BY <1>4, <1>6
      <3> QED BY ONLY <3>1, FragmentTyped, Zenon
    <2> HIDE DEF p
    <2>2. Len(b) = n - 2 /\ Len(b) = data[2] /\ Len(b) + 2 = n
      BY ONLY <1>5, <1>6
    <2>3. 1 .. n - 2 = 1 .. Len(b)
      BY ONLY <2>2
    <2> QED BY ONLY <2>1, <2>2, <2>3
  <1> HIDE DEF p
  <1>9. \A i \in 1 .. n : p[i] = data[i]
    <2> TAKE i \in 1 .. n
    <2>1. CASE i \in {1, 2}
      BY <1>8, <2>1
    <2>2. CASE i \notin {1, 2}
      <3>1. i - 2 \in 1 .. n - 2 /\ (i - 2) + 2 = i /\ 2 + (i - 2) = i
        BY <1>5, <2>2
      <3>2. p[(i - 2) + 2] = b[i - 2] /\ b[i - 2] = data[2 + (i - 2)]
        BY ONLY <1>6, <1>8, <3>1
      <3> QED BY ONLY <3>1, <3>2
    <2> QED BY <2>1, <2>2
  <1>10. p \o r = data
    <2> DEFINE q == p \o r
    <2>1. q \in Seq(Nat) /\ Len(q) = Len(p) + Len(r)
      BY <1>7, <1>8, Suffix
    <2>2. \A i \in 1 .. Len(p) : q[i] = p[i]
      BY <1>7, <1>8, Suffix
    <2>3. \A i \in 1 .. Len(r) : q[Len(p) + i] = r[i]
      BY <1>7, <1>8, Suffix
    <2> HIDE DEF q
    <2>4. Len(q) = Len(data)
      BY <1>2, <1>5, <1>7, <1>8, <2>1
    <2>5. ASSUME NEW i \in 1 .. Len(data) PROVE q[i] = data[i]
      <3>1. CASE i <= n
        <4>1. i \in 1 .. n
          BY <1>2, <1>5, <3>1
        <4> QED BY <1>8, <1>9, <2>2, <4>1
      <3>2. CASE ~(i <= n)
        <4>1. i - n \in 1 .. Len(data) - n /\ n + (i - n) = i
          BY <1>2, <1>5, <3>2
        <4>2. q[n + (i - n)] = r[i - n] /\ r[i - n] = data[n + (i - n)]
          BY <1>7, <1>8, <2>3, <4>1
        <4> QED BY <4>1, <4>2
      <3> QED BY <3>1, <3>2
    <2>6. q = data
      BY <2>1, <2>4, <2>5, SeqEqual
    <2> QED BY <2>6 DEF q
  <1>11. Len(r) < Len(data)
    BY <1>2, <1>5, <1>7
  <1> QED BY <1>4, <1>6, <1>7, <1>10, <1>11 DEF p

-----------------------------------------------------------------------------
\* Where Bodies and Lengths end: at the last record, which may be cut short.
BodyEnds(data) ==
    {o \in 1 .. Len(data) + 1 : o >= Len(data) \/ o + 1 + data[o + 1] >= Len(data)}

\* A record with another one behind it.
LEMMA EndsAt ==
    ASSUME NEW data \in Seq(Nat), NEW o \in 1 .. Len(data) + 1
    PROVE  /\ o < Len(data) => data[o + 1] \in Nat
           /\ o \notin BodyEnds(data) =>
                /\ o < Len(data) /\ o + 1 + data[o + 1] < Len(data)
                /\ ~(o >= Len(data)) /\ ~(o + 1 + data[o + 1] >= Len(data))
                /\ After(data)[o] = o + 2 + data[o + 1]
                /\ Record(data, o) = SubSeq(data, o + 2, o + 1 + data[o + 1])
                /\ After(data)[o] \in o + 1 .. Len(data) + 1 /\ Record(data, o) \in Seq(Nat)
  <1>1. ASSUME o < Len(data) PROVE data[o + 1] \in Nat
    BY <1>1
  <1>2. ASSUME o \notin BodyEnds(data)
        PROVE  /\ o < Len(data) /\ o + 1 + data[o + 1] < Len(data)
               /\ ~(o >= Len(data)) /\ ~(o + 1 + data[o + 1] >= Len(data))
    <2>1. ~(o >= Len(data)) /\ ~(o + 1 + data[o + 1] >= Len(data))
      BY <1>2 DEF BodyEnds
    <2>2. Len(data) \in Nat /\ o < Len(data)
      BY <2>1
    <2>3. data[o + 1] \in Nat
      BY <1>1, <2>2
    <2> QED BY <2>1, <2>2, <2>3
  <1>3. ASSUME o \notin BodyEnds(data)
        PROVE  /\ After(data)[o] = o + 2 + data[o + 1]
               /\ Record(data, o) = SubSeq(data, o + 2, o + 1 + data[o + 1])
               /\ After(data)[o] \in o + 1 .. Len(data) + 1 /\ Record(data, o) \in Seq(Nat)
    <2>1. o < Len(data) /\ data[o + 1] \in Nat /\ o + 1 + data[o + 1] <= Len(data)
      <3>1. Len(data) \in Nat
        OBVIOUS
      <3>2. o < Len(data) /\ o + 1 + data[o + 1] < Len(data) /\ data[o + 1] \in Nat
        BY <1>1, <1>2, <1>3
      <3> QED BY <3>1, <3>2
    <2>2. /\ After(data)[o] = o + 1 + data[o + 1] + 1
          /\ After(data)[o] \in o + 1 .. Len(data) + 1 /\ Record(data, o) \in Seq(Nat)
      BY <2>1, RecordTyped
    <2>3. o + 1 + data[o + 1] + 1 = o + 2 + data[o + 1]
      <3> DEFINE c == data[o + 1]
      <3>1. c \in Nat
        BY <2>1
      <3> HIDE DEF c
      <3>2. o + 1 + c + 1 = o + 2 + c
        BY <3>1
      <3> QED BY <3>2 DEF c
    <2> QED BY <2>2, <2>3 DEF Record
  <1> QED BY <1>1, <1>2, <1>3

-----------------------------------------------------------------------------
\* Bodies.

BodiesBody(f, data, o) ==
    IF o >= Len(data) THEN <<>>
    ELSE IF o + 1 + data[o + 1] >= Len(data) THEN SubSeq(data, o + 2, Len(data))
    ELSE SubSeq(data, o + 2, o + 1 + data[o + 1]) \o f[o + 2 + data[o + 1]]

BodiesDef(f, data) == f = [o \in 1 .. Len(data) + 1 |-> BodiesBody(f, data, o)]

BodiesBase(data) == [o \in 1 .. Len(data) + 1 |-> IF o >= Len(data) THEN <<>> ELSE SubSeq(data, o + 2, Len(data))]

BodiesStep(data) ==
    [o \in 1 .. Len(data) + 1 |-> [v \in Seq(Nat) |-> Record(data, o) \o v]]

BodiesIs(f, data) ==
    /\ f \in [1 .. Len(data) + 1 -> Seq(Nat)]
    /\ Backwards(f, 1, Len(data) + 1, BodyEnds(data), After(data), BodiesBase(data), BodiesStep(data))

\* As for fragment_payload: the type, the form, the function.
LEMMA BodiesAt ==
    ASSUME NEW data \in Seq(Nat), NEW o \in 1 .. Len(data) + 1
    PROVE  IF o \in BodyEnds(data) THEN BodiesBase(data)[o] \in Seq(Nat)
           ELSE /\ After(data)[o] \in o + 1 .. Len(data) + 1
                /\ \A v \in Seq(Nat) : BodiesStep(data)[o][v] \in Seq(Nat)
  <1>1. CASE o \in BodyEnds(data)
    <2>1. BodiesBase(data)[o] = IF o >= Len(data) THEN <<>> ELSE SubSeq(data, o + 2, Len(data))
      BY DEF BodiesBase
    <2>2. ASSUME ~(o >= Len(data)) PROVE SubSeq(data, o + 2, Len(data)) \in Seq(Nat)
      <3> DEFINE m == o + 1
                 n == Len(data)
      <3>1. m \in Nat /\ n \in Nat /\ m <= n /\ m + 1 = o + 2
        BY <2>2
      <3> HIDE DEF m, n
      <3>2. n <= Len(data)
        BY <3>1 DEF n
      <3>3. SubSeq(data, m + 1, n) \in Seq(Nat)
        BY ONLY <3>1, <3>2, data \in Seq(Nat), Piece
      <3> QED BY <3>1, <3>3 DEF n
    <2>4. <<>> \in Seq(Nat)
      OBVIOUS
    <2>3. BodiesBase(data)[o] \in Seq(Nat)
      BY ONLY <2>1, <2>2, <2>4, Zenon
    <2> QED BY <1>1, <2>3
  <1>2. CASE o \notin BodyEnds(data)
    <2>1. o < Len(data) /\ data[o + 1] \in Nat /\ Record(data, o) \in Seq(Nat)
          /\ After(data)[o] \in o + 1 .. Len(data) + 1
      BY <1>2, EndsAt
    <2>2. ASSUME NEW v \in Seq(Nat) PROVE BodiesStep(data)[o][v] \in Seq(Nat)
      <3>1. BodiesStep(data)[o][v] = Record(data, o) \o v
        BY DEF BodiesStep
      <3> QED BY <2>1, <3>1, ConcatProperties
    <2> QED BY <1>2, <2>1, <2>2
  <1> QED BY <1>1, <1>2

LEMMA BodiesForm ==
    ASSUME NEW data \in Seq(Nat), NEW f, NEW o \in 1 .. Len(data) + 1,
           o \notin BodyEnds(data) => f[After(data)[o]] \in Seq(Nat)
    PROVE  (IF o \in BodyEnds(data) THEN BodiesBase(data)[o]
            ELSE BodiesStep(data)[o][f[After(data)[o]]]) = BodiesBody(f, data, o)
  <1>1. CASE o \in BodyEnds(data)
    <2>1. o >= Len(data) \/ o + 1 + data[o + 1] >= Len(data)
      BY <1>1 DEF BodyEnds
    <2>2. BodiesBase(data)[o] = IF o >= Len(data) THEN <<>> ELSE SubSeq(data, o + 2, Len(data))
      BY DEF BodiesBase
    <2> QED BY ONLY <1>1, <2>1, <2>2 DEF BodiesBody
  <1>2. CASE o \notin BodyEnds(data)
    <2>1. /\ ~(o >= Len(data)) /\ ~(o + 1 + data[o + 1] >= Len(data))
          /\ After(data)[o] = o + 2 + data[o + 1]
          /\ Record(data, o) = SubSeq(data, o + 2, o + 1 + data[o + 1])
      BY <1>2, EndsAt
    <2> DEFINE v == f[o + 2 + data[o + 1]]
    <2>2. v \in Seq(Nat)
      BY <1>2, <2>1
    <2>3. BodiesStep(data)[o][v] = Record(data, o) \o v
      <3> HIDE DEF v
      <3> QED BY <2>2 DEF BodiesStep
    <2> QED BY ONLY <1>2, <2>1, <2>3, Zenon DEF BodiesBody
  <1> QED BY <1>1, <1>2

LEMMA BodiesKnown ==
    ASSUME NEW data \in Seq(Nat)
    PROVE  \E f : Bodies(data) = f[1] /\ BodiesIs(f, data)
  <1> DEFINE n == Len(data) + 1
             V == Seq(Nat)
  <1>0. n \in Nat /\ 1 \in 1 .. n
    OBVIOUS
  <1>1. PICK g \in [1 .. n -> V] :
          Backwards(g, 1, n, BodyEnds(data), After(data), BodiesBase(data), BodiesStep(data))
    <2>1. \A o \in 1 .. n : IF o \in BodyEnds(data) THEN BodiesBase(data)[o] \in V
                            ELSE /\ After(data)[o] \in o + 1 .. n
                                 /\ \A v \in V : BodiesStep(data)[o][v] \in V
      BY BodiesAt
    <2> HIDE DEF n, V
    <2> QED BY <1>0, <2>1, DefinedBackwards
  <1>2. ASSUME NEW o \in 1 .. n PROVE o \notin BodyEnds(data) => After(data)[o] \in o + 1 .. n
    BY BodiesAt
  <1>3. BodiesDef(g, data)
    <2>1. ASSUME NEW o \in 1 .. n
          PROVE  g[o] = BodiesBody(g, data, o)
      <3>1. g[o] = IF o \in BodyEnds(data) THEN BodiesBase(data)[o]
                   ELSE BodiesStep(data)[o][g[After(data)[o]]]
        BY <1>1 DEF Backwards
      <3>2. o \notin BodyEnds(data) => g[After(data)[o]] \in V
        BY <1>1, <1>2
      <3> QED BY <3>1, <3>2, BodiesForm
    <2>2. g = [o \in 1 .. n |-> g[o]]
      BY <1>1
    <2> QED BY <2>1, <2>2 DEF BodiesDef
  <1> DEFINE f == CHOOSE f : BodiesDef(f, data)
  <1>4. BodiesDef(f, data)
    BY <1>3
  <1>5. Bodies(data) = f[1]
    BY DEF Bodies, BodiesDef, BodiesBody
  <1> HIDE DEF f
  <1>6. \A o \in 1 .. n : f[o] = g[o]
    <2> DEFINE S == {o \in 1 .. n : f[o] = g[o]}
    <2>1. ASSUME NEW o \in 1 .. n, \A k \in 1 .. n : k > o => k \in S
          PROVE  o \in S
      <3>1. /\ o \notin BodyEnds(data) => f[After(data)[o]] = g[After(data)[o]]
            /\ o \notin BodyEnds(data) => f[After(data)[o]] \in V
        <4>1. o \notin BodyEnds(data) => After(data)[o] \in 1 .. n /\ After(data)[o] > o
          BY <1>2
        <4> QED BY <1>1, <2>1, <4>1
      <3>2. f[o] = BodiesBody(f, data, o)
        BY <1>4 DEF BodiesDef
      <3>3. f[o] = IF o \in BodyEnds(data) THEN BodiesBase(data)[o]
                   ELSE BodiesStep(data)[o][f[After(data)[o]]]
        BY <3>1, <3>2, BodiesForm
      <3>4. g[o] = IF o \in BodyEnds(data) THEN BodiesBase(data)[o]
                   ELSE BodiesStep(data)[o][g[After(data)[o]]]
        BY <1>1 DEF Backwards
      <3>5. f[o] = g[o]
        BY <3>1, <3>3, <3>4
      <3> QED BY <3>5
    <2> HIDE DEF S
    <2>2. 1 .. n \subseteq S
      BY <1>0, <2>1, Downwards
    <2> QED BY <2>2 DEF S
  <1>7. Bodies(data) = g[1]
    BY <1>0, <1>5, <1>6
  <1> QED BY <1>1, <1>7 DEF BodiesIs

-----------------------------------------------------------------------------
\* Lengths.

LengthsBody(f, data, o) ==
    IF o >= Len(data) THEN {}
    ELSE {data[o + 1]} \cup
         (IF o + 1 + data[o + 1] >= Len(data) THEN {} ELSE f[o + 2 + data[o + 1]])

LengthsDef(f, data) == f = [o \in 1 .. Len(data) + 1 |-> LengthsBody(f, data, o)]

LengthsBase(data) == [o \in 1 .. Len(data) + 1 |-> IF o >= Len(data) THEN {} ELSE {data[o + 1]}]

LengthsStep(data) ==
    [o \in 1 .. Len(data) + 1 |-> [v \in SUBSET Nat |-> {data[o + 1]} \cup v]]

LengthsIs(f, data) ==
    /\ f \in [1 .. Len(data) + 1 -> SUBSET Nat]
    /\ Backwards(f, 1, Len(data) + 1, BodyEnds(data), After(data), LengthsBase(data), LengthsStep(data))

\* As for fragment_payload: the type, the form, the function.
LEMMA LengthsAt ==
    ASSUME NEW data \in Seq(Nat), NEW o \in 1 .. Len(data) + 1
    PROVE  IF o \in BodyEnds(data) THEN LengthsBase(data)[o] \in SUBSET Nat
           ELSE /\ After(data)[o] \in o + 1 .. Len(data) + 1
                /\ \A v \in SUBSET Nat : LengthsStep(data)[o][v] \in SUBSET Nat
  <1>1. CASE o \in BodyEnds(data)
    <2>1. o < Len(data) \/ o >= Len(data)
      OBVIOUS
    <2>2. LengthsBase(data)[o] = IF o >= Len(data) THEN {} ELSE {data[o + 1]}
      BY DEF LengthsBase
    <2>3. LengthsBase(data)[o] \in SUBSET Nat
      BY <2>1, <2>2, EndsAt
    <2> QED BY <1>1, <2>3
  <1>2. CASE o \notin BodyEnds(data)
    <2>1. o < Len(data) /\ data[o + 1] \in Nat /\ Record(data, o) \in Seq(Nat)
          /\ After(data)[o] \in o + 1 .. Len(data) + 1
      BY <1>2, EndsAt
    <2>2. ASSUME NEW v \in SUBSET Nat PROVE LengthsStep(data)[o][v] \in SUBSET Nat
      <3>1. LengthsStep(data)[o][v] = {data[o + 1]} \cup v
        BY DEF LengthsStep
      <3> QED BY <2>1, <3>1
    <2> QED BY <1>2, <2>1, <2>2
  <1> QED BY <1>1, <1>2

LEMMA LengthsForm ==
    ASSUME NEW data \in Seq(Nat), NEW f, NEW o \in 1 .. Len(data) + 1,
           o \notin BodyEnds(data) => f[After(data)[o]] \in SUBSET Nat
    PROVE  (IF o \in BodyEnds(data) THEN LengthsBase(data)[o]
            ELSE LengthsStep(data)[o][f[After(data)[o]]]) = LengthsBody(f, data, o)
  <1>1. CASE o \in BodyEnds(data)
    <2>1. o >= Len(data) \/ o + 1 + data[o + 1] >= Len(data)
      BY <1>1 DEF BodyEnds
    <2>2. LengthsBase(data)[o] = IF o >= Len(data) THEN {} ELSE {data[o + 1]}
      BY DEF LengthsBase
    <2> QED BY ONLY <1>1, <2>1, <2>2 DEF LengthsBody
  <1>2. CASE o \notin BodyEnds(data)
    <2>1. /\ ~(o >= Len(data)) /\ ~(o + 1 + data[o + 1] >= Len(data))
          /\ After(data)[o] = o + 2 + data[o + 1]
          /\ Record(data, o) = SubSeq(data, o + 2, o + 1 + data[o + 1])
      BY <1>2, EndsAt
    <2> DEFINE v == f[o + 2 + data[o + 1]]
    <2>2. v \in SUBSET Nat
      BY <1>2, <2>1
    <2>3. LengthsStep(data)[o][v] = {data[o + 1]} \cup v
      <3> HIDE DEF v
      <3> QED BY <2>2 DEF LengthsStep
    <2> QED BY ONLY <1>2, <2>1, <2>3, Zenon DEF LengthsBody
  <1> QED BY <1>1, <1>2

LEMMA LengthsKnown ==
    ASSUME NEW data \in Seq(Nat)
    PROVE  \E f : Lengths(data) = f[1] /\ LengthsIs(f, data)
  <1> DEFINE n == Len(data) + 1
             V == SUBSET Nat
  <1>0. n \in Nat /\ 1 \in 1 .. n
    OBVIOUS
  <1>1. PICK g \in [1 .. n -> V] :
          Backwards(g, 1, n, BodyEnds(data), After(data), LengthsBase(data), LengthsStep(data))
    <2>1. \A o \in 1 .. n : IF o \in BodyEnds(data) THEN LengthsBase(data)[o] \in V
                            ELSE /\ After(data)[o] \in o + 1 .. n
                                 /\ \A v \in V : LengthsStep(data)[o][v] \in V
      BY LengthsAt
    <2> HIDE DEF n, V
    <2> QED BY <1>0, <2>1, DefinedBackwards
  <1>2. ASSUME NEW o \in 1 .. n PROVE o \notin BodyEnds(data) => After(data)[o] \in o + 1 .. n
    BY LengthsAt
  <1>3. LengthsDef(g, data)
    <2>1. ASSUME NEW o \in 1 .. n
          PROVE  g[o] = LengthsBody(g, data, o)
      <3>1. g[o] = IF o \in BodyEnds(data) THEN LengthsBase(data)[o]
                   ELSE LengthsStep(data)[o][g[After(data)[o]]]
        BY <1>1 DEF Backwards
      <3>2. o \notin BodyEnds(data) => g[After(data)[o]] \in V
        BY <1>1, <1>2
      <3> QED BY <3>1, <3>2, LengthsForm
    <2>2. g = [o \in 1 .. n |-> g[o]]
      BY <1>1
    <2> QED BY <2>1, <2>2 DEF LengthsDef
  <1> DEFINE f == CHOOSE f : LengthsDef(f, data)
  <1>4. LengthsDef(f, data)
    BY <1>3
  <1>5. Lengths(data) = f[1]
    BY DEF Lengths, LengthsDef, LengthsBody
  <1> HIDE DEF f
  <1>6. \A o \in 1 .. n : f[o] = g[o]
    <2> DEFINE S == {o \in 1 .. n : f[o] = g[o]}
    <2>1. ASSUME NEW o \in 1 .. n, \A k \in 1 .. n : k > o => k \in S
          PROVE  o \in S
      <3>1. /\ o \notin BodyEnds(data) => f[After(data)[o]] = g[After(data)[o]]
            /\ o \notin BodyEnds(data) => f[After(data)[o]] \in V
        <4>1. o \notin BodyEnds(data) => After(data)[o] \in 1 .. n /\ After(data)[o] > o
          BY <1>2
        <4> QED BY <1>1, <2>1, <4>1
      <3>2. f[o] = LengthsBody(f, data, o)
        BY <1>4 DEF LengthsDef
      <3>3. f[o] = IF o \in BodyEnds(data) THEN LengthsBase(data)[o]
                   ELSE LengthsStep(data)[o][f[After(data)[o]]]
        BY <3>1, <3>2, LengthsForm
      <3>4. g[o] = IF o \in BodyEnds(data) THEN LengthsBase(data)[o]
                   ELSE LengthsStep(data)[o][g[After(data)[o]]]
        BY <1>1 DEF Backwards
      <3>5. f[o] = g[o]
        BY <3>1, <3>3, <3>4
      <3> QED BY <3>5
    <2> HIDE DEF S
    <2>2. 1 .. n \subseteq S
      BY <1>0, <2>1, Downwards
    <2> QED BY <2>2 DEF S
  <1>7. Lengths(data) = g[1]
    BY <1>0, <1>5, <1>6
  <1> QED BY <1>1, <1>7 DEF LengthsIs

-----------------------------------------------------------------------------
\* A position behind p.
LEMMA EndsBehind ==
    ASSUME NEW p \in Seq(Nat), NEW r \in Seq(Nat), NEW o \in 1 .. Len(r) + 1
    PROVE  LET q == p \o r  m == Len(p)
           IN  /\ q \in Seq(Nat) /\ Len(q) = m + Len(r) /\ m \in Nat /\ Len(r) \in Nat
               /\ m + o \in 1 .. Len(q) + 1
               /\ m + o >= Len(q) <=> o >= Len(r)
               /\ o < Len(r) => q[m + o + 1] = r[o + 1]
               /\ SubSeq(q, m + o + 2, Len(q)) = IF o < Len(r) THEN SubSeq(r, o + 2, Len(r))
                                                  ELSE SubSeq(q, m + o + 2, Len(q))
               /\ m + o \in BodyEnds(q) <=> o \in BodyEnds(r)
               /\ o \notin BodyEnds(r) =>
                    /\ After(q)[m + o] = m + After(r)[o]
                    /\ Record(q, m + o) = Record(r, o)
                    /\ q[m + o + 1] = r[o + 1]
  <1> DEFINE q == p \o r
             m == Len(p)
  <1>1. q \in Seq(Nat)
    BY Suffix
  <1>2. Len(q) = m + Len(r) /\ m \in Nat /\ Len(r) \in Nat
    BY Suffix
  <1>3. \A i \in 1 .. Len(r) : q[m + i] = r[i]
    BY Suffix
  <1>4. \A a \in 1 .. Len(r) + 1, b \in 0 .. Len(r) : SubSeq(q, m + a, m + b) = SubSeq(r, a, b)
    BY Suffix
  <1> HIDE DEF q, m
  <1>5. Len(q) \in Nat /\ o \in Nat /\ 1 <= o /\ o <= Len(r) + 1
    BY ONLY <1>2, o \in 1 .. Len(r) + 1
  <1>6. m + o \in 1 .. Len(q) + 1
    BY ONLY <1>2, <1>5
  <1>7. (m + o >= Len(q)) <=> (o >= Len(r))
    BY ONLY <1>2, <1>5
  <1>8. ASSUME o < Len(r) PROVE q[m + o + 1] = r[o + 1] /\ r[o + 1] \in Nat
    <2>1. o + 1 \in 1 .. Len(r) /\ m + (o + 1) = m + o + 1
      BY ONLY <1>2, <1>5, <1>8
    <2>2. q[m + (o + 1)] = r[o + 1]
      BY <1>3, <2>1
    <2> QED BY <2>1, <2>2
  <1>9. ASSUME o < Len(r)
        PROVE  SubSeq(q, m + o + 2, Len(q)) = SubSeq(r, o + 2, Len(r))
    <2>1. /\ o + 2 \in 1 .. Len(r) + 1 /\ Len(r) \in 0 .. Len(r)
          /\ m + (o + 2) = m + o + 2 /\ Len(q) = m + Len(r)
      BY ONLY <1>2, <1>5, <1>9
    <2>2. SubSeq(q, m + (o + 2), m + Len(r)) = SubSeq(r, o + 2, Len(r))
      BY <1>4, <2>1
    <2> QED BY ONLY <2>1, <2>2
  <1>10. m + o \in BodyEnds(q) <=> o \in BodyEnds(r)
    <2>1. CASE o >= Len(r)
      <3>1. m + o >= Len(q)
        BY <1>7, <2>1
      <3> QED BY ONLY <1>6, <2>1, <3>1, o \in 1 .. Len(r) + 1 DEF BodyEnds
    <2>2. CASE ~(o >= Len(r))
      <3> DEFINE c == r[o + 1]
                 d == q[m + o + 1]
      <3>1. c = d /\ c \in Nat
        BY <1>2, <1>5, <1>8, <2>2
      <3> HIDE DEF c, d
      <3>2. (m + o + 1 + d >= Len(q)) <=> (o + 1 + c >= Len(r))
        BY ONLY <1>2, <1>5, <3>1
      <3>3. ~(m + o >= Len(q))
        BY <1>7, <2>2
      <3>4. (m + o + 1 + q[m + o + 1] >= Len(q)) <=> (o + 1 + r[o + 1] >= Len(r))
        BY <3>2 DEF c, d
      <3> QED BY <1>6, <2>2, <3>3, <3>4, Zenon DEF BodyEnds
    <2> QED BY <2>1, <2>2
  <1>11. ASSUME o \notin BodyEnds(r)
         PROVE  /\ After(q)[m + o] = m + After(r)[o]
                /\ Record(q, m + o) = Record(r, o)
                /\ q[m + o + 1] = r[o + 1]
    <2>1. m + o \notin BodyEnds(q)
      BY <1>10, <1>11
    <2>2. /\ o < Len(r) /\ o + 1 + r[o + 1] < Len(r) /\ r[o + 1] \in Nat
          /\ After(r)[o] = o + 2 + r[o + 1]
          /\ Record(r, o) = SubSeq(r, o + 2, o + 1 + r[o + 1])
      BY <1>11, EndsAt
    <2>3. /\ After(q)[m + o] = m + o + 2 + q[m + o + 1]
          /\ Record(q, m + o) = SubSeq(q, m + o + 2, m + o + 1 + q[m + o + 1])
      BY <1>1, <1>6, <2>1, EndsAt
    <2>4. q[m + o + 1] = r[o + 1]
      BY <1>8, <2>2
    <2> DEFINE c == r[o + 1]
    <2>5. c \in Nat /\ o + 1 + c < Len(r)
      BY <2>2
    <2> HIDE DEF c
    <2>6. /\ m + o + 2 + c = m + (o + 2 + c)
          /\ o + 2 \in 1 .. Len(r) + 1 /\ o + 1 + c \in 0 .. Len(r)
          /\ m + (o + 2) = m + o + 2 /\ m + (o + 1 + c) = m + o + 1 + c
      BY ONLY <1>2, <1>5, <2>5
    <2>7. SubSeq(q, m + (o + 2), m + (o + 1 + c)) = SubSeq(r, o + 2, o + 1 + c)
      BY <1>4, <2>6
    <2>8. SubSeq(q, m + o + 2, m + o + 1 + c) = SubSeq(r, o + 2, o + 1 + c)
      BY ONLY <2>6, <2>7
    <2>9. After(q)[m + o] = m + After(r)[o]
      BY ONLY <2>2, <2>3, <2>4, <2>6 DEF c
    <2>10. Record(q, m + o) = Record(r, o)
      BY ONLY <2>2, <2>3, <2>4, <2>8 DEF c
    <2> QED BY <2>4, <2>9, <2>10
  <1>12. SubSeq(q, m + o + 2, Len(q)) = IF o < Len(r) THEN SubSeq(r, o + 2, Len(r))
                                        ELSE SubSeq(q, m + o + 2, Len(q))
    BY <1>9
  <1> QED BY <1>1, <1>2, <1>6, <1>7, <1>8, <1>10, <1>11, <1>12 DEF q, m

\* What is behind p is read as if it were alone.
LEMMA BodiesTail ==
    ASSUME NEW p \in Seq(Nat), NEW r \in Seq(Nat), NEW g, BodiesIs(g, p \o r)
    PROVE  g[Len(p) + 1] = Bodies(r)
  <1> DEFINE q == p \o r
             m == Len(p)
             n == Len(r) + 1
  <1>1. PICK f : Bodies(r) = f[1] /\ BodiesIs(f, r)
    BY BodiesKnown
  <1>2. Len(q) = m + Len(r) /\ m \in Nat /\ Len(r) \in Nat
    BY Suffix
  <1>3. ASSUME NEW o \in 1 .. n
        PROVE  /\ m + o \in BodyEnds(q) <=> o \in BodyEnds(r)
               /\ o \in BodyEnds(r) => BodiesBase(q)[m + o] = BodiesBase(r)[o]
               /\ o \notin BodyEnds(r) =>
                    /\ After(r)[o] \in o + 1 .. n /\ After(q)[m + o] = m + After(r)[o]
                    /\ BodiesStep(q)[m + o] = BodiesStep(r)[o]
    <2>1. /\ m + o \in 1 .. Len(q) + 1
          /\ m + o >= Len(q) <=> o >= Len(r)
          /\ m + o \in BodyEnds(q) <=> o \in BodyEnds(r)
      BY EndsBehind
    <2>2. /\ o < Len(r) => q[m + o + 1] = r[o + 1]
          /\ o < Len(r) => SubSeq(q, m + o + 2, Len(q)) = SubSeq(r, o + 2, Len(r))
      BY EndsBehind
    <2>3. o \notin BodyEnds(r) => After(q)[m + o] = m + After(r)[o]
      BY EndsBehind
    <2>4. o \notin BodyEnds(r) => Record(q, m + o) = Record(r, o) /\ q[m + o + 1] = r[o + 1]
      BY EndsBehind
    <2>5. o \notin BodyEnds(r) => After(r)[o] \in o + 1 .. n
      BY EndsAt
    <2>6. o < Len(r) \/ o >= Len(r)
      BY <1>2
    <2> HIDE DEF q, m
    <2>7. BodiesBase(q)[m + o] = BodiesBase(r)[o]
      BY ONLY <2>1, <2>2, <2>6, o \in 1 .. n DEF BodiesBase
    <2>8. o \notin BodyEnds(r) => BodiesStep(q)[m + o] = BodiesStep(r)[o]
      <3>1. BodiesStep(q)[m + o] = [v \in Seq(Nat) |-> Record(q, m + o) \o v]
        BY ONLY <2>1 DEF BodiesStep
      <3>2. BodiesStep(r)[o] = [v \in Seq(Nat) |-> Record(r, o) \o v]
        BY ONLY o \in 1 .. n DEF BodiesStep
      <3> QED BY ONLY <2>4, <3>1, <3>2
    <2> QED BY <2>1, <2>3, <2>5, <2>7, <2>8
  <1> HIDE DEF q, m
  <1>4. /\ Backwards(f, 1, n, BodyEnds(r), After(r), BodiesBase(r), BodiesStep(r))
        /\ Backwards(g, 1, m + n, BodyEnds(q), After(q), BodiesBase(q), BodiesStep(q))
    <2>1. Len(q) + 1 = m + n
      BY <1>2
    <2> QED BY <1>1, <2>1 DEF BodiesIs, q
  <1>5. n \in Nat /\ 1 \in 1 .. n
    BY <1>2
  <1> HIDE DEF n
  <1>6. Aligned(m, n, BodyEnds(r), After(r), BodiesBase(r), BodiesStep(r),
                BodyEnds(q), After(q), BodiesBase(q), BodiesStep(q))
    BY ONLY <1>3 DEF Aligned
  <1>7. \A o \in 1 .. n : g[m + o] = f[o]
    <2>1. m \in Nat
      BY <1>2
    <2> QED BY ONLY <1>4, <1>5, <1>6, <2>1, Shifted
  <1>8. g[m + 1] = f[1]
    BY <1>5, <1>7
  <1> QED BY <1>1, <1>8 DEF m

LEMMA BodiesNothing == Bodies(<<>>) = <<>>
  <1>1. <<>> \in Seq(Nat) /\ Len(<<>>) = 0
    OBVIOUS
  <1>2. PICK f : Bodies(<<>>) = f[1] /\ BodiesIs(f, <<>>)
    BY <1>1, BodiesKnown
  <1>3. f[1] = IF 1 \in BodyEnds(<<>>) THEN BodiesBase(<<>>)[1] ELSE BodiesStep(<<>>)[1][f[After(<<>>)[1]]]
    <2>1. 1 \in 1 .. Len(<<>>) + 1
      BY <1>1
    <2> QED BY <1>2, <2>1 DEF BodiesIs, Backwards
  <1>4. 1 \in BodyEnds(<<>>)
    BY <1>1 DEF BodyEnds
  <1>5. BodiesBase(<<>>)[1] = <<>>
    BY <1>1 DEF BodiesBase
  <1> QED BY <1>2, <1>3, <1>4, <1>5

LEMMA BodiesTyped ==
    ASSUME NEW r \in Seq(Nat)
    PROVE  Bodies(r) \in Seq(Nat)
  <1>1. PICK f : Bodies(r) = f[1] /\ BodiesIs(f, r)
    BY BodiesKnown
  <1>2. 1 \in 1 .. Len(r) + 1
    OBVIOUS
  <1> QED BY <1>1, <1>2 DEF BodiesIs

\* A whole record in front says its body first.
LEMMA BodiesFront ==
    ASSUME NEW type \in Nat, NEW b \in Seq(Nat), NEW r \in Seq(Nat)
    PROVE  Bodies(Fragment(type, b) \o r) = b \o Bodies(r)
  <1> DEFINE p == Fragment(type, b)
             data == p \o r
  <1>1. /\ data \in Seq(Nat) /\ Len(data) = Len(b) + 2 + Len(r)
        /\ Len(b) \in Nat /\ Len(r) \in Nat
        /\ data[2] = Len(b)
        /\ SubSeq(data, 3, Len(b) + 2) = b
    BY FrontRecord
  <1>2. p \in Seq(Nat) /\ Len(p) = Len(b) + 2
    BY FragmentTyped
  <1>3. PICK g : Bodies(data) = g[1] /\ BodiesIs(g, data)
    <2> HIDE DEF data
    <2> QED BY <1>1, BodiesKnown
  <1>4. g[Len(p) + 1] = Bodies(r)
    <2> HIDE DEF p
    <2> QED BY <1>2, <1>3, BodiesTail
  <1>5. Bodies(r) \in Seq(Nat)
    BY BodiesTyped
  <1> HIDE DEF data, p
  <1>6. /\ 1 \in 1 .. Len(data) + 1 /\ 1 < Len(data) /\ ~(1 >= Len(data))
        /\ 1 + 1 = 2 /\ 1 + 2 = 3 /\ 1 + 1 + data[2] = Len(b) + 2
    BY <1>1
  <1>7. g[1] = IF 1 \in BodyEnds(data) THEN BodiesBase(data)[1]
               ELSE BodiesStep(data)[1][g[After(data)[1]]]
    BY <1>3, <1>6 DEF BodiesIs, Backwards
  <1>8. CASE r = <<>>
    <2>1. Len(data) = Len(b) + 2 /\ Len(r) = 0
      BY <1>1, <1>8
    <2>2. 1 \in BodyEnds(data)
      <3>1. 1 + 1 + data[2] >= Len(data)
        BY <1>1, <1>6, <2>1
      <3> QED BY <1>6, <3>1 DEF BodyEnds
    <2>3. BodiesBase(data)[1] = b
      <3>1. BodiesBase(data)[1] = IF 1 >= Len(data) THEN <<>> ELSE SubSeq(data, 1 + 2, Len(data))
        BY <1>6 DEF BodiesBase
      <3> QED BY ONLY <1>1, <1>6, <2>1, <3>1
    <2>4. Bodies(r) = <<>>
      BY <1>8, BodiesNothing
    <2>5. b = b \o <<>>
      BY ConcatEmptySeq
    <2>6. Bodies(data) = b \o Bodies(r)
      BY <1>3, <1>7, <2>2, <2>3, <2>4, <2>5
    <2> QED BY ONLY <2>6 DEF data, p
  <1>9. CASE r # <<>>
    <2>1. Len(r) >= 1 /\ Len(b) + 2 < Len(data)
      BY <1>1, <1>9
    <2>2. 1 \notin BodyEnds(data)
      <3>1. ~(1 + 1 + data[2] >= Len(data))
        BY <1>1, <1>6, <2>1
      <3> QED BY <1>6, <3>1 DEF BodyEnds
    <2>3. After(data)[1] = 1 + 2 + data[1 + 1] /\ Record(data, 1) = SubSeq(data, 1 + 2, 1 + 1 + data[1 + 1])
      BY <1>1, <1>6, <2>2, EndsAt
    <2>4. After(data)[1] = Len(p) + 1
      <3>1. data[1 + 1] = Len(b)
        BY ONLY <1>1, <1>6
      <3>2. After(data)[1] = 1 + 2 + Len(b)
        BY ONLY <2>3, <3>1
      <3>3. Len(p) = Len(b) + 2 /\ Len(b) \in Nat
        BY <1>1, <1>2
      <3>4. 1 + 2 + Len(b) = Len(p) + 1
        BY ONLY <3>3
      <3> QED BY ONLY <3>2, <3>4
    <2>5. Record(data, 1) = b /\ data[1 + 1] = Len(b)
      BY ONLY <1>1, <1>6, <2>3
    <2>6. g[After(data)[1]] = Bodies(r)
      BY <1>4, <2>4
    <2>7. BodiesStep(data)[1][Bodies(r)] = b \o Bodies(r)
      BY ONLY <1>5, <1>6, <2>5 DEF BodiesStep
    <2>8. Bodies(data) = b \o Bodies(r)
      BY ONLY <1>3, <1>7, <2>2, <2>6, <2>7
    <2> QED BY ONLY <2>8 DEF data, p
  <1> QED BY <1>8, <1>9

\* What is behind p is read as if it were alone.
LEMMA LengthsTail ==
    ASSUME NEW p \in Seq(Nat), NEW r \in Seq(Nat), NEW g, LengthsIs(g, p \o r)
    PROVE  g[Len(p) + 1] = Lengths(r)
  <1> DEFINE q == p \o r
             m == Len(p)
             n == Len(r) + 1
  <1>1. PICK f : Lengths(r) = f[1] /\ LengthsIs(f, r)
    BY LengthsKnown
  <1>2. Len(q) = m + Len(r) /\ m \in Nat /\ Len(r) \in Nat
    BY Suffix
  <1>3. ASSUME NEW o \in 1 .. n
        PROVE  /\ m + o \in BodyEnds(q) <=> o \in BodyEnds(r)
               /\ o \in BodyEnds(r) => LengthsBase(q)[m + o] = LengthsBase(r)[o]
               /\ o \notin BodyEnds(r) =>
                    /\ After(r)[o] \in o + 1 .. n /\ After(q)[m + o] = m + After(r)[o]
                    /\ LengthsStep(q)[m + o] = LengthsStep(r)[o]
    <2>1. /\ m + o \in 1 .. Len(q) + 1
          /\ m + o >= Len(q) <=> o >= Len(r)
          /\ m + o \in BodyEnds(q) <=> o \in BodyEnds(r)
      BY EndsBehind
    <2>2. /\ o < Len(r) => q[m + o + 1] = r[o + 1]
          /\ o < Len(r) => SubSeq(q, m + o + 2, Len(q)) = SubSeq(r, o + 2, Len(r))
      BY EndsBehind
    <2>3. o \notin BodyEnds(r) => After(q)[m + o] = m + After(r)[o]
      BY EndsBehind
    <2>4. o \notin BodyEnds(r) => Record(q, m + o) = Record(r, o) /\ q[m + o + 1] = r[o + 1]
      BY EndsBehind
    <2>5. o \notin BodyEnds(r) => After(r)[o] \in o + 1 .. n
      BY EndsAt
    <2>6. o < Len(r) \/ o >= Len(r)
      BY <1>2
    <2> HIDE DEF q, m
    <2>7. LengthsBase(q)[m + o] = LengthsBase(r)[o]
      BY ONLY <2>1, <2>2, <2>6, o \in 1 .. n DEF LengthsBase
    <2>8. o \notin BodyEnds(r) => LengthsStep(q)[m + o] = LengthsStep(r)[o]
      <3>1. LengthsStep(q)[m + o] = [v \in SUBSET Nat |-> {q[m + o + 1]} \cup v]
        BY ONLY <2>1 DEF LengthsStep
      <3>2. LengthsStep(r)[o] = [v \in SUBSET Nat |-> {r[o + 1]} \cup v]
        BY ONLY o \in 1 .. n DEF LengthsStep
      <3> QED BY ONLY <2>4, <3>1, <3>2
    <2> QED BY <2>1, <2>3, <2>5, <2>7, <2>8
  <1> HIDE DEF q, m
  <1>4. /\ Backwards(f, 1, n, BodyEnds(r), After(r), LengthsBase(r), LengthsStep(r))
        /\ Backwards(g, 1, m + n, BodyEnds(q), After(q), LengthsBase(q), LengthsStep(q))
    <2>1. Len(q) + 1 = m + n
      BY <1>2
    <2> QED BY <1>1, <2>1 DEF LengthsIs, q
  <1>5. n \in Nat /\ 1 \in 1 .. n
    BY <1>2
  <1> HIDE DEF n
  <1>6. Aligned(m, n, BodyEnds(r), After(r), LengthsBase(r), LengthsStep(r),
                BodyEnds(q), After(q), LengthsBase(q), LengthsStep(q))
    BY ONLY <1>3 DEF Aligned
  <1>7. \A o \in 1 .. n : g[m + o] = f[o]
    <2>1. m \in Nat
      BY <1>2
    <2> QED BY ONLY <1>4, <1>5, <1>6, <2>1, Shifted
  <1>8. g[m + 1] = f[1]
    BY <1>5, <1>7
  <1> QED BY <1>1, <1>8 DEF m

LEMMA LengthsNothing == Lengths(<<>>) = {}
  <1>1. <<>> \in Seq(Nat) /\ Len(<<>>) = 0
    OBVIOUS
  <1>2. PICK f : Lengths(<<>>) = f[1] /\ LengthsIs(f, <<>>)
    BY <1>1, LengthsKnown
  <1>3. f[1] = IF 1 \in BodyEnds(<<>>) THEN LengthsBase(<<>>)[1] ELSE LengthsStep(<<>>)[1][f[After(<<>>)[1]]]
    <2>1. 1 \in 1 .. Len(<<>>) + 1
      BY <1>1
    <2> QED BY <1>2, <2>1 DEF LengthsIs, Backwards
  <1>4. 1 \in BodyEnds(<<>>)
    BY <1>1 DEF BodyEnds
  <1>5. LengthsBase(<<>>)[1] = {}
    BY <1>1 DEF LengthsBase
  <1> QED BY <1>2, <1>3, <1>4, <1>5

LEMMA LengthsTyped ==
    ASSUME NEW r \in Seq(Nat)
    PROVE  Lengths(r) \in SUBSET Nat
  <1>1. PICK f : Lengths(r) = f[1] /\ LengthsIs(f, r)
    BY LengthsKnown
  <1>2. 1 \in 1 .. Len(r) + 1
    OBVIOUS
  <1> QED BY <1>1, <1>2 DEF LengthsIs

\* A whole record in front adds its length.
LEMMA LengthsFront ==
    ASSUME NEW type \in Nat, NEW b \in Seq(Nat), NEW r \in Seq(Nat)
    PROVE  Lengths(Fragment(type, b) \o r) = {Len(b)} \cup Lengths(r)
  <1> DEFINE p == Fragment(type, b)
             data == p \o r
  <1>1. /\ data \in Seq(Nat) /\ Len(data) = Len(b) + 2 + Len(r)
        /\ Len(b) \in Nat /\ Len(r) \in Nat
        /\ data[2] = Len(b)
        /\ SubSeq(data, 3, Len(b) + 2) = b
    BY FrontRecord
  <1>2. p \in Seq(Nat) /\ Len(p) = Len(b) + 2
    BY FragmentTyped
  <1>3. PICK g : Lengths(data) = g[1] /\ LengthsIs(g, data)
    <2> HIDE DEF data
    <2> QED BY <1>1, LengthsKnown
  <1>4. g[Len(p) + 1] = Lengths(r)
    <2> HIDE DEF p
    <2> QED BY <1>2, <1>3, LengthsTail
  <1>5. Lengths(r) \in SUBSET Nat
    BY LengthsTyped
  <1> HIDE DEF data, p
  <1>6. /\ 1 \in 1 .. Len(data) + 1 /\ 1 < Len(data) /\ ~(1 >= Len(data))
        /\ 1 + 1 = 2 /\ 1 + 2 = 3 /\ 1 + 1 + data[2] = Len(b) + 2
    BY <1>1
  <1>7. g[1] = IF 1 \in BodyEnds(data) THEN LengthsBase(data)[1]
               ELSE LengthsStep(data)[1][g[After(data)[1]]]
    BY <1>3, <1>6 DEF LengthsIs, Backwards
  <1>8. CASE r = <<>>
    <2>1. Len(data) = Len(b) + 2 /\ Len(r) = 0
      BY <1>1, <1>8
    <2>2. 1 \in BodyEnds(data)
      <3>1. 1 + 1 + data[2] >= Len(data)
        BY <1>1, <1>6, <2>1
      <3> QED BY <1>6, <3>1 DEF BodyEnds
    <2>3. LengthsBase(data)[1] = {Len(b)}
      <3>1. LengthsBase(data)[1] = IF 1 >= Len(data) THEN {} ELSE {data[1 + 1]}
        BY <1>6 DEF LengthsBase
      <3> QED BY ONLY <1>1, <1>6, <2>1, <3>1
    <2>4. Lengths(r) = {}
      BY <1>8, LengthsNothing
    <2>5. {Len(b)} = {Len(b)} \cup {}
      OBVIOUS
    <2>6. Lengths(data) = {Len(b)} \cup Lengths(r)
      BY <1>3, <1>7, <2>2, <2>3, <2>4, <2>5
    <2> QED BY ONLY <2>6 DEF data, p
  <1>9. CASE r # <<>>
    <2>1. Len(r) >= 1 /\ Len(b) + 2 < Len(data)
      BY <1>1, <1>9
    <2>2. 1 \notin BodyEnds(data)
      <3>1. ~(1 + 1 + data[2] >= Len(data))
        BY <1>1, <1>6, <2>1
      <3> QED BY <1>6, <3>1 DEF BodyEnds
    <2>3. After(data)[1] = 1 + 2 + data[1 + 1] /\ Record(data, 1) = SubSeq(data, 1 + 2, 1 + 1 + data[1 + 1])
      BY <1>1, <1>6, <2>2, EndsAt
    <2>4. After(data)[1] = Len(p) + 1
      <3>1. data[1 + 1] = Len(b)
        BY ONLY <1>1, <1>6
      <3>2. After(data)[1] = 1 + 2 + Len(b)
        BY ONLY <2>3, <3>1
      <3>3. Len(p) = Len(b) + 2 /\ Len(b) \in Nat
        BY <1>1, <1>2
      <3>4. 1 + 2 + Len(b) = Len(p) + 1
        BY ONLY <3>3
      <3> QED BY ONLY <3>2, <3>4
    <2>5. Record(data, 1) = b /\ data[1 + 1] = Len(b)
      BY ONLY <1>1, <1>6, <2>3
    <2>6. g[After(data)[1]] = Lengths(r)
      BY <1>4, <2>4
    <2>7. LengthsStep(data)[1][Lengths(r)] = {Len(b)} \cup Lengths(r)
      BY ONLY <1>5, <1>6, <2>5 DEF LengthsStep
    <2>8. Lengths(data) = {Len(b)} \cup Lengths(r)
      BY ONLY <1>3, <1>7, <2>2, <2>6, <2>7
    <2> QED BY ONLY <2>8 DEF data, p
  <1> QED BY <1>8, <1>9

-----------------------------------------------------------------------------
\* x says b in records of at most size units, whatever follows it.
Carries(x, b, size) ==
    \A y \in Seq(Nat) :
        /\ Bodies(x \o y) = b \o Bodies(y)
        /\ Lengths(y) \subseteq 0 .. size => Lengths(x \o y) \subseteq 0 .. size
        /\ FragmentPayload(y, size) # None =>
             FragmentPayload(x \o y, size) = x \o FragmentPayload(y, size)

\* Joining units is associative.
Regroups(x, y, z) == (x \o y) \o z = x \o (y \o z)

LEMMA Joined ==
    ASSUME NEW x \in Seq(Nat), NEW y \in Seq(Nat), NEW z \in Seq(Nat)
    PROVE  Regroups(x, y, z)
  <1>1. x \o y \in Seq(Nat) /\ y \o z \in Seq(Nat)
    BY ConcatProperties
  <1>2. (x \o y) \o z \in Seq(Nat) /\ x \o (y \o z) \in Seq(Nat)
    BY <1>1, ConcatProperties
  <1>3. Len((x \o y) \o z) = Len(x \o (y \o z))
    BY <1>1
  <1>4. \A i \in 1 .. Len((x \o y) \o z) : ((x \o y) \o z)[i] = (x \o (y \o z))[i]
    BY <1>1
  <1>5. (x \o y) \o z = x \o (y \o z)
    BY ONLY <1>2, <1>3, <1>4, SeqEqual
  <1> QED BY <1>5 DEF Regroups

\* Nothing says nothing.
LEMMA CarriesNothing ==
    ASSUME NEW size \in Nat \ {0}
    PROVE  Carries(<<>>, <<>>, size)
  <1> SUFFICES ASSUME NEW y \in Seq(Nat)
               PROVE  /\ Bodies(<<>> \o y) = <<>> \o Bodies(y)
                      /\ Lengths(y) \subseteq 0 .. size => Lengths(<<>> \o y) \subseteq 0 .. size
                      /\ FragmentPayload(y, size) # None =>
                           FragmentPayload(<<>> \o y, size) = <<>> \o FragmentPayload(y, size)
    BY DEF Carries
  <1>1. <<>> \o y = y
    BY ConcatEmptySeq
  <1>2. <<>> \o Bodies(y) = Bodies(y)
    BY BodiesTyped, ConcatEmptySeq
  <1>3. FragmentPayload(y, size) # None => <<>> \o FragmentPayload(y, size) = FragmentPayload(y, size)
    BY PayloadTyped, ConcatEmptySeq
  <1> QED BY <1>1, <1>2, <1>3

\* One record of at most size units says its body.
LEMMA CarriesFragment ==
    ASSUME NEW type \in Nat, NEW b \in Seq(Nat), NEW size \in Nat \ {0}, Len(b) <= size
    PROVE  Carries(Fragment(type, b), b, size)
  <1> SUFFICES ASSUME NEW y \in Seq(Nat)
               PROVE  /\ Bodies(Fragment(type, b) \o y) = b \o Bodies(y)
                      /\ Lengths(y) \subseteq 0 .. size =>
                           Lengths(Fragment(type, b) \o y) \subseteq 0 .. size
                      /\ FragmentPayload(y, size) # None =>
                           FragmentPayload(Fragment(type, b) \o y, size)
                             = Fragment(type, b) \o FragmentPayload(y, size)
    BY DEF Carries
  <1>1. Bodies(Fragment(type, b) \o y) = b \o Bodies(y)
    BY BodiesFront
  <1>2. Lengths(Fragment(type, b) \o y) = {Len(b)} \cup Lengths(y) /\ Len(b) \in 0 .. size
    <2>1. Lengths(Fragment(type, b) \o y) = {Len(b)} \cup Lengths(y)
      BY LengthsFront
    <2>2. Len(b) \in Nat
      OBVIOUS
    <2>3. Len(b) \in 0 .. size
      BY ONLY <2>2, Len(b) <= size, size \in Nat
    <2> QED BY <2>1, <2>3
  <1>3. FragmentPayload(y, size) # None =>
          FragmentPayload(Fragment(type, b) \o y, size)
            = SplitRecord(type, b, size) \o FragmentPayload(y, size)
    BY PayloadFront
  <1>4. SplitRecord(type, b, size) = Fragment(type, b)
    BY SmallRecord
  <1> QED BY ONLY <1>1, <1>2, <1>3, <1>4

\* Two that carry something, one after the other.
LEMMA CarriesBoth ==
    ASSUME NEW size \in Nat \ {0},
           NEW x \in Seq(Nat), NEW b \in Seq(Nat), Carries(x, b, size),
           NEW z \in Seq(Nat), NEW c \in Seq(Nat), Carries(z, c, size)
    PROVE  Carries(x \o z, b \o c, size)
  <1> SUFFICES ASSUME NEW y \in Seq(Nat)
               PROVE  /\ Bodies((x \o z) \o y) = (b \o c) \o Bodies(y)
                      /\ Lengths(y) \subseteq 0 .. size => Lengths((x \o z) \o y) \subseteq 0 .. size
                      /\ FragmentPayload(y, size) # None =>
                           FragmentPayload((x \o z) \o y, size) = (x \o z) \o FragmentPayload(y, size)
    BY DEF Carries
  <1>1. (x \o z) \o y = x \o (z \o y)
    <2>1. Regroups(x, z, y)
      BY Joined
    <2> QED BY <2>1 DEF Regroups
  <1>2. z \o y \in Seq(Nat)
    BY ConcatProperties
  <1> DEFINE u == z \o y
  <1>3. /\ Bodies(u) = c \o Bodies(y)
        /\ Lengths(y) \subseteq 0 .. size => Lengths(u) \subseteq 0 .. size
        /\ FragmentPayload(y, size) # None => FragmentPayload(u, size) = z \o FragmentPayload(y, size)
    BY DEF Carries
  <1>4. u \in Seq(Nat)
    BY <1>2
  <1> HIDE DEF u
  <1>5. /\ Bodies(x \o u) = b \o Bodies(u)
        /\ Lengths(u) \subseteq 0 .. size => Lengths(x \o u) \subseteq 0 .. size
        /\ FragmentPayload(u, size) # None => FragmentPayload(x \o u, size) = x \o FragmentPayload(u, size)
    BY <1>4 DEF Carries
  <1>6. (b \o c) \o Bodies(y) = b \o (c \o Bodies(y))
    <2>1. PICK w \in Seq(Nat) : w = Bodies(y)
      BY BodiesTyped
    <2>2. (b \o c) \o w = b \o (c \o w)
      <3>1. Regroups(b, c, w)
        BY Joined
      <3> QED BY <3>1 DEF Regroups
    <2> QED BY ONLY <2>1, <2>2
  <1>7. ASSUME FragmentPayload(y, size) # None
        PROVE  FragmentPayload(x \o u, size) = (x \o z) \o FragmentPayload(y, size)
    <2>1. PICK v \in Seq(Nat) : v = FragmentPayload(y, size)
      BY <1>7, PayloadTyped
    <2>2. z \o v \in Seq(Nat)
      BY ConcatProperties
    <2>3. (x \o z) \o v = x \o (z \o v)
      <3>1. Regroups(x, z, v)
        BY Joined
      <3> QED BY <3>1 DEF Regroups
    <2>4. FragmentPayload(u, size) = z \o v
      BY <1>3, <1>7, <2>1
    <2>5. None \notin Seq(Nat)
      BY WireAssumption
    <2>6. FragmentPayload(u, size) # None
      BY ONLY <2>2, <2>4, <2>5
    <2>7. FragmentPayload(x \o u, size) = x \o (z \o v)
      BY ONLY <1>5, <2>4, <2>6
    <2> QED BY ONLY <2>1, <2>3, <2>7
  <1>8. (x \o z) \o y = x \o u
    BY <1>1 DEF u
  <1> QED BY ONLY <1>3, <1>5, <1>6, <1>7, <1>8

\* The fragments of a record say what it said.
LEMMA CarriesSplit ==
    ASSUME NEW type \in Nat, NEW b \in Seq(Nat), NEW size \in Nat \ {0}
    PROVE  Carries(SplitRecord(type, b, size), b, size)
  <1>1. CASE b = <<>>
    <2>1. Len(b) = 0 /\ 0 <= size
      BY <1>1
    <2>2. Len(b) <= size
      BY <2>1
    <2>3. SplitRecord(type, b, size) = Fragment(type, b)
      BY <2>2, SmallRecord
    <2> QED BY <2>2, <2>3, CarriesFragment
  <1>2. CASE b # <<>>
    <2>1. PICK K \in Nat \ {0} : \E f \in [1 .. K -> Seq(Nat)] : Pieced(K, f, type, b, size)
      BY <1>2, Pieces
    <2>2. PICK f \in [1 .. K -> Seq(Nat)] : Pieced(K, f, type, b, size)
      BY <2>1
    <2>3. /\ SplitRecord(type, b, size) = f[K]
          /\ Len(b) <= K * size
          /\ f[1] = Fragment(type, Cut(b, size, 1))
      BY <2>2 DEF Pieced
    <2>4. \A k \in 1 .. K : (k - 1) * size < Len(b)
      BY <2>2 DEF Pieced
    <2>5. \A k \in 2 .. K : f[k] = f[k - 1] \o Fragment(type, Cut(b, size, k))
      BY <2>2 DEF Pieced
    <2> DEFINE said(k) == SubSeq(b, 1, Until(b, size, k))
    <2>6. ASSUME NEW k \in 1 .. K
          PROVE  /\ Until(b, size, k) \in 0 .. Len(b)
                 /\ Cut(b, size, k) \in Seq(Nat)
                 /\ Fragment(type, Cut(b, size, k)) \in Seq(Nat)
                 /\ Carries(Fragment(type, Cut(b, size, k)), Cut(b, size, k), size)
                 /\ SubSeq(b, 1, (k - 1) * size) \o Cut(b, size, k) = said(k)
      <3>1. k \in Nat \ {0} /\ (k - 1) * size < Len(b)
        BY <2>4
      <3>2. /\ Until(b, size, k) \in Nat /\ Until(b, size, k) <= Len(b)
            /\ Cut(b, size, k) \in Seq(Nat) /\ Len(Cut(b, size, k)) \in 1 .. size
            /\ SubSeq(b, 1, (k - 1) * size) \o Cut(b, size, k) = said(k)
        BY <3>1, CutTyped
      <3>3. Len(Cut(b, size, k)) <= size /\ Until(b, size, k) \in 0 .. Len(b)
        BY <3>2
      <3> HIDE DEF said
      <3>4. Fragment(type, Cut(b, size, k)) \in Seq(Nat)
        BY <3>2, FragmentTyped
      <3>5. Carries(Fragment(type, Cut(b, size, k)), Cut(b, size, k), size)
        BY <3>2, <3>3, CarriesFragment
      <3> QED BY <3>2, <3>3, <3>4, <3>5
    <2> DEFINE S == {k \in 1 .. K : Carries(f[k], said(k), size)}
    <2>7. 1 \in S
      <3>1. 1 \in 1 .. K /\ (1 - 1) * size = 0
        BY <2>1
      <3>2. SubSeq(b, 1, 0) \o Cut(b, size, 1) = said(1)
        BY <2>6, <3>1
      <3>3. SubSeq(b, 1, 0) = <<>>
        BY SubSeqEmpty
      <3>4. <<>> \o Cut(b, size, 1) = Cut(b, size, 1)
        BY <2>6, <3>1, ConcatEmptySeq
      <3>5. said(1) = Cut(b, size, 1)
        BY ONLY <3>2, <3>3, <3>4
      <3>6. Carries(f[1], said(1), size)
        BY <2>3, <2>6, <3>1, <3>5
      <3> HIDE DEF said
      <3> QED BY <3>1, <3>6
    <2>8. ASSUME NEW k \in 2 .. K, k - 1 \in S
          PROVE  k \in S
      <3>1. k \in 1 .. K /\ k - 1 \in 1 .. K /\ k - 1 \in Nat
        BY <2>1
      <3>2. (k - 1) * size < Len(b)
        BY <2>4, <3>1
      <3>3. said(k - 1) = SubSeq(b, 1, (k - 1) * size)
        BY <3>2 DEF Until
      <3>4. said(k - 1) \in Seq(Nat)
        <4>1. Until(b, size, k - 1) \in 0 .. Len(b)
          BY <2>6, <3>1
        <4> DEFINE n == Until(b, size, k - 1)
        <4>2. n \in Nat /\ n <= Len(b)
          BY <4>1
        <4> HIDE DEF n
        <4>3. 0 + 1 = 1 /\ 0 <= n /\ 0 \in Nat
          BY <4>2
        <4>4. SubSeq(b, 0 + 1, n) \in Seq(Nat)
          BY <4>2, <4>3, Piece
        <4> QED BY <4>3, <4>4 DEF n
      <3>5. said(k - 1) \o Cut(b, size, k) = said(k)
        BY <2>6, <3>1, <3>3
      <3>6. /\ Cut(b, size, k) \in Seq(Nat) /\ Fragment(type, Cut(b, size, k)) \in Seq(Nat)
            /\ Carries(Fragment(type, Cut(b, size, k)), Cut(b, size, k), size)
        BY <2>6, <3>1
      <3>7. f[k - 1] \in Seq(Nat) /\ Carries(f[k - 1], said(k - 1), size)
        BY <2>8, <3>1
      <3> HIDE DEF said, S
      <3>8. Carries(f[k - 1] \o Fragment(type, Cut(b, size, k)), said(k - 1) \o Cut(b, size, k), size)
        BY ONLY <3>4, <3>6, <3>7, CarriesBoth, size \in Nat \ {0}
      <3>9. f[k] = f[k - 1] \o Fragment(type, Cut(b, size, k))
        BY <2>5
      <3>10. Carries(f[k], said(k), size)
        BY ONLY <3>5, <3>8, <3>9
      <3> QED BY <3>1, <3>10 DEF S
    <2> HIDE DEF S
    <2>9. 1 .. K \subseteq S
      BY <2>1, <2>7, <2>8, Stepwise
    <2>10. K \in 1 .. K
      BY <2>1
    <2>11. Carries(f[K], said(K), size)
      BY <2>9, <2>10 DEF S
    <2>12. Until(b, size, K) = Len(b)
      <3>1. Len(b) \in Nat /\ K * size \in Nat
        BY <2>1
      <3>2. ~(K * size < Len(b))
        BY ONLY <2>3, <3>1
      <3> QED BY <3>2 DEF Until
    <2>13. SubSeq(b, 1, Len(b)) = b
      BY SubSeqFull
    <2> QED BY ONLY <2>3, <2>11, <2>12, <2>13
  <1> QED BY <1>1, <1>2

\* A record before what is carried.
LEMMA CarriesFront ==
    ASSUME NEW size \in Nat \ {0}, NEW type \in Nat, NEW b \in Seq(Nat), NEW r \in Seq(Nat),
           FragmentPayload(Fragment(type, b) \o r, size) # None,
           FragmentPayload(r, size) # None => Carries(FragmentPayload(r, size), Bodies(r), size)
    PROVE  Carries(FragmentPayload(Fragment(type, b) \o r, size), Bodies(Fragment(type, b) \o r), size)
  <1>1. Bodies(Fragment(type, b) \o r) = b \o Bodies(r)
    BY BodiesFront
  <1>2. FragmentPayload(r, size) = None => FragmentPayload(Fragment(type, b) \o r, size) = None
    BY PayloadFront
  <1>3. FragmentPayload(r, size) # None
    BY ONLY <1>2, FragmentPayload(Fragment(type, b) \o r, size) # None
  <1>7. FragmentPayload(Fragment(type, b) \o r, size)
          = SplitRecord(type, b, size) \o FragmentPayload(r, size)
    BY <1>3, PayloadFront
  <1>4. FragmentPayload(r, size) \in Seq(Nat) /\ Bodies(r) \in Seq(Nat)
    BY <1>3, PayloadTyped, BodiesTyped
  <1>5. SplitRecord(type, b, size) \in Seq(Nat) /\ Carries(SplitRecord(type, b, size), b, size)
    BY SplitTyped, CarriesSplit
  <1>6. Carries(SplitRecord(type, b, size) \o FragmentPayload(r, size), b \o Bodies(r), size)
    BY <1>3, <1>4, <1>5, CarriesBoth
  <1> QED BY ONLY <1>1, <1>6, <1>7

\* What fragment_payload makes of data says what data says.
LEMMA CarriesPayload ==
    ASSUME NEW size \in Nat \ {0}, NEW data \in Seq(Nat), FragmentPayload(data, size) # None
    PROVE  Carries(FragmentPayload(data, size), Bodies(data), size)
  <1> DEFINE Good(d) == FragmentPayload(d, size) # None => Carries(FragmentPayload(d, size), Bodies(d), size)
             T == {n \in Nat : \A d \in Seq(Nat) : Len(d) <= n => Good(d)}
  <1>1. ASSUME NEW d \in Seq(Nat), d = <<>> PROVE Good(d)
    <2>1. FragmentPayload(<<>>, size) = <<>> /\ Bodies(<<>>) = <<>>
      BY PayloadNothing, BodiesNothing
    <2>2. Carries(<<>>, <<>>, size)
      BY CarriesNothing
    <2> QED BY ONLY <1>1, <2>1, <2>2
  <1>2. ASSUME NEW d \in Seq(Nat), d # <<>>, \A e \in Seq(Nat) : Len(e) < Len(d) => Good(e)
        PROVE  Good(d)
    <2> SUFFICES ASSUME FragmentPayload(d, size) # None
                 PROVE  Carries(FragmentPayload(d, size), Bodies(d), size)
      OBVIOUS
    <2>1. PICK type \in Nat, b \in Seq(Nat), r \in Seq(Nat) :
             d = Fragment(type, b) \o r /\ Len(r) < Len(d)
      BY <1>2, PayloadWhole
    <2>2. Good(r)
      BY <1>2, <2>1
    <2>3. FragmentPayload(Fragment(type, b) \o r, size) # None
      BY <2>1
    <2>4. Carries(FragmentPayload(Fragment(type, b) \o r, size), Bodies(Fragment(type, b) \o r), size)
      BY <2>2, <2>3, CarriesFront
    <2> QED BY <2>1, <2>4
  <1> HIDE DEF Good
  <1>3. 0 \in T
    <2>1. ASSUME NEW d \in Seq(Nat), Len(d) <= 0 PROVE Good(d)
      <3>1. d = <<>>
        BY <2>1
      <3> QED BY <1>1, <3>1
    <2> QED BY <2>1
  <1>4. ASSUME NEW n \in T PROVE n + 1 \in T
    <2>1. n \in Nat /\ \A e \in Seq(Nat) : Len(e) <= n => Good(e)
      OBVIOUS
    <2>2. ASSUME NEW d \in Seq(Nat), Len(d) <= n + 1 PROVE Good(d)
      <3>1. \A e \in Seq(Nat) : Len(e) < Len(d) => Good(e)
        <4>1. ASSUME NEW e \in Seq(Nat), Len(e) < Len(d) PROVE Len(e) <= n
          <5>1. Len(e) \in Nat /\ Len(d) \in Nat
            OBVIOUS
          <5> QED BY ONLY <2>1, <2>2, <4>1, <5>1
        <4> QED BY <2>1, <4>1
      <3> QED BY <1>1, <1>2, <3>1
    <2> QED BY <2>1, <2>2
  <1>5. T = Nat
    <2>1. T \in SUBSET Nat
      OBVIOUS
    <2> HIDE DEF T
    <2> QED BY <1>3, <1>4, <2>1, Upwards
  <1>6. Len(data) \in T
    <2>1. Len(data) \in Nat
      OBVIOUS
    <2> HIDE DEF T
    <2> QED BY ONLY <1>5, <2>1
  <1>7. Len(data) <= Len(data)
    OBVIOUS
  <1>8. Good(data)
    BY <1>6, <1>7
  <1> QED BY <1>8 DEF Good

\* A rewritten payload, for any data and any size of the records.
LEMMA PayloadKeeps ==
    ASSUME NEW size \in Nat \ {0}, NEW data \in Seq(Nat), FragmentPayload(data, size) # None
    PROVE  LET x == FragmentPayload(data, size)
           IN  /\ Bodies(x) = Bodies(data)
               /\ \A n \in Lengths(x) : n <= size
               /\ FragmentPayload(x, size) = x
  <1> DEFINE x == FragmentPayload(data, size)
  <1>1. x \in Seq(Nat) /\ Bodies(data) \in Seq(Nat) /\ Carries(x, Bodies(data), size)
    BY PayloadTyped, BodiesTyped, CarriesPayload
  <1> HIDE DEF x
  <1>2. <<>> \in Seq(Nat) /\ x \o <<>> = x /\ Bodies(data) \o <<>> = Bodies(data)
    BY <1>1, ConcatEmptySeq
  <1>3. /\ Bodies(x \o <<>>) = Bodies(data) \o Bodies(<<>>)
        /\ Lengths(<<>>) \subseteq 0 .. size => Lengths(x \o <<>>) \subseteq 0 .. size
        /\ FragmentPayload(<<>>, size) # None =>
             FragmentPayload(x \o <<>>, size) = x \o FragmentPayload(<<>>, size)
    BY <1>1, <1>2 DEF Carries
  <1>4. Bodies(<<>>) = <<>> /\ Lengths(<<>>) = {} /\ FragmentPayload(<<>>, size) = <<>>
    BY BodiesNothing, LengthsNothing, PayloadNothing
  <1>5. <<>> # None
    BY <1>2, WireAssumption
  <1>6. Bodies(x) = Bodies(data) /\ FragmentPayload(x, size) = x
    BY ONLY <1>2, <1>3, <1>4, <1>5
  <1>7. Lengths(x) \subseteq 0 .. size
    BY ONLY <1>2, <1>3, <1>4
  <1>8. \A n \in Lengths(x) : n <= size
    BY ONLY <1>7
  <1> QED BY ONLY <1>6, <1>8 DEF x

-----------------------------------------------------------------------------
\* The packets on their way, and what became of the first one.
PacketInv ==
    /\ nxt \in Nat /\ got \in Seq(Nat)
    /\ packet # None => packet \in [seq : Nat, payload : Seq(Nat)]
    /\ rewritten # None =>
         /\ rewritten.from \in Seq(Nat)
         /\ rewritten.to = FragmentPayload(rewritten.from, conf.TLS_RECORD_FRAG_SIZE)
         /\ rewritten.to # None

\* The server takes the new end of any packet.
LEMMA DeliverTyped ==
    ASSUME got \in Seq(Nat), NEW p, p.seq \in Nat, p.payload \in Seq(Nat), Deliver(p)
    PROVE  got' \in Seq(Nat)
  <1>1. CASE p.seq > Len(got) \/ p.seq + Len(p.payload) <= Len(got)
    BY <1>1 DEF Deliver
  <1>2. CASE ~(p.seq > Len(got) \/ p.seq + Len(p.payload) <= Len(got))
    <2> DEFINE m == Len(got) - p.seq
               n == Len(p.payload)
               new == SubSeq(p.payload, m + 1, n)
    <2>1. got' = got \o new
      BY <1>2 DEF Deliver
    <2>2. m \in Nat /\ n \in Nat /\ m <= n
      <3>1. Len(got) \in Nat /\ Len(p.payload) \in Nat
        OBVIOUS
      <3> QED BY <1>2, <3>1
    <2> HIDE DEF m
    <2>3. new \in Seq(Nat)
      BY <2>2, Piece
    <2> HIDE DEF new
    <2> QED BY <2>1, <2>3, ConcatProperties
  <1> QED BY <1>1, <1>2

\* Each step keeps it: only the kernel and the interceptor make packets.
LEMMA PacketStep == Inv /\ PacketInv /\ [Next]_vars => PacketInv'
  <1> SUFFICES ASSUME sent \in Seq(Nat), conf \in Settings, PacketInv, [Next]_vars PROVE PacketInv'
    BY DEF Inv, ProxyInv
  <1>1. /\ nxt \in Nat /\ got \in Seq(Nat)
        /\ packet # None => packet \in [seq : Nat, payload : Seq(Nat)]
        /\ rewritten # None =>
             /\ rewritten.from \in Seq(Nat)
             /\ rewritten.to = FragmentPayload(rewritten.from, conf.TLS_RECORD_FRAG_SIZE)
             /\ rewritten.to # None
    BY DEF PacketInv
  <1>2. CASE Segment
    <2>1. PICK n \in 1 .. MaxSegment :
            /\ nxt + n <= Len(sent)
            /\ packet' = [seq |-> nxt, payload |-> SubSeq(sent, nxt + 1, nxt + n)]
            /\ nxt' = nxt + n
      BY <1>2 DEF Segment
    <2>2. n \in Nat
      BY <2>1, WireAssumption
    <2> DEFINE e == nxt + n
    <2>3. e \in Nat /\ nxt <= e /\ e <= Len(sent)
      BY <1>1, <2>1, <2>2
    <2> HIDE DEF e
    <2>4. SubSeq(sent, nxt + 1, e) \in Seq(Nat)
      BY <1>1, <2>3, Piece
    <2>5. packet' \in [seq : Nat, payload : Seq(Nat)] /\ nxt' \in Nat
      BY <1>1, <2>1, <2>3, <2>4 DEF e
    <2>6. UNCHANGED <<conf, rewritten, got>>
      BY <1>2 DEF Segment
    <2> QED BY <1>1, <2>5, <2>6 DEF PacketInv
  <1>3. CASE Retransmit
    <2>1. nxt' = Len(got) /\ UNCHANGED <<conf, packet, rewritten, got>>
      BY <1>3 DEF Retransmit
    <2>2. nxt' \in Nat
      BY <1>1, <2>1
    <2> QED BY <1>1, <2>1, <2>2 DEF PacketInv
  <1>4. CASE Forward
    <2>1. /\ packet # None /\ packet' = None /\ UNCHANGED <<conf, nxt, rewritten>>
          /\ Deliver(packet) \/ got' = got
      BY <1>4 DEF Forward, Release, kernel
    <2>2. got' \in Seq(Nat)
      BY <1>1, <2>1, DeliverTyped
    <2> QED BY <1>1, <2>1, <2>2 DEF PacketInv
  <1>5. CASE Rewrite
    <2> DEFINE payload == OnFirstData(packet)
               out == IF payload = None THEN packet ELSE BuildModified(packet, payload)
    <2>1. /\ packet # None /\ packet' = None /\ UNCHANGED <<conf, nxt>>
          /\ Deliver(out) \/ got' = got
          /\ rewritten' = IF out = packet THEN None
                          ELSE [from |-> packet.payload, to |-> out.payload]
      BY <1>5 DEF Rewrite, Release, kernel
    <2>2. packet \in [seq : Nat, payload : Seq(Nat)]
      BY <1>1, <2>1
    <2>3. payload = FragmentPayload(packet.payload, conf.TLS_RECORD_FRAG_SIZE)
      BY DEF OnFirstData
    <2>4. conf.TLS_RECORD_FRAG_SIZE \in Nat \ {0}
      BY WireAssumption DEF Valid
    <2>5. payload # None => payload \in Seq(Nat)
      BY <2>2, <2>3, <2>4, PayloadTyped
    <2> HIDE DEF payload
    <2>6. out = packet \/ (payload # None /\ out = [packet EXCEPT !.payload = payload])
      BY DEF BuildModified
    <2>7. /\ out.seq \in Nat /\ out.payload \in Seq(Nat)
          /\ out # packet => payload # None /\ out.payload = payload
      BY ONLY <2>2, <2>5, <2>6
    <2> HIDE DEF out
    <2>8. got' \in Seq(Nat)
      BY <1>1, <2>1, <2>7, DeliverTyped
    <2>9. ASSUME rewritten' # None
          PROVE  /\ rewritten'.from = packet.payload /\ rewritten'.to = payload /\ payload # None
      <3>1. out # packet /\ rewritten' = [from |-> packet.payload, to |-> out.payload]
        BY <2>1, <2>9
      <3> QED BY <2>7, <3>1
    <2>10. packet.payload \in Seq(Nat)
      BY <2>2
    <2> QED BY <1>1, <2>1, <2>3, <2>8, <2>9, <2>10 DEF PacketInv
  <1>6. CASE Proxy \/ UNCHANGED vars
    <2>1. UNCHANGED <<conf, nxt, got, packet, rewritten>>
      BY <1>6 DEF Proxy, ReadRecord, ReadFirstWrite, RelayReads, Take, ReadFirstFails, Write, WriteFails,
                  Report, AwaitBypass, AwaitTimesOut, vars, kernel
    <2> QED BY <1>1, <2>1 DEF PacketInv
  <1> QED BY <1>2, <1>3, <1>4, <1>5, <1>6 DEF Next, Network

\* It holds from the beginning.
LEMMA PacketsAlways == Spec => []PacketInv
  <1>1. Init => PacketInv
    <2>1. <<>> \in Seq(Nat)
      OBVIOUS
    <2>2. QED
      BY <2>1 DEF Init, PacketInv
  <1>2. QED
    BY <1>1, PacketStep, Always, PTL DEF Spec

\* What tls_record_frag puts into a packet says what the packet said, in whole
\* records no longer than configured, and to split it again changes nothing:
\* for any stream, any segments the kernel makes of it, any retransmissions
\* and any record size.
THEOREM SplitKeeps == Spec => []SplitKeepsTheBytes
  <1>1. Inv /\ PacketInv => SplitKeepsTheBytes
    <2>. SUFFICES ASSUME Inv, PacketInv, rewritten # None
                  PROVE  /\ Bodies(rewritten.to) = Bodies(rewritten.from)
                         /\ \A n \in Lengths(rewritten.to) : n <= conf.TLS_RECORD_FRAG_SIZE
                         /\ FragmentPayload(rewritten.to, conf.TLS_RECORD_FRAG_SIZE) = rewritten.to
      BY DEF SplitKeepsTheBytes
    <2>. DEFINE data == rewritten.from  size == conf.TLS_RECORD_FRAG_SIZE
    <2>1. size \in Nat \ {0}
      BY WireAssumption DEF Inv, ProxyInv, Valid
    <2>2. /\ data \in Seq(Nat) /\ rewritten.to = FragmentPayload(data, size)
          /\ rewritten.to # None
      BY DEF PacketInv
    <2>. HIDE DEF data, size
    <2>3. /\ Bodies(FragmentPayload(data, size)) = Bodies(data)
          /\ \A n \in Lengths(FragmentPayload(data, size)) : n <= size
          /\ FragmentPayload(FragmentPayload(data, size), size) = FragmentPayload(data, size)
      BY <2>1, <2>2, PayloadKeeps
    <2>4. QED
      BY ONLY <2>2, <2>3 DEF data, size
  <1>2. QED
    BY <1>1, Always, PacketsAlways, PTL
=============================================================================
