-------------------------- MODULE Dashboard_proofs --------------------------
(***************************************************************************)
(* Proofs about the accept loop and the dashboard behind it, for any       *)
(* number of connections, any ports, pools and lengths of the channel.     *)
(***************************************************************************)
EXTENDS Dashboard, WellFoundedInduction, FiniteSetTheorems, SequenceTheorems, TLAPS

LEMMA Least ==
    ASSUME NEW S \in SUBSET Nat, S # {}
    PROVE  \E m \in S : \A k \in S : m <= k
  <1>1. \E x \in S : \A y \in S : ~ (<<y, x>> \in OpToRel(<, Nat))
    BY NatLessThanWellFounded, WFMin
  <1>2. PICK x \in S : \A y \in S : ~ (<<y, x>> \in OpToRel(<, Nat))
    BY <1>1
  <1>3. \A y \in S : ~ (y < x)
    BY <1>2 DEF OpToRel
  <1> QED BY <1>3

LEMMA MaxIn == ASSUME NEW n \in Nat, NEW S \in SUBSET (1..n), S # {} PROVE Max(S) \in S /\ \A k \in S : Max(S) >= k
  <1> DEFINE T == {j \in Nat : n - j \in S}
  <1>1. T \in SUBSET Nat /\ T # {}
    <2>1. PICK k \in S : TRUE
      OBVIOUS
    <2>2. n - k \in T
      BY <2>1
    <2> QED BY <2>2
  <1>2. \E m \in T : \A k \in T : m <= k
    <2> HIDE DEF T
    <2> QED BY Least, <1>1
  <1>3. PICK m \in T : \A k \in T : m <= k
    BY <1>2
  <1>4. \A j \in S : n - m >= j
    <2> SUFFICES ASSUME NEW j \in S PROVE n - m >= j
      OBVIOUS
    <2>1. n - j \in T /\ j \in Nat
      OBVIOUS
    <2>2. m <= n - j /\ m \in Nat
      BY <1>3, <2>1
    <2> QED BY <2>1, <2>2
  <1>5. n - m \in S
    OBVIOUS
  <1> QED BY <1>4, <1>5 DEF Max

LEMMA Minimal ==
    ASSUME NEW S, IsFiniteSet(S), NEW T \in SUBSET (SUBSET S), T # {}
    PROVE  \E m \in T : \A t \in T : t \subseteq m => t = m
  <1>1. T \subseteq FiniteSubsetsOf(S)
    BY FS_FiniteSubsetsOfFinite
  <1>2. \E m \in T : \A t \in T : ~ (<<t, m>> \in StrictSubsetOrdering(S))
    BY <1>1, FS_StrictSubsetOrderingWellFounded, WFMin
  <1> QED BY <1>2 DEF StrictSubsetOrdering

LEMMA Induct ==
    ASSUME NEW S \in SUBSET Nat, 0 \in S, \A n \in S : n + 1 \in S
    PROVE  S = Nat
  <1> SUFFICES ASSUME Nat \ S # {} PROVE FALSE
    OBVIOUS
  <1>1. PICK m \in Nat \ S : \A k \in Nat \ S : m <= k
    BY Least
  <1>2. m # 0 /\ m - 1 \in Nat
    BY <1>1
  <1> QED BY <1>1, <1>2

OneOf(s) == CHOOSE x \in s : TRUE

SumsOver(g, f, D) ==
    g = [s \in D |-> IF s = {} THEN 0 ELSE f[OneOf(s)] + g[s \ {OneOf(s)}]]

Sums(g, f, S) == SumsOver(g, f, SUBSET S)

LEMMA Unfold == ASSUME NEW f 
   PROVE SumFunction(f) = (CHOOSE g : Sums(g, f, DOMAIN f))[DOMAIN f]
  BY DEF SumFunction, SumFunctionOnSet, FoldFunctionOnSet, MapThenFoldSet, Sums, SumsOver, OneOf

NatOn(f, S) == \A x \in S : f[x] \in Nat

SameOn(f, g, S) == \A x \in S : f[x] = g[x]

LEMMA OneOfIn == \A s : s # {} => OneOf(s) \in s
  BY DEF OneOf

UpTo(S, n) == {s \in SUBSET S : Cardinality(s) <= n}

LEMMA SumsExist ==
    ASSUME NEW S, IsFiniteSet(S), NEW f
    PROVE  \E g : Sums(g, f, S)
  <1> DEFINE N == {n \in Nat : \E g : SumsOver(g, f, UpTo(S, n))}
  <1>0. \A s \in SUBSET S : IsFiniteSet(s) /\ Cardinality(s) \in Nat /\ Cardinality(s) <= Cardinality(S)
    BY FS_Subset, FS_CardinalityType
  <1>1. 0 \in N
    <2> DEFINE g == [s \in UpTo(S, 0) |-> 0]
    <2>1. UpTo(S, 0) \subseteq {{}}
      BY <1>0, FS_EmptySet DEF UpTo
    <2>2. SumsOver(g, f, UpTo(S, 0))
      BY <2>1 DEF Sums, SumsOver
    <2> QED BY <2>2
  <1>2. ASSUME NEW n \in N
        PROVE  n + 1 \in N
    <2>1. PICK g : SumsOver(g, f, UpTo(S, n))
      OBVIOUS
    <2> DEFINE h == [s \in UpTo(S, n + 1) |->
                       IF s = {} THEN 0 ELSE f[OneOf(s)] + g[s \ {OneOf(s)}]]
    <2>2. ASSUME NEW s \in UpTo(S, n)
          PROVE  s \in UpTo(S, n + 1) /\ h[s] = g[s]
      <3>1. s \in UpTo(S, n + 1)
        BY <1>0 DEF UpTo
      <3>2. g[s] = IF s = {} THEN 0 ELSE f[OneOf(s)] + g[s \ {OneOf(s)}]
        BY <2>1 DEF Sums, SumsOver
      <3> QED BY <3>1, <3>2
    <2>3. ASSUME NEW s \in UpTo(S, n + 1), s # {}
          PROVE  s \ {OneOf(s)} \in UpTo(S, n)
      <3>1. /\ s \in SUBSET S /\ IsFiniteSet(s) /\ Cardinality(s) \in Nat
            /\ Cardinality(s) <= n + 1 /\ OneOf(s) \in s
        BY <1>0, <2>3, OneOfIn DEF UpTo
      <3>2. Cardinality(s \ {OneOf(s)}) = Cardinality(s) - 1
        BY <3>1, FS_RemoveElement
      <3> QED BY <3>1, <3>2 DEF UpTo
    <2>4. SumsOver(h, f, UpTo(S, n + 1))
      <3>1. \A s \in UpTo(S, n + 1) : s # {} => h[s \ {OneOf(s)}] = g[s \ {OneOf(s)}]
        BY <2>2, <2>3
      <3> QED BY <3>1 DEF Sums, SumsOver
    <2> QED BY <2>4
  <1>3. N = Nat
    <2> HIDE DEF N
    <2>1. N \in SUBSET Nat
      BY DEF N
    <2> QED BY <1>1, <1>2, <2>1, Induct
  <1>4. UpTo(S, Cardinality(S)) = SUBSET S
    BY <1>0 DEF UpTo
  <1>5. Cardinality(S) \in N
    BY <1>0, <1>3
  <1> QED BY <1>4, <1>5 DEF Sums

\* Two sums of the same numbers agree.
LEMMA SumsAgree ==
    ASSUME NEW S, IsFiniteSet(S), NEW B, S \subseteq B,
           NEW f, NEW g, SameOn(f, g, S),
           NEW F, NEW G, Sums(F, f, S), Sums(G, g, B)
    PROVE  F[S] = G[S]
  <1> DEFINE T == {s \in SUBSET S : F[s] # G[s]}
  <1> SUFFICES ASSUME T # {} PROVE FALSE
    OBVIOUS
  <1>1. \E m \in T : \A t \in T : t \subseteq m => t = m
    <2> HIDE DEF T
    <2>1. T \in SUBSET (SUBSET S)
      BY DEF T
    <2> QED BY <2>1, Minimal
  <1>2. PICK m \in T : \A t \in T : t \subseteq m => t = m
    BY <1>1
  <1>3. /\ F[m] = IF m = {} THEN 0 ELSE f[OneOf(m)] + F[m \ {OneOf(m)}]
        /\ G[m] = IF m = {} THEN 0 ELSE g[OneOf(m)] + G[m \ {OneOf(m)}]
    <2>1. m \in SUBSET S /\ m \in SUBSET B
      OBVIOUS
    <2> QED BY <2>1 DEF Sums, SumsOver
  <1>4. m # {} /\ OneOf(m) \in m /\ OneOf(m) \in S
    BY <1>3, OneOfIn
  <1>5. m \ {OneOf(m)} \notin T
    BY <1>2, <1>4
  <1>6. F[m \ {OneOf(m)}] = G[m \ {OneOf(m)}]
    BY <1>5
  <1> QED BY <1>3, <1>4, <1>6 DEF SameOn

LEMMA SumsPeel ==
    ASSUME NEW S, IsFiniteSet(S), NEW f, NatOn(f, S),
           NEW F, Sums(F, f, S)
    PROVE  \A s \in SUBSET S : /\ F[s] \in Nat 
                                /\ \A x \in s : F[s] = f[x] + F[s \ {x}]
  <1> DEFINE Good(s) == F[s] \in Nat /\ \A x \in s : F[s] = f[x] + F[s \ {x}]
             T == {s \in SUBSET S : ~Good(s)}
  <1> SUFFICES ASSUME T # {} PROVE FALSE
    OBVIOUS
  <1>1. \E m \in T : \A t \in T : t \subseteq m => t = m
    <2> HIDE DEF T
    <2>1. T \in SUBSET (SUBSET S)
      BY DEF T
    <2> QED BY <2>1, Minimal
  <1>2. PICK m \in T : \A t \in T : t \subseteq m => t = m
    BY <1>1
  <1>3. m \in SUBSET S /\ ~Good(m)
    OBVIOUS
  <1>4. F[m] = IF m = {} THEN 0 ELSE f[OneOf(m)] + F[m \ {OneOf(m)}]
    BY <1>3 DEF Sums, SumsOver
  <1>5. m # {}
    BY <1>3, <1>4
  <1>6. ASSUME NEW s \in SUBSET m, s # m
        PROVE  F[s] \in Nat /\ \A x \in s : F[s] = f[x] + F[s \ {x}]
    BY <1>2, <1>6
  <1> DEFINE y == OneOf(m)
  <1>7. y \in m /\ F[m] = f[y] + F[m \ {y}]
    BY <1>4, <1>5, OneOfIn
  <1> HIDE DEF y
  <1>8. \A x \in m : f[x] \in Nat /\ m \ {x} \in SUBSET m /\ m \ {x} # m
    BY <1>3 DEF NatOn
  <1>9. \A x \in m : F[m \ {x}] \in Nat /\ \A z \in m \ {x} : F[m \ {x}] = f[z] + F[(m \ {x}) \ {z}]
    BY <1>6, <1>8
  <1>10. F[m] \in Nat
    <2>1. f[y] \in Nat /\ F[m \ {y}] \in Nat
      BY <1>7, <1>8, <1>9
    <2> QED BY <1>7, <2>1
  <1>11. ASSUME NEW x \in m
         PROVE  F[m] = f[x] + F[m \ {x}]
    <2>1. CASE x = y
      BY <1>7, <2>1
    <2>2. CASE x # y
      <3>1. F[m \ {y}] = f[x] + F[(m \ {y}) \ {x}]
        BY <1>7, <1>9, <2>2
      <3>2. F[m \ {x}] = f[y] + F[(m \ {x}) \ {y}]
        BY <1>7, <1>9, <2>2
      <3>3. (m \ {y}) \ {x} = (m \ {x}) \ {y}
        OBVIOUS
      <3>4. F[(m \ {x}) \ {y}] \in Nat
        <4>1. (m \ {x}) \ {y} \in SUBSET m /\ (m \ {x}) \ {y} # m
          BY <1>7
        <4> QED BY <1>6, <4>1
      <3>5. f[x] \in Nat /\ f[y] \in Nat
        BY <1>7, <1>8
      <3> DEFINE c == F[(m \ {x}) \ {y}]
      <3>6. F[m \ {y}] = f[x] + c /\ F[m \ {x}] = f[y] + c /\ c \in Nat
        BY <3>1, <3>2, <3>3, <3>4
      <3> HIDE DEF c
      <3> QED BY <3>5, <3>6, <1>7
    <2> QED BY <2>1, <2>2
  <1>12. Good(m)
    BY <1>10, <1>11
  <1> QED BY <1>3, <1>12

LEMMA SumEmpty == ASSUME NEW f, DOMAIN f = {} PROVE SumFunction(f) = 0
  <1>1. \E g : Sums(g, f, DOMAIN f)
    BY SumsExist, FS_EmptySet
  <1>2. PICK g : g = CHOOSE h : Sums(h, f, DOMAIN f)
    OBVIOUS
  <1>3. Sums(g, f, DOMAIN f)
    BY <1>1, <1>2
  <1>4. g[{}] = 0
    BY <1>3 DEF Sums, SumsOver
  <1> QED BY <1>2, <1>4, Unfold

\* One number more.
LEMMA SumAdd ==
    ASSUME NEW f, NEW g, NEW x \in DOMAIN g, IsFiniteSet(DOMAIN g),
           DOMAIN f = DOMAIN g \ {x}, SameOn(f, g, DOMAIN f), NatOn(g, DOMAIN g)
    PROVE  SumFunction(g) = SumFunction(f) + g[x]
  <1>0. IsFiniteSet(DOMAIN f) /\ DOMAIN f \subseteq DOMAIN g
    BY FS_RemoveElement
  <1> DEFINE F == CHOOSE h : Sums(h, f, DOMAIN f)
             G == CHOOSE h : Sums(h, g, DOMAIN g)
  <1>1. Sums(F, f, DOMAIN f) /\ Sums(G, g, DOMAIN g)
    BY <1>0, SumsExist
  <1>2. SumFunction(f) = F[DOMAIN f] /\ SumFunction(g) = G[DOMAIN g]
    BY Unfold
  <1> HIDE DEF F, G
  <1>3. F[DOMAIN f] = G[DOMAIN f]
    BY <1>0, <1>1, SumsAgree
  <1>4. \A s \in SUBSET DOMAIN g : /\ G[s] \in Nat
                                   /\ \A y \in s : G[s] = g[y] + G[s \ {y}]
    BY <1>1, SumsPeel
  <1>5. G[DOMAIN f] \in Nat /\ G[DOMAIN g] = g[x] + G[DOMAIN f]
    BY <1>0, <1>4
  <1>6. g[x] \in Nat
    BY DEF NatOn
  <1> QED BY <1>2, <1>3, <1>5, <1>6

-----------------------------------------------------------------------------
States == {"none", "refused", "connecting", "bypassing", "relaying", "closing", "ended"}

Running == {"bypassing", "relaying", "closing"}

EventTypes == (Heard \ {"nothing"}) \cup {"RelayProgress", "IpTargetChanged"}

ConnType == [state : States, port : Ports \cup {NoPort}, ip : Known \cup {NoAddress},
             slot : Nat, bytes : Nat, ticker : BOOLEAN]

EventType == [type : EventTypes, of : Conns \cup {0}, port : Ports \cup {NoPort},
              ip : Known \cup {NoAddress}, bytes : Nat]

RecordType == [of : Conns, port : Ports \cup {NoPort}, ip : Known \cup {NoAddress},
               status : {"Connecting", "Relaying", "Failed", "Done"},
               live : BOOLEAN, bytes : Nat]

Types ==
    /\ conn \in [Conns -> ConnType]
    /\ pool \in Pools /\ index \in Nat
    /\ target \in Rescanned \cup {Target} /\ announce \in Rescanned \cup {NoAddress}
    /\ swaps \in Nat /\ segmenting \in BOOLEAN
    /\ events \in Seq(EventType)
    /\ records \in Seq(RecordType)
    /\ activeCount \in Nat /\ totalBytes \in Nat
    /\ connsOf \in [Known -> Nat] /\ bytesOf \in [Known -> Nat]
    /\ shownIp \in Known
    /\ heard \in [Conns -> Heard]

\* What the state of a connection says of its other fields.
ConnInv ==
    \A c \in Conns :
        /\ conn[c].ticker => conn[c].state \in {"relaying", "closing", "ended"}
        /\ conn[c].state # "none" => conn[c].ip \in Known

Rank(type) ==
    IF type = "nothing" THEN 0
    ELSE IF type = "ConnectionAccepted" THEN 1
    ELSE IF type = "BypassComplete" THEN 2 ELSE 3

Stage(state) ==
    IF state \in {"none", "refused", "connecting"} THEN 0
    ELSE IF state = "bypassing" THEN 1
    ELSE IF state \in {"relaying", "closing"} THEN 2 ELSE 3

Tells(i) == events[i].type \in Heard

\* The dashboard has heard, or will have before the n-th event, that c was accepted.
AcceptedBefore(c, n) ==
    \/ heard[c] # "nothing"
    \/ \E k \in 1 .. Len(events) :
          k < n /\ events[k].type = "ConnectionAccepted" /\ events[k].of = c

EventOK(e) ==
    IF e.type = "IpTargetChanged" THEN e.ip \in Rescanned
    ELSE /\ e.of \in Conns /\ e.port = conn[e.of].port
         /\ conn[e.of].state \notin {"none", "refused"}
         /\ e.type = "ConnectionAccepted" => e.ip = conn[e.of].ip
         /\ e.type = "RelayFinished" => e.bytes = conn[e.of].bytes
         /\ e.type \in Heard => /\ Rank(heard[e.of]) < Rank(e.type)
                                /\ Rank(e.type) <= Stage(conn[e.of].state)

Story ==
    /\ \A i \in 1 .. Len(events) : EventOK(events[i])
    /\ \A i, k \in 1 .. Len(events) :
          i < k /\ Tells(i) /\ Tells(k) /\ events[i].of = events[k].of =>
              Rank(events[i].type) < Rank(events[k].type)
    /\ \A i \in 1 .. Len(events) : 
          events[i].type \in {"BypassComplete", "BypassFailed", "RelayFinished"} =>
             AcceptedBefore(events[i].of, i)
    /\ \A i \in 1 .. Len(events) :
          events[i].type = "ConnectionError" => heard[events[i].of] = "nothing"
    /\ \A i, k \in 1 .. Len(events) :
          events[i].type = "ConnectionError" /\ Tells(k) /\ events[i].of = events[k].of => i = k
    /\ \A c \in Conns :
          /\ Rank(heard[c]) <= Stage(conn[c].state)
          /\ conn[c].state \in Running => AcceptedBefore(c, Len(events) + 1)

\* What a list of records says of the connections.
Holds(rs) ==
    /\ \A n \in 1 .. Len(rs) :
          LET c == rs[n].of
          IN  rs[n].port = conn[c].port /\ rs[n].ip = conn[c].ip /\ WasAccepted(c)
    /\ \A c \in Conns : Open(c) /\ ~Reused(c) =>
          /\ \E n \in 1 .. Len(rs) : rs[n].of = c
          /\ \A n \in 1 .. Len(rs) : rs[n].of = c => rs[n].live /\ IsActive(rs[n])

Recorded == Holds(records)

Announced ==
    IF announce # NoAddress THEN announce = target
    ELSE \/ /\ shownIp = target
            /\ \A i \in 1 .. Len(events) : events[i].type # "IpTargetChanged"
         \/ \E i \in 1 .. Len(events) :
               /\ events[i].type = "IpTargetChanged" /\ events[i].ip = target
               /\ \A k \in 1 .. Len(events) : k > i => events[k].type # "IpTargetChanged"

Accepted == {c \in Conns : conn[c].state # "none"}

\* The pool's counter, and how often each slot was handed out, until it wraps.
Turns ==
    /\ IsFiniteSet(Accepted)
    /\ pool # <<>> /\ Cardinality(Accepted) < IndexMod => index = Cardinality(Accepted)
    /\ \A c \in Conns \ Accepted : conn[c].slot = 0
    /\ pool # <<>> /\ Cardinality(Accepted) <= IndexMod =>
          \E k \in Nat : \A n \in 1 .. Len(pool) :
             Picks(n) = IF n <= Cardinality(Accepted) % Len(pool) THEN k + 1 ELSE k

-----------------------------------------------------------------------------
\* What a connection may do.

LEMMA PoolIsSeq ==
    ASSUME pool \in Pools
    PROVE  /\ Len(pool) \in Nat /\ DOMAIN pool = 1 .. Len(pool)
           /\ pool # <<>> <=> Len(pool) > 0
           /\ \A n \in 1 .. Len(pool) : pool[n] \in Known
  <1>1. pool \in Seq({pool[n] : n \in DOMAIN pool})
    BY AcceptorAssumption
  <1>2. \A n \in DOMAIN pool : pool[n] \in Known
    BY DEF Known, ToSet
  <1> QED BY <1>1, <1>2

LEMMA SlotInPool ==
    ASSUME pool \in Pools, pool # <<>>, index \in Nat
    PROVE  NextInPool \in 1 .. Len(pool)
  <1>1. Len(pool) \in Nat /\ Len(pool) > 0
    BY PoolIsSeq
  <1>2. index % Len(pool) \in 0 .. Len(pool) - 1
    BY <1>1
  <1> QED BY <1>1, <1>2 DEF NextInPool

LEMMA ConnectIpKnown ==
    ASSUME Types
    PROVE  ConnectIp \in Known
  <1>1. CASE Poolless
    BY <1>1 DEF ConnectIp, Types, Known
  <1>2. CASE ~Poolless
    <2>1. pool \in Pools /\ pool # <<>> /\ index \in Nat
      BY <1>2 DEF Poolless, Types
    <2>2. NextInPool \in 1 .. Len(pool)
      BY <2>1, SlotInPool
    <2>3. pool[NextInPool] \in Known
      BY <2>1, <2>2, PoolIsSeq
    <2> QED BY <1>2, <2>3 DEF ConnectIp
  <1> QED BY <1>1, <1>2

\* What no step of c takes back.
Later(c) ==
    /\ Stage(conn[c].state) <= Stage(conn'[c].state)
    /\ conn[c].state # "none" =>
          /\ conn'[c].state # "none" /\ conn'[c].port = conn[c].port
          /\ conn'[c].ip = conn[c].ip /\ conn'[c].slot = conn[c].slot
    /\ conn[c].state \notin {"none", "refused"} => conn'[c].state \notin {"none", "refused"}
    /\ conn[c].state = "ended" => conn'[c].bytes = conn[c].bytes

\* It relays, or the ticker of its relay is alive.
Relays(r) == r.state \in {"relaying", "closing"} \/ r.ticker

\* What c may say when.
Speaks(c, e) ==
    /\ e.of = c /\ e.port = conn[c].port /\ e.type # "IpTargetChanged"
    /\ conn[c].state \notin {"none", "refused"}
    /\ e.type = "ConnectionAccepted" => e.ip = conn[c].ip
    /\ e.type = "ConnectionError" => conn[c].state = "connecting"
    /\ e.type \in {"BypassComplete", "BypassFailed", "RelayFinished"} =>
          conn[c].state \in Running
    /\ e.type = "RelayFinished" => e.bytes = conn'[c].bytes
    /\ e.type \in Heard => /\ Stage(conn[c].state) < Rank(e.type)
                           /\ Rank(e.type) <= Stage(conn'[c].state)
    /\ conn'[c].state \in Running =>
          conn[c].state \in Running \/ e.type = "ConnectionAccepted"
    /\ e.type \in {"RelayProgress", "RelayFinished"} => Relays(conn[c])
    /\ e.type = "BypassFailed" => conn[c].state = "bypassing"
    /\ Relays(conn'[c]) => Relays(conn[c]) \/ e.type = "BypassComplete"

\* A step of c, seen from outside.
Step(c) ==
    /\ conn' \in [Conns -> ConnType] /\ \A d \in Conns \ {c} : conn'[d] = conn[d]
    /\ Later(c)
    /\ conn'[c].ticker => conn'[c].state \in {"relaying", "closing", "ended"}
    /\ conn'[c].state # "none" => conn'[c].ip \in Known
    /\ index' \in Nat
    /\ UNCHANGED <<pool, target, announce, swaps, segmenting>>
    /\ \/ /\ events' = events
          /\ conn'[c].state \in Running => conn[c].state \in Running
          /\ Relays(conn'[c]) => Relays(conn[c])
       \/ \E e \in EventType : events' = Append(events, e) /\ Speaks(c, e)

LEMMA ConnectionStep ==
    ASSUME Types, ConnInv, NEW c \in Conns, Connection(c)
    PROVE  Step(c)
  <1> DEFINE r == conn[c]
  <1>0. /\ r \in ConnType /\ r.state \in States /\ r.bytes \in Nat
        /\ conn \in [Conns -> ConnType] /\ index \in Nat
        /\ r.ticker => r.state \in {"relaying", "closing", "ended"}
        /\ r.state # "none" => r.ip \in Known
    BY DEF Types, ConnType, ConnInv
  <1>1. CASE Accept(c)
    <2>1. PICK p \in Ports : 
             conn' = [conn EXCEPT ![c].state = IF ConnectIp \in IPv6 THEN "refused" ELSE "connecting",
                                  ![c].port = p, ![c].ip = ConnectIp,
                                  ![c].slot = IF Poolless THEN 0 ELSE NextInPool]
      BY <1>1 DEF Accept
    <2>2. r.state = "none"
      BY <1>1 DEF Accept, In
    <2>3. ConnectIp \in Known
      BY ConnectIpKnown
    <2>4. (IF Poolless THEN 0 ELSE NextInPool) \in Nat
      BY SlotInPool DEF Poolless, Types
    <2>5. index' \in Nat
      BY <1>0, <1>1, AcceptorAssumption DEF Accept
    <2> DEFINE q == conn'[c]
    <2>6. /\ q \in ConnType /\ q.state \in {"refused", "connecting"} /\ q.ip \in Known
          /\ ~q.ticker
          /\ conn' \in [Conns -> ConnType] /\ \A d \in Conns \ {c} : conn'[d] = conn[d]
      BY <1>0, <2>1, <2>2, <2>3, <2>4 DEF ConnType, States
    <2>7. UNCHANGED <<pool, target, announce, swaps, segmenting, events>>
      BY <1>1 DEF Accept
    <2> HIDE DEF q, r
    <2> QED BY <2>2, <2>5, <2>6, <2>7 DEF Step, Later, Stage, Running, Relays, q, r
  <1>2. CASE ConnectFails(c)
    <2> DEFINE e == Event("ConnectionError", c, NoAddress, 0)
               q == conn'[c]
    <2>1. /\ r.state = "connecting" /\ events' = Append(events, e)
          /\ UNCHANGED <<pool, index, target, announce, swaps, segmenting>>
      BY <1>2 DEF ConnectFails, In, Send
    <2>2. /\ q \in ConnType /\ q.state = "ended" /\ q.port = r.port /\ q.ip = r.ip
          /\ q.slot = r.slot /\ q.bytes = r.bytes /\ (q.ticker => r.ticker)
          /\ conn' \in [Conns -> ConnType] /\ \A d \in Conns \ {c} : conn'[d] = conn[d]
      BY <1>0, <1>2 DEF ConnectFails, Becomes, ConnType, States
    <2>0. "ConnectionError" \in EventTypes /\ NoAddress \in Known \cup {NoAddress} /\ 0 \in Nat
      BY <1>0, <2>1 DEF EventTypes, Heard
    <2>3. /\ e \in EventType /\ e.type = "ConnectionError" /\ e.of = c /\ e.port = r.port
          /\ e.ip = NoAddress /\ e.bytes = 0
      BY <1>0, <2>0 DEF Event, EventType, ConnType
    <2> HIDE DEF e, q, r
    <2>4. Speaks(c, e)
      BY <1>0, <2>1, <2>2, <2>3 DEF Speaks, Stage, Rank, Running, Relays, Heard, q, r
    <2> QED BY <1>0, <2>1, <2>2, <2>3, <2>4 DEF Step, Later, Stage, Running, q, r
  <1>3. CASE Connects(c)
    <2> DEFINE e == Event("ConnectionAccepted", c, conn[c].ip, 0)
               q == conn'[c]
    <2>1. /\ r.state = "connecting" /\ events' = Append(events, e)
          /\ UNCHANGED <<pool, index, target, announce, swaps, segmenting>>
      BY <1>3 DEF Connects, In, Send
    <2>2. /\ q \in ConnType /\ q.state = "bypassing" /\ q.port = r.port /\ q.ip = r.ip
          /\ q.slot = r.slot /\ q.bytes = r.bytes /\ (q.ticker => r.ticker)
          /\ conn' \in [Conns -> ConnType] /\ \A d \in Conns \ {c} : conn'[d] = conn[d]
      BY <1>0, <1>3 DEF Connects, Becomes, ConnType, States
    <2>0. "ConnectionAccepted" \in EventTypes /\ conn[c].ip \in Known /\ 0 \in Nat
      BY <1>0, <2>1 DEF EventTypes, Heard
    <2>3. /\ e \in EventType /\ e.type = "ConnectionAccepted" /\ e.of = c /\ e.port = r.port
          /\ e.ip = conn[c].ip /\ e.bytes = 0
      BY <1>0, <2>0 DEF Event, EventType, ConnType
    <2> HIDE DEF e, q, r
    <2>4. Speaks(c, e)
      BY <1>0, <2>1, <2>2, <2>3 DEF Speaks, Stage, Rank, Running, Relays, Heard, q, r
    <2> QED BY <1>0, <2>1, <2>2, <2>3, <2>4 DEF Step, Later, Stage, Running, q, r
  <1>4. CASE BypassFails(c)
    <2> DEFINE e == Event("BypassFailed", c, NoAddress, 0)
               q == conn'[c]
    <2>1. /\ r.state = "bypassing" /\ events' = Append(events, e)
          /\ UNCHANGED <<pool, index, target, announce, swaps, segmenting>>
      BY <1>4 DEF BypassFails, In, Send
    <2>2. /\ q \in ConnType /\ q.state = "ended" /\ q.port = r.port /\ q.ip = r.ip
          /\ q.slot = r.slot /\ q.bytes = r.bytes /\ (q.ticker => r.ticker)
          /\ conn' \in [Conns -> ConnType] /\ \A d \in Conns \ {c} : conn'[d] = conn[d]
      BY <1>0, <1>4 DEF BypassFails, Becomes, ConnType, States
    <2>0. "BypassFailed" \in EventTypes /\ NoAddress \in Known \cup {NoAddress} /\ 0 \in Nat
      BY <1>0, <2>1 DEF EventTypes, Heard
    <2>3. /\ e \in EventType /\ e.type = "BypassFailed" /\ e.of = c /\ e.port = r.port
          /\ e.ip = NoAddress /\ e.bytes = 0
      BY <1>0, <2>0 DEF Event, EventType, ConnType
    <2> HIDE DEF e, q, r
    <2>4. Speaks(c, e)
      BY <1>0, <2>1, <2>2, <2>3 DEF Speaks, Stage, Rank, Running, Relays, Heard, q, r
    <2> QED BY <1>0, <2>1, <2>2, <2>3, <2>4 DEF Step, Later, Stage, Running, q, r
  <1>5. CASE Bypassed(c)
    <2> DEFINE e == Event("BypassComplete", c, NoAddress, 0)
               q == conn'[c]
    <2>1. /\ r.state = "bypassing" /\ events' = Append(events, e)
          /\ UNCHANGED <<pool, index, target, announce, swaps, segmenting>>
      BY <1>5 DEF Bypassed, In, Send
    <2>2. /\ q \in ConnType /\ q.state = "relaying" /\ q.port = r.port /\ q.ip = r.ip
          /\ q.slot = r.slot /\ q.bytes = r.bytes
          /\ conn' \in [Conns -> ConnType] /\ \A d \in Conns \ {c} : conn'[d] = conn[d]
      BY <1>0, <1>5 DEF Bypassed, Becomes, ConnType, States
    <2>0. "BypassComplete" \in EventTypes /\ NoAddress \in Known \cup {NoAddress} /\ 0 \in Nat
      BY <1>0, <2>1 DEF EventTypes, Heard
    <2>3. /\ e \in EventType /\ e.type = "BypassComplete" /\ e.of = c /\ e.port = r.port
          /\ e.ip = NoAddress /\ e.bytes = 0
      BY <1>0, <2>0 DEF Event, EventType, ConnType
    <2> HIDE DEF e, q, r
    <2>4. Speaks(c, e)
      BY <1>0, <2>1, <2>2, <2>3 DEF Speaks, Stage, Rank, Running, Relays, Heard, q, r
    <2> QED BY <1>0, <2>1, <2>2, <2>3, <2>4 DEF Step, Later, Stage, Running, q, r
  <1>6. CASE RelayEnds(c)
    <2> DEFINE e == Event("RelayFinished", c, NoAddress, conn[c].bytes)
               q == conn'[c]
    <2>1. /\ r.state = "closing" /\ events' = Append(events, e)
          /\ UNCHANGED <<pool, index, target, announce, swaps, segmenting>>
      BY <1>6 DEF RelayEnds, In, Send
    <2>2. /\ q \in ConnType /\ q.state = "ended" /\ q.port = r.port /\ q.ip = r.ip
          /\ q.slot = r.slot /\ q.bytes = r.bytes /\ (q.ticker => r.ticker)
          /\ conn' \in [Conns -> ConnType] /\ \A d \in Conns \ {c} : conn'[d] = conn[d]
      BY <1>0, <1>6 DEF RelayEnds, Becomes, ConnType, States
    <2>0. "RelayFinished" \in EventTypes /\ conn[c].bytes \in Nat
      BY <1>0 DEF EventTypes, Heard
    <2>3. /\ e \in EventType /\ e.type = "RelayFinished" /\ e.of = c /\ e.port = r.port
          /\ e.ip = NoAddress /\ e.bytes = conn[c].bytes
      BY <1>0, <2>0 DEF Event, EventType, ConnType
    <2> HIDE DEF e, q, r
    <2>4. Speaks(c, e)
      BY <1>0, <2>1, <2>2, <2>3 DEF Speaks, Stage, Rank, Running, Relays, Heard, q, r
    <2> QED BY <1>0, <2>1, <2>2, <2>3, <2>4 DEF Step, Later, Stage, Running, q, r
  <1>7. CASE Tick(c)
    <2>1. PICK b \in (IF In(c, {"relaying"}) THEN conn[c].bytes ELSE 0) .. MaxBytes :
             /\ Send(Event("RelayProgress", c, NoAddress, b))
             /\ conn' = [conn EXCEPT ![c].ticker = In(c, {"relaying"}),
                                     ![c].bytes = IF In(c, {"relaying"}) THEN b ELSE @]
      BY <1>7 DEF Tick
    <2> DEFINE e == Event("RelayProgress", c, NoAddress, b)
               q == conn'[c]
    <2>2. /\ r.state \in {"relaying", "closing", "ended"} /\ r.ticker
          /\ events' = Append(events, e)
          /\ UNCHANGED <<pool, index, target, announce, swaps, segmenting>> /\ b \in Nat
      <3>1. (IF In(c, {"relaying"}) THEN conn[c].bytes ELSE 0) \in Nat /\ MaxBytes \in Nat
        BY <1>0, AcceptorAssumption
      <3>2. b \in Nat
        BY <2>1, <3>1
      <3> QED BY <1>0, <1>7, <2>1, <3>2 DEF Tick, Send
    <2>3. /\ q \in ConnType /\ q.state = r.state /\ q.port = r.port /\ q.ip = r.ip
          /\ q.slot = r.slot /\ (r.state = "ended" => q.bytes = r.bytes)
          /\ conn' \in [Conns -> ConnType] /\ \A d \in Conns \ {c} : conn'[d] = conn[d]
      <3>1. \E t \in BOOLEAN, m \in Nat :
               /\ conn' = [conn EXCEPT ![c].ticker = t, ![c].bytes = m]
               /\ r.state = "ended" => m = r.bytes
        <4>1. CASE r.state = "relaying"
          <5>1. conn' = [conn EXCEPT ![c].ticker = TRUE, ![c].bytes = b]
            BY <2>1, <4>1 DEF In
          <5>2. r.state # "ended" /\ b \in Nat
            BY <2>2, <4>1
          <5> HIDE DEF r
          <5>3. TRUE \in BOOLEAN
            OBVIOUS
          <5> QED BY <5>1, <5>2, <5>3
        <4>2. CASE r.state # "relaying"
          <5>0. In(c, {"relaying"}) = FALSE
            BY <4>2 DEF In
          <5>1. conn' = [conn EXCEPT ![c].ticker = FALSE, ![c].bytes = r.bytes]
            BY <1>0, <2>1, <5>0 DEF ConnType
          <5>2. r.bytes \in Nat
            BY <1>0
          <5> WITNESS FALSE \in BOOLEAN, r.bytes \in Nat
          <5> QED BY <5>1
        <4> QED BY <4>1, <4>2
      <3>2. PICK t \in BOOLEAN, m \in Nat :
               /\ conn' = [conn EXCEPT ![c].ticker = t, ![c].bytes = m]
               /\ r.state = "ended" => m = r.bytes
        BY <3>1
      <3> QED BY <1>0, <3>2 DEF ConnType
    <2>4. /\ e \in EventType /\ e.type = "RelayProgress" /\ e.of = c /\ e.port = r.port
      <3>1. "RelayProgress" \in EventTypes
        BY DEF EventTypes
      <3>2. b \in Nat /\ NoAddress \in Known \cup {NoAddress}
        BY <2>2
      <3> QED BY <1>0, <3>1, <3>2 DEF Event, EventType, ConnType
    <2> HIDE DEF e, q, r
    <2>5. Speaks(c, e)
      BY <1>0, <2>2, <2>3, <2>4 DEF Speaks, Stage, Rank, Running, Relays, Heard, q, r
    <2> QED BY <1>0, <2>2, <2>3, <2>4, <2>5 DEF Step, Later, Stage, Running, q, r
  <1>8. CASE EndsSilently(c) \/ TickerEnds(c) \/ RelayCloses(c)
    <2> DEFINE q == conn'[c]
    <2>1. UNCHANGED <<pool, index, target, announce, swaps, segmenting, events>>
      BY <1>8 DEF EndsSilently, TickerEnds, RelayCloses
    <2>2. \/ r.state = "bypassing" /\ conn' = [conn EXCEPT ![c].state = "ended"]
          \/ r.state = "ended" /\ conn' = [conn EXCEPT ![c].ticker = FALSE]
          \/ /\ r.state = "relaying"
             /\ \E b \in Nat : conn' = [conn EXCEPT ![c].state = "closing", ![c].bytes = b]
      BY <1>0, <1>8, AcceptorAssumption DEF EndsSilently, TickerEnds, RelayCloses, Becomes, In
    <2>3. /\ q \in ConnType /\ q.port = r.port /\ q.ip = r.ip /\ q.slot = r.slot
          /\ conn' \in [Conns -> ConnType] /\ \A d \in Conns \ {c} : conn'[d] = conn[d]
          /\ \/ r.state = "bypassing" /\ q.state = "ended" /\ (q.ticker => r.ticker)
             \/ r.state = "ended" /\ q.state = "ended" /\ q.bytes = r.bytes /\ ~q.ticker
             \/ r.state = "relaying" /\ q.state = "closing"
      <3>1. CASE r.state = "bypassing" /\ conn' = [conn EXCEPT ![c].state = "ended"]
        BY <1>0, <3>1 DEF ConnType, States
      <3>2. CASE r.state = "ended" /\ conn' = [conn EXCEPT ![c].ticker = FALSE]
        BY <1>0, <3>2 DEF ConnType, States
      <3>3. CASE /\ r.state = "relaying"
                 /\ \E b \in Nat : conn' = [conn EXCEPT ![c].state = "closing", ![c].bytes = b]
        <4>1. PICK b \in Nat : conn' = [conn EXCEPT ![c].state = "closing", ![c].bytes = b]
          BY <3>3
        <4> QED BY <1>0, <3>3, <4>1 DEF ConnType, States
      <3> QED BY <2>2, <3>1, <3>2, <3>3
    <2> HIDE DEF q, r
    <2> QED BY <1>0, <2>1, <2>3 DEF Step, Later, Stage, Running, Relays, q, r
  <1> QED BY <1>1, <1>2, <1>3, <1>4, <1>5, <1>6, <1>7, <1>8 DEF Connection

-----------------------------------------------------------------------------
\* The channel and the list of records.

LEMMA TailOf ==
    ASSUME NEW S, NEW s \in Seq(S), s # <<>>
    PROVE  /\ Len(s) \in Nat /\ Len(s) > 0 /\ Head(s) = s[1] /\ s[1] \in S
           /\ Tail(s) \in Seq(S) /\ Len(Tail(s)) = Len(s) - 1
           /\ \A i \in 1 .. Len(s) - 1 : Tail(s)[i] = s[i + 1]
  OBVIOUS

LEMMA AppendTo ==
    ASSUME NEW S, NEW s \in Seq(S), NEW e \in S
    PROVE  /\ Append(s, e) \in Seq(S) /\ Len(s) \in Nat /\ Len(Append(s, e)) = Len(s) + 1
           /\ \A i \in 1 .. Len(s) : Append(s, e)[i] = s[i]
           /\ Append(s, e)[Len(s) + 1] = e
  OBVIOUS

\* What Prune keeps: nothing is invented, and no active record goes.
Kept(new, old) ==
    /\ new \in Seq(RecordType)
    /\ \A n \in 1 .. Len(new) : \E m \in 1 .. Len(old) : new[n] = old[m]
    /\ \A m \in 1 .. Len(old) : IsActive(old[m]) => \E n \in 1 .. Len(new) : new[n] = old[m]

LEMMA PruneKeeps ==
    ASSUME NEW rs \in Seq(RecordType)
    PROVE  Kept(Prune(rs), rs)
  <1> DEFINE F == {n \in DOMAIN rs : ~IsActive(rs[n])}
  <1>0. Len(rs) \in Nat /\ DOMAIN rs = 1 .. Len(rs) /\ \A n \in 1 .. Len(rs) : rs[n] \in RecordType
    OBVIOUS
  <1>1. CASE Len(rs) > MaxRecords /\ F # {}
    <2> DEFINE x == Max(F)
    <2>1. x \in F
      <3>1. F \in SUBSET (1 .. Len(rs))
        BY <1>0
      <3> HIDE DEF F
      <3> QED BY <1>0, <1>1, <3>1, MaxIn
    <2>2. x \in 1 .. Len(rs) /\ ~IsActive(rs[x])
      BY <1>0, <2>1
    <2>3. Prune(rs) = SubSeq(rs, 1, x - 1) \o SubSeq(rs, x + 1, Len(rs))
      BY <1>1 DEF Prune, RemoveAt
    <2> HIDE DEF x, F
    <2> DEFINE L == SubSeq(rs, 1, x - 1)
               R == SubSeq(rs, x + 1, Len(rs))
    <2>4. /\ L \in Seq(RecordType) /\ Len(L) = x - 1
          /\ \A n \in 1 .. x - 1 : L[n] = rs[n]
      <3>1. \A i \in 1 .. x - 1 : rs[i] \in RecordType
        BY <1>0, <2>2
      <3>2. x - 1 \in Int /\ 1 \in Int /\ x \in Int
        BY <1>0, <2>2
      <3>3. /\ L \in Seq(RecordType) /\ Len(L) = IF 1 <= x - 1 THEN (x - 1) - 1 + 1 ELSE 0
            /\ \A n \in 1 .. (x - 1) - 1 + 1 : L[n] = rs[1 + n - 1]
        BY <3>1, <3>2, SubSeqProperties
      <3> QED BY <1>0, <2>2, <3>3
    <2>5. /\ R \in Seq(RecordType) /\ Len(R) = Len(rs) - x
          /\ \A n \in 1 .. Len(rs) - x : R[n] = rs[x + n]
      <3>1. \A i \in x + 1 .. Len(rs) : rs[i] \in RecordType
        BY <1>0, <2>2
      <3>2. x + 1 \in Int /\ Len(rs) \in Int
        BY <1>0, <2>2
      <3>3. /\ R \in Seq(RecordType)
            /\ Len(R) = IF x + 1 <= Len(rs) THEN Len(rs) - (x + 1) + 1 ELSE 0
            /\ \A n \in 1 .. Len(rs) - (x + 1) + 1 : R[n] = rs[(x + 1) + n - 1]
        BY <3>1, <3>2, SubSeqProperties
      <3>4. Len(rs) - (x + 1) + 1 = Len(rs) - x
        BY <1>0, <2>2
      <3>5. Len(R) = Len(rs) - x
        <4>1. Len(R) = IF x + 1 <= Len(rs) THEN Len(rs) - (x + 1) + 1 ELSE 0
          BY <3>3
        <4>2. x \in Int /\ x <= Len(rs) /\ Len(rs) \in Int
          BY <1>0, <2>2
        <4> HIDE DEF R
        <4> QED BY <4>1, <4>2
      <3>6. \A n \in 1 .. Len(rs) - x : (x + 1) + n - 1 = x + n
        BY <1>0, <2>2
      <3> QED BY <3>3, <3>4, <3>5, <3>6
    <2> HIDE DEF L, R
    <2>6. /\ L \o R \in Seq(RecordType) /\ Len(L \o R) = Len(rs) - 1
          /\ \A n \in 1 .. x - 1 : (L \o R)[n] = rs[n]
          /\ \A n \in x .. Len(rs) - 1 : (L \o R)[n] = rs[n + 1]
      <3>1. L \o R \in Seq(RecordType) /\ Len(L \o R) = Len(L) + Len(R)
        BY <2>4, <2>5, ConcatProperties
      <3>2. \A n \in 1 .. Len(L) + Len(R) :
               (L \o R)[n] = IF n <= Len(L) THEN L[n] ELSE R[n - Len(L)]
        BY <2>4, <2>5, ConcatProperties
      <3>3. ASSUME NEW n \in x .. Len(rs) - 1
            PROVE  (L \o R)[n] = rs[n + 1]
        <4>1. n - (x - 1) \in 1 .. Len(rs) - x /\ n \in 1 .. Len(L) + Len(R) /\ ~(n <= Len(L))
          BY <1>0, <2>2, <2>4, <2>5
        <4>2. R[n - (x - 1)] = rs[x + (n - (x - 1))]
          BY <2>5, <4>1
        <4>3. x + (n - (x - 1)) = n + 1
          BY <1>0, <2>2
        <4> QED BY <2>4, <3>2, <4>1, <4>2, <4>3
      <3>4. ASSUME NEW n \in 1 .. x - 1
            PROVE  (L \o R)[n] = rs[n]
        BY <1>0, <2>2, <2>4, <2>5, <3>2
      <3>5. Len(L) + Len(R) = Len(rs) - 1
        BY <1>0, <2>2, <2>4, <2>5
      <3> QED BY <3>1, <3>3, <3>4, <3>5
    <2> DEFINE P == Prune(rs)
    <2>7. /\ P \in Seq(RecordType) /\ Len(P) = Len(rs) - 1
          /\ \A n \in 1 .. x - 1 : P[n] = rs[n]
          /\ \A n \in x .. Len(rs) - 1 : P[n] = rs[n + 1]
      BY <2>3, <2>6 DEF L, R
    <2> HIDE DEF P
    <2>8. \A n \in 1 .. Len(P) : \E m \in 1 .. Len(rs) : P[n] = rs[m]
      <3> SUFFICES ASSUME NEW n \in 1 .. Len(P)
                   PROVE  \E m \in 1 .. Len(rs) : P[n] = rs[m]
        OBVIOUS
      <3>1. n \in 1 .. x - 1 \/ n \in x .. Len(rs) - 1
        BY <1>0, <2>2, <2>7
      <3>2. n \in 1 .. Len(rs) /\ n + 1 \in 1 .. Len(rs)
        BY <1>0, <2>2, <2>7
      <3> QED BY <2>7, <3>1, <3>2
    <2>9. \A m \in 1 .. Len(rs) : IsActive(rs[m]) => \E n \in 1 .. Len(P) : P[n] = rs[m]
      <3> SUFFICES ASSUME NEW m \in 1 .. Len(rs), IsActive(rs[m])
                   PROVE  \E n \in 1 .. Len(P) : P[n] = rs[m]
        OBVIOUS
      <3>1. CASE m < x
        <4>1. m \in 1 .. x - 1 /\ m \in 1 .. Len(P)
          BY <1>0, <2>2, <2>7, <3>1
        <4> QED BY <2>7, <4>1
      <3>2. CASE m > x
        <4>1. m - 1 \in x .. Len(rs) - 1 /\ m - 1 \in 1 .. Len(P) /\ (m - 1) + 1 = m
          BY <1>0, <2>2, <2>7, <3>2
        <4> QED BY <2>7, <4>1
      <3> QED BY <1>0, <2>2, <3>1, <3>2
    <2> QED BY <2>7, <2>8, <2>9 DEF Kept, P
  <1>2. CASE ~(Len(rs) > MaxRecords /\ F # {})
    BY <1>0, <1>2 DEF Prune, Kept
  <1> QED BY <1>1, <1>2

\* The record that is found has the port; none is found only if none has it.
LEMMA FindSound ==
    ASSUME records \in Seq(RecordType), NEW port
    PROVE  \/ Find(port) = 0 /\ \A n \in 1 .. Len(records) : records[n].port # port
           \/ /\ Find(port) \in 1 .. Len(records) /\ Find(port) # 0
              /\ records[Find(port)].port = port
  <1> DEFINE at == {n \in DOMAIN records : records[n].port = port}
  <1>1. DOMAIN records = 1 .. Len(records) /\ Len(records) \in Nat
    OBVIOUS
  <1>2. CASE at = {}
    BY <1>1, <1>2 DEF Find
  <1>3. CASE at # {}
    <2>1. at \in SUBSET Nat
      BY <1>1
    <2>2. PICK m \in at : \A k \in at : m <= k
      <3> HIDE DEF at
      <3> QED BY <1>3, <2>1, Least
    <2>3. Min(at) \in at
      BY <2>2 DEF Min
    <2>4. Find(port) = Min(at)
      BY <1>3 DEF Find
    <2> QED BY <1>1, <2>3, <2>4
  <1> QED BY <1>2, <1>3

LEMMA ChangeKeeps ==
    ASSUME records \in Seq(RecordType), NEW port, NEW r, Change(port, r),
           Find(port) # 0 => r \in RecordType
    PROVE  \E rs \in Seq(RecordType) :
              /\ Kept(records', rs) /\ Len(rs) = Len(records)
              /\ \A n \in 1 .. Len(records) : rs[n] = IF n = Find(port) THEN r ELSE records[n]
  <1>1. CASE Find(port) = 0
    <2>1. Kept(records', records)
      BY <1>1, PruneKeeps DEF Change
    <2>2. 0 \notin 1 .. Len(records)
      OBVIOUS
    <2> QED BY <1>1, <2>1, <2>2
  <1>2. CASE Find(port) # 0
    <2> DEFINE rs == [records EXCEPT ![Find(port)] = r]
    <2>1. Find(port) \in 1 .. Len(records) /\ r \in RecordType
      BY <1>2, FindSound
    <2>2. rs \in Seq(RecordType) /\ Len(rs) = Len(records)
      BY <2>1
    <2>3. \A n \in 1 .. Len(records) : rs[n] = IF n = Find(port) THEN r ELSE records[n]
      BY <2>1
    <2>4. records' = Prune(rs)
      BY <1>2 DEF Change
    <2> HIDE DEF rs
    <2>5. Kept(records', rs)
      BY <2>2, <2>4, PruneKeeps
    <2> QED BY <2>2, <2>3, <2>5
  <1> QED BY <1>1, <1>2

-----------------------------------------------------------------------------
\* Types, and the story the events tell.

LEMMA GetsHead ==
    ASSUME Types, Story, NEW t \in EventTypes, Gets(t)
    PROVE  /\ events # <<>> /\ Len(events) \in Nat /\ Len(events) > 0
           /\ Head(events) = events[1] /\ Head(events) \in EventType
           /\ Head(events).type = t /\ EventOK(Head(events))
           /\ events' \in Seq(EventType) /\ Len(events') = Len(events) - 1
           /\ \A i \in 1 .. Len(events) - 1 : events'[i] = events[i + 1]
           /\ heard' \in [Conns -> Heard]
           /\ \A c \in Conns : heard'[c] = IF t \in Heard /\ c = Head(events).of THEN t ELSE heard[c]
           /\ UNCHANGED <<conn, pool, index, target, announce, swaps, segmenting>>
  <1>1. events # <<>> /\ Head(events).type = t /\ events' = Tail(events)
        /\ UNCHANGED <<conn, pool, index, target, announce, swaps, segmenting>>
        /\ heard' = IF t \in Heard THEN [heard EXCEPT ![Head(events).of] = t] ELSE heard
    BY DEF Gets
  <1>2. events \in Seq(EventType) /\ heard \in [Conns -> Heard]
    BY DEF Types
  <1>3. /\ Len(events) \in Nat /\ Len(events) > 0 /\ Head(events) = events[1]
        /\ events[1] \in EventType
        /\ events' \in Seq(EventType) /\ Len(events') = Len(events) - 1
        /\ \A i \in 1 .. Len(events) - 1 : events'[i] = events[i + 1]
    BY <1>1, <1>2, TailOf
  <1>4. EventOK(events[1])
    BY <1>3 DEF Story
  <1>5. /\ heard' \in [Conns -> Heard]
        /\ \A c \in Conns : heard'[c] = IF t \in Heard /\ c = Head(events).of THEN t ELSE heard[c]
    BY <1>1, <1>2
  <1> QED BY <1>1, <1>3, <1>4, <1>5

LEMMA ChangedRecords ==
    ASSUME Types, NEW port, NEW r, Change(port, r), Find(port) # 0 => r \in RecordType
    PROVE  records' \in Seq(RecordType)
  BY ChangeKeeps DEF Types, Kept

LEMMA FoundTyped ==
    ASSUME Types, NEW port, Find(port) # 0
    PROVE  Found(port) \in RecordType /\ Found(port).port = port
  <1>1. records \in Seq(RecordType)
    BY DEF Types
  <1>2. Find(port) \in 1 .. Len(records) /\ records[Find(port)].port = port
    BY <1>1, FindSound
  <1> QED BY <1>1, <1>2 DEF Found

\* What an event changes in a record, and what it leaves alone.
LEMMA RecordEdit ==
    ASSUME NEW q \in RecordType,
           NEW status \in {"Connecting", "Relaying", "Failed", "Done"}, NEW bytes \in Nat
    PROVE  /\ [q EXCEPT !.status = status] \in RecordType
           /\ [q EXCEPT !.status = status, !.live = FALSE] \in RecordType
           /\ [q EXCEPT !.status = status, !.live = FALSE, !.bytes = bytes] \in RecordType
           /\ [q EXCEPT !.bytes = bytes] \in RecordType
  <1>1. [q EXCEPT !.status = status] \in RecordType
    BY DEF RecordType
  <1>2. [q EXCEPT !.status = status, !.live = FALSE] \in RecordType
    BY DEF RecordType
  <1>3. [q EXCEPT !.status = status, !.live = FALSE, !.bytes = bytes] \in RecordType
    BY DEF RecordType
  <1>4. [q EXCEPT !.bytes = bytes] \in RecordType
    BY DEF RecordType
  <1> QED BY <1>1, <1>2, <1>3, <1>4

\* A counter of an address goes up.
LEMMA CountedUp ==
    ASSUME NEW S, NEW f \in [S -> Nat], NEW x, NEW n \in Nat
    PROVE  /\ [f EXCEPT ![x] = @ + n] \in [S -> Nat]
           /\ \A y \in S : [f EXCEPT ![x] = @ + n][y] = IF y = x THEN f[y] + n ELSE f[y]
  <1> DEFINE g == [f EXCEPT ![x] = @ + n]
  <1>1. g = [y \in S |-> IF y = x THEN f[x] + n ELSE f[y]]
    OBVIOUS
  <1>2. \A y \in S : (IF y = x THEN f[x] + n ELSE f[y]) \in Nat
    OBVIOUS
  <1> QED BY <1>1, <1>2

LEMMA ApplyTypes ==
    ASSUME Types, Story, Apply
    PROVE  Types' /\ UNCHANGED <<conn, pool, index, target, announce, swaps, segmenting>>
  <1> DEFINE e == Head(events)
             A == /\ events' \in Seq(EventType) /\ heard' \in [Conns -> Heard]
                  /\ UNCHANGED <<conn, pool, index, target, announce, swaps, segmenting>>
             B == /\ records' \in Seq(RecordType)
                  /\ activeCount' \in Nat /\ totalBytes' \in Nat
                  /\ connsOf' \in [Known -> Nat] /\ bytesOf' \in [Known -> Nat]
                  /\ shownIp' \in Known
  <1>0. /\ activeCount \in Nat /\ totalBytes \in Nat /\ Minus1(activeCount) \in Nat
        /\ connsOf \in [Known -> Nat] /\ bytesOf \in [Known -> Nat]
        /\ shownIp \in Known /\ records \in Seq(RecordType)
    BY DEF Types, Minus1
  <1>1. CASE ApplyAccepted
    <2>1. Gets("ConnectionAccepted") /\ "ConnectionAccepted" \in EventTypes
      BY <1>1 DEF ApplyAccepted, EventTypes, Heard
    <2>2. A /\ e \in EventType /\ EventOK(e) /\ e.type = "ConnectionAccepted"
      BY <2>1, GetsHead
    <2> DEFINE r == [of |-> e.of, port |-> e.port, ip |-> e.ip, status |-> "Connecting",
                     live |-> TRUE, bytes |-> 0]
    <2>3. r \in RecordType
      BY <2>2 DEF RecordType, EventType, EventOK
    <2>4. <<r>> \o records \in Seq(RecordType)
      <3> HIDE DEF r
      <3>1. <<r>> \in Seq(RecordType)
        BY <2>3
      <3> QED BY <1>0, <3>1, ConcatProperties
    <2>5. records' = Prune(<<r>> \o records)
      BY <1>1 DEF ApplyAccepted
    <2>6. records' \in Seq(RecordType)
      <3> HIDE DEF r
      <3> QED BY <2>4, <2>5, PruneKeeps DEF Kept
    <2>7. connsOf' \in [Known -> Nat] /\ activeCount' \in Nat
          /\ UNCHANGED <<totalBytes, bytesOf, shownIp>>
      <3>1. /\ connsOf' = [connsOf EXCEPT ![e.ip] = @ + 1] /\ activeCount' = activeCount + 1
            /\ UNCHANGED <<totalBytes, bytesOf, shownIp>>
        BY <1>1 DEF ApplyAccepted
      <3> HIDE DEF e, r
      <3>2. connsOf' \in [Known -> Nat]
        BY <1>0, <3>1, CountedUp
      <3> QED BY <1>0, <3>1, <3>2
    <2> QED BY <1>0, <2>2, <2>6, <2>7 DEF Types
  <1>2. CASE ApplyBypassed
    <2>1. Gets("BypassComplete") /\ "BypassComplete" \in EventTypes
          /\ Change(e.port, [Found(e.port) EXCEPT !.status = "Relaying"])
          /\ UNCHANGED <<activeCount, totalBytes, connsOf, bytesOf, shownIp>>
      BY <1>2 DEF ApplyBypassed, EventTypes, Heard
    <2>2. A
      BY <2>1, GetsHead
    <2>3. Find(e.port) # 0 => [Found(e.port) EXCEPT !.status = "Relaying"] \in RecordType
      BY FoundTyped, RecordEdit
    <2>4. records' \in Seq(RecordType)
      BY <2>1, <2>3, ChangedRecords
    <2> QED BY <1>0, <2>1, <2>2, <2>4 DEF Types
  <1>3. CASE ApplyFailed
    <2>1. (Gets("BypassFailed") \/ Gets("ConnectionError"))
          /\ "BypassFailed" \in EventTypes /\ "ConnectionError" \in EventTypes
          /\ Change(e.port, [Found(e.port) EXCEPT !.status = "Failed", !.live = FALSE])
          /\ activeCount' = Minus1(activeCount)
          /\ UNCHANGED <<totalBytes, connsOf, bytesOf, shownIp>>
      BY <1>3 DEF ApplyFailed, EventTypes, Heard
    <2>2. A
      BY <2>1, GetsHead
    <2>3. Find(e.port) # 0 => [Found(e.port) EXCEPT !.status = "Failed", !.live = FALSE] \in RecordType
      BY FoundTyped, RecordEdit
    <2>4. records' \in Seq(RecordType)
      BY <2>1, <2>3, ChangedRecords
    <2> QED BY <1>0, <2>1, <2>2, <2>4 DEF Types
  <1>4. CASE ApplyFinished
    <2> DEFINE r == [Found(e.port) EXCEPT !.status = "Done", !.live = FALSE, !.bytes = e.bytes]
    <2>1. Gets("RelayFinished") /\ "RelayFinished" \in EventTypes
          /\ Change(e.port, r)
          /\ activeCount' = Minus1(activeCount)
          /\ bytesOf' = (IF Find(e.port) = 0 THEN bytesOf
                         ELSE [bytesOf EXCEPT ![CreditedIp(e.port)] = @ + e.bytes])
          /\ totalBytes' = totalBytes + e.bytes
          /\ UNCHANGED <<connsOf, shownIp>>
      BY <1>4 DEF ApplyFinished, EventTypes, Heard
    <2>2. A /\ e \in EventType
      BY <2>1, GetsHead
    <2>3. e.bytes \in Nat
      BY <2>2 DEF EventType
    <2>4. Find(e.port) # 0 => r \in RecordType
      BY <2>3, FoundTyped, RecordEdit
    <2>5. records' \in Seq(RecordType)
      <3>1. Change(e.port, r)
        BY <2>1
      <3> HIDE DEF r
      <3> QED BY <2>4, <3>1, ChangedRecords
    <2>6. bytesOf' \in [Known -> Nat] /\ totalBytes' \in Nat
      <3>1. \/ bytesOf' = bytesOf
            \/ bytesOf' = [bytesOf EXCEPT ![CreditedIp(e.port)] = @ + e.bytes]
        BY <2>1
      <3>2. totalBytes' = totalBytes + e.bytes
        BY <2>1
      <3> HIDE DEF e, r
      <3>3. bytesOf' \in [Known -> Nat]
        <4>1. CASE bytesOf' = bytesOf
          BY <1>0, <4>1
        <4>2. CASE bytesOf' = [bytesOf EXCEPT ![CreditedIp(e.port)] = @ + e.bytes]
          <5>1. [bytesOf EXCEPT ![CreditedIp(e.port)] = @ + e.bytes] \in [Known -> Nat]
            BY <1>0, <2>3, CountedUp
          <5> QED BY <4>2, <5>1
        <4> QED BY <3>1, <4>1, <4>2
      <3> QED BY <1>0, <3>2, <3>3, <2>3
    <2> QED BY <1>0, <2>1, <2>2, <2>5, <2>6 DEF Types
  <1>5. CASE ApplyProgress
    <2> DEFINE r == [Found(e.port) EXCEPT !.bytes = e.bytes]
    <2>1. Gets("RelayProgress") /\ "RelayProgress" \in EventTypes
          /\ Change(e.port, r)
          /\ UNCHANGED <<activeCount, totalBytes, connsOf, bytesOf, shownIp>>
      BY <1>5 DEF ApplyProgress, EventTypes, Heard, counters
    <2>2. A /\ e \in EventType
      BY <2>1, GetsHead
    <2>3. e.bytes \in Nat
      BY <2>2 DEF EventType
    <2>4. Find(e.port) # 0 => r \in RecordType
      BY <2>3, FoundTyped, RecordEdit
    <2>5. records' \in Seq(RecordType)
      <3> HIDE DEF r
      <3> QED BY <2>1, <2>4, ChangedRecords
    <2> QED BY <1>0, <2>1, <2>2, <2>5 DEF Types
  <1>6. CASE ApplyTarget
    <2>1. Gets("IpTargetChanged") /\ "IpTargetChanged" \in EventTypes
          /\ shownIp' = e.ip /\ records' = Prune(records)
          /\ UNCHANGED <<activeCount, totalBytes, connsOf, bytesOf>>
      BY <1>6 DEF ApplyTarget, EventTypes, counters
    <2>2. A /\ EventOK(e) /\ e.type = "IpTargetChanged"
      BY <2>1, GetsHead
    <2>3. e.ip \in Known
      BY <2>2 DEF EventOK, Known
    <2>4. records' \in Seq(RecordType)
      BY <1>0, <2>1, PruneKeeps DEF Kept
    <2> QED BY <1>0, <2>1, <2>2, <2>3, <2>4 DEF Types
  <1> QED BY <1>1, <1>2, <1>3, <1>4, <1>5, <1>6 DEF Apply

\* The events of the connections: each is applied as Gets says.
LEMMA ApplyGets ==
    ASSUME Apply
    PROVE  \E t \in EventTypes : Gets(t)
  BY DEF Apply, ApplyAccepted, ApplyBypassed, ApplyFailed, ApplyFinished, ApplyProgress,
         ApplyTarget, EventTypes, Heard

LEMMA Ranks ==
    /\ \A s \in States : Stage(s) \in 0 .. 3 /\ (Stage(s) = 3 => s = "ended")
    /\ \A t \in Heard : Rank(t) \in 0 .. 3 /\ (Rank(t) = 0 <=> t = "nothing")
    /\ \A t \in EventTypes : t # "nothing"
    /\ Rank("RelayFinished") = 3 /\ Rank("ConnectionError") = 3 /\ Rank("ConnectionAccepted") = 1
    /\ Stage("connecting") = 0
  BY DEF Stage, Rank, States, Heard, EventTypes

\* An event is applied.
LEMMA StoryApplied ==
    ASSUME Types, Story, NEW t \in EventTypes, Gets(t)
    PROVE  Story'
  <1> DEFINE e == Head(events)
             L == Len(events)
  <1>1. /\ L \in Nat /\ L > 0 /\ e = events[1] /\ e.type = t /\ EventOK(e)
        /\ Len(events') = L - 1
        /\ \A i \in 1 .. L - 1 : events'[i] = events[i + 1]
        /\ conn' = conn
        /\ \A c \in Conns : heard'[c] = IF t \in Heard /\ c = e.of THEN t ELSE heard[c]
    BY GetsHead
  <1>2. /\ t # "nothing" /\ \A c \in Conns : heard[c] # "nothing" => heard'[c] # "nothing"
    BY <1>1, Ranks
  <1> HIDE DEF e, L
  <1>3. \A i \in 1 .. L - 1 : i + 1 \in 1 .. L /\ 1 < i + 1 /\ 1 \in 1 .. L
    BY <1>1
  <1>4. ASSUME NEW c \in Conns, NEW n \in 1 .. L, AcceptedBefore(c, n + 1)
        PROVE  AcceptedBefore(c, n)'
    <2>1. CASE heard[c] # "nothing"
      BY <1>2, <2>1 DEF AcceptedBefore
    <2>2. CASE heard[c] = "nothing"
      <3>1. PICK k \in 1 .. L : k < n + 1 /\ events[k].type = "ConnectionAccepted" /\ events[k].of = c
        BY <1>4, <2>2 DEF AcceptedBefore, L
      <3>2. CASE k = 1
        <4>1. t = "ConnectionAccepted" /\ e.of = c /\ t \in Heard
          BY <1>1, <3>1, <3>2 DEF Heard
        <4> QED BY <1>1, <1>2, <4>1 DEF AcceptedBefore
      <3>3. CASE k # 1
        <4>1. k - 1 \in 1 .. L - 1 /\ k - 1 < n /\ (k - 1) + 1 = k
          BY <1>1, <3>1, <3>3
        <4>2. events'[k - 1] = events[k]
          BY <1>1, <4>1
        <4> QED BY <1>1, <3>1, <4>1, <4>2 DEF AcceptedBefore
      <3> QED BY <3>2, <3>3
    <2> QED BY <2>1, <2>2
  <1>5. ASSUME NEW i \in 1 .. L - 1
        PROVE  EventOK(events[i])'
    <2>0. PICK f : f = events[i + 1]
      OBVIOUS
    <2>1. EventOK(f) /\ events'[i] = f
      BY <1>1, <1>3, <2>0 DEF Story, L
    <2>2. f.type \in Heard /\ t \in Heard /\ f.of = e.of => Rank(t) < Rank(f.type)
      BY <1>1, <1>3, <2>0 DEF Story, L, Tells
    <2>3. CASE f.type = "IpTargetChanged"
      BY <2>1, <2>3 DEF EventOK
    <2>4. CASE f.type # "IpTargetChanged"
      <3>1. /\ f.of \in Conns /\ f.port = conn[f.of].port
            /\ conn[f.of].state \notin {"none", "refused"}
            /\ f.type = "ConnectionAccepted" => f.ip = conn[f.of].ip
            /\ f.type = "RelayFinished" => f.bytes = conn[f.of].bytes
            /\ f.type \in Heard => /\ Rank(heard[f.of]) < Rank(f.type)
                                   /\ Rank(f.type) <= Stage(conn[f.of].state)
        BY <2>1, <2>4 DEF EventOK
      <3>2. f.type \in Heard => Rank(heard'[f.of]) < Rank(f.type)
        BY <1>1, <2>2, <3>1
      <3>3. EventOK(f)'
        BY <1>1, <2>4, <3>1, <3>2 DEF EventOK
      <3> QED BY <2>1, <3>1, <3>2, <2>4, <1>1 DEF EventOK
    <2> QED BY <2>3, <2>4
  <1>6. ASSUME NEW i \in 1 .. L - 1, NEW k \in 1 .. L - 1,
               i < k, Tells(i)', Tells(k)', (events[i].of = events[k].of)'
        PROVE  Rank(events'[i].type) < Rank(events'[k].type)
    <2>1. events'[i] = events[i + 1] /\ events'[k] = events[k + 1]
          /\ i + 1 \in 1 .. L /\ k + 1 \in 1 .. L /\ i + 1 < k + 1
      BY <1>1, <1>3, <1>6
    <2>2. Tells(i + 1) /\ Tells(k + 1) /\ events[i + 1].of = events[k + 1].of
      BY <1>6, <2>1 DEF Tells
    <2> QED BY <2>1, <2>2 DEF Story, L
  <1>7. ASSUME NEW i \in 1 .. L - 1,
               events'[i].type \in {"BypassComplete", "BypassFailed", "RelayFinished"}
        PROVE  AcceptedBefore(events[i].of, i)'
    <2>1. PICK f : f = events[i + 1]
      OBVIOUS
    <2>2. events'[i] = f /\ f.type \in {"BypassComplete", "BypassFailed", "RelayFinished"}
      BY <1>1, <1>7, <2>1
    <2>3. PICK g \in Conns : g = f.of
      BY <1>3, <2>1, <2>2 DEF Story, L, EventOK
    <2>4. AcceptedBefore(g, i + 1)
      BY <1>3, <2>1, <2>2, <2>3 DEF Story, L
    <2>5. i \in 1 .. L
      BY <1>1
    <2>6. AcceptedBefore(g, i)'
      BY <1>4, <2>4, <2>5
    <2> QED BY <2>2, <2>3, <2>6 DEF AcceptedBefore
  <1>8. ASSUME NEW i \in 1 .. L - 1, events'[i].type = "ConnectionError"
        PROVE  heard'[events'[i].of] = "nothing"
    <2>1. events'[i] = events[i + 1] /\ i + 1 \in 1 .. L /\ 1 \in 1 .. L /\ i + 1 # 1
      BY <1>1, <1>3
    <2>2. heard[events[i + 1].of] = "nothing" /\ events[i + 1].of \in Conns
      BY <1>8, <2>1 DEF Story, L, EventOK
    <2>3. ~(t \in Heard /\ events[i + 1].of = e.of)
      BY <1>1, <1>8, <2>1 DEF Story, L, Tells
    <2> QED BY <1>1, <2>1, <2>2, <2>3
  <1>9. ASSUME NEW i \in 1 .. L - 1, NEW k \in 1 .. L - 1, events'[i].type = "ConnectionError",
               Tells(k)', events'[i].of = events'[k].of
        PROVE  i = k
    <2>1. events'[i] = events[i + 1] /\ events'[k] = events[k + 1]
          /\ i + 1 \in 1 .. L /\ k + 1 \in 1 .. L
      BY <1>1, <1>3
    <2>2. Tells(k + 1)
      BY <1>9, <2>1 DEF Tells
    <2>3. i + 1 = k + 1
      BY <1>9, <2>1, <2>2 DEF Story, L
    <2> QED BY <2>3
  <1>10. ASSUME NEW c \in Conns
         PROVE  Rank(heard'[c]) <= Stage(conn'[c].state)
    <2>1. Rank(heard[c]) <= Stage(conn[c].state)
      BY DEF Story
    <2>2. t \in Heard /\ c = e.of => Rank(t) <= Stage(conn[c].state)
      BY <1>1 DEF EventOK, Heard
    <2> QED BY <1>1, <2>1, <2>2
  <1>11. ASSUME NEW c \in Conns, conn'[c].state \in Running
         PROVE  AcceptedBefore(c, Len(events) + 1)'
    <2>1. PICK n : n = L
      OBVIOUS
    <2>2. AcceptedBefore(c, n + 1)
      BY <1>1, <1>11, <2>1 DEF Story, L
    <2>3. n \in 1 .. L /\ Len(events') + 1 = n
      BY <1>1, <2>1
    <2>4. AcceptedBefore(c, n)'
      BY <1>4, <2>2, <2>3
    <2> QED BY <2>3, <2>4 DEF AcceptedBefore
  <1> QED
    BY <1>1, <1>5, <1>6, <1>7, <1>8, <1>9, <1>10, <1>11 DEF Story

\* What the events say stays true while the connections go on.
LEMMA EventStays ==
    ASSUME Types, NEW f \in EventType, EventOK(f), \A d \in Conns : Later(d),
           NEW i, events'[i] = f, heard' = heard, Types'
    PROVE  EventOK(events[i])'
  <1>1. CASE f.type = "IpTargetChanged"
    BY <1>1 DEF EventOK
  <1>2. CASE f.type # "IpTargetChanged"
    <2>1. PICK c \in Conns : c = f.of
      BY <1>2 DEF EventOK
    <2>2. /\ f.port = conn[c].port /\ conn[c].state \notin {"none", "refused"}
          /\ f.type = "ConnectionAccepted" => f.ip = conn[c].ip
          /\ f.type = "RelayFinished" => f.bytes = conn[c].bytes
          /\ f.type \in Heard => /\ Rank(heard[c]) < Rank(f.type)
                                 /\ Rank(f.type) <= Stage(conn[c].state)
      BY <1>2, <2>1 DEF EventOK
    <2>3. conn[c].state \in States /\ conn'[c].state \in States
      BY DEF Types, ConnType
    <2>4. /\ conn'[c].port = conn[c].port /\ conn'[c].ip = conn[c].ip
          /\ conn'[c].state \notin {"none", "refused"}
          /\ Stage(conn[c].state) <= Stage(conn'[c].state)
          /\ conn[c].state = "ended" => conn'[c].bytes = conn[c].bytes
      BY <2>2 DEF Later
    <2>5. f.type = "RelayFinished" => f.bytes = conn'[c].bytes
      <3>1. SUFFICES ASSUME f.type = "RelayFinished" PROVE conn[c].state = "ended"
        BY <2>2, <2>4
      <3>2. Rank(f.type) = 3 /\ f.type \in Heard
        BY <3>1, Ranks DEF Heard
      <3>3. Stage(conn[c].state) = 3
        BY <2>2, <2>3, <3>2, Ranks
      <3> QED BY <2>3, <3>3, Ranks
    <2>6. f.type \in Heard => /\ Rank(heard'[c]) < Rank(f.type)
                              /\ Rank(f.type) <= Stage(conn'[c].state)
      <3>1. f.type \in Heard => Rank(f.type) \in Nat
        BY Ranks
      <3>2. Stage(conn[c].state) \in Nat /\ Stage(conn'[c].state) \in Nat
        BY <2>3, Ranks
      <3> QED BY <2>2, <2>4, <3>1, <3>2
    <2>7. f.type = "ConnectionAccepted" => f.ip = conn'[c].ip
      BY <2>2, <2>4
    <2> QED BY <1>2, <2>1, <2>2, <2>4, <2>5, <2>6, <2>7 DEF EventOK
  <1> QED BY <1>1, <1>2

\* The connections go on and say nothing.
LEMMA StoryQuiet ==
    ASSUME Types, Types', Story, events' = events, heard' = heard,
           \A d \in Conns : Later(d) /\ (conn'[d].state \in Running => conn[d].state \in Running)
    PROVE  Story'
  <1>1. \A i \in 1 .. Len(events) : EventOK(events[i])'
    <2> SUFFICES ASSUME NEW i \in 1 .. Len(events) PROVE EventOK(events[i])'
      OBVIOUS
    <2>1. PICK f \in EventType : f = events[i]
      BY DEF Types
    <2>2. EventOK(f) /\ events'[i] = f
      BY <2>1 DEF Story
    <2>3. \A d \in Conns : Later(d)
      OBVIOUS
    <2> QED BY <2>2, <2>3, EventStays
  <1>2. \A c \in Conns : Rank(heard'[c]) <= Stage(conn'[c].state)
    <2> SUFFICES ASSUME NEW c \in Conns PROVE Rank(heard'[c]) <= Stage(conn'[c].state)
      OBVIOUS
    <2>1. conn[c].state \in States /\ conn'[c].state \in States /\ heard[c] \in Heard
      BY DEF Types, ConnType
    <2>2. Rank(heard[c]) <= Stage(conn[c].state) /\ Stage(conn[c].state) <= Stage(conn'[c].state)
      BY DEF Story, Later
    <2>3. Rank(heard[c]) \in Nat /\ Stage(conn[c].state) \in Nat /\ Stage(conn'[c].state) \in Nat
      BY <2>1, Ranks
    <2> QED BY <2>2, <2>3
  <1>3. \A c \in Conns : conn'[c].state \in Running => AcceptedBefore(c, Len(events) + 1)'
    BY DEF Story, AcceptedBefore
  <1>4. \A i \in 1 .. Len(events) :
           events[i].type \in {"BypassComplete", "BypassFailed", "RelayFinished"} =>
              AcceptedBefore(events[i].of, i)'
    BY DEF Story, AcceptedBefore
  <1> QED BY <1>1, <1>2, <1>3, <1>4 DEF Story, Tells

\* The connections go on and an event is sent.
LEMMA StoryGrows ==
    ASSUME Types, Types', Story, heard' = heard, \A d \in Conns : Later(d),
           NEW e \in EventType, events' = Append(events, e),
           EventOK(events[Len(events)])',
           e.type \in Heard => Stage(conn[e.of].state) < Rank(e.type),
           e.type \in {"BypassComplete", "BypassFailed", "RelayFinished"} =>
              conn[e.of].state \in Running,
           e.type = "ConnectionError" => conn[e.of].state = "connecting",
           \A d \in Conns : conn'[d].state \in Running =>
              conn[d].state \in Running \/ (e.type = "ConnectionAccepted" /\ e.of = d)
    PROVE  Story'
  <1> DEFINE L == Len(events)
  <1>1. PICK n : n = L + 1
    OBVIOUS
  <1>2. /\ events \in Seq(EventType) /\ L \in Nat /\ Len(events') = n
        /\ \A i \in 1 .. L : events'[i] = events[i] /\ events[i] \in EventType
        /\ events'[n] = e
    BY <1>1, AppendTo DEF Types
  <1>3. 1 .. Len(events') = 1 .. L \cup {n} /\ \A i \in 1 .. L : i < n /\ n # i
    BY <1>1, <1>2
  <1>4. EventOK(events[n])'
    BY <1>2
  <1>5. e.type \in Heard => e.of \in Conns
    BY <1>2, <1>4 DEF EventOK, Heard
  <1>6. ASSUME NEW c \in Conns
        PROVE  /\ conn[c].state \in States /\ conn'[c].state \in States /\ heard[c] \in Heard
               /\ Rank(heard[c]) \in Nat /\ Stage(conn[c].state) \in Nat
               /\ Stage(conn'[c].state) \in Nat
               /\ Stage(conn[c].state) <= Stage(conn'[c].state)
    <2>1. conn[c].state \in States /\ conn'[c].state \in States /\ heard[c] \in Heard
      BY DEF Types, ConnType
    <2>2. Stage(conn[c].state) <= Stage(conn'[c].state)
      BY DEF Later
    <2> QED BY <2>1, <2>2, Ranks
  <1> HIDE DEF L
  <1>7. ASSUME NEW i \in 1 .. L
        PROVE  EventOK(events[i])'
    <2>1. PICK f \in EventType : f = events[i]
      BY <1>2
    <2>2. EventOK(f) /\ events'[i] = f
      BY <1>2, <2>1 DEF Story, L
    <2> QED BY <2>2, EventStays
  <1>8. ASSUME NEW i \in 1 .. L, Tells(i), e.type \in Heard, events[i].of = e.of
        PROVE  Rank(events[i].type) < Rank(e.type)
    <2>1. EventOK(events[i]) /\ events[i].type \in Heard
      BY <1>8 DEF Story, L, Tells
    <2>2. Rank(events[i].type) <= Stage(conn[e.of].state)
      BY <1>5, <1>8, <2>1 DEF EventOK, Heard
    <2>3. Stage(conn[e.of].state) \in Nat /\ Rank(e.type) \in Nat /\ Rank(events[i].type) \in Nat
      BY <1>5, <1>6, <1>8, <2>1, Ranks
    <2> QED BY <1>8, <2>2, <2>3
  <1>9. \A i, k \in 1 .. Len(events') :
           i < k /\ Tells(i)' /\ Tells(k)' /\ events'[i].of = events'[k].of =>
              Rank(events'[i].type) < Rank(events'[k].type)
    <2> SUFFICES ASSUME NEW i \in 1 .. Len(events'), NEW k \in 1 .. Len(events'),
                        i < k, Tells(i)', Tells(k)', events'[i].of = events'[k].of
                 PROVE  Rank(events'[i].type) < Rank(events'[k].type)
      OBVIOUS
    <2>1. i \in 1 .. L
      BY <1>1, <1>2, <1>3
    <2>2. CASE k \in 1 .. L
      BY <1>2, <2>1, <2>2 DEF Story, L, Tells
    <2>3. CASE k = n
      BY <1>2, <1>8, <2>1, <2>3 DEF Tells
    <2> QED BY <1>3, <2>2, <2>3
  <1>10. ASSUME NEW c \in Conns, NEW m \in 1 .. L + 1, AcceptedBefore(c, m)
         PROVE  AcceptedBefore(c, m)'
    <2>1. CASE heard[c] # "nothing"
      BY <2>1 DEF AcceptedBefore
    <2>2. CASE heard[c] = "nothing"
      <3>1. PICK k \in 1 .. L : k < m /\ events[k].type = "ConnectionAccepted" /\ events[k].of = c
        BY <1>10, <2>2 DEF AcceptedBefore, L
      <3>2. k \in 1 .. Len(events') /\ events'[k] = events[k]
        BY <1>2, <1>3, <3>1
      <3> QED BY <3>1, <3>2 DEF AcceptedBefore
    <2> QED BY <2>1, <2>2
  <1>11. ASSUME NEW i \in 1 .. Len(events'),
                events'[i].type \in {"BypassComplete", "BypassFailed", "RelayFinished"}
         PROVE  AcceptedBefore(events[i].of, i)'
    <2>1. PICK g : g = events'[i].of
      OBVIOUS
    <2>2. i \in 1 .. L + 1
      BY <1>1, <1>2
    <2>3. CASE i \in 1 .. L
      <3>1. events'[i] = events[i]
        BY <1>2, <2>3
      <3>2. AcceptedBefore(g, i) /\ g \in Conns
        BY <1>11, <2>1, <2>3, <3>1 DEF Story, L, EventOK
      <3>3. AcceptedBefore(g, i)'
        BY <1>10, <2>2, <3>2
      <3> QED BY <2>1, <3>3 DEF AcceptedBefore
    <2>4. CASE i = n
      <3>1. events'[i] = e /\ e.type \in Heard /\ g \in Conns /\ conn[g].state \in Running
        BY <1>2, <1>5, <1>11, <2>1, <2>4 DEF Heard
      <3>2. AcceptedBefore(g, i)
        BY <1>1, <2>4, <3>1 DEF Story, L
      <3>3. AcceptedBefore(g, i)'
        BY <1>10, <2>2, <3>1, <3>2
      <3> QED BY <2>1, <3>3 DEF AcceptedBefore
    <2> QED BY <1>3, <2>3, <2>4
  <1>12. ASSUME NEW i \in 1 .. Len(events'), events'[i].type = "ConnectionError"
         PROVE  heard'[events'[i].of] = "nothing"
    <2>1. CASE i \in 1 .. L
      BY <1>2, <1>12, <2>1 DEF Story, L
    <2>2. CASE i = n
      <3>1. events'[i] = e /\ e.type \in Heard /\ e.of \in Conns /\ conn[e.of].state = "connecting"
        BY <1>2, <1>5, <1>12, <2>2 DEF Heard
      <3>2. Rank(heard[e.of]) <= 0
        BY <3>1, Ranks DEF Story
      <3>3. heard[e.of] = "nothing"
        BY <1>6, <3>1, <3>2, Ranks
      <3> QED BY <3>1, <3>3
    <2> QED BY <1>3, <2>1, <2>2
  <1>13. ASSUME NEW i \in 1 .. Len(events'), NEW k \in 1 .. Len(events'),
                events'[i].type = "ConnectionError", Tells(k)', events'[i].of = events'[k].of
         PROVE  i = k
    <2>0. "ConnectionError" \in Heard
      BY DEF Heard
    <2>1. CASE i \in 1 .. L /\ k \in 1 .. L
      BY <1>2, <1>13, <2>1 DEF Story, L, Tells
    <2>2. CASE i \in 1 .. L /\ k = n
      <3>1. Tells(i) /\ e.type \in Heard /\ events[i].of = e.of /\ Rank(events[i].type) = 3
        BY <1>2, <1>13, <2>0, <2>2, Ranks DEF Tells
      <3>2. 3 < Rank(e.type) /\ Rank(e.type) \in 0 .. 3
        BY <1>8, <2>2, <3>1, Ranks
      <3> QED BY <3>2
    <2>3. CASE i = n /\ k \in 1 .. L
      <3>1. /\ Tells(k) /\ e.type = "ConnectionError" /\ events[k].of = e.of
            /\ e.of \in Conns /\ conn[e.of].state = "connecting"
        BY <1>2, <1>5, <1>13, <2>0, <2>3 DEF Tells
      <3>2. EventOK(events[k]) /\ events[k].type \in Heard /\ events[k].type \in EventTypes
        BY <1>2, <2>3, <3>1 DEF Story, L, Tells, EventType
      <3>3. Rank(events[k].type) <= 0
        BY <3>1, <3>2, Ranks DEF EventOK, Heard
      <3> QED BY <3>2, <3>3, Ranks
    <2> QED BY <1>3, <2>1, <2>2, <2>3
  <1>14. ASSUME NEW c \in Conns
         PROVE  Rank(heard'[c]) <= Stage(conn'[c].state)
    BY <1>6 DEF Story
  <1>15. ASSUME NEW c \in Conns, conn'[c].state \in Running
         PROVE  AcceptedBefore(c, Len(events) + 1)'
    <2>1. CASE conn[c].state \in Running
      <3>1. AcceptedBefore(c, n)
        BY <1>1, <2>1 DEF Story, L
      <3>2. AcceptedBefore(c, n)'
        BY <1>1, <1>2, <1>10, <3>1
      <3> QED BY <1>1, <1>2, <3>2 DEF AcceptedBefore
    <2>2. CASE e.type = "ConnectionAccepted" /\ e.of = c
      <3>1. n \in 1 .. Len(events') /\ n < Len(events') + 1 /\ events'[n] = e
        BY <1>1, <1>2
      <3> QED BY <2>2, <3>1 DEF AcceptedBefore
    <2> QED BY <1>15, <2>1, <2>2
  <1>16. \A i \in 1 .. Len(events') : EventOK(events[i])'
    BY <1>3, <1>4, <1>7
  <1> QED BY <1>9, <1>11, <1>12, <1>13, <1>14, <1>15, <1>16 DEF Story

Base == Types /\ ConnInv /\ Story

\* What no step takes back, for any connection.
LEMMA StepLater ==
    ASSUME Types, NEW c \in Conns, Step(c)
    PROVE  \A d \in Conns : Later(d)
  <1> SUFFICES ASSUME NEW d \in Conns, d # c PROVE Later(d)
    BY DEF Step
  <1>1. conn'[d] = conn[d] /\ conn[d].state \in States
    BY DEF Step, Types, ConnType
  <1>2. Stage(conn[d].state) \in Nat
    BY <1>1, Ranks
  <1> QED BY <1>1, <1>2 DEF Later

LEMMA ConnectionBase ==
    ASSUME Base, NEW c \in Conns, Connection(c), UNCHANGED dashVars
    PROVE  Base' /\ Step(c)
  <1>1. Step(c)
    BY ConnectionStep DEF Base
  <1>2. /\ UNCHANGED <<records, activeCount, totalBytes, connsOf, bytesOf, shownIp, heard>>
        /\ Types /\ ConnInv /\ Story
    BY DEF dashVars, counters, Base
  <1>3. /\ conn' \in [Conns -> ConnType] /\ \A d \in Conns \ {c} : conn'[d] = conn[d]
        /\ conn'[c].ticker => conn'[c].state \in {"relaying", "closing", "ended"}
        /\ conn'[c].state # "none" => conn'[c].ip \in Known
        /\ index' \in Nat
        /\ UNCHANGED <<pool, target, announce, swaps, segmenting>>
    BY <1>1 DEF Step
  <1>4. events' \in Seq(EventType)
    <2>1. events \in Seq(EventType)
      BY <1>2 DEF Types
    <2> QED BY <1>1, <2>1, AppendTo DEF Step
  <1>5. Types'
    BY <1>2, <1>3, <1>4 DEF Types
  <1>6. ConnInv'
    BY <1>2, <1>3 DEF ConnInv
  <1>7. \A d \in Conns : Later(d)
    BY <1>1, <1>2, StepLater
  <1>8. Story'
    <2>1. CASE events' = events /\ (conn'[c].state \in Running => conn[c].state \in Running)
      BY <1>2, <1>3, <1>5, <1>7, <2>1, StoryQuiet
    <2>2. CASE \E e \in EventType : events' = Append(events, e) /\ Speaks(c, e)
      <3>1. PICK e \in EventType : events' = Append(events, e) /\ Speaks(c, e)
        BY <2>2
      <3>2. /\ e.of = c /\ e.port = conn[c].port /\ e.type # "IpTargetChanged"
            /\ conn[c].state \notin {"none", "refused"}
            /\ e.type = "ConnectionAccepted" => e.ip = conn[c].ip
            /\ e.type = "RelayFinished" => e.bytes = conn'[c].bytes
            /\ e.type \in Heard => /\ Stage(conn[c].state) < Rank(e.type)
                                   /\ Rank(e.type) <= Stage(conn'[c].state)
        BY <3>1 DEF Speaks
      <3>3. events'[Len(events')] = e
        BY <1>2, <3>1, AppendTo DEF Types
      <3>4. e.type \in Heard => Rank(heard[c]) < Rank(e.type)
        <4>1. Rank(heard[c]) <= Stage(conn[c].state)
          BY <1>2 DEF Story
        <4>2. heard[c] \in Heard /\ conn[c].state \in States
          BY <1>2 DEF Types, ConnType
        <4>3. Rank(heard[c]) \in Nat /\ Stage(conn[c].state) \in Nat
          BY <4>2, Ranks
        <4>4. e.type \in Heard => Rank(e.type) \in Nat
          BY Ranks
        <4> QED BY <3>2, <4>1, <4>3, <4>4
      <3>5. /\ conn'[c].port = conn[c].port /\ conn'[c].ip = conn[c].ip
            /\ conn'[c].state \notin {"none", "refused"}
        BY <1>7, <3>2 DEF Later
      <3>6. EventOK(events[Len(events)])'
        BY <1>2, <3>2, <3>3, <3>4, <3>5 DEF EventOK
      <3>7. \A d \in Conns : conn'[d].state \in Running =>
               conn[d].state \in Running \/ (e.type = "ConnectionAccepted" /\ e.of = d)
        BY <1>3, <3>1, <3>2 DEF Speaks
      <3>8. /\ e.type \in {"BypassComplete", "BypassFailed", "RelayFinished"} =>
                  conn[c].state \in Running
            /\ e.type = "ConnectionError" => conn[c].state = "connecting"
        BY <3>1 DEF Speaks
      <3> QED BY <1>2, <1>5, <1>7, <3>1, <3>2, <3>6, <3>7, <3>8, StoryGrows
    <2> QED BY <1>1, <2>1, <2>2 DEF Step
  <1> QED BY <1>1, <1>5, <1>6, <1>8 DEF Base

LEMMA AnnounceBase ==
    ASSUME Base, Announce, UNCHANGED dashVars
    PROVE  Base'
  <1> DEFINE e == [type |-> "IpTargetChanged", of |-> 0, port |-> NoPort,
                   ip |-> announce, bytes |-> 0]
  <1>1. /\ announce # NoAddress /\ events' = Append(events, e) /\ announce' = NoAddress
        /\ UNCHANGED <<conn, pool, index, target, swaps, segmenting>>
        /\ UNCHANGED <<records, activeCount, totalBytes, connsOf, bytesOf, shownIp, heard>>
        /\ Types /\ ConnInv /\ Story
    BY DEF Announce, dashVars, counters, Base
  <1>2. announce \in Rescanned
    BY <1>1 DEF Types
  <1>3. e \in EventType /\ e.type = "IpTargetChanged" /\ e.ip \in Rescanned
    BY <1>2 DEF EventType, EventTypes, Known
  <1> HIDE DEF e
  <1>4. events' \in Seq(EventType) /\ events'[Len(events')] = e
    BY <1>1, <1>3, AppendTo DEF Types
  <1>5. Types'
    BY <1>1, <1>4 DEF Types
  <1>6. ConnInv'
    BY <1>1 DEF ConnInv
  <1>7. \A d \in Conns : Later(d)
    <2> SUFFICES ASSUME NEW d \in Conns PROVE Later(d)
      OBVIOUS
    <2>1. conn[d].state \in States /\ conn' = conn
      BY <1>1 DEF Types, ConnType
    <2> QED BY <2>1, Ranks DEF Later
  <1>8. EventOK(events[Len(events)])'
    BY <1>3, <1>4 DEF EventOK
  <1>9. e.type \notin Heard
    BY <1>3 DEF Heard
  <1>10. Story'
    BY <1>1, <1>3, <1>5, <1>7, <1>8, <1>9, StoryGrows
  <1> QED BY <1>5, <1>6, <1>10 DEF Base

LEMMA InitBase ==
    ASSUME Init
    PROVE  Base
  <1>1. /\ conn = [c \in Conns |-> [state |-> "none", port |-> NoPort, ip |-> NoAddress,
                                    slot |-> 0, bytes |-> 0, ticker |-> FALSE]]
        /\ pool \in Pools /\ index = 0 /\ target = Target
        /\ announce = NoAddress /\ swaps = 0 /\ segmenting \in BOOLEAN /\ events = <<>>
    BY DEF Init, AcceptInit
  <1>2. /\ records = <<>> /\ activeCount = 0 /\ totalBytes = 0
        /\ connsOf = [ip \in Known |-> 0] /\ bytesOf = [ip \in Known |-> 0]
        /\ shownIp = Target /\ heard = [c \in Conns |-> "nothing"]
    BY DEF Init
  <1>3. conn \in [Conns -> ConnType]
    BY <1>1 DEF ConnType, States
  <1>4. Types
    <2>1. connsOf \in [Known -> Nat] /\ bytesOf \in [Known -> Nat] /\ activeCount \in Nat
          /\ totalBytes \in Nat
      BY <1>2
    <2>2. heard \in [Conns -> Heard]
      BY <1>2 DEF Heard
    <2>3. records \in Seq(RecordType) /\ events \in Seq(EventType)
      BY <1>1, <1>2
    <2>4. shownIp \in Known
      BY <1>2 DEF Known
    <2>5. /\ pool \in Pools /\ index \in Nat /\ swaps \in Nat /\ segmenting \in BOOLEAN
          /\ target \in Rescanned \cup {Target} /\ announce \in Rescanned \cup {NoAddress}
      BY <1>1
    <2> QED BY <1>3, <2>1, <2>2, <2>3, <2>4, <2>5 DEF Types
  <1>5. ConnInv
    BY <1>1 DEF ConnInv
  <1>6. Story
    BY <1>1, <1>2 DEF Story, Rank, Stage, Running, AcceptedBefore
  <1> QED BY <1>4, <1>5, <1>6 DEF Base

LEMMA NextBase ==
    ASSUME Base, [Next]_vars
    PROVE  Base'
  <1>1. CASE Apply
    <2>1. Types' /\ UNCHANGED <<conn, pool, index, target, announce, swaps, segmenting>>
      BY <1>1, ApplyTypes DEF Base
    <2>2. Story'
      BY <1>1, ApplyGets, StoryApplied DEF Base
    <2> QED BY <2>1, <2>2 DEF Base, ConnInv
  <1>2. CASE (\E c \in Conns : Connection(c)) /\ UNCHANGED dashVars
    BY <1>2, ConnectionBase
  <1>3. CASE Rescan /\ UNCHANGED dashVars
    <2>1. /\ UNCHANGED <<conn, pool, index, segmenting, events>>
          /\ target' \in Rescanned /\ announce' \in Rescanned /\ swaps' = swaps + 1
          /\ UNCHANGED <<records, activeCount, totalBytes, connsOf, bytesOf, shownIp, heard>>
      BY <1>3 DEF Rescan, dashVars, counters
    <2>2. Types'
      BY <2>1 DEF Base, Types
    <2>3. Story'
      BY <2>1 DEF Base, Story, EventOK, Tells, AcceptedBefore
    <2> QED BY <2>1, <2>2, <2>3 DEF Base, ConnInv
  <1>4. CASE Announce /\ UNCHANGED dashVars
    BY <1>4, AnnounceBase
  <1>5. CASE UNCHANGED vars
    <2>1. /\ UNCHANGED <<conn, pool, index, target, announce, swaps, segmenting, events>>
          /\ UNCHANGED <<records, activeCount, totalBytes, connsOf, bytesOf, shownIp, heard>>
      BY <1>5 DEF vars, acceptVars, dashVars, counters
    <2> QED BY <2>1 DEF Base, Types, ConnInv, Story, EventOK, Tells, AcceptedBefore
  <1> QED BY <1>1, <1>2, <1>3, <1>4, <1>5 DEF Next

\* The accept loop and the dashboard keep their types, and the events that wait
\* tell of each connection what happened, once and in the order it happened
\* (the events of handle_tcp_seg_connection_with_ip, applied by apply_event).
THEOREM EventsTellTheStory == Spec => []Base
  <1>1. Init => Base
    BY InitBase
  <1>2. Base /\ [Next]_vars => Base'
    BY NextBase
  <1> QED BY <1>1, <1>2, PTL DEF Spec

-----------------------------------------------------------------------------
\* The counter of active connections.

\* What the dashboard has heard of a connection when it applies its next event.
LEMMA HeardBefore ==
    ASSUME Base, NEW t \in EventTypes, t # "IpTargetChanged", Gets(t)
    PROVE  LET e == Head(events)
           IN  /\ e.of \in Conns /\ e.port = conn[e.of].port
               /\ conn[e.of].state \notin {"none", "refused"}
               /\ t = "ConnectionAccepted" => heard[e.of] = "nothing" /\ e.ip = conn[e.of].ip
               /\ t = "BypassComplete" => heard[e.of] = "ConnectionAccepted"
               /\ t \in {"BypassFailed", "RelayFinished"} => Open(e.of)
               /\ t = "RelayFinished" => e.bytes = conn[e.of].bytes
               /\ t = "ConnectionError" => heard[e.of] = "nothing"
  <1> DEFINE e == Head(events)
  <1>1. /\ e = events[1] /\ 1 \in 1 .. Len(events) /\ e.type = t /\ EventOK(e) /\ Story
    BY GetsHead DEF Base
  <1> HIDE DEF e
  <1>2. /\ e.of \in Conns /\ e.port = conn[e.of].port
        /\ conn[e.of].state \notin {"none", "refused"}
        /\ t = "ConnectionAccepted" => e.ip = conn[e.of].ip
        /\ t = "RelayFinished" => e.bytes = conn[e.of].bytes
        /\ t \in Heard => Rank(heard[e.of]) < Rank(t)
    BY <1>1 DEF EventOK
  <1>3. heard[e.of] \in Heard
    BY <1>2 DEF Base, Types
  <1>4. t = "ConnectionAccepted" => heard[e.of] = "nothing"
    BY <1>2, <1>3 DEF Rank, Heard
  <1>5. t \in {"BypassComplete", "BypassFailed", "RelayFinished"} => heard[e.of] # "nothing"
    BY <1>1 DEF Story, AcceptedBefore
  <1>6. t = "BypassComplete" => heard[e.of] = "ConnectionAccepted"
    BY <1>2, <1>3, <1>5 DEF Rank, Heard
  <1>7. t \in {"BypassFailed", "RelayFinished"} => Open(e.of)
    BY <1>2, <1>3, <1>5 DEF Rank, Heard, Open
  <1>8. t = "ConnectionError" => heard[e.of] = "nothing"
    BY <1>1 DEF Story
  <1> QED BY <1>2, <1>4, <1>6, <1>7, <1>8 DEF e

\* The connections the dashboard has heard of.
HeardOf == {c \in Conns : heard[c] # "nothing"}

LEMMA HeardOfGrows ==
    ASSUME Base, IsFiniteSet(HeardOf), [Next]_vars
    PROVE  IsFiniteSet(HeardOf')
  <1>1. CASE Apply
    <2>1. PICK t \in EventTypes : Gets(t)
      BY <1>1, ApplyGets
    <2>2. \A c \in Conns : heard'[c] = IF t \in Heard /\ c = Head(events).of THEN t ELSE heard[c]
      BY <2>1, GetsHead DEF Base
    <2>3. HeardOf' \subseteq HeardOf \cup {Head(events).of}
      BY <2>2 DEF HeardOf
    <2>4. IsFiniteSet(HeardOf \cup {Head(events).of})
      BY FS_AddElement
    <2> QED BY <2>3, <2>4, FS_Subset
  <1>2. CASE UNCHANGED heard
    BY <1>2 DEF HeardOf
  <1> QED BY <1>1, <1>2 DEF Next, vars, dashVars

\* The dashboard has heard of finitely many connections, so that the counters
\* and sums apply_event keeps over them are defined.
THEOREM HeardOfIsFinite == Spec => []IsFiniteSet(HeardOf)
  <1>1. Init => IsFiniteSet(HeardOf)
    <2> SUFFICES ASSUME Init PROVE IsFiniteSet(HeardOf)
      OBVIOUS
    <2>1. HeardOf = {}
      BY DEF Init, HeardOf
    <2> QED BY <2>1, FS_EmptySet
  <1>2. Base /\ IsFiniteSet(HeardOf) /\ [Next]_vars => IsFiniteSet(HeardOf)'
    BY HeardOfGrows
  <1> QED BY <1>1, <1>2, EventsTellTheStory, PTL DEF Spec

Opened == {c \in Conns : Open(c)}

LEMMA OpenedChanges ==
    ASSUME Base, NEW t \in EventTypes, Gets(t)
    PROVE  LET c == Head(events).of
           IN  IF t = "ConnectionAccepted" THEN c \notin Opened /\ Opened' = Opened \cup {c}
               ELSE IF t \in {"BypassFailed", "RelayFinished"}
                    THEN c \in Opened /\ Opened' = Opened \ {c}
                    ELSE Opened' = Opened
  <1>1. \A c \in Conns : heard'[c] = IF t \in Heard /\ c = Head(events).of THEN t ELSE heard[c]
    BY GetsHead DEF Base
  <1>2. CASE t = "IpTargetChanged" \/ t = "RelayProgress"
    BY <1>1, <1>2 DEF Opened, Open, Heard
  <1>3. CASE t = "ConnectionAccepted"
    <2>1. Head(events).of \in Conns /\ heard[Head(events).of] = "nothing"
      BY <1>3, HeardBefore
    <2> QED BY <1>1, <1>3, <2>1 DEF Opened, Open, Heard
  <1>4. CASE t = "BypassComplete"
    <2>1. Head(events).of \in Conns /\ heard[Head(events).of] = "ConnectionAccepted"
      BY <1>4, HeardBefore
    <2> QED BY <1>1, <1>4, <2>1 DEF Opened, Open, Heard
  <1>5. CASE t \in {"BypassFailed", "RelayFinished"}
    <2>1. Head(events).of \in Conns /\ Open(Head(events).of)
      BY <1>5, HeardBefore
    <2> QED BY <1>1, <1>5, <2>1 DEF Opened, Open, Heard
  <1>6. CASE t = "ConnectionError"
    <2>1. Head(events).of \in Conns /\ heard[Head(events).of] = "nothing"
      BY <1>6, HeardBefore
    <2> QED BY <1>1, <1>6, <2>1 DEF Opened, Open, Heard
  <1> QED BY <1>2, <1>3, <1>4, <1>5, <1>6 DEF EventTypes, Heard

LEMMA ActiveStep ==
    ASSUME Base, IsFiniteSet(HeardOf), activeCount <= Cardinality(Opened), [Next]_vars
    PROVE  activeCount' <= Cardinality(Opened')
  <1>1. Opened \subseteq HeardOf
    BY DEF Opened, Open, HeardOf
  <1>2. IsFiniteSet(Opened) /\ Cardinality(Opened) \in Nat /\ activeCount \in Nat
    BY <1>1, FS_Subset, FS_CardinalityType DEF Base, Types
  <1> DEFINE x == Head(events).of
  <1>3. CASE ApplyAccepted
    <2>1. Gets("ConnectionAccepted") /\ "ConnectionAccepted" \in EventTypes
          /\ activeCount' = activeCount + 1
      BY <1>3 DEF ApplyAccepted, EventTypes, Heard
    <2>2. x \notin Opened /\ Opened' = Opened \cup {x}
      BY <2>1, OpenedChanges
    <2>3. Cardinality(Opened') = Cardinality(Opened) + 1
      BY <1>2, <2>2, FS_AddElement
    <2> QED BY <1>2, <2>1, <2>3
  <1>4. CASE (Gets("BypassFailed") \/ Gets("RelayFinished")) /\ activeCount' = Minus1(activeCount)
    <2>1. "BypassFailed" \in EventTypes /\ "RelayFinished" \in EventTypes
      BY DEF EventTypes, Heard
    <2>2. x \in Opened /\ Opened' = Opened \ {x}
      <3>1. CASE Gets("BypassFailed")
        BY <2>1, <3>1, OpenedChanges
      <3>2. CASE Gets("RelayFinished")
        BY <2>1, <3>2, OpenedChanges
      <3> QED BY <1>4, <3>1, <3>2
    <2>3. Cardinality(Opened') = Cardinality(Opened) - 1
      BY <1>2, <2>2, FS_RemoveElement
    <2>4. Cardinality(Opened) # 0
      BY <1>2, <2>2, FS_EmptySet
    <2> QED BY <1>2, <1>4, <2>3, <2>4 DEF Minus1
  <1>5. CASE Gets("ConnectionError") /\ activeCount' = Minus1(activeCount)
    <2>1. "ConnectionError" \in EventTypes
      BY DEF EventTypes, Heard
    <2>2. Opened' = Opened
      BY <1>5, <2>1, OpenedChanges
    <2> QED BY <1>2, <1>5, <2>2 DEF Minus1
  <1>6. CASE ApplyBypassed \/ ApplyProgress \/ ApplyTarget
    <2>1. PICK t \in {"BypassComplete", "RelayProgress", "IpTargetChanged"} : Gets(t)
      BY <1>6 DEF ApplyBypassed, ApplyProgress, ApplyTarget
    <2>2. t \in EventTypes /\ t # "ConnectionAccepted" /\ t \notin {"BypassFailed", "RelayFinished"}
      BY DEF EventTypes, Heard
    <2>3. Opened' = Opened
      BY <2>1, <2>2, OpenedChanges
    <2>4. activeCount' = activeCount
      BY <1>6 DEF ApplyBypassed, ApplyProgress, ApplyTarget, counters
    <2> QED BY <2>3, <2>4
  <1>7. CASE UNCHANGED <<heard, activeCount>>
    BY <1>7 DEF Opened, Open
  <1>8. CASE ApplyFailed \/ ApplyFinished
    BY <1>4, <1>5, <1>8 DEF ApplyFailed, ApplyFinished
  <1> QED
    BY <1>3, <1>6, <1>7, <1>8 DEF Next, Apply, vars, dashVars, counters

\* However the events of the connections mix, and whatever fails, the counter of
\* active connections is never above the number of open ones (apply_event).
THEOREM ActiveSafe == Spec => []ActiveIsNotOverstated
  <1>1. Init => activeCount <= Cardinality(Opened)
    <2> SUFFICES ASSUME Init PROVE activeCount <= Cardinality(Opened)
      OBVIOUS
    <2>1. Opened = {} /\ activeCount = 0
      BY DEF Init, Opened, Open
    <2> QED BY <2>1, FS_EmptySet
  <1>2. Base /\ IsFiniteSet(HeardOf) /\ activeCount <= Cardinality(Opened) /\ [Next]_vars
           => (activeCount <= Cardinality(Opened))'
    BY ActiveStep
  <1>3. activeCount <= Cardinality(Opened) => ActiveIsNotOverstated
    BY DEF ActiveIsNotOverstated, Opened
  <1> QED BY <1>1, <1>2, <1>3, EventsTellTheStory, HeardOfIsFinite, PTL DEF Spec

-----------------------------------------------------------------------------
\* The records of the open connections.

LEMMA KeptHolds ==
    ASSUME NEW rs \in Seq(RecordType), Holds(rs)', Kept(records', rs)
    PROVE  Recorded'
  <1>1. \A n \in 1 .. Len(records') : \E m \in 1 .. Len(rs) : records'[n] = rs[m]
    BY DEF Kept
  <1>2. \A m \in 1 .. Len(rs) : IsActive(rs[m]) =>
           \E n \in 1 .. Len(records') : records'[n] = rs[m]
    BY DEF Kept
  <1>3. ASSUME NEW n \in 1 .. Len(records')
        PROVE  (LET c == records[n].of
                IN  records[n].port = conn[c].port /\ records[n].ip = conn[c].ip /\ WasAccepted(c))'
    <2>1. PICK m \in 1 .. Len(rs) : records'[n] = rs[m]
      BY <1>1
    <2>2. (LET c == rs[m].of
           IN  rs[m].port = conn[c].port /\ rs[m].ip = conn[c].ip /\ WasAccepted(c))'
      BY DEF Holds
    <2> QED BY <2>1, <2>2 DEF WasAccepted, Open
  <1>4. ASSUME NEW c \in Conns, Open(c)', ~Reused(c)'
        PROVE  /\ \E n \in 1 .. Len(records') : records'[n].of = c
               /\ \A n \in 1 .. Len(records') : records'[n].of = c =>
                     records'[n].live /\ IsActive(records'[n])
    <2>1. /\ \E m \in 1 .. Len(rs) : rs[m].of = c
          /\ \A m \in 1 .. Len(rs) : rs[m].of = c => rs[m].live /\ IsActive(rs[m])
      BY <1>4 DEF Holds
    <2>2. \E n \in 1 .. Len(records') : records'[n].of = c
      <3>1. PICK m \in 1 .. Len(rs) : rs[m].of = c /\ IsActive(rs[m])
        BY <2>1
      <3>2. PICK n \in 1 .. Len(records') : records'[n] = rs[m]
        BY <1>2, <3>1
      <3> QED BY <3>1, <3>2
    <2>3. ASSUME NEW n \in 1 .. Len(records'), records'[n].of = c
          PROVE  records'[n].live /\ IsActive(records'[n])
      <3>1. PICK m \in 1 .. Len(rs) : records'[n] = rs[m]
        BY <1>1
      <3>2. rs[m].of = c
        BY <2>3, <3>1
      <3>3. rs[m].live /\ IsActive(rs[m])
        BY <2>1, <3>2
      <3> QED BY <3>1, <3>3
    <2> QED BY <2>2, <2>3
  <1> QED BY <1>3, <1>4 DEF Recorded, Holds, WasAccepted, Open

\* A connection that was accepted keeps its port and address, and if it shares
\* its port it goes on sharing it.
LEMMA AcceptedStays ==
    ASSUME Base, NEW c \in Conns, heard[c] \in {"ConnectionAccepted", "BypassComplete",
                                                 "BypassFailed", "RelayFinished"},
           \A d \in Conns : Later(d)
    PROVE  /\ conn[c].state \notin {"none", "refused", "connecting"}
           /\ conn'[c].port = conn[c].port /\ conn'[c].ip = conn[c].ip
           /\ Reused(c) => Reused(c)'
  <1>1. Rank(heard[c]) <= Stage(conn[c].state) /\ conn[c].state \in States
    BY DEF Base, Story, Types, ConnType
  <1>2. conn[c].state \notin {"none", "refused", "connecting"}
    BY <1>1 DEF Rank, Stage
  <1>3. conn'[c].port = conn[c].port /\ conn'[c].ip = conn[c].ip
    BY <1>2 DEF Later
  <1>4. ASSUME Reused(c)
        PROVE  Reused(c)'
    <2>1. PICK d \in Conns \ {c} : conn[d].state \notin {"none", "refused"} /\ conn[d].port = conn[c].port
      BY <1>4 DEF Reused, In
    <2>2. conn'[d].state \notin {"none", "refused"} /\ conn'[d].port = conn[d].port
      BY <2>1 DEF Later
    <2> QED BY <1>3, <2>1, <2>2 DEF Reused, In
  <1> QED BY <1>2, <1>3, <1>4

\* The connections go on; the dashboard does nothing.
LEMMA RecordedOutside ==
    ASSUME Base, Recorded, UNCHANGED <<records, heard>>, \A d \in Conns : Later(d)
    PROVE  Recorded'
  <1>1. \A n \in 1 .. Len(records) : records[n].of \in Conns
    <2>1. \A n \in 1 .. Len(records) : records[n] \in RecordType
      BY DEF Base, Types
    <2> QED BY <2>1 DEF RecordType
  <1>2. ASSUME NEW n \in 1 .. Len(records)
        PROVE  (LET c == records[n].of
                IN  records[n].port = conn[c].port /\ records[n].ip = conn[c].ip /\ WasAccepted(c))'
    <2>1. PICK c \in Conns : c = records[n].of
      BY <1>1
    <2>2. records[n].port = conn[c].port /\ records[n].ip = conn[c].ip /\ WasAccepted(c)
      BY <2>1 DEF Recorded, Holds
    <2>3. heard[c] \in {"ConnectionAccepted", "BypassComplete", "BypassFailed", "RelayFinished"}
      BY <2>2 DEF WasAccepted, Open
    <2> QED BY <2>1, <2>2, <2>3, AcceptedStays DEF WasAccepted, Open
  <1>3. ASSUME NEW c \in Conns, Open(c)', ~Reused(c)'
        PROVE  Open(c) /\ ~Reused(c)
    BY <1>3, AcceptedStays DEF Open
  <1> QED BY <1>2, <1>3 DEF Recorded, Holds, WasAccepted, Open

\* What is heard of a connection whose event is applied, whatever the event.
LEMMA WasAcceptedStays ==
    ASSUME Base, NEW t \in EventTypes, Gets(t), NEW c \in Conns
    PROVE  /\ WasAccepted(c) => WasAccepted(c)'
           /\ t # "ConnectionAccepted" /\ WasAccepted(c)' => WasAccepted(c)
           /\ t # "ConnectionAccepted" /\ Open(c)' => Open(c)
           /\ c = Head(events).of /\ Open(c)' =>
                 t \in {"ConnectionAccepted", "BypassComplete", "RelayProgress", "IpTargetChanged"}
  <1>1. heard'[c] = IF t \in Heard /\ c = Head(events).of THEN t ELSE heard[c]
    BY GetsHead DEF Base
  <1>2. CASE t \in Heard /\ c = Head(events).of
    <2>1. /\ t # "IpTargetChanged"
          /\ t = "ConnectionAccepted" => heard[c] = "nothing"
          /\ t = "BypassComplete" => heard[c] = "ConnectionAccepted"
          /\ t \in {"BypassFailed", "RelayFinished"} => Open(c)
          /\ t = "ConnectionError" => heard[c] = "nothing"
      BY <1>2, HeardBefore DEF Heard
    <2>2. t \in {"ConnectionAccepted", "BypassComplete", "BypassFailed", "RelayFinished",
                 "ConnectionError"}
      BY <1>2, Ranks DEF Heard
    <2> QED BY <1>1, <1>2, <2>1, <2>2 DEF WasAccepted, Open
  <1>3. CASE ~(t \in Heard /\ c = Head(events).of)
    BY <1>1, <1>3 DEF WasAccepted, Open, EventTypes, Heard
  <1> QED BY <1>2, <1>3

LEMMA EditHolds ==
    ASSUME Base, Recorded, NEW t \in EventTypes, t \notin {"IpTargetChanged", "ConnectionAccepted"},
           Gets(t), NEW r, NEW port, port = Head(events).port, Change(port, r),
           Find(port) # 0 =>
              /\ r \in RecordType /\ r.of = Found(port).of /\ r.port = Found(port).port
              /\ r.ip = Found(port).ip
              /\ t \in {"BypassComplete", "RelayProgress"} =>
                    /\ Found(port).live => r.live
                    /\ IsActive(Found(port)) => IsActive(r)
    PROVE  Recorded'
  <1> DEFINE x == Head(events).of
  <1>1. /\ x \in Conns /\ port = conn[x].port /\ conn[x].state \notin {"none", "refused"}
        /\ conn' = conn /\ records \in Seq(RecordType)
    BY HeardBefore, GetsHead DEF Base, Types
  <1>2. PICK rs \in Seq(RecordType) :
           /\ Kept(records', rs) /\ Len(rs) = Len(records)
           /\ \A n \in 1 .. Len(records) : rs[n] = IF n = Find(port) THEN r ELSE records[n]
    BY <1>1, ChangeKeeps
  <1> HIDE DEF x
  <1>3. ASSUME NEW n \in 1 .. Len(records)
        PROVE  /\ rs[n].of = records[n].of /\ rs[n].port = records[n].port
               /\ rs[n].ip = records[n].ip /\ records[n].of \in Conns
    <2>1. CASE n = Find(port)
      <3>1. Find(port) # 0 /\ records[n] = Found(port) /\ rs[n] = r
        BY <1>2, <2>1 DEF Found
      <3>2. records[n] \in RecordType
        BY <1>1
      <3> QED BY <3>1, <3>2 DEF RecordType
    <2>2. CASE n # Find(port)
      <3>1. records[n] \in RecordType /\ rs[n] = records[n]
        BY <1>1, <1>2, <2>2
      <3> QED BY <3>1 DEF RecordType
    <2> QED BY <2>1, <2>2
  <1>4. ASSUME NEW n \in 1 .. Len(rs)
        PROVE  (LET c == rs[n].of
                IN  rs[n].port = conn[c].port /\ rs[n].ip = conn[c].ip /\ WasAccepted(c))'
    <2>1. PICK c \in Conns : c = records[n].of
      BY <1>2, <1>3
    <2>2. rs[n].of = c /\ rs[n].port = records[n].port /\ rs[n].ip = records[n].ip
      BY <1>2, <1>3, <2>1
    <2>3. records[n].port = conn[c].port /\ records[n].ip = conn[c].ip /\ WasAccepted(c)
      BY <1>2, <2>1 DEF Recorded, Holds
    <2>4. WasAccepted(c)'
      BY <2>3, WasAcceptedStays
    <2> QED BY <1>1, <2>2, <2>3, <2>4 DEF WasAccepted, Open
  <1>5. ASSUME NEW c \in Conns, Open(c)', ~Reused(c)'
        PROVE  /\ \E n \in 1 .. Len(rs) : rs[n].of = c
               /\ \A n \in 1 .. Len(rs) : rs[n].of = c => rs[n].live /\ IsActive(rs[n])
    <2>1. Open(c) /\ ~Reused(c)
      BY <1>1, <1>5, WasAcceptedStays DEF Reused, In
    <2>2. \E n \in 1 .. Len(records) : records[n].of = c
      BY <2>1 DEF Recorded, Holds
    <2>3. ASSUME NEW n \in 1 .. Len(rs), rs[n].of = c
          PROVE  rs[n].live /\ IsActive(rs[n])
      <3>1. n \in 1 .. Len(records) /\ records[n].of = c
        BY <1>2, <1>3, <2>3
      <3>2. /\ records[n].live /\ IsActive(records[n]) /\ records[n].port = conn[c].port
        BY <2>1, <3>1 DEF Recorded, Holds
      <3>3. CASE n = Find(port)
        <4>1. Find(port) # 0 /\ records[n] = Found(port) /\ rs[n] = r
          BY <1>2, <3>1, <3>3 DEF Found
        <4>2. records[n].port = port
          BY <1>1, <3>3, <4>1, FindSound
        <4>3. c = x
          BY <1>1, <2>1, <3>2, <4>2 DEF Reused, In
        <4>4. t \in {"BypassComplete", "RelayProgress"}
          BY <1>5, <4>3, WasAcceptedStays DEF x
        <4> QED BY <3>2, <4>1, <4>4
      <3>4. CASE n # Find(port)
        BY <1>2, <3>1, <3>2, <3>4
      <3> QED BY <3>3, <3>4
    <2> QED BY <1>2, <1>3, <2>2, <2>3
  <1>6. Holds(rs)'
    BY <1>4, <1>5 DEF Holds, WasAccepted, Open
  <1> QED BY <1>2, <1>6, KeptHolds

LEMMA RecordedApplied ==
    ASSUME Base, Recorded, Apply
    PROVE  Recorded'
  <1> DEFINE e == Head(events)
  <1>0. /\ "ConnectionAccepted" \in EventTypes /\ "BypassComplete" \in EventTypes
        /\ "BypassFailed" \in EventTypes /\ "ConnectionError" \in EventTypes
        /\ "RelayFinished" \in EventTypes /\ "RelayProgress" \in EventTypes
        /\ "IpTargetChanged" \in EventTypes /\ records \in Seq(RecordType)
    BY DEF EventTypes, Heard, Base, Types
  <1>1. CASE ApplyAccepted
    <2> DEFINE new == [of |-> e.of, port |-> e.port, ip |-> e.ip, status |-> "Connecting",
                       live |-> TRUE, bytes |-> 0]
    <2>1. Gets("ConnectionAccepted") /\ records' = Prune(<<new>> \o records)
      BY <1>1 DEF ApplyAccepted
    <2>2. /\ e.of \in Conns /\ e.port = conn[e.of].port /\ e.ip = conn[e.of].ip
          /\ conn' = conn /\ e \in EventType
          /\ \A c \in Conns : heard'[c] = IF c = e.of THEN "ConnectionAccepted" ELSE heard[c]
      <3>1. "ConnectionAccepted" \in Heard
        BY DEF Heard
      <3> QED BY <1>0, <2>1, <3>1, HeardBefore, GetsHead DEF Base
    <2>3. PICK x \in Conns : x = e.of
      BY <2>2
    <2>4. PICK r \in RecordType :
             /\ r = new /\ r.of = x /\ r.port = conn[x].port /\ r.ip = conn[x].ip
             /\ r.live /\ IsActive(r)
      <3>1. new \in RecordType
        BY <2>2 DEF RecordType, EventType
      <3>2. new.of = x /\ new.port = conn[x].port /\ new.ip = conn[x].ip /\ new.live /\ IsActive(new)
        BY <2>2, <2>3 DEF IsActive
      <3> HIDE DEF new
      <3> QED BY <3>1, <3>2
    <2> HIDE DEF e, new
    <2>5. PICK rs \in Seq(RecordType) :
             /\ rs = <<r>> \o records /\ Len(rs) = Len(records) + 1 /\ Len(records) \in Nat
             /\ rs[1] = r /\ \A n \in 2 .. Len(rs) : rs[n] = records[n - 1]
      <3>1. <<r>> \in Seq(RecordType) /\ Len(<<r>>) = 1 /\ <<r>>[1] = r
        OBVIOUS
      <3>2. /\ <<r>> \o records \in Seq(RecordType)
            /\ Len(<<r>> \o records) = 1 + Len(records)
            /\ \A i \in 1 .. 1 + Len(records) :
                  (<<r>> \o records)[i] = IF i <= 1 THEN <<r>>[i] ELSE records[i - 1]
        BY <1>0, <3>1, ConcatProperties
      <3>3. Len(records) \in Nat
        BY <1>0
      <3>4. PICK rs : rs = <<r>> \o records
        OBVIOUS
      <3>5. /\ rs \in Seq(RecordType) /\ Len(rs) = 1 + Len(records)
            /\ \A i \in 1 .. 1 + Len(records) : rs[i] = IF i <= 1 THEN r ELSE records[i - 1]
        BY <3>1, <3>2, <3>4
      <3>6. 1 \in 1 .. 1 + Len(records) /\ rs[1] = r
        BY <3>3, <3>5
      <3>7. ASSUME NEW n \in 2 .. Len(rs)
            PROVE  rs[n] = records[n - 1]
        <4>1. n \in 1 .. 1 + Len(records) /\ ~(n <= 1)
          BY <3>3, <3>5
        <4> QED BY <3>5, <4>1
      <3>8. Len(rs) = Len(records) + 1
        BY <3>3, <3>5
      <3> QED BY <3>3, <3>4, <3>5, <3>6, <3>7, <3>8
    <2>6. \A n \in 1 .. Len(rs) : n = 1 \/ (n \in 2 .. Len(rs) /\ n - 1 \in 1 .. Len(records))
      BY <2>5
    <2>7. Kept(records', rs)
      BY <2>1, <2>4, <2>5, PruneKeeps
    <2>8. ASSUME NEW n \in 1 .. Len(rs)
          PROVE  (LET c == rs[n].of
                  IN  rs[n].port = conn[c].port /\ rs[n].ip = conn[c].ip /\ WasAccepted(c))'
      <3>1. CASE n = 1
        BY <2>2, <2>3, <2>4, <2>5, <3>1 DEF WasAccepted, Open
      <3>2. CASE n # 1
        <4>1. PICK m \in 1 .. Len(records) : rs[n] = records[m]
          BY <2>5, <2>6, <3>2
        <4>2. PICK c \in Conns : c = records[m].of
          <5>1. records[m] \in RecordType
            BY <1>0
          <5> QED BY <5>1 DEF RecordType
        <4>3. records[m].port = conn[c].port /\ records[m].ip = conn[c].ip /\ WasAccepted(c)
          BY <4>2 DEF Recorded, Holds
        <4>4. WasAccepted(c)'
          BY <2>2, <4>3 DEF WasAccepted, Open
        <4> QED BY <2>2, <4>1, <4>2, <4>3, <4>4 DEF WasAccepted, Open
      <3> QED BY <3>1, <3>2
    <2>9. ASSUME NEW c \in Conns, Open(c)', ~Reused(c)'
          PROVE  /\ \E n \in 1 .. Len(rs) : rs[n].of = c
                 /\ \A n \in 1 .. Len(rs) : rs[n].of = c => rs[n].live /\ IsActive(rs[n])
      <3>1. CASE c = x
        <4>1. 1 \in 1 .. Len(rs) /\ rs[1].of = c
          BY <2>4, <2>5, <3>1
        <4>2. ~WasAccepted(c)
          BY <1>0, <2>1, <2>3, <3>1, HeardBefore DEF WasAccepted, Open, e
        <4>3. \A m \in 1 .. Len(records) : records[m].of # c
          BY <4>2 DEF Recorded, Holds
        <4>4. \A n \in 1 .. Len(rs) : rs[n].of = c => rs[n] = r
          BY <2>5, <2>6, <4>3
        <4> QED BY <2>4, <4>1, <4>4
      <3>2. CASE c # x
        <4>1. Open(c) /\ ~Reused(c)
          BY <2>2, <2>3, <2>9, <3>2 DEF Open, Reused, In
        <4>2. /\ \E m \in 1 .. Len(records) : records[m].of = c
              /\ \A m \in 1 .. Len(records) :
                    records[m].of = c => records[m].live /\ IsActive(records[m])
          BY <4>1 DEF Recorded, Holds
        <4>3. PICK m \in 1 .. Len(records) : records[m].of = c
          BY <4>2
        <4>4. m + 1 \in 2 .. Len(rs) /\ m + 1 \in 1 .. Len(rs) /\ (m + 1) - 1 = m
          BY <2>5
        <4>5. rs[m + 1].of = c
          BY <2>5, <4>3, <4>4
        <4>6. ASSUME NEW n \in 1 .. Len(rs), rs[n].of = c
              PROVE  rs[n].live /\ IsActive(rs[n])
          <5>1. n # 1
            BY <2>4, <2>5, <3>2, <4>6
          <5>2. n - 1 \in 1 .. Len(records) /\ rs[n] = records[n - 1]
            BY <2>5, <2>6, <5>1
          <5> QED BY <4>2, <4>6, <5>2
        <4> QED BY <4>4, <4>5, <4>6
      <3> QED BY <3>1, <3>2
    <2>10. Holds(rs)'
      BY <2>8, <2>9 DEF Holds, WasAccepted, Open
    <2> QED BY <2>7, <2>10, KeptHolds
  <1>2. CASE ApplyBypassed
    <2> DEFINE r == [Found(e.port) EXCEPT !.status = "Relaying"]
    <2>1. Gets("BypassComplete") /\ Change(e.port, r)
      BY <1>2 DEF ApplyBypassed
    <2>2. ASSUME Find(e.port) # 0
          PROVE  /\ r \in RecordType /\ r.of = Found(e.port).of /\ r.port = Found(e.port).port
                 /\ r.ip = Found(e.port).ip /\ r.live = Found(e.port).live /\ IsActive(r)
      <3>1. Found(e.port) \in RecordType
        BY <2>2, FoundTyped DEF Base
      <3> HIDE DEF e
      <3>2. r \in RecordType
        BY <3>1, RecordEdit
      <3> QED BY <3>1, <3>2 DEF RecordType, IsActive
    <2> HIDE DEF e, r
    <2> QED BY <1>0, <2>1, <2>2, EditHolds DEF e
  <1>3. CASE ApplyFailed
    <2> DEFINE r == [Found(e.port) EXCEPT !.status = "Failed", !.live = FALSE]
    <2>1. (Gets("BypassFailed") \/ Gets("ConnectionError")) /\ Change(e.port, r)
      BY <1>3 DEF ApplyFailed
    <2>2. ASSUME Find(e.port) # 0
          PROVE  /\ r \in RecordType /\ r.of = Found(e.port).of /\ r.port = Found(e.port).port
                 /\ r.ip = Found(e.port).ip
      <3>1. Found(e.port) \in RecordType /\ e.bytes \in Nat
        BY <1>0, <2>1, <2>2, FoundTyped, GetsHead DEF Base, EventType
      <3> HIDE DEF e
      <3>2. r \in RecordType
        BY <3>1, RecordEdit
      <3> QED BY <3>1, <3>2 DEF RecordType
    <2> HIDE DEF e, r
    <2>3. CASE Gets("BypassFailed")
      BY <1>0, <2>1, <2>2, <2>3, EditHolds DEF e
    <2>4. CASE Gets("ConnectionError")
      BY <1>0, <2>1, <2>2, <2>4, EditHolds DEF e
    <2> QED BY <2>1, <2>3, <2>4
  <1>4. CASE ApplyFinished
    <2> DEFINE r == [Found(e.port) EXCEPT !.status = "Done", !.live = FALSE, !.bytes = e.bytes]
    <2>1. Gets("RelayFinished") /\ Change(e.port, r)
      BY <1>4 DEF ApplyFinished
    <2>2. ASSUME Find(e.port) # 0
          PROVE  /\ r \in RecordType /\ r.of = Found(e.port).of /\ r.port = Found(e.port).port
                 /\ r.ip = Found(e.port).ip
      <3>1. Found(e.port) \in RecordType /\ e.bytes \in Nat
        BY <1>0, <2>1, <2>2, FoundTyped, GetsHead DEF Base, EventType
      <3> HIDE DEF e
      <3>2. r \in RecordType
        BY <3>1, RecordEdit
      <3> QED BY <3>1, <3>2 DEF RecordType
    <2> HIDE DEF e, r
    <2> QED BY <1>0, <2>1, <2>2, EditHolds DEF e
  <1>5. CASE ApplyProgress
    <2> DEFINE r == [Found(e.port) EXCEPT !.bytes = e.bytes]
    <2>1. Gets("RelayProgress") /\ Change(e.port, r)
      BY <1>5 DEF ApplyProgress
    <2>2. ASSUME Find(e.port) # 0
          PROVE  /\ r \in RecordType /\ r.of = Found(e.port).of /\ r.port = Found(e.port).port
                 /\ r.ip = Found(e.port).ip /\ r.live = Found(e.port).live
                 /\ r.status = Found(e.port).status
      <3>1. Found(e.port) \in RecordType /\ e.bytes \in Nat
        BY <1>0, <2>1, <2>2, FoundTyped, GetsHead DEF Base, EventType
      <3> HIDE DEF e
      <3>2. r \in RecordType
        BY <3>1, RecordEdit
      <3> QED BY <3>1, <3>2 DEF RecordType
    <2> HIDE DEF e, r
    <2> QED BY <1>0, <2>1, <2>2, EditHolds DEF e, IsActive
  <1>6. CASE ApplyTarget
    <2>1. Gets("IpTargetChanged") /\ records' = Prune(records)
      BY <1>6 DEF ApplyTarget
    <2>2. conn' = conn /\ heard' = heard
      BY <2>1 DEF Gets, Heard
    <2>3. PICK rs \in Seq(RecordType) : rs = records
      BY <1>0
    <2>4. Holds(rs)'
      BY <2>2, <2>3 DEF Recorded, Holds, WasAccepted, Open, Reused, In
    <2>5. Kept(records', rs)
      BY <2>1, <2>3, PruneKeeps
    <2> QED BY <2>4, <2>5, KeptHolds
  <1> QED BY <1>1, <1>2, <1>3, <1>4, <1>5, <1>6 DEF Apply

LEMMA NextLater ==
    ASSUME Base, [Next]_vars
    PROVE  \/ Apply
           \/ /\ \A d \in Conns : Later(d)
              /\ UNCHANGED <<records, activeCount, totalBytes, connsOf, bytesOf, shownIp, heard>>
  <1>1. CASE (\E c \in Conns : Connection(c)) /\ UNCHANGED dashVars
    <2>1. \A d \in Conns : Later(d)
      BY <1>1, ConnectionBase, StepLater DEF Base
    <2> QED BY <1>1, <2>1 DEF dashVars, counters
  <1>2. CASE conn' = conn /\ UNCHANGED dashVars
    <2>1. \A d \in Conns : Later(d)
      <3> SUFFICES ASSUME NEW d \in Conns PROVE Later(d)
        OBVIOUS
      <3>1. conn[d].state \in States /\ conn'[d] = conn[d]
        BY <1>2 DEF Base, Types, ConnType
      <3> QED BY <3>1, Ranks DEF Later
    <2> QED BY <1>2, <2>1 DEF dashVars, counters
  <1> QED BY <1>1, <1>2 DEF Next, Rescan, Announce, vars, acceptVars

LEMMA RecordedStep ==
    ASSUME Base, Recorded, [Next]_vars
    PROVE  Recorded'
  BY NextLater, RecordedApplied, RecordedOutside

\* Every record of the dashboard has the port and the address of an accepted
\* connection; an open one that is alone on its port has a record, and only live
\* and active ones (apply_event, prune_connection_records).
THEOREM RecordsHold == Spec => []Recorded
  <1>1. Init => Recorded
    BY DEF Init, Recorded, Holds, Open
  <1>2. Base /\ Recorded /\ [Next]_vars => Recorded'
    BY RecordedStep
  <1> QED BY <1>1, <1>2, EventsTellTheStory, PTL DEF Spec

\* An open connection that shares its port with no other keeps its record,
\* active and with the address it went to, however many records are pruned and
\* whatever other connections do (prune_connection_records, find_record).
THEOREM OpenShownSafe == Spec => []OpenIsShown
  <1>1. Base /\ Recorded => OpenIsShown
    <2> SUFFICES ASSUME Base, Recorded, NEW c \in Conns, Open(c), ~Reused(c)
                 PROVE  \E n \in DOMAIN records :
                           /\ records[n].of = c /\ records[n].live /\ IsActive(records[n])
                           /\ records[n].ip = conn[c].ip
      BY DEF OpenIsShown
    <2>1. DOMAIN records = 1 .. Len(records)
      BY DEF Base, Types
    <2> QED BY <2>1 DEF Recorded, Holds
  <1> QED BY <1>1, EventsTellTheStory, RecordsHold, PTL

-----------------------------------------------------------------------------
\* What each address is credited with.

Went(ip) == {c \in Conns : WasAccepted(c) /\ conn[c].ip = ip}

Over(ip) == {c \in Conns : heard[c] = "RelayFinished" /\ conn[c].ip = ip}

Moved(ip) == [c \in Over(ip) |-> conn[c].bytes]

\* Two connections had the same port.
Shared ==
    \E c, d \in Conns : /\ c # d /\ conn[c].port = conn[d].port
                        /\ conn[c].state \notin {"none", "refused"}
                        /\ conn[d].state \notin {"none", "refused"}

Credited ==
    /\ \A ip \in Known : connsOf[ip] = Cardinality(Went(ip))
    /\ ~Shared => \A ip \in Known : bytesOf[ip] = SumFunction(Moved(ip))

LEMMA FiniteGroups ==
    ASSUME IsFiniteSet(HeardOf), NEW ip
    PROVE  /\ IsFiniteSet(Went(ip)) /\ Cardinality(Went(ip)) \in Nat
           /\ IsFiniteSet(Over(ip))
  <1>1. Went(ip) \subseteq HeardOf /\ Over(ip) \subseteq HeardOf
    BY DEF Went, Over, WasAccepted, Open, HeardOf
  <1> QED BY <1>1, FS_Subset, FS_CardinalityType

LEMMA CreditedOutside ==
    ASSUME Base, Credited, UNCHANGED <<connsOf, bytesOf, heard>>, \A d \in Conns : Later(d)
    PROVE  Credited'
  <1>1. ASSUME NEW c \in Conns, WasAccepted(c)
        PROVE  conn'[c].ip = conn[c].ip
    BY <1>1, AcceptedStays DEF WasAccepted, Open
  <1>2. ASSUME NEW c \in Conns, heard[c] = "RelayFinished"
        PROVE  conn'[c].bytes = conn[c].bytes
    <2>1. Rank(heard[c]) <= Stage(conn[c].state) /\ conn[c].state \in States
      BY DEF Base, Story, Types, ConnType
    <2>2. conn[c].state = "ended"
      BY <1>2, <2>1 DEF Rank, Stage, States
    <2> QED BY <2>2 DEF Later
  <1>3. ASSUME NEW ip \in Known
        PROVE  Went(ip)' = Went(ip) /\ Over(ip)' = Over(ip) /\ Moved(ip)' = Moved(ip)
    <2>1. Went(ip)' = Went(ip)
      BY <1>1 DEF Went, WasAccepted, Open
    <2>2. Over(ip)' = Over(ip)
      BY <1>1 DEF Over, WasAccepted, Open
    <2>3. \A c \in Over(ip) : conn'[c].bytes = conn[c].bytes
      BY <1>2 DEF Over
    <2>4. Moved(ip)' = Moved(ip)
      BY <2>2, <2>3 DEF Moved
    <2> QED BY <2>1, <2>2, <2>4
  <1>4. Shared => Shared'
    BY DEF Shared, Later
  <1>5. \A ip \in Known : connsOf'[ip] = Cardinality(Went(ip)')
    BY <1>3 DEF Credited
  <1>6. ~Shared' => \A ip \in Known : bytesOf'[ip] = SumFunction(Moved(ip)')
    BY <1>3, <1>4 DEF Credited
  <1> QED BY <1>5, <1>6 DEF Credited

LEMMA GroupsApplied ==
    ASSUME Base, NEW t \in EventTypes, Gets(t), NEW ip \in Known
    PROVE  LET x == Head(events).of
           IN  /\ Went(ip)' = IF t = "ConnectionAccepted" /\ conn[x].ip = ip
                              THEN Went(ip) \cup {x} ELSE Went(ip)
               /\ t = "ConnectionAccepted" => x \notin Went(ip)
               /\ Over(ip)' = IF t = "RelayFinished" /\ conn[x].ip = ip
                              THEN Over(ip) \cup {x} ELSE Over(ip)
               /\ t = "RelayFinished" => x \notin Over(ip)
  <1> DEFINE x == Head(events).of
  <1>1. /\ conn' = conn
        /\ \A c \in Conns : heard'[c] = IF t \in Heard /\ c = x THEN t ELSE heard[c]
    BY GetsHead DEF Base
  <1>2. /\ t \in Heard => x \in Conns
        /\ t = "ConnectionAccepted" => heard[x] = "nothing"
        /\ t = "RelayFinished" => Open(x)
        /\ t \in Heard => heard[x] # "RelayFinished"
    <2>1. CASE t = "IpTargetChanged"
      BY <2>1 DEF Heard
    <2>2. CASE t # "IpTargetChanged"
      BY <2>2, HeardBefore, Ranks DEF Heard, Open
    <2> QED BY <2>1, <2>2
  <1>3. "ConnectionAccepted" \in Heard /\ "RelayFinished" \in Heard
    BY DEF Heard
  <1>4. /\ \A c \in Conns : WasAccepted(c) => WasAccepted(c)'
        /\ t # "ConnectionAccepted" => \A c \in Conns : WasAccepted(c)' => WasAccepted(c)
    BY WasAcceptedStays
  <1> HIDE DEF x
  <1>5. t = "ConnectionAccepted" =>
           \A c \in Conns : WasAccepted(c)' <=> (c = x \/ WasAccepted(c))
    BY <1>1, <1>3 DEF WasAccepted, Open
  <1>6. Went(ip)' = IF t = "ConnectionAccepted" /\ conn[x].ip = ip
                    THEN Went(ip) \cup {x} ELSE Went(ip)
    <2>1. CASE t = "ConnectionAccepted"
      BY <1>1, <1>2, <1>3, <1>5, <2>1 DEF Went
    <2>2. CASE t # "ConnectionAccepted"
      BY <1>1, <1>4, <2>2 DEF Went
    <2> QED BY <2>1, <2>2
  <1>7. Over(ip)' = IF t = "RelayFinished" /\ conn[x].ip = ip
                    THEN Over(ip) \cup {x} ELSE Over(ip)
    BY <1>1, <1>2, <1>3 DEF Over
  <1>8. /\ t = "ConnectionAccepted" => x \notin Went(ip)
        /\ t = "RelayFinished" => x \notin Over(ip)
    BY <1>2 DEF Went, Over, WasAccepted, Open
  <1> QED BY <1>6, <1>7, <1>8 DEF x

LEMMA CreditedApplied ==
    ASSUME Base, Recorded, Credited, IsFiniteSet(HeardOf), Apply
    PROVE  Credited'
  <1> DEFINE e == Head(events)
  <1>1. PICK t \in EventTypes : Gets(t)
    BY ApplyGets
  <1>2. conn' = conn /\ e.type = t
    BY <1>1, GetsHead DEF Base
  <1>3. Shared' <=> Shared
    BY <1>2 DEF Shared
  <1>4. connsOf \in [Known -> Nat] /\ bytesOf \in [Known -> Nat] /\ conn \in [Conns -> ConnType]
    BY DEF Base, Types
  <1>5. \A ip \in Known : connsOf'[ip] = Cardinality(Went(ip)')
    <2> SUFFICES ASSUME NEW ip \in Known PROVE connsOf'[ip] = Cardinality(Went(ip)')
      OBVIOUS
    <2>1. connsOf[ip] = Cardinality(Went(ip))
      BY DEF Credited
    <2>2. CASE t = "ConnectionAccepted"
      <3>1. connsOf' = [connsOf EXCEPT ![e.ip] = @ + 1]
        BY <1>1, <1>2, <2>2 DEF Apply, ApplyAccepted, ApplyBypassed, ApplyFailed, ApplyFinished,
             ApplyProgress, ApplyTarget, Gets
      <3>2. e.ip = conn[e.of].ip
        BY <1>1, <2>2, HeardBefore
      <3>3. connsOf'[ip] = IF ip = e.ip THEN connsOf[ip] + 1 ELSE connsOf[ip]
        <4> HIDE DEF e
        <4> QED BY <1>4, <3>1
      <3>4. /\ Went(ip)' = IF conn[e.of].ip = ip THEN Went(ip) \cup {e.of} ELSE Went(ip)
            /\ e.of \notin Went(ip)
        BY <1>1, <2>2, GroupsApplied
      <3>5. Cardinality(Went(ip) \cup {e.of}) = Cardinality(Went(ip)) + 1
        BY <3>4, FiniteGroups, FS_AddElement
      <3> HIDE DEF e
      <3> QED BY <2>1, <3>2, <3>3, <3>4, <3>5
    <2>3. CASE t # "ConnectionAccepted"
      <3>1. connsOf' = connsOf
        BY <1>1, <1>2, <2>3 DEF Apply, ApplyAccepted, ApplyBypassed, ApplyFailed, ApplyFinished,
             ApplyProgress, ApplyTarget, Gets
      <3>2. Went(ip)' = Went(ip)
        BY <1>1, <2>3, GroupsApplied
      <3> QED BY <2>1, <3>1, <3>2
    <2> QED BY <2>2, <2>3
  <1>6. ASSUME ~Shared, NEW ip \in Known
        PROVE  bytesOf'[ip] = SumFunction(Moved(ip)')
    <2>1. bytesOf[ip] = SumFunction(Moved(ip))
      BY <1>6 DEF Credited
    <2>2. CASE t = "RelayFinished"
      <3>1. bytesOf' = (IF Find(e.port) = 0 THEN bytesOf
                        ELSE [bytesOf EXCEPT ![CreditedIp(e.port)] = @ + e.bytes])
        BY <1>1, <1>2, <2>2 DEF Apply, ApplyAccepted, ApplyBypassed, ApplyFailed, ApplyFinished,
             ApplyProgress, ApplyTarget, Gets
      <3>2. PICK x \in Conns :
               /\ x = e.of /\ e.port = conn[x].port /\ conn[x].state \notin {"none", "refused"}
               /\ Open(x) /\ e.bytes = conn[x].bytes
        BY <1>1, <2>2, HeardBefore
      <3>3. ~Reused(x)
        BY <1>6, <3>2 DEF Shared, Reused, In
      <3>4. PICK n \in 1 .. Len(records) : records[n].of = x /\ records[n].port = e.port
        BY <3>2, <3>3 DEF Recorded, Holds
      <3>5. Find(e.port) \in 1 .. Len(records) /\ Find(e.port) # 0
            /\ records[Find(e.port)].port = e.port
        BY <3>4, FindSound DEF Base, Types
      <3>6. PICK d \in Conns : d = Found(e.port).of
        <4>1. records[Find(e.port)] \in RecordType
          BY <3>5 DEF Base, Types
        <4> QED BY <4>1 DEF Found, RecordType
      <3>7. Found(e.port).port = conn[d].port /\ Found(e.port).ip = conn[d].ip /\ WasAccepted(d)
        BY <3>5, <3>6 DEF Recorded, Holds, Found
      <3>8. conn[d].state \notin {"none", "refused"}
        <4>1. Rank(heard[d]) <= Stage(conn[d].state)
          BY DEF Base, Story
        <4> QED BY <3>7, <4>1 DEF WasAccepted, Open, Rank, Stage
      <3>9. d = x
        BY <1>6, <3>2, <3>5, <3>7, <3>8 DEF Shared, Found
      <3>10. bytesOf' = [bytesOf EXCEPT ![conn[x].ip] = @ + conn[x].bytes]
        BY <3>1, <3>2, <3>5, <3>7, <3>9 DEF CreditedIp
      <3>11. bytesOf'[ip] = IF ip = conn[x].ip THEN bytesOf[ip] + conn[x].bytes ELSE bytesOf[ip]
        BY <1>4, <3>10
      <3>12. /\ Over(ip)' = IF conn[x].ip = ip THEN Over(ip) \cup {x} ELSE Over(ip)
             /\ x \notin Over(ip)
        BY <1>1, <2>2, <3>2, GroupsApplied
      <3>13. CASE conn[x].ip = ip
        <4> DEFINE f == Moved(ip)
                   g == [c \in Over(ip) \cup {x} |-> conn[c].bytes]
        <4>1. /\ x \in DOMAIN g /\ DOMAIN f = DOMAIN g \ {x}
              /\ SameOn(f, g, DOMAIN f)
          BY <3>12 DEF Moved, SameOn
        <4>2. IsFiniteSet(DOMAIN g)
          BY FiniteGroups, FS_AddElement
        <4>3. NatOn(g, DOMAIN g)
          <5>1. \A c \in Conns : conn[c].bytes \in Nat
            BY <1>4 DEF ConnType
          <5> QED BY <5>1 DEF NatOn, Over
        <4>4. Moved(ip)' = g /\ g[x] = conn[x].bytes
          BY <1>2, <3>12, <3>13 DEF Moved
        <4> HIDE DEF f, g
        <4>5. SumFunction(g) = SumFunction(f) + g[x]
          BY <4>1, <4>2, <4>3, SumAdd
        <4> QED BY <2>1, <3>11, <3>13, <4>4, <4>5 DEF f
      <3>14. CASE conn[x].ip # ip
        <4>1. Moved(ip)' = Moved(ip)
          BY <1>2, <3>12, <3>14 DEF Moved
        <4> QED BY <2>1, <3>11, <3>14, <4>1
      <3> QED BY <3>13, <3>14
    <2>3. CASE t # "RelayFinished"
      <3>1. bytesOf' = bytesOf
        BY <1>1, <1>2, <2>3 DEF Apply, ApplyAccepted, ApplyBypassed, ApplyFailed, ApplyFinished,
             ApplyProgress, ApplyTarget, Gets
      <3>2. Over(ip)' = Over(ip)
        BY <1>1, <2>3, GroupsApplied
      <3>3. Moved(ip)' = Moved(ip)
        BY <1>2, <3>2 DEF Moved
      <3> QED BY <2>1, <3>1, <3>3
    <2> QED BY <2>2, <2>3
  <1> QED BY <1>3, <1>5, <1>6 DEF Credited

LEMMA InitCredited ==
    ASSUME Init
    PROVE  Credited
  <1>1. \A ip \in Known : Went(ip) = {} /\ Over(ip) = {}
    BY DEF Init, Went, Over, WasAccepted, Open
  <1>2. \A ip \in Known : SumFunction(Moved(ip)) = 0
    BY <1>1, SumEmpty DEF Moved
  <1>3. connsOf = [ip \in Known |-> 0] /\ bytesOf = [ip \in Known |-> 0]
    BY DEF Init
  <1> QED BY <1>1, <1>2, <1>3, FS_EmptySet DEF Credited

\* Every address is credited with the connections that went to it and, as long
\* as no two connections had the same port, with exactly the bytes their relays
\* moved, late progress events or not (apply_event, find_record).
THEOREM CreditSafe == Spec => []CreditGoesToTheAddress
  <1>1. Init => Credited
    BY InitCredited
  <1>2. Base /\ Recorded /\ IsFiniteSet(HeardOf) /\ Credited /\ [Next]_vars => Credited'
    BY NextLater, CreditedApplied, CreditedOutside
  <1>3. Credited => CreditGoesToTheAddress
    <2> SUFFICES ASSUME Credited PROVE CreditGoesToTheAddress
      OBVIOUS
    <2>1. (\A c \in Conns : ~Reused(c)) => ~Shared
      BY DEF Reused, Shared, In
    <2> QED BY <2>1 DEF Credited, CreditGoesToTheAddress, Went, Moved, Over
  <1> QED
    BY <1>1, <1>2, <1>3, EventsTellTheStory, RecordsHold, HeardOfIsFinite, PTL DEF Spec

-----------------------------------------------------------------------------
\* The address that is shown.

LEMMA AnnouncedApplied ==
    ASSUME Base, Announced, Apply
    PROVE  Announced'
  <1>1. PICK t \in EventTypes : Gets(t)
    BY ApplyGets
  <1> DEFINE L == Len(events)
  <1>2. /\ announce' = announce /\ target' = target /\ L \in Nat /\ L > 0
        /\ Head(events) = events[1] /\ events[1].type = t
        /\ Len(events') = L - 1 /\ \A i \in 1 .. L - 1 : events'[i] = events[i + 1]
    BY <1>1, GetsHead DEF Base
  <1>3. shownIp' = IF t = "IpTargetChanged" THEN events[1].ip ELSE shownIp
    BY <1>1, <1>2 DEF Apply, ApplyAccepted, ApplyBypassed, ApplyFailed, ApplyFinished,
       ApplyProgress, ApplyTarget, Gets
  <1>4. \A i \in 1 .. L - 1 : i + 1 \in 1 .. L
    BY <1>2
  <1> HIDE DEF L
  <1>5. CASE announce # NoAddress
    BY <1>2, <1>5 DEF Announced
  <1>6. CASE announce = NoAddress /\ shownIp = target
             /\ \A i \in 1 .. L : events[i].type # "IpTargetChanged"
    <2>1. 1 \in 1 .. L
      BY <1>2
    <2>2. shownIp' = target'
      BY <1>2, <1>3, <1>6, <2>1
    <2>3. \A i \in 1 .. Len(events') : events'[i].type # "IpTargetChanged"
      BY <1>2, <1>4, <1>6
    <2> QED BY <1>2, <1>6, <2>2, <2>3 DEF Announced
  <1>7. CASE announce = NoAddress /\
             \E i \in 1 .. L : /\ events[i].type = "IpTargetChanged" /\ events[i].ip = target
                               /\ \A k \in 1 .. L : k > i => events[k].type # "IpTargetChanged"
    <2>1. PICK i \in 1 .. L :
             /\ events[i].type = "IpTargetChanged" /\ events[i].ip = target
             /\ \A k \in 1 .. L : k > i => events[k].type # "IpTargetChanged"
      BY <1>7
    <2>2. CASE i = 1
      <3>1. shownIp' = target'
        BY <1>2, <1>3, <2>1, <2>2
      <3>2. \A k \in 1 .. Len(events') : events'[k].type # "IpTargetChanged"
        BY <1>2, <1>4, <2>1, <2>2
      <3> QED BY <1>2, <1>7, <3>1, <3>2 DEF Announced
    <2>3. CASE i # 1
      <3>1. i - 1 \in 1 .. Len(events') /\ events'[i - 1] = events[i]
        <4>1. i - 1 \in 1 .. L - 1 /\ (i - 1) + 1 = i
          BY <1>2, <2>3
        <4> QED BY <1>2, <4>1
      <3>2. ASSUME NEW k \in 1 .. Len(events'), k > i - 1
            PROVE  events'[k].type # "IpTargetChanged"
        <4>1. k \in 1 .. L - 1 /\ k + 1 \in 1 .. L /\ k + 1 > i
          BY <1>2, <3>2
        <4> QED BY <1>2, <2>1, <4>1
      <3> QED BY <1>2, <1>7, <2>1, <3>1, <3>2 DEF Announced
    <2> QED BY <2>2, <2>3
  <1> QED BY <1>5, <1>6, <1>7 DEF Announced, L

LEMMA AnnouncedSpoken ==
    ASSUME Base, Announced, NEW e \in EventType, e.type # "IpTargetChanged",
           events' = events \/ events' = Append(events, e),
           UNCHANGED <<announce, target, shownIp>>
    PROVE  Announced'
  <1> DEFINE L == Len(events)
  <1>1. L \in Nat /\ events \in Seq(EventType)
    BY DEF Base, Types
  <1>2. CASE events' = events
    BY <1>2 DEF Announced
  <1>3. CASE events' = Append(events, e)
    <2>1. /\ Len(events') = L + 1 /\ \A i \in 1 .. L : events'[i] = events[i]
          /\ events'[L + 1] = e
      BY <1>1, <1>3, AppendTo
    <2>2. \A i \in 1 .. Len(events') : i \in 1 .. L \/ events'[i] = e
      BY <1>1, <2>1
    <2>3. \A i \in 1 .. L : i \in 1 .. Len(events')
      BY <1>1, <2>1
    <2> HIDE DEF L
    <2>4. CASE announce # NoAddress
      BY <2>4 DEF Announced
    <2>5. CASE announce = NoAddress /\ shownIp = target
               /\ \A i \in 1 .. L : events[i].type # "IpTargetChanged"
      BY <2>1, <2>2, <2>5 DEF Announced
    <2>6. CASE announce = NoAddress /\
               \E i \in 1 .. L : /\ events[i].type = "IpTargetChanged" /\ events[i].ip = target
                                 /\ \A k \in 1 .. L : k > i => events[k].type # "IpTargetChanged"
      <3>1. PICK i \in 1 .. L :
               /\ events[i].type = "IpTargetChanged" /\ events[i].ip = target
               /\ \A k \in 1 .. L : k > i => events[k].type # "IpTargetChanged"
        BY <2>6
      <3>2. i \in 1 .. Len(events') /\ events'[i] = events[i]
        BY <2>1, <2>3
      <3>3. \A k \in 1 .. Len(events') : k > i => events'[k].type # "IpTargetChanged"
        BY <2>1, <2>2, <3>1
      <3> QED BY <2>6, <3>1, <3>2, <3>3 DEF Announced
    <2> QED BY <2>4, <2>5, <2>6 DEF Announced, L
  <1> QED BY <1>2, <1>3

LEMMA AnnouncedStep ==
    ASSUME Base, Announced, [Next]_vars
    PROVE  Announced'
  <1>1. CASE Apply
    BY <1>1, AnnouncedApplied
  <1>2. CASE (\E c \in Conns : Connection(c)) /\ UNCHANGED dashVars
    <2>1. PICK c \in Conns : Connection(c)
      BY <1>2
    <2>2. Step(c) /\ shownIp' = shownIp
      BY <1>2, <2>1, ConnectionBase DEF dashVars
    <2>3. /\ UNCHANGED <<announce, target>>
          /\ events' = events \/ \E e \in EventType : events' = Append(events, e) /\ Speaks(c, e)
      BY <2>2 DEF Step
    <2>4. CASE events' = events
      BY <2>2, <2>3, <2>4 DEF Announced
    <2>5. CASE \E e \in EventType : events' = Append(events, e) /\ Speaks(c, e)
      <3>1. PICK e \in EventType : events' = Append(events, e) /\ e.type # "IpTargetChanged"
        BY <2>5 DEF Speaks
      <3> QED BY <2>2, <2>3, <3>1, AnnouncedSpoken
    <2> QED BY <2>3, <2>4, <2>5
  <1>3. CASE Rescan /\ UNCHANGED dashVars
    BY <1>3, AcceptorAssumption DEF Rescan, Announced
  <1>4. CASE Announce /\ UNCHANGED dashVars
    <2> DEFINE e == [type |-> "IpTargetChanged", of |-> 0, port |-> NoPort,
                     ip |-> announce, bytes |-> 0]
    <2>1. /\ announce # NoAddress /\ events' = Append(events, e) /\ announce' = NoAddress
          /\ target' = target /\ announce = target
      BY <1>4 DEF Announce, Announced
    <2>2. e \in EventType /\ e.type = "IpTargetChanged" /\ e.ip = target
      <3>1. announce \in Rescanned
        BY <2>1 DEF Base, Types
      <3> QED BY <2>1, <3>1 DEF EventType, EventTypes, Known
    <2> HIDE DEF e
    <2>3. /\ Len(events) \in Nat /\ Len(events') = Len(events) + 1
          /\ events'[Len(events')] = e
      BY <2>1, <2>2, AppendTo DEF Base, Types
    <2>4. /\ Len(events') \in 1 .. Len(events')
          /\ \A k \in 1 .. Len(events') : ~(k > Len(events'))
      BY <2>3
    <2> QED BY <2>1, <2>2, <2>3, <2>4 DEF Announced
  <1>5. CASE UNCHANGED vars
    BY <1>5 DEF vars, acceptVars, dashVars, Announced
  <1> QED BY <1>1, <1>2, <1>3, <1>4, <1>5 DEF Next

\* When no event waits and no rescan is about to announce its address, the
\* dashboard shows the address that is dialled, however rescans, connections and
\* the dashboard interleave (background_ip_rescan, IpTargetChanged).
THEOREM ShownSafe == Spec => []ShownAddressIsTheTarget
  <1>1. Init => Announced
    BY DEF Init, AcceptInit, Announced
  <1>2. Base /\ Announced /\ [Next]_vars => Announced'
    BY AnnouncedStep
  <1>3. Announced => ShownAddressIsTheTarget
    BY DEF Announced, ShownAddressIsTheTarget
  <1> QED BY <1>1, <1>2, <1>3, EventsTellTheStory, PTL DEF Spec

-----------------------------------------------------------------------------
\* The order in which the events of one connection are applied.

\* The dashboard has heard, or will have before the n-th event, that c relays.
Bridged(c, n) ==
    \/ heard[c] \in {"BypassComplete", "RelayFinished"}
    \/ \E k \in 1 .. Len(events) :
          k < n /\ events[k].type = "BypassComplete" /\ events[k].of = c

Order ==
    /\ \A i \in 1 .. Len(events) :
          events[i].type \in {"RelayProgress", "RelayFinished"} => Bridged(events[i].of, i)
    /\ \A i \in 1 .. Len(events) :
          events[i].type = "BypassFailed" => ~Bridged(events[i].of, i)
    /\ \A c \in Conns : Relays(conn[c]) => Bridged(c, Len(events) + 1)

\* What is applied of a connection may follow what was heard of it.
LEMMA HeadFollows ==
    ASSUME Base, Order, NEW t \in EventTypes, t # "IpTargetChanged", Gets(t)
    PROVE  Head(events).of \in Conns /\ <<heard[Head(events).of], t>> \in Follows
  <1> DEFINE e == Head(events)
  <1>1. /\ e = events[1] /\ 1 \in 1 .. Len(events) /\ e.type = t
    BY GetsHead DEF Base
  <1>2. /\ e.of \in Conns
        /\ t = "ConnectionAccepted" => heard[e.of] = "nothing"
        /\ t = "BypassComplete" => heard[e.of] = "ConnectionAccepted"
        /\ t \in {"BypassFailed", "RelayFinished"} => Open(e.of)
        /\ t = "ConnectionError" => heard[e.of] = "nothing"
    BY HeardBefore
  <1>3. \A k \in 1 .. Len(events) : ~(k < 1)
    OBVIOUS
  <1> HIDE DEF e
  <1>4. t \in {"RelayProgress", "RelayFinished"} => heard[e.of] \in {"BypassComplete", "RelayFinished"}
    BY <1>1, <1>3 DEF Order, Bridged
  <1>5. t = "BypassFailed" => heard[e.of] # "BypassComplete"
    BY <1>1 DEF Order, Bridged
  <1>6. t \in {"ConnectionAccepted", "BypassComplete", "BypassFailed", "RelayFinished",
               "ConnectionError", "RelayProgress"}
    BY DEF EventTypes, Heard
  <1>7. <<heard[e.of], t>> \in Follows
    <2>1. CASE t \in {"ConnectionAccepted", "ConnectionError"}
      BY <1>2, <2>1 DEF Follows
    <2>2. CASE t = "BypassComplete"
      BY <1>2, <2>2 DEF Follows
    <2>3. CASE t = "BypassFailed"
      BY <1>2, <1>5, <2>3 DEF Follows, Open
    <2>4. CASE t = "RelayFinished"
      BY <1>2, <1>4, <2>4 DEF Follows, Open
    <2>5. CASE t = "RelayProgress"
      BY <1>4, <2>5 DEF Follows
    <2> QED BY <1>6, <2>1, <2>2, <2>3, <2>4, <2>5
  <1> QED BY <1>2, <1>7 DEF e

LEMMA OrderApplied ==
    ASSUME Base, Order, Apply
    PROVE  Order'
  <1> DEFINE e == Head(events)
             L == Len(events)
  <1>1. PICK t \in EventTypes : Gets(t)
    BY ApplyGets
  <1>2. /\ L \in Nat /\ L > 0 /\ e = events[1] /\ e.type = t
        /\ Len(events') = L - 1
        /\ \A i \in 1 .. L - 1 : events'[i] = events[i + 1]
        /\ conn' = conn
        /\ \A c \in Conns : heard'[c] = IF t \in Heard /\ c = e.of THEN t ELSE heard[c]
    BY <1>1, GetsHead DEF Base
  <1>3. t # "IpTargetChanged" => e.of \in Conns /\ <<heard[e.of], t>> \in Follows
    BY <1>1, HeadFollows
  <1> HIDE DEF e, L
  <1>4. \A i \in 1 .. L - 1 : i + 1 \in 1 .. L /\ i \in 1 .. L
    BY <1>2
  <1>5. ASSUME NEW c \in Conns
        PROVE  heard'[c] \in {"BypassComplete", "RelayFinished"}
                  <=> \/ heard[c] \in {"BypassComplete", "RelayFinished"}
                      \/ t = "BypassComplete" /\ e.of = c
    <2>1. CASE t \in Heard /\ c = e.of
      <3>1. heard'[c] = t /\ <<heard[c], t>> \in Follows
        BY <1>2, <1>3, <2>1 DEF Heard
      <3>2. /\ t = "RelayFinished" => heard[c] = "BypassComplete"
            /\ heard[c] \in {"BypassComplete", "RelayFinished"} =>
                  t \in {"RelayProgress", "RelayFinished"}
        BY <3>1 DEF Follows
      <3>3. t # "RelayProgress"
        BY <2>1 DEF Heard
      <3> HIDE DEF e
      <3> QED BY <2>1, <3>1, <3>2, <3>3
    <2>2. CASE ~(t \in Heard /\ c = e.of)
      <3>1. heard'[c] = heard[c] /\ ~(t = "BypassComplete" /\ e.of = c)
        BY <1>2, <2>2 DEF Heard
      <3> QED BY <3>1
    <2> QED BY <2>1, <2>2
  <1>6. ASSUME NEW c \in Conns, NEW n \in 1 .. L
        PROVE  Bridged(c, n)' <=> Bridged(c, n + 1)
    <2>1. ASSUME NEW k \in 1 .. L, k < n + 1, events[k].type = "BypassComplete", events[k].of = c
          PROVE  Bridged(c, n)'
      <3>1. CASE k = 1
        <4>1. heard'[c] \in {"BypassComplete", "RelayFinished"}
          BY <1>2, <1>5, <2>1, <3>1
        <4> QED BY <4>1 DEF Bridged
      <3>2. CASE k # 1
        <4>1. k - 1 \in 1 .. L - 1 /\ k - 1 < n /\ (k - 1) + 1 = k
          BY <1>2, <2>1, <3>2
        <4>2. events'[k - 1] = events[k]
          BY <1>2, <4>1
        <4> QED BY <1>2, <2>1, <4>1, <4>2 DEF Bridged
      <3> QED BY <3>1, <3>2
    <2>2. ASSUME NEW k \in 1 .. L - 1, k < n, events'[k].type = "BypassComplete", events'[k].of = c
          PROVE  Bridged(c, n + 1)
      <3>1. k + 1 \in 1 .. L /\ k + 1 < n + 1 /\ events'[k] = events[k + 1]
        BY <1>2, <1>4, <2>2
      <3> QED BY <2>2, <3>1 DEF Bridged, L
    <2>3. t = "BypassComplete" /\ e.of = c => Bridged(c, n + 1)
      <3>1. 1 \in 1 .. L /\ 1 < n + 1
        BY <1>2
      <3> QED BY <1>2, <3>1 DEF Bridged, L
    <2>4. heard[c] \in {"BypassComplete", "RelayFinished"} => Bridged(c, n)'
      <3> SUFFICES ASSUME heard[c] \in {"BypassComplete", "RelayFinished"} PROVE Bridged(c, n)'
        OBVIOUS
      <3>1. heard'[c] \in {"BypassComplete", "RelayFinished"}
        BY <1>5
      <3> QED BY <3>1 DEF Bridged
    <2>5. Bridged(c, n + 1) => Bridged(c, n)'
      BY <2>1, <2>4 DEF Bridged, L
    <2>6. Bridged(c, n)' => Bridged(c, n + 1)
      <3>1. heard'[c] \in {"BypassComplete", "RelayFinished"} => Bridged(c, n + 1)
        BY <1>5, <2>3 DEF Bridged
      <3> QED BY <1>2, <2>2, <3>1 DEF Bridged
    <2> QED BY <2>5, <2>6
  <1>7. ASSUME NEW i \in 1 .. L - 1, events'[i].type # "IpTargetChanged"
        PROVE  /\ i \in 1 .. L /\ i + 1 \in 1 .. L /\ events'[i] = events[i + 1]
               /\ events'[i].of \in Conns
    <2>1. i \in 1 .. L /\ i + 1 \in 1 .. L /\ events'[i] = events[i + 1]
      BY <1>2, <1>4
    <2> QED BY <1>7, <2>1 DEF Base, Story, EventOK, L
  <1>8. ASSUME NEW i \in 1 .. L - 1, events'[i].type \in {"RelayProgress", "RelayFinished"}
        PROVE  Bridged(events[i].of, i)'
    <2>1. PICK c \in Conns : c = events'[i].of
      BY <1>7, <1>8
    <2>2. i \in 1 .. L /\ Bridged(c, i + 1)
      BY <1>7, <1>8, <2>1 DEF Order, L
    <2>3. Bridged(c, i)'
      BY <1>6, <2>2
    <2> QED BY <2>1, <2>3 DEF Bridged
  <1>9. ASSUME NEW i \in 1 .. L - 1, events'[i].type = "BypassFailed"
        PROVE  ~Bridged(events[i].of, i)'
    <2>1. PICK c \in Conns : c = events'[i].of
      BY <1>7, <1>9
    <2>2. i \in 1 .. L /\ ~Bridged(c, i + 1)
      BY <1>7, <1>9, <2>1 DEF Order, L
    <2>3. ~Bridged(c, i)'
      BY <1>6, <2>2
    <2> QED BY <2>1, <2>3 DEF Bridged
  <1>10. ASSUME NEW c \in Conns, Relays(conn'[c])
         PROVE  Bridged(c, Len(events) + 1)'
    <2>1. PICK n : n = L
      OBVIOUS
    <2>2. n \in 1 .. L /\ Len(events') + 1 = n
      BY <1>2, <2>1
    <2>3. Bridged(c, n + 1)
      BY <1>2, <1>10, <2>1 DEF Order, L
    <2>4. Bridged(c, n)'
      BY <1>6, <2>2, <2>3
    <2> QED BY <2>2, <2>4 DEF Bridged
  <1> QED BY <1>2, <1>8, <1>9, <1>10 DEF Order

LEMMA OrderGrows ==
    ASSUME Base, Order, NEW e \in EventType, events' = Append(events, e), heard' = heard,
           \A c \in Conns : Relays(conn'[c]) =>
              Relays(conn[c]) \/ (e.type = "BypassComplete" /\ e.of = c),
           e.type \in {"RelayProgress", "RelayFinished"} => e.of \in Conns /\ Relays(conn[e.of]),
           e.type = "BypassFailed" => e.of \in Conns /\ conn[e.of].state = "bypassing"
    PROVE  Order'
  <1> DEFINE L == Len(events)
  <1>1. PICK n : n = L + 1
    OBVIOUS
  <1>2. /\ events \in Seq(EventType) /\ L \in Nat /\ Len(events') = n /\ n \in Nat
        /\ \A i \in 1 .. L : events'[i] = events[i]
        /\ events'[n] = e
    BY <1>1, AppendTo DEF Base, Types
  <1>3. /\ 1 .. Len(events') = 1 .. L \cup {n}
        /\ \A i \in 1 .. L : i < n /\ i < n + 1 /\ i \in 1 .. Len(events')
        /\ n < n + 1 /\ n \in 1 .. Len(events') /\ ~(n < n)
    BY <1>1, <1>2
  <1> HIDE DEF L
  <1>4. ASSUME NEW c, NEW i \in 1 .. L \cup {n}
        PROVE  Bridged(c, i)' <=> Bridged(c, i)
    <2>1. ~(n < i)
      BY <1>2, <1>3
    <2> QED BY <1>2, <1>3, <2>1 DEF Bridged, L
  <1>5. ASSUME NEW c \in Conns, conn[c].state = "bypassing"
        PROVE  ~Bridged(c, n)
    <2>1. heard[c] \in Heard /\ Rank(heard[c]) <= Stage(conn[c].state)
      BY DEF Base, Types, Story
    <2>2. heard[c] \notin {"BypassComplete", "RelayFinished"}
      BY <1>5, <2>1 DEF Rank, Stage
    <2>3. ASSUME NEW k \in 1 .. L, events[k].type = "BypassComplete", events[k].of = c
          PROVE  FALSE
      <3>1. EventOK(events[k])
        BY DEF Base, Story, L
      <3>2. Rank("BypassComplete") <= Stage("bypassing")
        BY <1>5, <2>3, <3>1 DEF EventOK, Heard
      <3> QED BY <3>2 DEF Rank, Stage
    <2> QED BY <2>2, <2>3 DEF Bridged, L
  <1>6. ASSUME NEW i \in 1 .. Len(events'),
               events'[i].type \in {"RelayProgress", "RelayFinished"}
        PROVE  Bridged(events[i].of, i)'
    <2>1. PICK c : c = events'[i].of
      OBVIOUS
    <2>2. Bridged(c, i)
      <3>1. CASE i \in 1 .. L
        BY <1>2, <1>6, <2>1, <3>1 DEF Order, L
      <3>2. CASE i = n
        BY <1>1, <1>2, <1>6, <2>1, <3>2 DEF Order, L
      <3> QED BY <1>3, <3>1, <3>2
    <2>3. Bridged(c, i)'
      BY <1>3, <1>4, <2>2
    <2> QED BY <2>1, <2>3 DEF Bridged
  <1>7. ASSUME NEW i \in 1 .. Len(events'), events'[i].type = "BypassFailed"
        PROVE  ~Bridged(events[i].of, i)'
    <2>1. PICK c : c = events'[i].of
      OBVIOUS
    <2>2. ~Bridged(c, i)
      <3>1. CASE i \in 1 .. L
        BY <1>2, <1>7, <2>1, <3>1 DEF Order, L
      <3>2. CASE i = n
        BY <1>2, <1>5, <1>7, <2>1, <3>2
      <3> QED BY <1>3, <3>1, <3>2
    <2>3. ~Bridged(c, i)'
      BY <1>3, <1>4, <2>2
    <2> QED BY <2>1, <2>3 DEF Bridged
  <1>8. ASSUME NEW c \in Conns, Relays(conn'[c])
        PROVE  Bridged(c, Len(events) + 1)'
    <2>1. Len(events') + 1 = n + 1
      BY <1>2
    <2>2. CASE Relays(conn[c])
      <3>1. Bridged(c, n)
        BY <1>1, <2>2 DEF Order, L
      <3>2. \/ heard'[c] \in {"BypassComplete", "RelayFinished"}
            \/ \E k \in 1 .. Len(events') :
                  k < n + 1 /\ events'[k].type = "BypassComplete" /\ events'[k].of = c
        BY <1>2, <1>3, <3>1 DEF Bridged, L
      <3> QED BY <2>1, <3>2 DEF Bridged
    <2>3. CASE e.type = "BypassComplete" /\ e.of = c
      <3>1. n \in 1 .. Len(events') /\ n < n + 1 /\ events'[n] = e
        BY <1>2, <1>3
      <3> QED BY <2>1, <2>3, <3>1 DEF Bridged
    <2> QED BY <1>8, <2>2, <2>3
  <1> QED BY <1>6, <1>7, <1>8 DEF Order

LEMMA OrderStep ==
    ASSUME Base, Order, [Next]_vars
    PROVE  Order'
  <1>0. CASE UNCHANGED <<events, heard>> /\ \A d \in Conns : Relays(conn'[d]) => Relays(conn[d])
    BY <1>0 DEF Order, Bridged
  <1>1. CASE Apply
    BY <1>1, OrderApplied
  <1>2. CASE (\E c \in Conns : Connection(c)) /\ UNCHANGED dashVars
    <2>1. PICK c \in Conns : Connection(c)
      BY <1>2
    <2>2. Step(c) /\ heard' = heard
      BY <1>2, <2>1, ConnectionBase DEF dashVars
    <2>3. \A d \in Conns \ {c} : conn'[d] = conn[d]
      BY <2>2 DEF Step
    <2>4. CASE events' = events /\ (Relays(conn'[c]) => Relays(conn[c]))
      <3>1. \A d \in Conns : Relays(conn'[d]) => Relays(conn[d])
        BY <2>3, <2>4
      <3> QED BY <1>0, <2>2, <2>4, <3>1
    <2>5. CASE \E e \in EventType : events' = Append(events, e) /\ Speaks(c, e)
      <3>1. PICK e \in EventType : events' = Append(events, e) /\ Speaks(c, e)
        BY <2>5
      <3>2. /\ e.of = c
            /\ e.type \in {"RelayProgress", "RelayFinished"} => Relays(conn[c])
            /\ e.type = "BypassFailed" => conn[c].state = "bypassing"
            /\ Relays(conn'[c]) => Relays(conn[c]) \/ e.type = "BypassComplete"
        BY <3>1 DEF Speaks
      <3>3. \A d \in Conns : Relays(conn'[d]) =>
               Relays(conn[d]) \/ (e.type = "BypassComplete" /\ e.of = d)
        BY <2>3, <3>2 DEF Relays
      <3> QED BY <2>2, <3>1, <3>2, <3>3, OrderGrows
    <2> QED BY <2>2, <2>4, <2>5 DEF Step
  <1>3. CASE Rescan /\ UNCHANGED dashVars
    <2>1. UNCHANGED <<conn, events, heard>>
      BY <1>3 DEF Rescan, dashVars
    <2> QED BY <1>0, <2>1
  <1>4. CASE Announce /\ UNCHANGED dashVars
    <2> DEFINE e == [type |-> "IpTargetChanged", of |-> 0, port |-> NoPort,
                     ip |-> announce, bytes |-> 0]
    <2>1. /\ announce # NoAddress /\ events' = Append(events, e)
          /\ UNCHANGED <<conn, heard>>
      BY <1>4 DEF Announce, dashVars
    <2>2. e \in EventType /\ e.type = "IpTargetChanged"
      <3>1. announce \in Rescanned
        BY <2>1 DEF Base, Types
      <3> QED BY <3>1 DEF EventType, EventTypes, Known
    <2>3. \A d \in Conns : Relays(conn'[d]) => Relays(conn[d])
      BY <2>1 DEF Relays
    <2> HIDE DEF e
    <2> QED BY <2>1, <2>2, <2>3, OrderGrows
  <1>5. CASE UNCHANGED vars
    <2>1. UNCHANGED <<conn, events, heard>>
      BY <1>5 DEF vars, acceptVars, dashVars
    <2> QED BY <1>0, <2>1
  <1> QED BY <1>1, <1>2, <1>3, <1>4, <1>5 DEF Next

LEMMA EventsShrink ==
    ASSUME Base, Order, [Next]_vars
    PROVE  [LET e == Head(events)
            IN  Len(events') < Len(events) /\ e.type # "IpTargetChanged" =>
                    <<heard[e.of], e.type>> \in Follows]_events
  <1> SUFFICES ASSUME Len(events') < Len(events), Head(events).type # "IpTargetChanged"
               PROVE  <<heard[Head(events).of], Head(events).type>> \in Follows
    OBVIOUS
  <1>1. events \in Seq(EventType) /\ Len(events) \in Nat
    BY DEF Base, Types
  <1>2. ~(UNCHANGED events)
    BY <1>1
  <1>3. \A e \in EventType : events' # Append(events, e)
    BY <1>1, AppendTo
  <1>4. Apply
    <2>1. CASE (\E c \in Conns : Connection(c)) /\ UNCHANGED dashVars
      <3>1. PICK c \in Conns : Step(c)
        BY <2>1, ConnectionBase
      <3> QED BY <1>2, <1>3, <3>1 DEF Step
    <2>2. CASE Announce
      <3>1. announce \in Rescanned /\ announce # NoAddress
        BY <2>2 DEF Announce, Base, Types
      <3>2. [type |-> "IpTargetChanged", of |-> 0, port |-> NoPort,
             ip |-> announce, bytes |-> 0] \in EventType
        BY <3>1 DEF EventType, EventTypes, Known
      <3> QED BY <1>3, <2>2, <3>2 DEF Announce
    <2> QED BY <1>2, <2>1, <2>2 DEF Next, Rescan, vars, acceptVars
  <1>5. PICK t \in EventTypes : Gets(t)
    BY <1>4, ApplyGets
  <1>6. Head(events).type = t
    BY <1>5 DEF Gets
  <1> QED BY <1>5, <1>6, HeadFollows

\* However many connections, rescans and a slow dashboard share the channel, what
\* is applied of one connection follows what was applied of it before: accepted
\* once, bypassed once, over once, and progress only of a relay that was announced
\* (handle_tcp_seg_connection_with_ip and its ticker).
THEOREM InOrder == Spec => EventsComeInOrder
  <1>1. Init => Order
    BY DEF Init, AcceptInit, Order, Relays
  <1>2. Base /\ Order /\ [Next]_vars => Order'
    BY OrderStep
  <1>3. Base /\ Order /\ [Next]_vars =>
           [LET e == Head(events)
            IN  Len(events') < Len(events) /\ e.type # "IpTargetChanged" =>
                    <<heard[e.of], e.type>> \in Follows]_events
    BY EventsShrink
  <1> QED BY <1>1, <1>2, <1>3, EventsTellTheStory, PTL DEF Spec, EventsComeInOrder

-----------------------------------------------------------------------------
\* The turns of the pool.

LEMMA Division ==
    ASSUME NEW n \in Nat, NEW l \in Nat, l > 0
    PROVE  n = l * (n \div l) + (n % l) /\ n % l \in 0 .. l - 1 /\ n \div l \in Nat
  OBVIOUS

LEMMA NextTurn ==
    ASSUME NEW n \in Nat, NEW l \in Nat, l > 0
    PROVE  /\ n % l \in 0 .. l - 1
           /\ (n + 1) % l = IF (n % l) + 1 = l THEN 0 ELSE (n % l) + 1
  <1> DEFINE q == n \div l
             r == n % l
  <1>1. n = l * q + r /\ r \in 0 .. l - 1 /\ q \in Nat
    BY Division
  <1> DEFINE p == (n + 1) \div l
             s == (n + 1) % l
  <1>2. n + 1 = l * p + s /\ s \in 0 .. l - 1 /\ p \in Nat
    <2>1. n + 1 \in Nat
      OBVIOUS
    <2> QED BY <2>1, Division
  <1> HIDE DEF q, r, p, s
  <1>3. l * (p - q) = r + 1 - s
    <2>1. l * (p - q) = l * p - l * q
      BY <1>1, <1>2
    <2>2. l * p \in Int /\ l * q \in Int
      BY <1>1, <1>2
    <2> QED BY <1>1, <1>2, <2>1, <2>2
  <1>4. CASE p - q <= -1
    <2>1. l * (p - q) <= -l
      BY <1>1, <1>2, <1>4
    <2> QED BY <1>1, <1>2, <1>3, <2>1
  <1>5. CASE p - q = 0
    <2>1. s = r + 1
      BY <1>1, <1>2, <1>3, <1>5
    <2> QED BY <1>1, <1>2, <2>1 DEF r, s
  <1>6. CASE p - q = 1
    <2>1. l = r + 1 - s
      BY <1>1, <1>2, <1>3, <1>6
    <2> QED BY <1>1, <1>2, <2>1 DEF r, s
  <1>7. CASE p - q >= 2
    <2>1. l * (p - q) >= l + l
      BY <1>1, <1>2, <1>7
    <2> QED BY <1>1, <1>2, <1>3, <2>1
  <1> QED BY <1>1, <1>2, <1>4, <1>5, <1>6, <1>7

LEMMA TurnsSame ==
    ASSUME Base, Turns, UNCHANGED <<pool, index>>, Accepted' = Accepted,
           \A d \in Conns : conn'[d].slot = conn[d].slot
    PROVE  Turns'
  <1>1. \A n : Picks(n)' = Picks(n)
    BY DEF Picks
  <1>2. \A c \in Conns \ Accepted' : conn'[c].slot = 0
    BY DEF Turns
  <1> QED BY <1>1, <1>2 DEF Turns

LEMMA TurnsAccept ==
    ASSUME Base, Turns, NEW c \in Conns, Accept(c)
    PROVE  Turns'
  <1> DEFINE N == Cardinality(Accepted)
             l == Len(pool)
             s == IF Poolless THEN 0 ELSE NextInPool
  <1>1. /\ conn \in [Conns -> ConnType] /\ conn[c].state = "none" /\ c \notin Accepted
        /\ pool' = pool /\ index' = IF Poolless THEN index ELSE (index + 1) % IndexMod
        /\ IndexMod \in Nat /\ IndexMod > 0
    BY AcceptorAssumption DEF Base, Types, Accept, In, Accepted
  <1>2. /\ conn'[c].state # "none" /\ conn'[c].slot = s
        /\ \A d \in Conns \ {c} : conn'[d] = conn[d]
    <2>1. PICK p :
             conn' = [conn EXCEPT ![c].state = IF ConnectIp \in IPv6 THEN "refused" ELSE "connecting",
                                  ![c].port = p, ![c].ip = ConnectIp,
                                  ![c].slot = IF Poolless THEN 0 ELSE NextInPool]
      BY DEF Accept
    <2>2. conn[c] \in ConnType
      BY <1>1
    <2> QED BY <1>1, <2>1, <2>2 DEF ConnType
  <1>3. /\ IsFiniteSet(Accepted) /\ N \in Nat /\ Accepted' = Accepted \cup {c}
        /\ IsFiniteSet(Accepted') /\ Cardinality(Accepted') = N + 1
    <2>1. Accepted' = Accepted \cup {c}
      BY <1>2 DEF Accepted
    <2>2. IsFiniteSet(Accepted)
      BY DEF Turns
    <2> QED BY <1>1, <2>1, <2>2, FS_AddElement, FS_CardinalityType
  <1>4. \A d \in Conns \ Accepted' : conn'[d].slot = 0
    BY <1>2, <1>3 DEF Turns
  <1>5. CASE Poolless
    BY <1>1, <1>3, <1>4, <1>5 DEF Turns, Poolless
  <1>6. CASE ~Poolless
    <2>1. pool # <<>> /\ l \in Nat /\ l > 0
      BY <1>6, PoolIsSeq DEF Poolless, Base, Types
    <2>2. N + 1 <= IndexMod => index = N
      BY <1>1, <1>3, <2>1 DEF Turns
    <2>3. N + 1 < IndexMod => index' = N + 1
      BY <1>1, <1>3, <1>6, <2>2
    <2>4. ASSUME N + 1 <= IndexMod
          PROVE  \E k \in Nat : \A n \in 1 .. l :
                    Picks(n)' = IF n <= (N + 1) % l THEN k + 1 ELSE k
      <3>1. PICK k \in Nat : \A n \in 1 .. l : Picks(n) = IF n <= N % l THEN k + 1 ELSE k
        BY <1>1, <1>3, <2>1, <2>4 DEF Turns
      <3>2. s = (N % l) + 1
        BY <1>6, <2>2, <2>4 DEF NextInPool
      <3>3. /\ N % l \in 0 .. l - 1
            /\ (N + 1) % l = IF (N % l) + 1 = l THEN 0 ELSE (N % l) + 1
        BY <1>3, <2>1, NextTurn
      <3>4. ASSUME NEW n \in 1 .. l
            PROVE  Picks(n)' = IF n = s THEN Picks(n) + 1 ELSE Picks(n)
        <4> DEFINE P == {d \in Conns : conn[d].slot = n}
        <4>1. P \subseteq Accepted /\ c \notin P
          <5>1. n # 0
            BY <2>1
          <5> QED BY <1>1, <5>1 DEF Turns
        <4>2. IsFiniteSet(P)
          BY <1>3, <4>1, FS_Subset
        <4>3. {d \in Conns : conn'[d].slot = n} = IF n = s THEN P \cup {c} ELSE P
          <5> HIDE DEF s
          <5> QED BY <1>1, <1>2, <4>1
        <4>4. Cardinality(P \cup {c}) = Cardinality(P) + 1
          BY <4>1, <4>2, FS_AddElement
        <4> QED BY <4>3, <4>4 DEF Picks
      <3> DEFINE r == N % l
                 w == (N + 1) % l
      <3>5. /\ r \in 0 .. l - 1 /\ w = (IF r + 1 = l THEN 0 ELSE r + 1) /\ s = r + 1
            /\ \A n \in 1 .. l : Picks(n) = IF n <= r THEN k + 1 ELSE k
        BY <3>1, <3>2, <3>3
      <3> HIDE DEF r, w, s, l, N
      <3>6. CASE r + 1 = l
        <4>1. \A n \in 1 .. l : Picks(n)' = k + 1
          <5> SUFFICES ASSUME NEW n \in 1 .. l PROVE Picks(n)' = k + 1
            OBVIOUS
          <5>1. Picks(n) = (IF n <= r THEN k + 1 ELSE k)
                /\ Picks(n)' = (IF n = s THEN Picks(n) + 1 ELSE Picks(n))
            BY <3>4, <3>5
          <5> QED BY <2>1, <3>5, <3>6, <5>1
        <4>2. \A n \in 1 .. l : ~(n <= w)
          BY <2>1, <3>5, <3>6
        <4>3. k + 1 \in Nat
          OBVIOUS
        <4> QED BY <4>1, <4>2, <4>3 DEF w
      <3>7. CASE r + 1 # l
        <4>1. \A n \in 1 .. l : Picks(n)' = IF n <= w THEN k + 1 ELSE k
          <5> SUFFICES ASSUME NEW n \in 1 .. l
                       PROVE  Picks(n)' = IF n <= w THEN k + 1 ELSE k
            OBVIOUS
          <5>1. Picks(n) = (IF n <= r THEN k + 1 ELSE k)
                /\ Picks(n)' = (IF n = s THEN Picks(n) + 1 ELSE Picks(n))
            BY <3>4, <3>5
          <5> QED BY <2>1, <3>5, <3>7, <5>1
        <4> QED BY <4>1 DEF w
      <3> QED BY <3>6, <3>7
    <2> QED BY <1>1, <1>3, <1>4, <2>1, <2>3, <2>4 DEF Turns
  <1> QED BY <1>5, <1>6

LEMMA TurnsStep ==
    ASSUME Base, Turns, [Next]_vars
    PROVE  Turns'
  <1>1. CASE (\E c \in Conns : Connection(c)) /\ UNCHANGED dashVars
    <2>1. PICK c \in Conns : Connection(c)
      BY <1>1
    <2>2. CASE Accept(c)
      BY <2>2, TurnsAccept
    <2>3. CASE ~Accept(c)
      <3>1. conn[c].state # "none" /\ UNCHANGED <<pool, index>>
        BY <2>1, <2>3 DEF Base, ConnInv, Connection, ConnectFails, Connects, BypassFails,
           EndsSilently, Bypassed, Tick, TickerEnds, RelayCloses, RelayEnds, In
      <3>2. Step(c)
        BY <1>1, <2>1, ConnectionBase
      <3>3. conn'[c].state # "none" /\ conn'[c].slot = conn[c].slot
            /\ \A d \in Conns \ {c} : conn'[d] = conn[d]
        BY <3>1, <3>2 DEF Step, Later
      <3>4. Accepted' = Accepted
        BY <3>1, <3>3 DEF Accepted
      <3> QED BY <3>1, <3>3, <3>4, TurnsSame
    <2> QED BY <2>2, <2>3
  <1>2. CASE UNCHANGED <<conn, pool, index>>
    BY <1>2, TurnsSame DEF Accepted
  <1>3. CASE Apply
    BY <1>2, <1>3, ApplyTypes DEF Base
  <1> QED BY <1>1, <1>2, <1>3 DEF Next, Rescan, Announce, vars, acceptVars

LEMMA InitTurns ==
    ASSUME Init
    PROVE  Turns
  <1>1. /\ \A c \in Conns : conn[c].state = "none" /\ conn[c].slot = 0
        /\ index = 0 /\ pool \in Pools
    BY DEF Init, AcceptInit
  <1>2. Accepted = {} /\ IsFiniteSet(Accepted) /\ Cardinality(Accepted) = 0
    BY <1>1, FS_EmptySet DEF Accepted
  <1>3. \A n \in 1 .. Len(pool) : Picks(n) = 0
    <2> SUFFICES ASSUME NEW n \in 1 .. Len(pool) PROVE Picks(n) = 0
      OBVIOUS
    <2>1. {c \in Conns : conn[c].slot = n} = {}
      BY <1>1
    <2> QED BY <2>1, FS_EmptySet DEF Picks
  <1>4. pool # <<>> => \A n \in 1 .. Len(pool) : ~(n <= 0 % Len(pool))
    <2>1. pool # <<>> => Len(pool) \in Nat /\ Len(pool) > 0
      BY <1>1, PoolIsSeq
    <2> QED BY <2>1
  <1>5. pool # <<>> => \E k \in Nat : \A n \in 1 .. Len(pool) :
           Picks(n) = IF n <= Cardinality(Accepted) % Len(pool) THEN k + 1 ELSE k
    <2>1. pool # <<>> => \A n \in 1 .. Len(pool) :
             Picks(n) = IF n <= Cardinality(Accepted) % Len(pool) THEN 0 + 1 ELSE 0
      BY <1>2, <1>3, <1>4
    <2>2. 0 \in Nat
      OBVIOUS
    <2> QED BY <2>1, <2>2
  <1> QED BY <1>1, <1>2, <1>5 DEF Turns

\* Until the counter wraps no address of the pool is used more than once more
\* than another, refused connections included (IpPool::next).
THEOREM PoolFairSafe == Spec => []PoolIsFair
  <1>1. Init => Turns
    BY InitTurns
  <1>2. Base /\ Turns /\ [Next]_vars => Turns'
    BY TurnsStep
  <1>3. Base /\ Turns => PoolIsFair
    <2> SUFFICES ASSUME Base, Turns, Cardinality(Accepted) <= IndexMod,
                        NEW m \in DOMAIN pool, NEW n \in DOMAIN pool
                 PROVE  Picks(m) <= Picks(n) + 1
      BY DEF PoolIsFair, Accepted, In
    <2>1. DOMAIN pool = 1 .. Len(pool) /\ pool # <<>>
      BY PoolIsSeq DEF Base, Types
    <2>2. PICK k \in Nat : \A i \in 1 .. Len(pool) :
             Picks(i) = IF i <= Cardinality(Accepted) % Len(pool) THEN k + 1 ELSE k
      BY <2>1 DEF Turns
    <2>3. /\ Picks(m) = k \/ Picks(m) = k + 1
          /\ Picks(n) = k \/ Picks(n) = k + 1
      BY <2>1, <2>2
    <2> QED BY <2>3
  <1> QED BY <1>1, <1>2, <1>3, EventsTellTheStory, PTL DEF Spec

=============================================================================
