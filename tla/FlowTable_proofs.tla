--------------------------- MODULE FlowTable_proofs ---------------------------
(***************************************************************************)
(* Proofs about FlowTable, for any number of connections, ports and        *)
(* upstreams.  Sockets relates the open sockets to where the tasks are and *)
(* to the ports; with it, only a closed connection's entry is displaced.   *)
(***************************************************************************)
EXTENDS FlowTable, TLAPS

Opened == {"bound", "connecting", "waiting", "accepted", "relaying", "closing"}

\* The kernel's part of the invariant.
Sockets ==
    /\ \A c \in Conns : c \in open <=> pc[c] \in Opened
    /\ \A c, d \in open : c # d => key[c][1] # key[d][1]

LEMMA TypingStep == TypeOK /\ [Next]_vars => TypeOK'
  <1>. SUFFICES ASSUME TypeOK, [Next]_vars PROVE TypeOK'
    OBVIOUS
  <1>. USE DEF TypeOK, Goto, Points
  <1>1. ASSUME NEW c \in Conns, NEW p \in Ports, NEW u \in Upstreams, Bind(c, p, u)
        PROVE  TypeOK'
    <2>1. <<p, u>> \in Keys
      BY DEF Keys
    <2>2. QED
      BY <1>1, <2>1 DEF Bind
  <1>2. ASSUME NEW c \in Conns, Register(c) \/ StartRelay(c) \/ Remove(c)
        PROVE  TypeOK'
    BY <1>2 DEF Register, StartRelay, Remove
  <1>3. ASSUME NEW c \in Conns, \/ ConnectFails(c) \/ Connected(c) \/ Proceed(c)
                                \/ GiveUp(c) \/ RelayEnds(c) \/ CloseSocket(c)
        PROVE  TypeOK'
    BY <1>3 DEF ConnectFails, Connected, Proceed, GiveUp, RelayEnds, CloseSocket
  <1>4. ASSUME NEW k \in Keys, Lookup(k)
        PROVE  TypeOK'
    BY <1>4 DEF Lookup
  <1>5. CASE Handle
    BY <1>5 DEF Handle
  <1>6. CASE UNCHANGED vars
    BY <1>6 DEF vars
  <1>7. QED
    BY <1>1, <1>2, <1>3, <1>4, <1>5, <1>6 DEF Next, Task

\* The types hold in every run.
THEOREM Typing == Spec => []TypeOK
  <1>1. Init => TypeOK
    BY DEF Init, TypeOK, Points
  <1>2. QED
    BY <1>1, TypingStep, PTL DEF Spec

-----------------------------------------------------------------------------
LEMMA SocketsStep == TypeOK /\ Sockets /\ [Next]_vars => Sockets'
  <1>. SUFFICES ASSUME TypeOK, Sockets, [Next]_vars PROVE Sockets'
    OBVIOUS
  <1>. USE DEF TypeOK, Sockets, Goto, Points, Opened
  <1>1. ASSUME NEW c \in Conns, NEW p \in Ports, NEW u \in Upstreams, Bind(c, p, u)
        PROVE  Sockets'
    <2>1. key'[c][1] = p /\ \A d \in open : d # c /\ key'[d] = key[d]
      BY <1>1 DEF Bind
    <2>2. QED
      BY <1>1, <2>1 DEF Bind, PortIsFree
  <1>2. ASSUME NEW c \in Conns,
               \/ Register(c) \/ StartRelay(c) \/ Remove(c) \/ Connected(c)
               \/ Proceed(c) \/ GiveUp(c)
        PROVE  Sockets'
    BY <1>2 DEF Register, StartRelay, Remove, Connected, Proceed, GiveUp
  <1>3. ASSUME NEW c \in Conns, ConnectFails(c) \/ RelayEnds(c) \/ CloseSocket(c)
        PROVE  Sockets'
    BY <1>3 DEF ConnectFails, RelayEnds, CloseSocket
  <1>4. CASE Handle \/ \E k \in Keys : Lookup(k)
    BY <1>4 DEF Handle, Lookup
  <1>5. CASE UNCHANGED vars
    BY <1>5 DEF vars
  <1>6. QED
    BY <1>1, <1>2, <1>3, <1>4, <1>5 DEF Next, Task

THEOREM OpenSockets == Spec => []Sockets
  <1>1. Init => Sockets
    BY DEF Init, Sockets, Opened
  <1>2. QED
    BY <1>1, SocketsStep, Typing, PTL DEF Spec

-----------------------------------------------------------------------------
\* No entry outlives its connection's guard.
THEOREM NothingStale == Spec => []NoStaleEntry
  <1>1. Init => NoStaleEntry
    BY DEF Init, NoStaleEntry
  <1>2. TypeOK /\ NoStaleEntry /\ [Next]_vars => NoStaleEntry'
    <2>. SUFFICES ASSUME TypeOK, NoStaleEntry, [Next]_vars PROVE NoStaleEntry'
      OBVIOUS
    <2>. USE DEF TypeOK, NoStaleEntry, Goto, Points, Tracked
    <2>1. ASSUME NEW c \in Conns, NEW p \in Ports, NEW u \in Upstreams, Bind(c, p, u)
          PROVE  NoStaleEntry'
      BY <2>1 DEF Bind
    <2>2. ASSUME NEW c \in Conns, Register(c)
          PROVE  NoStaleEntry'
      BY <2>2 DEF Register
    <2>3. ASSUME NEW c \in Conns, StartRelay(c) \/ Remove(c)
          PROVE  NoStaleEntry'
      BY <2>3 DEF StartRelay, Remove
    <2>4. ASSUME NEW c \in Conns,
                 \/ ConnectFails(c) \/ Connected(c) \/ Proceed(c)
                 \/ GiveUp(c) \/ RelayEnds(c) \/ CloseSocket(c)
          PROVE  NoStaleEntry'
      BY <2>4 DEF ConnectFails, Connected, Proceed, GiveUp, RelayEnds, CloseSocket
    <2>5. CASE Handle \/ (\E k \in Keys : Lookup(k)) \/ UNCHANGED vars
      BY <2>5 DEF Handle, Lookup, vars
    <2>6. QED
      BY <2>1, <2>2, <2>3, <2>4, <2>5 DEF Next, Task
  <1>3. QED
    BY <1>1, <1>2, Typing, PTL DEF Spec

-----------------------------------------------------------------------------
\* The steps that write the table.
LEMMA TableWriters ==
    ASSUME [Next]_vars, table' # table
    PROVE  \E c \in Conns : Register(c) \/ StartRelay(c) \/ Remove(c)
  BY DEF Next, Task, vars, Bind, ConnectFails, Connected, Proceed, GiveUp,
         RelayEnds, CloseSocket, Lookup, Handle

\* An insert displaces only the entry of a connection that closed its socket.
THEOREM Displacement == Spec => DisplacesOnlyClosed
  <1>1. TypeOK /\ NoStaleEntry /\ Sockets /\ [Next]_vars
          => [\A k \in Keys :
                table[k] # None /\ table'[k] \notin {None, table[k]}
                  => table[k] \notin open]_table
    <2>1. SUFFICES ASSUME TypeOK, NoStaleEntry, Sockets, [Next]_vars, table' # table,
                          NEW k \in Keys, table[k] # None,
                          table'[k] \notin {None, table[k]}
                   PROVE  table[k] \notin open
      OBVIOUS
    <2>2. PICK c \in Conns : Register(c) \/ StartRelay(c) \/ Remove(c)
      BY <2>1, TableWriters
    <2>3. Register(c) /\ key[c] = k /\ c # table[k]
      BY <2>1, <2>2 DEF Register, StartRelay, Remove, TypeOK, Goto, Points
    <2>4. c \in open /\ key[table[k]] = k
      BY <2>1, <2>3 DEF Register, Goto, Sockets, Opened, NoStaleEntry
    <2>5. QED
      BY <2>1, <2>3, <2>4 DEF Sockets
  <1>2. QED
    BY <1>1, Typing, OpenSockets, NothingStale, PTL DEF Spec, DisplacesOnlyClosed

\* A connection loses its entry only to a stale holder of the same key.
THEOREM Loss == Spec => LosesEntryOnlyToStale
  <1>1. TypeOK /\ Sockets /\ [Next]_vars
          => [\A c \in Conns :
                pc[c] \in {"connecting", "waiting"} /\ table[key[c]] = c
                  /\ table'[key[c]] # c
                  => \E d \in Conns \ {c} : /\ pc[d] = "leaving" /\ pc'[d] = "done"
                                            /\ key[d] = key[c] /\ d \notin open]_table
    <2>1. SUFFICES ASSUME TypeOK, Sockets, [Next]_vars, table' # table,
                          NEW c \in Conns, pc[c] \in {"connecting", "waiting"},
                          table[key[c]] = c, table'[key[c]] # c
                   PROVE  \E d \in Conns \ {c} :
                             /\ pc[d] = "leaving" /\ pc'[d] = "done"
                             /\ key[d] = key[c] /\ d \notin open
      OBVIOUS
    <2>2. PICK d \in Conns : Register(d) \/ StartRelay(d) \/ Remove(d)
      BY <2>1, TableWriters
    <2>3. key[c] \in Keys /\ key[d] = key[c] /\ d # c
      BY <2>1, <2>2 DEF Register, StartRelay, Remove, TypeOK, Goto, Points
    <2>4. c \in open
      BY <2>1 DEF Sockets, Opened
    <2>5. d \notin open
      BY <2>3, <2>4, <2>1 DEF Sockets
    <2>6. Remove(d)
      BY <2>2, <2>5, <2>1 DEF Register, StartRelay, Goto, Sockets, Opened
    <2>7. QED
      BY <2>1, <2>3, <2>5, <2>6 DEF Remove, Goto, TypeOK
  <1>2. QED
    BY <1>1, Typing, OpenSockets, PTL DEF Spec, LosesEntryOnlyToStale
=============================================================================
