------------------------------ MODULE FlowTable ------------------------------
(***************************************************************************)
(* The flow table and the connections that share it.  A connection binds a *)
(* socket, registers its entry under the socket's port and the upstream    *)
(* address, and removes what is under that key when it ends.  The kernel   *)
(* gives a port to one socket at a time; a port is free again when its     *)
(* socket is closed, which on the error paths is before the entry is       *)
(* removed.  What one connection does with its entry is InterceptFlow;     *)
(* here an entry is the connection that made it and its outcome.           *)
(***************************************************************************)

CONSTANTS
    None,
    Conns,      \* the connections, i.e. the tasks
    Ports,      \* ephemeral ports of the interface
    Upstreams   \* upstream addresses

ASSUME FlowTableAssumption == None \notin Conns

VARIABLES
    table,      \* the flow table: whose entry is under a key
    key,        \* the FlowKey of a connection
    open,       \* the connections whose socket holds its port
    decided,    \* the connections whose entry has an outcome
    pc,         \* where a task is
    held        \* the entry the handler cloned out of the table

vars == <<table, key, open, decided, pc, held>>

Keys == Ports \X Upstreams

Init ==
    /\ table = [k \in Keys |-> None]
    /\ key \in [Conns -> {None}]
    /\ open = {} /\ decided = {}
    /\ pc = [c \in Conns |-> "new"]
    /\ held = None

-----------------------------------------------------------------------------
Goto(c, from, to) == pc[c] = from /\ pc' = [pc EXCEPT ![c] = to]

\* Mutant of PortIsFree: sockets share ports (SO_REUSEADDR).
AnyPort(p) == p \in Ports

\* The kernel gives a socket bound to port 0 a port no open socket holds.
PortIsFree(p) == \A c \in open : key[c][1] # p

\* TcpSocket::new_v4, bind, local_addr and the key.
Bind(c, p, u) ==
    /\ Goto(c, "new", "bound")
    /\ PortIsFree(p)
    /\ key' = [key EXCEPT ![c] = <<p, u>>]
    /\ open' = open \cup {c}
    /\ UNCHANGED <<table, decided, held>>

\* flows.insert(key, entry)
Register(c) ==
    /\ Goto(c, "bound", "connecting")
    /\ table' = [table EXCEPT ![key[c]] = c]
    /\ UNCHANGED <<key, open, decided, held>>

\* connect consumes the socket, so an error closes it; the entry is finished.
ConnectFails(c) ==
    /\ Goto(c, "connecting", "leaving")
    /\ open' = open \ {c}
    /\ decided' = decided \cup {c}
    /\ UNCHANGED <<table, key, held>>

Connected(c) ==
    /\ Goto(c, "connecting", "waiting")
    /\ UNCHANGED <<table, key, open, decided, held>>

\* The wait returned an outcome, a success ...
Proceed(c) ==
    /\ c \in decided
    /\ Goto(c, "waiting", "accepted")
    /\ UNCHANGED <<table, key, open, decided, held>>

\* ... or a failure, a timeout, or an error while the prefix is forwarded.
GiveUp(c) ==
    /\ Goto(c, "waiting", "closing")
    /\ decided' = decided \cup {c}
    /\ UNCHANGED <<table, key, open, held>>

\* Mutant of StartRelay: the guard is dropped without running.
StartRelayKeeps(c) ==
    /\ Goto(c, "accepted", "relaying")
    /\ UNCHANGED <<table, key, open, decided, held>>

\* drop(cleanup), then the relay, which owns the socket.
StartRelay(c) ==
    /\ Goto(c, "accepted", "relaying")
    /\ table' = [table EXCEPT ![key[c]] = None]
    /\ UNCHANGED <<key, open, decided, held>>

RelayEnds(c) ==
    /\ Goto(c, "relaying", "done")
    /\ open' = open \ {c}
    /\ UNCHANGED <<table, key, decided, held>>

\* An early return drops outgoing before cleanup: first the socket closes.
CloseSocket(c) ==
    /\ Goto(c, "closing", "leaving")
    /\ open' = open \ {c}
    /\ UNCHANGED <<table, key, decided, held>>

\* Mutant of Remove: all entries of the port go.
RemoveByPort(c) ==
    /\ Goto(c, "leaving", "done")
    /\ table' = [k \in Keys |-> IF k[1] = key[c][1] THEN None ELSE table[k]]
    /\ UNCHANGED <<key, open, decided, held>>

\* The guard removes whatever is under the key.
Remove(c) ==
    /\ Goto(c, "leaving", "done")
    /\ table' = [table EXCEPT ![key[c]] = None]
    /\ UNCHANGED <<key, open, decided, held>>

\* The handler gets a packet with this key.
Lookup(k) ==
    /\ held = None /\ table[k] # None
    /\ held' = table[k]
    /\ UNCHANGED <<table, key, open, decided, pc>>

\* ... and decides the entry it holds, or leaves it undecided.
Handle ==
    /\ held # None
    /\ decided' \in {decided, decided \cup {held}}
    /\ held' = None
    /\ UNCHANGED <<table, key, open, pc>>

Task(c) ==
    \/ \E p \in Ports, u \in Upstreams : Bind(c, p, u)
    \/ Register(c) \/ ConnectFails(c) \/ Connected(c)
    \/ Proceed(c) \/ GiveUp(c)
    \/ StartRelay(c) \/ RelayEnds(c)
    \/ CloseSocket(c) \/ Remove(c)

Next ==
    \/ \E c \in Conns : Task(c)
    \/ \E k \in Keys : Lookup(k)
    \/ Handle

Spec == Init /\ [][Next]_vars

-----------------------------------------------------------------------------
Points == {"new", "bound", "connecting", "waiting", "accepted", "relaying",
           "closing", "leaving", "done"}

\* The points at which a connection's entry may be in the table.
Tracked == {"connecting", "waiting", "accepted", "closing", "leaving"}

\* Types: a connection has a key from its bind on.
TypeOK ==
    /\ table \in [Keys -> Conns \cup {None}]
    /\ key \in [Conns -> Keys \cup {None}]
    /\ open \subseteq Conns /\ decided \subseteq Conns
    /\ pc \in [Conns -> Points]
    /\ held \in Conns \cup {None}
    /\ \A c \in Conns : pc[c] # "new" => key[c] \in Keys

\* Nothing is left behind: an entry in the table is under its connection's
\* key, and that connection has yet to run its guard.  No entry of a
\* relaying or ended connection is found by a packet, however ports are
\* reused.
NoStaleEntry ==
    \A k \in Keys : table[k] # None =>
        /\ key[table[k]] = k
        /\ pc[table[k]] \in Tracked

\* Two connections whose sockets are open never meet under one key: only the
\* entry of a connection that closed its socket can be displaced.
DisplacesOnlyClosed ==
    [][\A k \in Keys :
          table[k] # None /\ table'[k] \notin {None, table[k]}
            => table[k] \notin open]_table

\* A connection that is connecting or waiting finds its entry under its key,
\* unless an earlier holder of its port and upstream has ended after it
\* registered: nobody else removes it.
LosesEntryOnlyToStale ==
    [][\A c \in Conns :
          pc[c] \in {"connecting", "waiting"} /\ table[key[c]] = c
            /\ table'[key[c]] # c
            => \E d \in Conns \ {c} : /\ pc[d] = "leaving" /\ pc'[d] = "done"
                                      /\ key[d] = key[c] /\ d \notin open]_table

\* "identifying a single TCP flow" (flow.rs:11): while a connection connects
\* or waits, its entry is the one its packets find.
KeyIdentifiesFlow ==
    \A c \in Conns :
        pc[c] \in {"connecting", "waiting"} => table[key[c]] = c
=============================================================================
