------------------------------ MODULE Dashboard ------------------------------
(***************************************************************************)
(* The dashboard behind the accept loop: apply_event of tui.rs, one event  *)
(* of the channel at a time.  It keeps a record per connection, newest     *)
(* first, finds the record of an event by the port, prunes finished        *)
(* records, and counts connections and bytes, in total and per address.    *)
(* Bytes of one direction stand for both.  Drawing, rates, scrolling and   *)
(* the filter only read this state; the counters of accepted connections   *)
(* and of bypass outcomes only grow and are left out.                      *)
(***************************************************************************)
EXTENDS Acceptor, SequencesExt, FiniteSetsExt

CONSTANT MaxRecords     \* MAX_RECORDS

VARIABLES
    records,    \* the VecDeque, front first
    activeCount,    \* active
    totalBytes, \* total_c2s
    connsOf,    \* cumulative_conns, per address
    bytesOf,    \* cumulative_up, per address
    shownIp,    \* active_ip
    heard       \* of each connection: the last of its events that was applied,
                \* progress apart; history for the properties

Heard == {"nothing", "ConnectionAccepted", "ConnectionError", "BypassComplete",
          "BypassFailed", "RelayFinished"}

counters == <<activeCount, totalBytes>>

dashVars == <<records, counters, connsOf, bytesOf, shownIp, heard>>

vars == <<acceptVars, dashVars>>

Known == Rescanned \union {Target} \union UNION {ToSet(p) : p \in Pools}

Init ==
    /\ AcceptInit
    /\ records = <<>>
    /\ activeCount = 0 /\ totalBytes = 0
    /\ connsOf = [ip \in Known |-> 0] /\ bytesOf = [ip \in Known |-> 0]
    /\ shownIp = Target
    /\ heard = [c \in Conns |-> "nothing"]

IsActive(r) == r.status \in {"Connecting", "Relaying"}

\* Mutant of Minus1: the failure is counted, the connection stays active.
Minus0(n) == n

Minus1(n) == IF n = 0 THEN 0 ELSE n - 1      \* saturating_sub

\* Mutant of Prune: the oldest record goes, finished or not.
PruneOldest(rs) == IF Len(rs) > MaxRecords THEN Front(rs) ELSE rs

\* prune_connection_records: while there are too many, the oldest finished
\* record goes.  An event adds one record or finishes one, so there is never
\* more than one to remove.
Prune(rs) ==
    LET finished == {n \in DOMAIN rs : ~IsActive(rs[n])}
    IN  IF Len(rs) > MaxRecords /\ finished # {} THEN RemoveAt(rs, Max(finished)) ELSE rs

\* find_record: the newest record of the port, or 0.
Find(port) ==
    LET at == {n \in DOMAIN records : records[n].port = port}
    IN  IF at = {} THEN 0 ELSE Min(at)

Found(port) == records[Find(port)]

\* The record found becomes r, if there is one; then the list is pruned.
Change(port, r) ==
    records' = Prune(IF Find(port) = 0 THEN records ELSE [records EXCEPT ![Find(port)] = r])

-----------------------------------------------------------------------------
Gets(type) ==
    /\ events # <<>> /\ Head(events).type = type
    /\ events' = Tail(events)
    /\ heard' = IF type \in Heard THEN [heard EXCEPT ![Head(events).of] = type] ELSE heard
    /\ UNCHANGED <<conn, pool, index, target, announce, swaps, segmenting>>

ApplyAccepted ==
    /\ Gets("ConnectionAccepted")
    /\ LET e == Head(events)
       IN  /\ records' = Prune(<<[of |-> e.of, port |-> e.port, ip |-> e.ip, status |-> "Connecting",
                                  live |-> TRUE, bytes |-> 0]>> \o records)
           /\ connsOf' = [connsOf EXCEPT ![e.ip] = @ + 1]
    /\ activeCount' = activeCount + 1
    /\ UNCHANGED <<totalBytes, bytesOf, shownIp>>

ApplyBypassed ==
    /\ Gets("BypassComplete")
    /\ LET port == Head(events).port IN Change(port, [Found(port) EXCEPT !.status = "Relaying"])
    /\ UNCHANGED <<activeCount, totalBytes, connsOf, bytesOf, shownIp>>

\* BypassComplete(UnexpectedClose) and ConnectionError are treated alike.
ApplyFailed ==
    /\ Gets("BypassFailed") \/ Gets("ConnectionError")
    /\ LET port == Head(events).port
       IN  Change(port, [Found(port) EXCEPT !.status = "Failed", !.live = FALSE])
    /\ activeCount' = Minus1(activeCount)
    /\ UNCHANGED <<totalBytes, connsOf, bytesOf, shownIp>>

\* Mutant of CreditedIp: the address that is shown.
CreditedShown(port) == shownIp

\* The bytes go to the address of the record that is found.
CreditedIp(port) == Found(port).ip

ApplyFinished ==
    /\ Gets("RelayFinished")
    /\ LET e == Head(events)
       IN  /\ Change(e.port, [Found(e.port) EXCEPT !.status = "Done", !.live = FALSE,
                                                      !.bytes = e.bytes])
           /\ bytesOf' = IF Find(e.port) = 0 THEN bytesOf
                         ELSE [bytesOf EXCEPT ![CreditedIp(e.port)] = @ + e.bytes]
           /\ totalBytes' = totalBytes + e.bytes
    /\ activeCount' = Minus1(activeCount)
    /\ UNCHANGED <<connsOf, shownIp>>

ApplyProgress ==
    /\ Gets("RelayProgress")
    /\ LET e == Head(events) IN Change(e.port, [Found(e.port) EXCEPT !.bytes = e.bytes])
    /\ UNCHANGED <<counters, connsOf, bytesOf, shownIp>>

ApplyTarget ==
    /\ Gets("IpTargetChanged")
    /\ shownIp' = Head(events).ip
    /\ records' = Prune(records)
    /\ UNCHANGED <<counters, connsOf, bytesOf>>

Apply ==
    \/ ApplyAccepted
    \/ ApplyBypassed
    \/ ApplyFailed
    \/ ApplyFinished
    \/ ApplyProgress
    \/ ApplyTarget

Next ==
    \/ Apply
    \/ (\E c \in Conns : Connection(c)) /\ UNCHANGED dashVars
    \/ (Rescan \/ Announce) /\ UNCHANGED dashVars

Spec == Init /\ [][Next]_vars

-----------------------------------------------------------------------------
Reused(c) ==
    \E d \in Conns \ {c} : ~In(d, {"none", "refused"}) /\ conn[d].port = conn[c].port

\* Accepted, as far as the dashboard has heard, and not over.
Open(c) == heard[c] \in {"ConnectionAccepted", "BypassComplete"}

WasAccepted(c) == Open(c) \/ heard[c] \in {"BypassFailed", "RelayFinished"}

\* The counter of active connections is never above the number of connections
\* that were accepted and have not ended.  (It may be below: a connection that
\* was never accepted lowers it when it fails.)
ActiveIsNotOverstated == activeCount <= Cardinality({c \in Conns : Open(c)})

\* A connection that is open and shares its port with no other has its record,
\* however many records there are, and the record is open and names the
\* address the connection went to.
OpenIsShown ==
    \A c \in Conns :
        Open(c) /\ ~Reused(c) =>
            \E n \in DOMAIN records :
                /\ records[n].of = c /\ records[n].live /\ IsActive(records[n])
                /\ records[n].ip = conn[c].ip

\* An address is credited with the connections that went to it and, as long
\* as no port was used twice, with the bytes of their finished relays.
CreditGoesToTheAddress ==
    /\ \A ip \in Known :
          connsOf[ip] = Cardinality({c \in Conns : WasAccepted(c) /\ conn[c].ip = ip})
    /\ (\A c \in Conns : ~Reused(c)) =>
          \A ip \in Known :
             LET over == {c \in Conns : heard[c] = "RelayFinished" /\ conn[c].ip = ip}
             IN  bytesOf[ip] = SumFunction([c \in over |-> conn[c].bytes])

\* What may follow what of one connection, progress apart.
Follows ==
    {<<"nothing", "ConnectionError">>,
     <<"nothing", "ConnectionAccepted">>,
     <<"ConnectionAccepted", "BypassFailed">>,
     <<"ConnectionAccepted", "BypassComplete">>,
     <<"BypassComplete", "RelayProgress">>,
     <<"BypassComplete", "RelayFinished">>,
     <<"RelayFinished", "RelayProgress">>}

\* However the events of the connections mix in the channel, those of one
\* come in their order, and progress only of a relay that was announced.
EventsComeInOrder ==
    [][LET e == Head(events)
       IN  Len(events') < Len(events) /\ e.type # "IpTargetChanged" =>
               <<heard[e.of], e.type>> \in Follows]_events

\* In quiet times the dashboard shows the address that is dialled.
ShownAddressIsTheTarget ==
    events = <<>> /\ announce = NoAddress => shownIp = target
=============================================================================
