# IP-Bypass-Plus-Frag in TLA+

This directory is the verification development of the repository: TLA+ modules
translated from the Rust sources, TLC configurations that check them on small
instances, and TLAPS proofs of what matters most. `PROJECT.json` maps every
definition to the source lines it stands for. Paths below are relative to
`src/crates/`; `core`, `platform` and `cli` are the three crates.

## 1. The system

The program is a local TCP proxy. For every client connection it opens an
upstream connection to one of a few scanned IPv4 addresses and relays. Before
it relays, the first client bytes are disguised in one of two ways:
`tls_record_frag` lets a packet interceptor (NFQUEUE on Linux and Android,
WinDivert on Windows) rewrite the first data packet; `tls_frag` writes the first
bytes in small chunks and needs no interceptor.

| component | state it keeps | operations | talks to |
|---|---|---|---|
| flow table and entries (`core/flow.rs`) | per flow: handshake numbers, flags, outcome, two `Notify` | `insert`, `get`, `remove`, `FlowEntry::finish` | shared by the proxy tasks and the handler thread |
| packet handler (`core/handler.rs`) | none of its own | `on_packet`: one call per packet, on one thread | flow entries, the bypass method, the backend |
| bypass methods (`core/methods/`) | configuration | `on_handshake_complete_ack`, `on_first_data_packet`; `write_fragmented`, `read_one_tls_record` | the handler; the proxy |
| intercepting connection (`core/proxy.rs:460`) | one task per connection: where it is, the sockets | register, connect, wait, read and write the first bytes, wait, unregister, relay | the flow entry, the event channel |
| segmenting connection (`core/proxy.rs:668`) | one task per connection | connect, first bytes, relay | the event channel |
| relay (`core/proxy.rs:776`) | two copy tasks, two counters, a ticker, a deadline | copy, half-close, abort, report | sockets, the event channel |
| accept loop and IP pool (`core/proxy.rs:363`, `:45`) | round-robin index, active IP | `accept`, `next`, spawn | spawns the connections; the rescan (`cli/main.rs:816`) writes the active IP |
| IP scanner (`core/ip_scanner.rs`) | two semaphores, two channels, two result maps | three-phase probe, early stop, merge, sort | network; progress channel |
| interceptor backends (`platform/`) | firewall rules, queue handle, shutdown flag | install, `run_until`, drop | kernel; calls the handler |
| start-up (`cli/main.rs:522`) | arguments, list, chosen range, scanned entries | load, scan, pick, pool | scanner, pickers; hands the target to the proxy |
| command line (`cli/main.rs:279`, `:682`) | interceptor thread, proxy task, signals, terminal | start, select, shutdown | everything above |
| dashboard (`cli/tui.rs`) | connection records, totals | `apply_event`, drawing, keys | event channel |
| C library (`cli/lib.rs`) | one static context | scan, start, stop | core |
| configuration, privilege checks, interface address | none | parse, validate | - |

Behaviours that are hard here: the handler thread and the proxy task race on one
flow (finish after an unlock, a timeout against a late decision, a notification
between a check and a wait); packets are lost, repeated and reordered; ports are
reused while an old connection still cleans up; tasks are aborted in the middle of
a copy; events of different tasks interleave in one channel; results are dropped
when a scan stops early; rules are installed in several steps that can fail; and
the shutdown of three threads of control depends on each other.

What makes each component correct:

- *flow, handler, connection*: one final outcome per flow on which both sides
  agree; one rewrite; no success before the first bytes went out; every wait ends;
  the entry always leaves the table; each connection has at most one verdict event.
- *flow table*: an entry is removed by its own connection, and only by it.
- *relay*: what is reported never exceeds what was delivered, is exact when the
  relay completes, and a relay with a deadline ends.
- *scanner*: every address is in the result once, no probe exceeds the limits, the
  result holds the healthy addresses the scan stopped for, and the scan ends.
- *pool and rescan*: connections go round-robin over the pool, and only to IPv4.
- *methods*: fragmenting changes the framing and never the bytes.
- *start-up*: the target is one the list names, in the chosen range, and IPv4.
- *lifecycle*: no thread or rule outlives the program's wish to stop, which ends it.
- *dashboard*: its counters agree with the connections there are.

## 2. Modules

| module | models |
|---|---|
| `Flow` | the flow state, packets and the methods' answers (data only) |
| `Handler` | `Handler::on_packet` for one flow, three interruptible points |
| `Bypass` | abstract: what one connection promises |
| `InterceptFlow` | `handle_intercept_connection` composed with `Handler`; implements `Bypass` |
| `FlowTable` | the table, the ports and the cleanup guards of many connections |
| `Wire` | the client's bytes: record, fragments, packets, the rewritten payload, the server's TCP |
| `Relay` | `counting_relay_with_client_fragmentation`: two copies, counters, ticker, deadline |
| `Acceptor` | the accept loop, the pool, the rescan, and each connection as the events it sends |
| `Dashboard` | `apply_event` behind `Acceptor` |
| `Score` | `IpProbeEntry` and `compute_score` (operators only) |
| `Probe` | one TLS, TTFB and throughput probe of one address |
| `IpScanner` | `scan_ip_list`: the pipeline of TCP and TLS probes, early stop, merge, sort |
| `ScanSession` | the start-up scan of the program around `IpScanner`, in its three modes |
| `Startup` | from arguments and list to the target: range, scan result, pickers, pool |
| `Backend` | an interceptor: rules command by command, queue, loop, errors, drop |
| `Lifecycle` | the program from start to exit, and the C library's calls, around `Backend` |
| `*_proofs` | the theorems about the module of that name; `ScanSession_proofs` also those about `IpScanner`, `Probe_proofs` about `Score`, `Dashboard_proofs` about `Acceptor` |
| `MC*` | the TLC instances |

What extends what: `InterceptFlow` ⊃ `Handler` ⊃ `Flow`; `ScanSession` ⊃ `IpScanner`
⊃ `Score`, `Probe` ⊃ `Score`; `Lifecycle` ⊃ `Startup`, `Backend`; `Dashboard` ⊃
`Acceptor`. What a smaller module does in many steps is one step in a larger one:
the relay in `InterceptFlow`, `FlowTable` and `Acceptor`, a probe in `IpScanner`, a
scan in `Startup`, a connection's wait for its bypass in `Wire`.

### InterceptFlow and Handler

`flow` is `FlowEntry::state`; `registered` says the entry is in the table; `hpc`
and `finishing` are the handler thread's place between lookup, locked decision and
the `finish` after it dropped the lock; `rewrites` counts `AcceptModified` verdicts
per stage. `pc`, `stage`, `result` are the task's local state and `events` what it
sent. `waiters` are the `Notified` futures that exist, `woken` those notified:
`notify_waiters` wakes the existing ones and stores nothing, which is the
behaviour of `tokio::sync::Notify` the code depends on.

One action is one stretch of code with no lock release and no await in it. `Check`
(the test under the lock) and `Arm` (creating the futures) are two actions because
the lock is released in between. The actions of the handler carry the packet, and
the method's answer, as parameters. The method is a parameter of the model:
`HandshakeActions` and `DataActions` are the answers it may give;
`TlsRecordFragHandshake`/`TlsRecordFragData` are those of `tls_record_frag`, and
`MethodActions` is everything the trait allows.

The network is not modelled here: the handler may see any packet of the flow at any
time (so loss, repetition and reordering are included), except that this host
sends no payload before the task wrote some.

### FlowTable

A connection binds a port, registers under (port, upstream), waits, relays, closes
its socket and runs its guard, which removes *by key*. Locals are dropped in
reverse order of their declaration, so on most paths the socket is closed, and its
port free, before the guard runs; that order is what the module is about.

### Wire

The client's stream is a sequence of units: a TLS record is a unit for its type and
version, one for its length and one per byte of its body. `Stream` is the whole of
it; the variables say how much is `taken` from the client, what of the last piece is
left (`rest`), what was written upstream (`sent`), how far the kernel got (`nxt`) and
what the server's TCP has put together (`got`). `ReadRecord` is
`read_one_tls_record`, `ReadFirstWrite` the first read of an intercepted
connection, `Write` one chunk of `write_fragmented`, `RelayReads` the relay's
first read after it. Between the chunks there may be any delay, so `Segment` may
cut packets anywhere; a packet may be lost and sent again (`Retransmit`). The
handler, reduced to "waits for the first data packet", passes a packet on
(`Forward`) or lets the method rewrite it (`Rewrite`): `FragmentPayload` is
`fragment_payload` record by record, `BuildModified` what `build_modified` makes of its
result, with the sequence number the kernel gave the original. The server takes
what extends its stream and drops what it has. `outcome` and `reported` are the
flow's outcome and the event.

### Relay

Per direction: bytes sent by the source, read, delivered and counted; a copy task
reads a buffer, writes it, then adds to the counter, so that counter and delivery
differ in between and after a failed write. The ticker loads one counter, then the
other, and sends; `abort` takes effect at its next await, so an event may follow
the end: `late`, a history variable, counts those, and `FinishedIsLastWord` says
there is at most one. `limited` says whether the relay has a deadline, the branch of the
`select!` that aborts both tasks.

### Acceptor and Dashboard

`Acceptor` accepts connections in the order of their numbers, gives each the next
address of the pool or the active address, and turns IPv6 away. From then on a
connection is a short state machine whose steps send the events the two connection
handlers send, in their order, into the bounded model of an unbounded channel. It is
named in them by a port only: with `tls_frag` the client's port, which two clients
can share; otherwise a local port, which is free again once the socket is closed,
one step before the last event is sent. Its ticker outlives it by one event, which
shows no more than a completed relay reported (`FinishedIsLastWord` of `Relay`); but
after a deadline `RelayFinished` may show less than a progress event before or after
it, and both are allowed here. `Rescan` writes the active address and `Announce`, a
later step, sends `IpTargetChanged`.

`Dashboard` takes one event at a time. `records` is the deque, newest first, with
the fields `apply_event` decides by; `of` and `heard` are history variables for the
properties, which say which connection a record was made for and the last event of a
connection that was applied.

### Score, Probe, IpScanner, ScanSession

`Score` counts points in thousandths where the code adds `f64`s, then rounds as the
code does. `Probe` has one action per await; each may also fail or time out, and
sizes are counted in small units. In `IpScanner` a job is a position in the list
(not an address: the list may repeat one), with a state for its TCP task and one for
its TLS task; the channels are sequences of jobs; `tls_results` is the map by
address. The two sends at the end of a probe, to the progress channel and to the
scan, are two actions. `Answers` is what `Probe` may return.

`ScanSession` adds the caller: the terminal loop that drains the progress channel
until it is disconnected or a key is pressed, then takes the list from the finished
task or sorts what arrived; or the headless caller, with the task that forwards
progress as JSON (`Mode`). That the channel can be disconnected before the task is
marked finished is why `Complete` is an action of its own. `EntriesAreAChoice` is
what `Startup`, where a scan is one step, takes the scan to give.

### Startup, Backend, Lifecycle

`Startup` follows `ip_bypass_plus_main` to the point where the target is known:
`SELECTED_IP`, or a range from `--range` or the picker, the list restricted to it,
the scan's result in any order, then the best address, the user's pick, or a pool.
`args` holds the options and the list file and becomes `None` when they are used up.

`Backend` has one *stage* per instance of an interceptor. The install runs one
firewall command per step (`step`), any of which may fail; then the queue is bound;
the loop alternates between the look at the shutdown flag (`head`) and the receive
(`recv`), which on Windows does not look; the end drops the queue, then the rules,
command by command, and a removal that fails leaves its rule in `stuck`. `fate` is
the result the loop or the start returns. A failed install of nftables removes its
table; one of iptables removes nothing, because the guard is made after both rules.

`Lifecycle` is `main` from there: open, spawn, the proxy task, then either the
`select!` of `run_headless_proxy` (signal, end of the proxy task, report of the
interceptor) or the dashboard with its terminal; the wait of five seconds for the
interceptor's report on Linux, and of 100 ms elsewhere; every exit (`Exits`). When
`main` has returned the process is gone, and the interceptor's thread with it at
whatever point it was; what the kernel holds stays. With `library`, a host program
calls `ipbp_start_proxy` and `ipbp_stop_proxy` instead, one call at a time.

## 3. Runs

| run | instance | distinct states | shows |
|---|---|---|---|
| `flow` | every answer of the trait, `SeqMod = 3`, `FairSpec` | 7,642 | the handler does not panic, rewrites once, decides once, agrees with the task; the events tell where the task is; the refinement of `Bypass`; the connection stops waiting and its entry leaves the table |
| `table_ports` | 3 connections, 2 ports, 2 upstreams | 15,725 (up to symmetry) | no entry outlives its guard; an insert displaces only a closed connection's entry; an entry is lost only to an earlier holder of the key |
| `table_port_reuse` | the same | violation | a key does not identify "a single TCP flow" (`core/flow.rs:11`): a late guard removes the entry of the connection that took the port over |
| `wire` | a hello of 2 body bytes and a record of 3, 36 settings of method, `TLS_FRAG_PACKETS`, `TLS_FRAG_LENGTH`, `TLS_RECORD_FRAG_SIZE` | 722,174 | the socket gets the client's bytes in order, the chosen pieces in fragments of the configured lengths; a rewritten payload says the same in whole records of the configured size; success follows the hello |
| `wire_records` | `tls_record_frag`, fragments shorter than the hello | violation | the hello is not split (`core/methods/tls_record_frag.rs:1`): the first packet holds part of a record, passes as it is, and success is reported |
| `wire_shift` | `tls_record_frag`, the hello in one packet | violation | the server does not read what the client said (`core/methods/tls_record_frag.rs:17`): the rewritten packet is longer, and the bytes after it are taken for duplicates |
| `relay` | 2 bytes each way, buffer 2, with and without deadline, `FairSpec` | 1,252,262 | reports never exceed delivery, a completed relay is exact and its report covers every progress event, progress is monotone, at most one event is sent behind the abort, the deadline ends a relay with silent peers, and without it the relay ends with both sources |
| `serving` | 3 connections, 2 ports, one address or a pool of 3, a rescan that finds IPv6 | 6,254,853 (up to symmetry) | the pool is used evenly; the dashboard does not overstate the active connections, loses no open one, credits the address used and shows the one dialled; the events of one connection are applied in their order |
| `probe` | 2 chunks each way, 3 latencies and speeds, fair | 6,797 | an entry claims only what was measured; the probe returns even to a server that dribbles |
| `scan` | `<<a, a, b>>`, three modes, limit 1, two TCP permits and one TLS permit, a quit key at any time, fair | 723,159 | nothing is lost, misplaced or made up; probes that go on after the early stop change nothing; every probe's event precedes the scan's completion; what was shown as healthy is kept; whichever way the caller leaves, it goes on with a sorted choice of listed addresses; the session ends |
| `program` | both Linux firewalls and Windows, headless and terminal, library with 2 starts; an IPv4 range, an IPv6 range, two plain addresses; `FairSpec` | 236,008 | the target is the one asked for; nobody hears of an interceptor's end before its rules are gone; the orderly exits leave no rule and no raw terminal; a termination request or a quit ends the program |
| `library_stop` | the library, fair | violation | `ipbp_stop_proxy` does not end the interceptor (`include/ipbp.h:93`): nobody holds its shutdown flag |

A run asks safety and liveness together where one instance serves both. The scanner
is run inside its session: `ScanSession_proofs` shows that the session implements
`IpScanner`'s specification, so nothing is lost by it.

### Bounds

*flow*: three sequence numbers, since the handler only compares a number with a
stored one, or with the successor of a stored one: they tell apart "equal",
"successor" and "other", and 2 wraps to 0. *table*: three connections are the least
with a holder of a key, its successor, and one more that finds the table changed.
*wire*: a hello longer than one fragment and a second record that follows it in the
same packet or the next; `MaxRecordBody = 3` makes the second record a full one, and
`MaxPacket = 12` is below the longest rewritten payload, so that `build_modified`
fails as well. *relay*: two bytes and a buffer of two give whole, partial and failing
writes; the ticker's late event needs no more. *serving*: two connections of the same
port and one beside them; one record (`MaxRecords = 1`) so that every second
connection prunes; `IndexMod = 4` is not a multiple of the pool, as 2^64 is not of 3,
and `PoolIsFair` speaks of the time before the wrap; one queued event, since the
channel is a queue and the dashboard its only reader; one rescan. *probe*: two
chunks give a first read, a second, and a full buffer. *scan*: three jobs of two
addresses give a repeated address, a probe that waits for a permit and one that is
under way when the scan stops. *program*: ranges of both families, an address named
twice (by a range and by itself), one outside every range; two starts of the
library, as the second meets what the first left.

### Fairness

`InterceptFlow`: `WF(Settle)`: a ready tokio task is polled, timers fire, `connect`
returns, and writing the few prefix bytes returns; nothing is assumed of the handler
thread, of packets, of the relay or of cancellation. `Relay`: the main task is polled
and its timer fires, and nothing is assumed of the peers; only for a relay without a
deadline the copy tasks go on, that is, destinations take what is written. `Probe`:
every await is under a timeout, so `WF(Next)`. `ScanSession`: `WF` of the scan, of
each of its tasks (a permit goes to the task that waits first, and each probe returns,
which is `Probe`'s property) and of the caller, which polls its channel; nobody has to
press a key. `Lifecycle`: `main`, each interceptor thread and a library call under way
go on; the user, the host, the signals and the proxy task owe nothing, and an
interceptor loop may go round for ever. `Wire`, `FlowTable`, `Acceptor` and
`Dashboard` are checked for safety only.

`CHECK_DEADLOCK FALSE` in every run: a connection, a relay, a probe, a scan and the
program really end.

### Seen while modelling

What the runs above do not report, because no text of the repository says otherwise
or because a timeout covers it:

- *Lost wakeup.* A `finish` between the task's look at the outcome and its wait
  (`core/proxy.rs:278-300`) wakes nobody, although `core/flow.rs:102` says it wakes any
  waiter; the task sleeps until its timeout. `SettlesEventually` holds through it.
- *Rescan and IPv6.* The rescan ignores the chosen range and does not refuse IPv6
  (`cli/main.rs:863`); once such an address is active, every accepted client is turned
  away. The pool can hold IPv6 addresses too.
- *iptables.* A second rule that fails leaves the first (`platform/linux.rs:321`).
- *Exits.* When the proxy task ends first, its error hides whether the interceptor
  stopped in time; when `leave_tui` fails, `main` returns without stopping anything.
- *Dashboard.* A failure of a connection that was never accepted lowers the count of
  active connections (`cli/tui.rs:1188`), and a reused port lets a late event change
  another connection's record; the properties are stated with these exceptions. A
  progress event behind `RelayFinished` overwrites the bytes and rates of a finished
  record (`cli/tui.rs:1169`), and after a deadline the totals of `RelayFinished` may be
  below those of a progress event: they are loaded while an aborted copy task may
  still finish its poll and count (`core/proxy.rs:833`).
- *Success.* `tls_frag` and `tls_record_frag` report success although the rewritten
  packet could not be built, or was lost.
- *Untimed read.* With `tls_frag` the hello is read without a timeout.
- *Dead branch.* `core/proxy.rs:588-620` reads a whole hello for other methods; no
  other method goes through the interceptor.
- *Configuration.* `ipbp_start_proxy_from_config` (`cli/lib.rs:347`) does not call
  `validate()`, so an `expect` on the ranges can panic in the proxy task. No permits
  (`IP_MAX_P1_CONCURRENT = 0`), which `validate()` accepts, hang the scan.
- *Scanner.* The entry that reaches the limit is not kept, so the result is one
  healthy address short of `README.md:84` (`core/ip_scanner.rs:371`). Probes that wait
  for a permit when the scan stops still start after it returned
  (`core/ip_scanner.rs:346`). An address that connected is returned with a TCP-only
  entry after an early stop or when it is listed twice, which the comment at
  `core/ip_scanner.rs:386` excludes. The check for "no IPs passed" (`cli/main.rs:623`)
  never fires headless. The module header's points (`core/ip_scanner.rs:14`) are not
  those of `compute_score`.

## 4. Proofs

`InterceptFlow_proofs`, for every `SeqMod`, every set of method answers and both
values of `Nodelay`: every safety property of `flow`. The inductive invariant is
`TypeOK /\ SidesAgree`, from which the others follow by one induction each; the
refinement of `Bypass` maps every step to a step or a stutter under it. `SidesAgree`
is needed because a single step only sees the flow: that the flow a task reports on
was decided follows from where the task is, that the handler's pending `finish`
cannot contradict it from `finish` being a no-op on a decided flow.

`FlowTable_proofs`, for any sets of connections, ports and upstreams: the three
properties of `table_ports`, on the invariant `OpenSockets` (the ports in use are
those of the tasks between bind and close, and are distinct).

`Wire_proofs`, for any stream, any valid settings and any limits of the kernel: every
safety property of `wire`. `ProxyInv` says point by point that what was written and
what is left is what was read; `ServerInv`, for `tls_frag`, that every packet under
way is a stretch of what was written, so that the server, which takes only what
extends its stream, has a prefix of it; `HandoverInv` ties the reported outcome to the
pieces that were read and to the handler's decision. These give `BytesStayInOrder`,
`SuccessAfterHello` and `FragmentsTheChosen`. `SplitKeepsTheBytes` needs only
`PacketInv`, that what was rewritten is a sequence of bytes and became what
`fragment_payload` makes of it; the rest is about the operators. `FragmentPayload`,
`Bodies` and `Lengths` are functions of a position defined by their value at a later
one (`Backwards`): such a function exists (`DefinedBackwards`), what it says at a
position depends on the bytes from there on (`Shifted`), so what follows the
first record is read as if it stood alone (the `...Tail` and `...Front` lemmas).
`Carries(x, b, size)` says that `x` holds the bytes `b` in whole records of at most
`size`, and that splitting it changes nothing. It holds of one fragment, of two such
texts joined (`CarriesBoth`), so of a split record (`CarriesSplit`), and so, from
the last record to the first, of the whole payload (`CarriesPayload`).

`Relay_proofs`, for any buffer and any number of bytes: the safety properties, on
`InFlight` (counted <= delivered <= read <= sent, with at most one buffer of
difference), which each direction keeps for itself. `LastWord` says what the ticker can
still do once the relay is over, which is what `Acceptor` takes a relay to be:
that a completed relay reported at least what any progress event showed
rests on what the ticker has loaded being at most the counter, and the counter being
final when both copies were joined; that at most one event is late, on
a ticker that is building an event having sent none late yet, and a stopped one that
sleeps building no other.

`Probe_proofs`, for any caps, times and speeds: the score is in `0 .. 100`, so the cast
to `u8` is exact, and an address measured in every phase outranks every address
without a TLS handshake; each term is bounded by one lemma about division. Then
`EntryIsSound`: `Measuring` says which measurements exist at which point of a probe,
`Returning` that what it returned is one of the three entries the code builds.

`ScanSession_proofs`, for any list, permits, limit and measurements. First the scan
by itself: the result lists every address as often as it is listed, is sorted, no
entry in it is made up, and the limit is respected. The invariant has five parts.
`Traffic`: a job is in at most one channel, in `tcp_results` exactly when received,
and has no TLS probe before. `Kept`: each entry of `tls_results` is the one a
received probe of that address returned. `Listed`: what is returned is a sorting of
the merge. With `Traffic`, `tcp_results` is a bijection between its positions and
the jobs, hence the length; `Better` is a strict order, hence the permutation that
sorts is injective and nothing is listed twice. `Tally`: the counter is at least the
number of healthy entries that were kept, and below the limit while the loop runs;
with the injection from healthy results to kept entries it bounds what is returned.
`Arrived`: below the limit, what was received was kept, and every connected address
was received; it needs the first result of each address, `Firsts`, as it is the one
that gets the entry.

Then the session: every step of it is a step of the scan or leaves the scan alone
(`SessionScans`), so all of that holds inside it. `SessionInvariant` adds the caller:
`Announced`, that the progress channel got each job whose probe returned once;
`Reading`, that the caller has read a prefix of it; `Parting`, that who goes on holds
the scan's result, or left the terminal early with all that had arrived.
`AllProgressFirst` follows by counting. `ShownHealthyIsKept` combines both halves:
the scan keeps the healthy entries that were received below the limit, and the
caller keeps those it read. `ResultIsAChoice` is about the ways out: a caller that
waits holds the scan's result, one that leaves early has sorted what arrived, whose
jobs are distinct since `Reading` is about a prefix of a sequence without repetition
(`Chosen`). So the single step by which `Startup` models a scan allows each of them.

`Dashboard_proofs`, for any connections, ports, pools, rescans and capacities: the
six properties of `serving`. `Story` says of the queue that each event is of a
connection that has reached it, that the events of one connection are applied in
their order, and that a connection that runs was announced or is about to be.
`ActiveIsNotOverstated` needs that the open connections can be counted
(`HeardOfIsFinite`), and then that each step moves the counter and the set by at
most one. `Holds` says what the records say of their connections; pruning is the
step that could break it, and does not since it takes only records of connections
that are over. For the totals, `Credited` equates each counter with the size, or the
sum of bytes, of a set of connections, with the lemmas about `SumFunction` proved
first. `Announced` follows an address from the swap through the queue to the screen.
`Turns` is the arithmetic of `PoolIsFair`: before the wrap the index is the number
of accepted connections, and slots differ by at most one pick. `EventsComeInOrder`
needs the queue and what was applied together: `Bridged(c, n)` says that the
dashboard has heard, or will have before the n-th event that waits, that `c` relays;
`Order` has it for every progress and final event that waits and for every
connection that runs, and its opposite for `BypassFailed`. Taking the head moves the
border between applied and waiting by one, so the same places are bridged as before.

`Lifecycle_proofs`, for any number of starts, any finite list and any arguments: the
safety properties of `program`. `Upkeep` says, by the stage of an instance, which of
its rules the kernel may hold and who listens: it is what makes "the rules are gone
when the report comes" inductive, since a single removal step knows nothing of the
ones before it. `Bookkeeping` says, by where `main` is, which stages the interceptor
can be in; without it an exit says nothing of the rules. `ChoiceInv` follows the
target from the list through the pickers.

Assumed: the named assumptions, which give the constants their types
(`FlowAssumption`, `StartsAssumption`, `AcceptorAssumption` and the like: a pool,
for one, is a sequence), say that `None` is no other value (`NoneAssumption`, and in
`ScannerAssumption`, `RelayAssumption` and `WireAssumption`) and that a list file is
finite (`ListAssumption`); and `CapsAssumption`, that the five caps of a probe are
positive, which `validate()` checks for the two speeds only. TLC evaluates each of
them.

Sums over sets and functions of a payload need induction over data, and the induction
theorems of the library take an operator as a parameter, which the provers cannot
instantiate. The proofs go by least counterexamples instead: `NatLessThanWellFounded`
and `WFMin` give every non-empty set of numbers a least member (`Least`), and the
induction is over the set of the numbers for which the claim fails.

Only model-checked: liveness, since fairness is out of the prover's reach
(`SettlesEventually`, `RelayEnds`, `Returns`, `SessionEnds`, `ShutdownEnds`); and
every expected violation, which is a counterexample and needs no proof. Every safety
property of a passing run is a theorem, and so is the type invariant of every
module, which the runs do not repeat.

## 5. Plan

Next, in this order:

1. An abstract connection (registered, relaying, gone) that `FlowTable` and `Relay`
   both implement. What `Acceptor` takes of a relay, and `Startup` of a scan, is a
   theorem of the larger module already; what `Acceptor` takes of a connection's ports
   is read off the code, not derived from `FlowTable`.
2. The remaining keys of the configuration: the defaults, and `validate()` against
   what the other modules assume of their constants.
3. A rescan that overlaps another command: several swaps in `serving`.

## 6. Not modelled

Checksums, header arithmetic and packet parsing of the backends; the syscalls behind
NFQUEUE, WinDivert and the firewalls; the parsing of the configuration file and of
arguments; drawing, scrolling and filtering in the terminal; JSON formatting and the
runtime events' serialisation; logging; what the privilege checks read from the
system. These keep no state the properties speak of, or are input and output only.
