------------------------------- MODULE Backend -------------------------------
(***************************************************************************)
(* The packet interceptor as the program starts and stops it: linux.rs and *)
(* windows.rs behind the PacketInterceptor trait.  An instance installs    *)
(* firewall rules, binds the packet queue, loops until its shutdown flag   *)
(* is set or the queue fails, and is dropped: the queue first, then the    *)
(* rules (the order of the fields of NfqInterceptor).  What the loop does  *)
(* with a packet is in Wire and Handler; here it only goes round.          *)
(***************************************************************************)
EXTENDS Naturals, Sequences

CONSTANT Starts     \* the instances one process may open, one after the other

ASSUME StartsAssumption == Starts \subseteq Nat \ {0} /\ 1 \in Starts

Nobody == 0

VARIABLES
    backend,    \* "iptables", "nftables" or "windivert"
    rules,      \* the <<instance, item>> the kernel holds
    stuck,      \* those of them whose removal failed
    listener,   \* the instance the packets are delivered to, or Nobody
    stage,      \* where each instance is
    step,       \* how many firewall commands of the install or the removal ran
    asked,      \* InterceptorShutdown: request() was called
    fate        \* how the instance's open or run_until ends

kernel == <<rules, stuck, listener>>

backendVars == <<backend, kernel, stage, step, asked, fate>>

Backends == {"iptables", "nftables", "windivert"}

Stages == {"unopened", "installing", "binding", "open", "head", "recv",
           "closing", "removing", "finished", "gone"}

Fates == {"none", "openFailed", "unspawned", "ok", "failed", "panicked"}

\* What each command of an install adds.
iptables_rules == <<"output", "input">>

nft_install_commands == <<"table", "output chain", "input chain", "output", "input">>

\* WinDivert takes a filter and needs no rules.
Commands ==
    CASE backend = "iptables"  -> iptables_rules
      [] backend = "nftables"  -> nft_install_commands
      [] backend = "windivert" -> <<>>

Items == {"table", "output chain", "input chain", "output", "input"}

RulesOf(i) == {r \in rules : r[1] = i}

BackendInit ==
    /\ backend \in Backends
    /\ rules = {} /\ stuck = {} /\ listener = Nobody
    /\ stage = [i \in Starts |-> "unopened"]
    /\ step = [i \in Starts |-> 0]
    /\ asked = [i \in Starts |-> FALSE]
    /\ fate = [i \in Starts |-> "none"]

Goto(i, s) == stage' = [stage EXCEPT ![i] = s]

-----------------------------------------------------------------------------
\* open(): in the thread of the caller.

BeginOpen(i) ==
    /\ stage[i] = "unopened"
    /\ Goto(i, IF backend = "windivert" THEN "binding" ELSE "installing")
    /\ UNCHANGED <<backend, kernel, step, asked, fate>>

InstallRule(i) ==
    /\ stage[i] = "installing"
    /\ rules' = rules \union {<<i, Commands[step[i] + 1]>>}
    /\ IF step[i] + 1 = Len(Commands)
       THEN Goto(i, "binding") /\ step' = [step EXCEPT ![i] = 0]
       ELSE UNCHANGED stage /\ step' = [step EXCEPT ![i] = @ + 1]
    /\ UNCHANGED <<backend, stuck, listener, asked, fate>>

\* The guard does not exist yet, so nothing is dropped: what has been inserted
\* stays.
IptablesFails(i) ==
    /\ stage[i] = "installing" /\ backend = "iptables"
    /\ fate' = [fate EXCEPT ![i] = "openFailed"]
    /\ Goto(i, "gone")
    /\ UNCHANGED <<backend, kernel, step, asked>>

\* The table is deleted before the error is returned; if that fails, too, it
\* stays and nobody hears of it.
NftFails(i) ==
    /\ stage[i] = "installing" /\ backend = "nftables"
    /\ \/ rules' = rules \ RulesOf(i) /\ UNCHANGED stuck
       \/ stuck' = stuck \union RulesOf(i) /\ UNCHANGED rules
    /\ fate' = [fate EXCEPT ![i] = "openFailed"]
    /\ Goto(i, "gone")
    /\ UNCHANGED <<backend, listener, step, asked>>

\* A queue number has one listener.
Bind(i) ==
    /\ stage[i] = "binding" /\ listener = Nobody
    /\ listener' = i
    /\ Goto(i, "open")
    /\ UNCHANGED <<backend, rules, stuck, step, asked, fate>>

\* Queue::open, bind, set_copy_range or set_fail_open fails: the rules' guard
\* is dropped with the error return.
BindFails(i) ==
    /\ stage[i] = "binding" /\ backend # "windivert"
    /\ fate' = [fate EXCEPT ![i] = "openFailed"]
    /\ Goto(i, "removing")
    /\ UNCHANGED <<backend, kernel, step, asked>>

\* The driver does not open.
DriverFails(i) ==
    /\ stage[i] = "binding" /\ backend = "windivert"
    /\ fate' = [fate EXCEPT ![i] = "openFailed"]
    /\ Goto(i, "gone")
    /\ UNCHANGED <<backend, kernel, step, asked>>

-----------------------------------------------------------------------------
\* run_until(): in the interceptor's own thread.

Ends(i, how) == Goto(i, "closing") /\ fate' = [fate EXCEPT ![i] = how]

\* The thread runs, or cannot be spawned and the closure is dropped.
SpawnThread(i) ==
    /\ stage[i] = "open"
    /\ \/ Goto(i, "head") /\ UNCHANGED fate
       \/ Ends(i, "unspawned")
    /\ UNCHANGED <<backend, kernel, step, asked>>

\* WinDivert's loop takes the flag and does not look at it.
LoopHead(i) ==
    /\ stage[i] = "head"
    /\ IF asked[i] /\ backend # "windivert"
       THEN Ends(i, "ok")
       ELSE Goto(i, "recv") /\ UNCHANGED fate
    /\ UNCHANGED <<backend, kernel, step, asked>>

\* A packet was handled, recv was interrupted, the queue was empty for the
\* 50 ms of a sleep, or it reported stale state: round the loop.
Again(i) ==
    /\ stage[i] = "recv"
    /\ Goto(i, "head")
    /\ UNCHANGED <<backend, kernel, step, asked, fate>>

\* Stale state after the shutdown request is a regular end.
StaleAfterShutdown(i) ==
    /\ stage[i] = "recv" /\ asked[i] /\ backend # "windivert"
    /\ Ends(i, "ok")
    /\ UNCHANGED <<backend, kernel, step, asked>>

RecvFails(i) ==
    /\ stage[i] = "recv" /\ backend # "windivert"
    /\ Ends(i, "failed")
    /\ UNCHANGED <<backend, kernel, step, asked>>

\* WinDivert's errors are all taken for the end of the handle.
DivertEnds(i) ==
    /\ stage[i] = "recv" /\ backend = "windivert"
    /\ Ends(i, "ok")
    /\ UNCHANGED <<backend, kernel, step, asked>>

\* The handler or the packet code panics: the frames unwind and drop self.
LoopPanics(i) ==
    /\ stage[i] = "recv"
    /\ Ends(i, "panicked")
    /\ UNCHANGED <<backend, kernel, step, asked>>

-----------------------------------------------------------------------------
\* Drop of the interceptor, in whichever thread owned it.

\* Mutant of CloseQueue: the guard is forgotten.
CloseQueueOnly(i) ==
    /\ stage[i] = "closing"
    /\ listener' = Nobody
    /\ Goto(i, "finished")
    /\ UNCHANGED <<backend, rules, stuck, step, asked, fate>>

CloseQueue(i) ==
    /\ stage[i] = "closing"
    /\ listener' = Nobody
    /\ Goto(i, IF backend = "windivert" THEN "finished" ELSE "removing")
    /\ UNCHANGED <<backend, rules, stuck, step, asked, fate>>

\* Drop of IptablesGuard: rule by rule.  A removal that fails is logged, and
\* the next one is tried.
DeleteRule(i) ==
    LET rule == RulesOf(i) \intersect {<<i, Commands[step[i] + 1]>>}
    IN  /\ stage[i] = "removing" /\ backend = "iptables"
        /\ \/ rules' = rules \ rule /\ UNCHANGED stuck
           \/ stuck' = stuck \union rule /\ UNCHANGED rules
        /\ IF step[i] + 1 = Len(Commands)
           THEN Goto(i, "finished") /\ UNCHANGED step
           ELSE UNCHANGED stage /\ step' = [step EXCEPT ![i] = @ + 1]
        /\ UNCHANGED <<backend, listener, asked, fate>>

\* Drop of NftablesGuard: the whole table at once.
DeleteTable(i) ==
    /\ stage[i] = "removing" /\ backend = "nftables"
    /\ \/ rules' = rules \ RulesOf(i) /\ UNCHANGED stuck
       \/ stuck' = stuck \union RulesOf(i) /\ UNCHANGED rules
    /\ Goto(i, "finished")
    /\ UNCHANGED <<backend, listener, step, asked, fate>>

\* The result reaches whoever listens; a panic closes the channel instead.
SendReport(i) ==
    /\ stage[i] = "finished"
    /\ Goto(i, "gone")
    /\ UNCHANGED <<backend, kernel, step, asked, fate>>

-----------------------------------------------------------------------------
ThreadStep(i) ==
    \/ LoopHead(i)
    \/ Again(i)
    \/ StaleAfterShutdown(i)
    \/ RecvFails(i)
    \/ DivertEnds(i)
    \/ LoopPanics(i)
    \/ CloseQueue(i)
    \/ DeleteRule(i)
    \/ DeleteTable(i)
    \/ SendReport(i)

OpenStep(i) ==
    \/ InstallRule(i)
    \/ IptablesFails(i)
    \/ NftFails(i)
    \/ Bind(i)
    \/ BindFails(i)
    \/ DriverFails(i)

BackendTypeOK ==
    /\ backend \in Backends
    /\ {rules, stuck} \subseteq SUBSET (Starts \X Items)
    /\ listener \in Starts \union {Nobody}
    /\ stage \in [Starts -> Stages]
    /\ step \in [Starts -> 0..Len(Commands)]
    /\ asked \in [Starts -> BOOLEAN]
    /\ fate \in [Starts -> Fates]
=============================================================================
