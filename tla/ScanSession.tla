----------------------------- MODULE ScanSession -----------------------------
(***************************************************************************)
(* The scan at the start of the program (main.rs): scan_ip_list runs in a  *)
(* task, or in the caller, and reports to a progress channel; the caller   *)
(* reads the channel, possibly leaves early, and takes its entries from    *)
(* the task or from what arrived.                                          *)
(***************************************************************************)
EXTENDS IpScanner

VARIABLES
    mode,       \* "tui", "json" (--no-tui with events) or "quiet" (without)
    complete,   \* the scan's task is marked finished
    cancelled,  \* its future was dropped by abort()
    arrived,    \* the entries read from the progress channel, in order
    ui,         \* where the caller is
    user_quit,  \* it left because of a key
    entries     \* what it goes on with

caller  == <<mode, complete, cancelled, arrived, ui, user_quit, entries>>
session == <<vars, caller>>

Modes == {"tui", "json", "quiet"}

SInit ==
    /\ Init
    /\ mode \in Modes
    /\ complete = FALSE /\ cancelled = FALSE
    /\ arrived = <<>> /\ ui = "watching" /\ user_quit = FALSE /\ entries = <<>>

-----------------------------------------------------------------------------
SpawnedTask(j) == Task(j) /\ UNCHANGED caller

\* An aborted future takes no more steps; the tasks it spawned go on.
ScanStep == ~cancelled /\ Scan /\ UNCHANGED caller

\* The runtime marks the task after it has dropped the future.
Complete ==
    /\ Returned /\ ~complete /\ ~cancelled
    /\ complete' = TRUE
    /\ UNCHANGED <<vars, mode, cancelled, arrived, ui, user_quit, entries>>

-----------------------------------------------------------------------------
\* run_ip_scan_progress, or the task that forwards progress as JSON.

\* Both read the channel until it is empty; one entry is one step here.
Receive ==
    /\ mode # "quiet" /\ ui = "watching" /\ Len(arrived) < Len(progress)
    /\ arrived' = Append(arrived, progress[Len(arrived) + 1])
    /\ UNCHANGED <<vars, mode, complete, cancelled, ui, user_quit, entries>>

\* try_recv gives Disconnected: all senders are gone, the channel is empty.
Disconnected ==
    /\ Returned \/ cancelled
    /\ \A j \in Jobs : p2[j] \notin {"queued", "probing", "reporting"}
    /\ Len(arrived) = Len(progress)

\* Mutant of Watched: it leaves only if no address connected.
WatchedTested ==
    /\ mode = "tui" /\ ui = "watching"
    /\ \A j \in Jobs : p1[j] = "received" /\ tcp[j] = None
    /\ ui' = "leaving"
    /\ UNCHANGED <<vars, mode, complete, cancelled, arrived, user_quit, entries>>

Watched ==
    /\ mode = "tui" /\ ui = "watching" /\ Disconnected
    /\ ui' = "leaving"
    /\ UNCHANGED <<vars, mode, complete, cancelled, arrived, user_quit, entries>>

\* q, Q or Esc, read between two drains of the channel.
Quit ==
    /\ mode = "tui" /\ ui = "watching"
    /\ ui' = "leaving"
    /\ user_quit' = TRUE
    /\ UNCHANGED <<vars, mode, complete, cancelled, arrived, entries>>

ArrivedItems ==
    [i \in DOMAIN arrived |-> [ip |-> Ips[arrived[i]], entry |-> probed[arrived[i]]]]

\* Mutant of Leave: what arrived is dropped when the task is not finished.
LeaveEmpty ==
    /\ ui = "leaving"
    /\ ui' = "done"
    /\ entries' = IF complete THEN all ELSE <<>>
    /\ cancelled' = (~complete /\ ~Returned)
    /\ UNCHANGED <<vars, mode, complete, arrived, user_quit>>

\* Mutant of Leave: what arrived is not sorted.
LeaveUnsorted ==
    /\ ui = "leaving"
    /\ ui' = "done"
    /\ entries' = IF complete THEN all ELSE ArrivedItems
    /\ cancelled' = (~complete /\ ~Returned)
    /\ UNCHANGED <<vars, mode, complete, arrived, user_quit>>

\* scan_ip_list_with_ip_progress: the task's list if it is finished, or what
\* arrived, sorted.
Leave ==
    /\ ui = "leaving"
    /\ ui' = "done"
    /\ IF complete
         THEN entries' = all /\ UNCHANGED cancelled
         ELSE /\ cancelled' = ~Returned
              /\ entries' \in Sortings(ArrivedItems, Len(arrived))
    /\ UNCHANGED <<vars, mode, complete, arrived, user_quit>>

\* Mutant of HeadlessDone: the forwarding task is not waited for.
HeadlessDoneEarly ==
    /\ mode # "tui" /\ ui = "watching" /\ Returned
    /\ ui' = "done"
    /\ entries' = all
    /\ UNCHANGED <<vars, mode, complete, cancelled, arrived, user_quit>>

\* scan_ip_list_headless: with events it also awaits the forwarding task.
HeadlessDone ==
    /\ mode # "tui" /\ ui = "watching" /\ Returned
    /\ mode = "json" => Disconnected
    /\ ui' = "done"
    /\ entries' = all
    /\ UNCHANGED <<vars, mode, complete, cancelled, arrived, user_quit>>

-----------------------------------------------------------------------------
Caller == Receive \/ Watched \/ Leave \/ HeadlessDone

SNext ==
    \/ ScanStep \/ Complete
    \/ \E j \in Jobs : SpawnedTask(j)
    \/ Caller \/ Quit

SSpec == SInit /\ [][SNext]_session

\* The runtime polls what is ready, a permit that is released goes to a task
\* that waits, every await of a probe is under a timeout, and the caller polls
\* its channel.  Nobody has to press a key.
SFairSpec ==
    /\ SSpec
    /\ WF_session(ScanStep) /\ WF_session(Complete) /\ WF_session(Caller)
    /\ \A j \in Jobs : WF_session(SpawnedTask(j))

-----------------------------------------------------------------------------
SessionTypeOK ==
    /\ mode \in Modes
    /\ {complete, cancelled, user_quit} \subseteq BOOLEAN
    /\ arrived \in Seq(Jobs)
    /\ ui \in {"watching", "leaving", "done"}
    /\ entries \in Seq([ip : Addresses, entry : Entry])

\* An address the caller was shown as healthy is not lost when it leaves,
\* unless the scan stopped at its limit, or the address is listed again and
\* the other probe, which replaces the first, found it not healthy.
ShownHealthyIsKept ==
    ui = "done" /\ ~LimitReached(healthy_count) =>
        \A i \in DOMAIN arrived : Healthy(probed[arrived[i]]) =>
            \/ \E r \in DOMAIN entries :
                    entries[r].ip = Ips[arrived[i]] /\ Healthy(entries[r].entry)
            \/ \E j \in Jobs : /\ Ips[j] = Ips[arrived[i]] /\ probed[j] # None
                              /\ ~Healthy(probed[j])

\* However the caller left, it goes on with what Startup's Scan goes on with: an
\* entry for some of the listed addresses, each once for every time it is
\* listed, all of them without a terminal, and the best first.
EntriesAreAChoice ==
    ui = "done" =>
        /\ \E f \in [DOMAIN entries -> Jobs] :
              /\ \A r, s \in DOMAIN entries : f[r] = f[s] => r = s
              /\ \A r \in DOMAIN entries : entries[r].ip = Ips[f[r]]
        /\ mode # "tui" => Len(entries) = Len(Ips)
        /\ \A r, s \in DOMAIN entries : r < s => ~Better(entries[s].entry, entries[r].entry)

\* With JSON events every probe's event is out before ScanCompleted.
AllProgressFirst ==
    mode = "json" /\ ui = "done" =>
        /\ Len(arrived) = Cardinality({j \in Jobs : tcp[j] # None})
        /\ \A i, k \in DOMAIN arrived : i # k => arrived[i] # arrived[k]

\* The start-up scan ends without anybody pressing a key, if there are permits
\* at all: with IP_MAX_P1_CONCURRENT = 0 its tasks would wait for ever.
SessionEnds == <>(ui = "done")

=============================================================================
