------------------------------ MODULE Lifecycle ------------------------------
(***************************************************************************)
(* The program from its start to its exit: main after Startup has chosen a *)
(* target, the interceptor thread (Backend), the proxy task, the signals   *)
(* and the terminal, and the C library's start and stop calls, which open  *)
(* the same interceptor inside a host program.  When main has returned the *)
(* process is gone, and the interceptor thread with it, wherever it was;   *)
(* what it had installed in the kernel stays.                              *)
(***************************************************************************)
EXTENDS Startup, Backend

VARIABLES
    library,    \* the host program runs, not main
    proxy,      \* the proxy task: "none", "running", "failed", "panicked", "aborted"
    handlers,   \* the signal handlers are installed
    term,       \* SIGTERM (Ctrl-C on Windows) was delivered to them
    waitFor,    \* why main waits for the interceptor's report, or None
    graceful,   \* GracefulShutdown was emitted
    handle,     \* what each call of ipbp_start_proxy returned
    runtime     \* the library's runtimes: "none", "running", "gone"

mainVars == <<proxy, handlers, term, waitFor, graceful>>

hostVars == <<library, handle, runtime>>

vars == <<startVars, backendVars, mainVars, hostVars>>

\* Why main ends.
Exits ==
    {"rootRequired", "terminalFailed", "unreadableList", "ipv6", "emptyList", "nothingFound",
     "noInterface", "openFailed", "spawnFailed", "signalFailed", "graceful", "quit",
     "proxyEnded", "proxyPanicked", "interceptorStopped", "stopFailed", "stopTimeout", "killed"}

ASSUME NoneAssumption == None \notin Exits

HostInit ==
    /\ args = None /\ noTui = TRUE /\ intercepts \in BOOLEAN
    /\ pc = "host" /\ exit = None /\ screen = "plain"
    /\ cursor = 1 /\ net = None /\ entries = <<>>
    /\ active = None /\ pool = <<>>
    /\ backend # "windivert"

Init ==
    /\ BackendInit
    /\ library \in BOOLEAN
    /\ IF library THEN HostInit ELSE StartInit
    /\ proxy = "none" /\ handlers = FALSE /\ term = FALSE
    /\ waitFor = None /\ graceful = FALSE
    /\ handle = [i \in Starts |-> "none"]
    /\ runtime = [i \in Starts |-> "none"]

Alive == pc # "exited"

OnLinux == backend # "windivert"

Reported == stage[1] = "gone"

-----------------------------------------------------------------------------
\* main: starting up.

ChooseTarget == StartStep /\ UNCHANGED <<backendVars, mainVars, hostVars>>

OpenInterceptor ==
    /\ pc = "serve" /\ intercepts
    /\ BeginOpen(1)
    /\ Jump("opening")
    /\ UNCHANGED <<choiceVars, noTui, intercepts, screen, mainVars, hostVars>>

Opening ==
    /\ pc = "opening" /\ OpenStep(1)
    /\ UNCHANGED <<startVars, mainVars, hostVars>>

SpawnInterceptor ==
    /\ pc = "opening" /\ SpawnThread(1)
    /\ Jump(IF stage'[1] = "head" THEN "spawnProxy" ELSE "opening")
    /\ UNCHANGED <<choiceVars, noTui, intercepts, screen, mainVars, hostVars>>

\* The error return of open or of the spawn, after the drops.
StartFails ==
    /\ pc = "opening" /\ stage[1] = "gone"
    /\ Fail(IF fate[1] = "openFailed" THEN "openFailed" ELSE "spawnFailed")
    /\ UNCHANGED <<choiceVars, noTui, intercepts, screen, backendVars, mainVars, hostVars>>

SpawnProxy ==
    /\ pc = "spawnProxy" \/ (pc = "serve" /\ ~intercepts)
    /\ proxy' = "running"
    /\ Jump(IF noTui THEN "starting" ELSE "dashTui")
    /\ UNCHANGED <<choiceVars, noTui, intercepts, screen, backendVars, handlers, term,
                   waitFor, graceful, hostVars>>

\* The listener cannot be bound, or the task panics.
ProxyEnds ==
    /\ proxy = "running" /\ Alive
    /\ proxy' \in {"failed", "panicked"}
    /\ UNCHANGED <<startVars, backendVars, handlers, term, waitFor, graceful, hostVars>>

-----------------------------------------------------------------------------
\* main: run_headless_proxy.

\* The first poll of shutdown_signal.
InstallHandlers ==
    /\ pc = "starting"
    /\ \/ handlers' = TRUE /\ Jump("serving")
       \/ UNCHANGED handlers /\ Fail("signalFailed")
    /\ UNCHANGED <<choiceVars, noTui, intercepts, screen, backendVars, proxy, term,
                   waitFor, graceful, hostVars>>

\* SIGTERM kills a process without handlers; SIGINT and SIGHUP are ignored
\* by the handlers.
Terminate ==
    /\ ~library /\ Alive /\ pc # "returning"
    /\ \/ handlers /\ term' = TRUE /\ UNCHANGED <<pc, exit>>
       \/ ~handlers /\ UNCHANGED term /\ pc' = "exited" /\ exit' = "killed"
    /\ UNCHANGED <<choiceVars, noTui, intercepts, screen, backendVars, proxy, handlers,
                   waitFor, graceful, hostVars>>

Ask == asked' = [asked EXCEPT ![1] = TRUE] /\ UNCHANGED <<backend, kernel, stage, step, fate>>

\* Mutant of OnSignal: the event is emitted before the wait.
OnSignalEager ==
    /\ pc = "serving" /\ term
    /\ proxy' = "aborted"
    /\ graceful' = TRUE
    /\ IF intercepts THEN Ask ELSE UNCHANGED backendVars
    /\ Fail("graceful") /\ UNCHANGED waitFor
    /\ UNCHANGED <<choiceVars, noTui, intercepts, screen, handlers, term, hostVars>>

OnSignal ==
    /\ pc = "serving" /\ term
    /\ proxy' = "aborted"
    /\ \/ intercepts /\ Ask /\ Jump("waiting") /\ waitFor' = "signal" /\ UNCHANGED graceful
       \/ ~intercepts /\ Fail("graceful") /\ graceful' = TRUE /\ UNCHANGED <<backendVars, waitFor>>
    /\ UNCHANGED <<choiceVars, noTui, intercepts, screen, handlers, term, hostVars>>

\* A panic of the task returns at once: asked, but not waited for.
OnProxyEnd ==
    /\ pc \in {"starting", "serving"} /\ proxy \in {"failed", "panicked"}
    /\ IF intercepts THEN Ask ELSE UNCHANGED backendVars
    /\ IF intercepts /\ proxy = "failed"
       THEN Jump("waiting") /\ waitFor' = "proxy"
       ELSE UNCHANGED waitFor /\ Fail(IF proxy = "failed" THEN "proxyEnded" ELSE "proxyPanicked")
    /\ UNCHANGED <<choiceVars, noTui, intercepts, screen, proxy, handlers, term, graceful, hostVars>>

OnReport ==
    /\ pc \in {"starting", "serving"} /\ intercepts /\ Reported
    /\ proxy' = "aborted"
    /\ Fail("interceptorStopped")
    /\ UNCHANGED <<choiceVars, noTui, intercepts, screen, backendVars, handlers, term,
                   waitFor, graceful, hostVars>>

-----------------------------------------------------------------------------
\* main: wait_for_interceptor_shutdown, and what its callers make of it.

\* A proxy error hides how the stop went.
Stopped(ok, failure) ==
    /\ pc = "waiting"
    /\ graceful' = (ok /\ waitFor = "signal")
    /\ \/ waitFor = "proxy" /\ Fail("proxyEnded")
       \/ waitFor # "proxy" /\ ~ok /\ Fail(failure)
       \/ waitFor = "signal" /\ ok /\ Fail("graceful")
       \/ waitFor = "quit" /\ ok /\ Fail("quit")
    /\ UNCHANGED <<choiceVars, noTui, intercepts, screen, backendVars, proxy, handlers, term,
                   waitFor, hostVars>>

\* Only the Linux variant looks at the report.
StopReported == Reported /\ Stopped(fate[1] = "ok" \/ ~OnLinux, "stopFailed")

\* Mutant of StopTimesOut: nobody gives up.
StopWaitsForReport == Reported /\ Stopped(~OnLinux, "stopTimeout")

\* Five seconds on Linux, then an error; elsewhere 100 ms, then Ok.
StopTimesOut == Stopped(~OnLinux, "stopTimeout")

-----------------------------------------------------------------------------
\* main: the dashboard.

EnterDashboard ==
    /\ pc = "dashTui"
    /\ \/ screen' = "raw" /\ Jump("dashboard")
       \/ UNCHANGED screen /\ Fail("terminalFailed")
    /\ UNCHANGED <<choiceVars, noTui, intercepts, backendVars, mainVars, hostVars>>

\* A quit key, or run_dashboard returns an error.
LeaveDashboard ==
    /\ pc = "dashboard"
    /\ screen' = "plain"
    /\ proxy' = "aborted"
    /\ \/ intercepts /\ Ask /\ Jump("waiting") /\ waitFor' = "quit"
       \/ ~intercepts /\ UNCHANGED <<backendVars, waitFor>> /\ Fail("quit")
    /\ UNCHANGED <<choiceVars, noTui, intercepts, handlers, term, graceful, hostVars>>

\* leave_tui fails: main returns before it stops anything.
LeaveFails ==
    /\ pc = "dashboard"
    /\ screen' \in {"plain", "raw"}
    /\ Fail("terminalFailed")
    /\ UNCHANGED <<choiceVars, noTui, intercepts, backendVars, mainVars, hostVars>>

Exit ==
    /\ pc = "returning"
    /\ pc' = "exited"
    /\ UNCHANGED <<choiceVars, noTui, intercepts, exit, screen, backendVars, mainVars, hostVars>>

-----------------------------------------------------------------------------
\* The C library.  The host makes one call at a time.

Idle == \A j \in Starts : handle[j] \notin {"opening", "starting"}

Return(i, h) == handle' = [handle EXCEPT ![i] = h] /\ UNCHANGED library

\* ipbp_start_proxy up to DefaultInterceptor::open: the arguments, the
\* configuration, the interface or the method may be refused.
StartCall(i) ==
    /\ library /\ Idle /\ handle[i] = "none"
    /\ \A j \in Starts : j < i => handle[j] # "none"
    /\ \/ Return(i, "null") /\ UNCHANGED backendVars
       \/ intercepts /\ BeginOpen(i) /\ Return(i, "opening")
       \/ ~intercepts /\ Return(i, "starting") /\ UNCHANGED backendVars
    /\ UNCHANGED <<startVars, mainVars, runtime>>

\* A thread that cannot be spawned is not an error here.
CallSpawns(i) ==
    /\ library /\ handle[i] = "opening" /\ SpawnThread(i)
    /\ Return(i, IF stage'[i] = "head" THEN "starting" ELSE "opening")
    /\ UNCHANGED <<startVars, mainVars, runtime>>

CallOpens(i) ==
    /\ library /\ handle[i] = "opening" /\ OpenStep(i)
    /\ UNCHANGED <<startVars, mainVars, hostVars>>

CallOpened(i) ==
    /\ library /\ handle[i] = "opening" /\ stage[i] = "gone"
    /\ Return(i, IF fate[i] = "openFailed" THEN "null" ELSE "starting")
    /\ UNCHANGED <<startVars, backendVars, mainVars, runtime>>

\* The proxy task and the thread that keeps its runtime; without the thread
\* the runtime is dropped.
CallReturns(i) ==
    /\ library /\ handle[i] = "starting"
    /\ runtime' = [runtime EXCEPT ![i] = "running"] \/ runtime' = [runtime EXCEPT ![i] = "gone"]
    /\ Return(i, "live")
    /\ UNCHANGED <<startVars, backendVars, mainVars>>

\* ipbp_stop_proxy: the runtime's thread ends; the interceptor has no flag
\* that anyone could set.
StopCall(i) ==
    /\ library /\ Idle /\ handle[i] = "live"
    /\ Return(i, "stopped")
    /\ UNCHANGED <<startVars, backendVars, mainVars, runtime>>

RuntimeEnds(i) ==
    /\ handle[i] = "stopped" /\ runtime[i] = "running"
    /\ runtime' = [runtime EXCEPT ![i] = "gone"]
    /\ UNCHANGED <<startVars, backendVars, mainVars, library, handle>>

-----------------------------------------------------------------------------
Interceptor(i) ==
    /\ Alive /\ ThreadStep(i)
    /\ UNCHANGED <<startVars, mainVars, hostVars>>

Main ==
    \/ OpenInterceptor
    \/ Opening
    \/ SpawnInterceptor
    \/ StartFails
    \/ SpawnProxy
    \/ InstallHandlers
    \/ OnSignal
    \/ OnProxyEnd
    \/ OnReport
    \/ StopReported
    \/ StopTimesOut
    \/ EnterDashboard
    \/ Exit

User == LeaveDashboard \/ LeaveFails \/ Terminate

Call(i) ==
    \/ CallOpens(i)
    \/ CallSpawns(i)
    \/ CallOpened(i)
    \/ CallReturns(i)
    \/ RuntimeEnds(i)

Host(i) == StartCall(i) \/ StopCall(i)

Next ==
    \/ ChooseTarget
    \/ Main
    \/ ProxyEnds
    \/ User
    \/ \E i \in Starts : Interceptor(i) \/ Call(i) \/ Host(i)

Spec == Init /\ [][Next]_vars

\* The scheduler runs main and the threads; a call of the library goes on.
\* What the user, the host, the signals and the proxy task do is not owed.
FairSpec ==
    /\ Spec
    /\ WF_vars(Main)
    /\ \A i \in Starts : WF_vars(Interceptor(i)) /\ WF_vars(Call(i))

-----------------------------------------------------------------------------
TypeOK ==
    /\ BackendTypeOK
    /\ exit \in Exits \union {None}
    /\ proxy \in {"none", "running", "failed", "panicked", "aborted"}
    /\ handlers \in BOOLEAN /\ term \in BOOLEAN /\ graceful \in BOOLEAN /\ library \in BOOLEAN
    /\ waitFor \in {None, "signal", "proxy", "quit"}
    /\ handle \in [Starts -> {"none", "opening", "starting", "null", "live", "stopped"}]
    /\ runtime \in [Starts -> {"none", "running", "gone"}]

\* Whoever gets the interceptor's report, or the error of its start, gets it
\* after the queue was closed and every rule removed, but for a rule whose
\* removal failed and for what a failed iptables install leaves.
ReportComesAfterCleanup ==
    \A i \in Starts :
        stage[i] = "gone" =>
            /\ listener # i
            /\ RulesOf(i) \subseteq stuck \/ (fate[i] = "openFailed" /\ backend = "iptables")

\* What main leaves behind when it ends in good order, or because it could
\* not start: no rule, no raw terminal.  The exits that may leave something
\* are named by what is missing from the sets.
LeavesNothingBehind ==
    /\ exit \in {"graceful", "quit", "interceptorStopped", "stopFailed", "spawnFailed"} /\ OnLinux
           => rules \subseteq stuck /\ listener = Nobody
    /\ exit = "openFailed" /\ backend = "nftables" => rules \subseteq stuck
    /\ graceful => exit = "graceful"
    /\ pc \in {"returning", "exited"} /\ exit \notin {"terminalFailed", "killed"} => screen = "plain"

\* A termination request that the handlers took, and a quit of the
\* dashboard, end the program, even if the interceptor never stops.
ShutdownEnds == (term \/ waitFor # None) ~> pc = "exited"

\* ipbp.h: "Stop proxy and free handle."
StopEndsInterceptor ==
    \A i \in Starts : handle[i] = "stopped" ~> listener # i
=============================================================================
