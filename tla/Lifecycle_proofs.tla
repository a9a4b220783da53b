--------------------------- MODULE Lifecycle_proofs ---------------------------
(***************************************************************************)
(* Proofs about Lifecycle, for any number of starts, any address list and  *)
(* any arguments.  Upkeep says, by the stage of an instance, which of its  *)
(* rules the kernel may hold and who listens; Bookkeeping says, by where   *)
(* main is, which stages the interceptor can be in.  Together they give    *)
(* what main leaves behind at each of its exits.                           *)
(***************************************************************************)
EXTENDS Lifecycle, FiniteSetTheorems, TLAPS

\* The firewall and the queue, by the stage of instance i.
Upkeep(i) ==
    /\ stage[i] = "unopened" => RulesOf(i) = {} /\ step[i] = 0
    /\ backend = "windivert" => RulesOf(i) = {} /\ stage[i] \notin {"installing", "removing"}
    /\ RulesOf(i) \subseteq {<<i, Commands[k]>> : k \in 1 .. Len(Commands)}
    /\ stage[i] \in {"installing", "removing"} => step[i] < Len(Commands)
    /\ stage[i] \in {"binding", "open", "head", "recv", "closing"} => step[i] = 0
    /\ stage[i] = "removing" /\ backend = "iptables" =>
         \A k \in 1 .. step[i] : <<i, Commands[k]>> \in rules => <<i, Commands[k]>> \in stuck
    /\ stage[i] \in {"finished", "gone"} =>
         RulesOf(i) \subseteq stuck \/ (fate[i] = "openFailed" /\ backend = "iptables")
    /\ listener = i => stage[i] \in {"open", "head", "recv", "closing"}

BackendInv == BackendTypeOK /\ \A i \in Starts : Upkeep(i)

\* What Lifecycle does to the backend.
BackendStep ==
    \/ \E i \in Starts : BeginOpen(i) \/ OpenStep(i) \/ SpawnThread(i) \/ ThreadStep(i)
    \/ Ask
    \/ UNCHANGED backendVars

\* Before the interceptor is opened.
Early ==
    {"checks", "target", "rangeTui", "rangePick", "load", "scan", "mode", "pool", "modeTui",
     "modePick", "ipTui", "best", "ipPick", "chosen", "serve"}

\* While it runs.
Served == {"spawnProxy", "starting", "serving", "waiting", "dashTui", "dashboard"}

Raw == {"rangePick", "modePick", "ipPick", "dashboard"}

\* The exits that wait for the interceptor, or never had one.
Orderly == {"graceful", "quit", "interceptorStopped", "stopFailed", "spawnFailed"}

Bookkeeping ==
    /\ library => pc = "host" /\ exit = None /\ screen = "plain" /\ ~graceful
    /\ ~library =>
         /\ pc \in Early \union Served \union {"opening", "returning", "exited"}
         /\ \A j \in Starts \ {1} : stage[j] = "unopened"
         /\ pc \in Early \/ ~intercepts => stage[1] = "unopened"
    /\ pc = "opening" => intercepts
    /\ stage[1] \in {"unopened", "installing", "binding", "open"} => fate[1] = "none"
    /\ pc \in Served /\ intercepts =>
         /\ stage[1] \in {"head", "recv", "closing", "removing", "finished", "gone"}
         /\ fate[1] # "openFailed"
    /\ pc = "spawnProxy" => intercepts
    /\ pc = "waiting" => intercepts /\ waitFor \in {"signal", "proxy", "quit"}
    /\ pc \notin {"returning", "exited"} => exit = None
    /\ exit \in Orderly /\ OnLinux /\ intercepts => stage[1] = "gone" /\ fate[1] # "openFailed"
    /\ exit = "openFailed" => stage[1] = "gone"
    /\ graceful => exit = "graceful"
    /\ screen = "raw" => pc \in Raw \/ exit \in {"terminalFailed", "killed"}
    /\ screen \in {"plain", "raw"}

\* Until the target goes on to the proxy.
Choosing == Early \ {"serve"}

Scanned == {"mode", "pool", "modeTui", "modePick", "ipTui", "best", "ipPick"}

\* What the choice of the target rests on.
ChoiceInv ==
    /\ entries \in Seq(Addresses)
    /\ pc \in Choosing =>
         /\ args \in Args
         /\ pc \notin {"checks", "target", "chosen"} => args.forced = None
         /\ pc \in {"checks", "target"} => net = None
         /\ pc \notin Scanned \union {"chosen"} => entries = <<>>
         /\ pc \in Scanned => entries # <<>>
         /\ pc \in Scanned \union {"scan", "chosen"} /\ net # None => ~NamesIPv6(args.lines)
         /\ pc \in {"best", "modeTui", "modePick", "ipTui", "ipPick"} => ~args.pool
         /\ pc = "ipPick" => cursor \in 1 .. Len(entries)
         /\ pc # "chosen" => pool = <<>>
         /\ \A n \in 1 .. Len(entries) : \E c \in Candidates : c[2] = entries[n]
    /\ TargetIsAsChosen

MainInv == TypeOK /\ BackendInv /\ Bookkeeping

-----------------------------------------------------------------------------
LEMMA CommandsLen == ASSUME BackendTypeOK
                     PROVE  /\ Len(Commands) \in Nat
                            /\ backend # "windivert" => Len(Commands) > 0
                            /\ \A k \in 1 .. Len(Commands) : Commands[k] \in Items
  <1>1. CASE backend = "iptables"
    <2>1. Commands = <<"output", "input">>
      BY <1>1 DEF Commands, iptables_rules
    <2>2. Len(Commands) = 2 /\ Commands[1] = "output" /\ Commands[2] = "input"
      BY <2>1
    <2>3. ASSUME NEW k \in 1 .. 2 PROVE Commands[k] \in Items
      <3>1. k = 1 \/ k = 2
        OBVIOUS
      <3>2. QED
        BY <2>2, <3>1 DEF Items
    <2>4. QED
      BY <2>2, <2>3
  <1>2. CASE backend = "nftables"
    <2>1. Commands = <<"table", "output chain", "input chain", "output", "input">>
      BY <1>2 DEF Commands, nft_install_commands
    <2>2. /\ Len(Commands) = 5
          /\ Commands[1] = "table" /\ Commands[2] = "output chain"
          /\ Commands[3] = "input chain" /\ Commands[4] = "output" /\ Commands[5] = "input"
      BY <2>1
    <2>3. ASSUME NEW k \in 1 .. 5 PROVE Commands[k] \in Items
      <3>1. k = 1 \/ k = 2 \/ k = 3 \/ k = 4 \/ k = 5
        OBVIOUS
      <3>2. /\ Commands[1] \in Items /\ Commands[2] \in Items /\ Commands[3] \in Items
            /\ Commands[4] \in Items /\ Commands[5] \in Items
        BY <2>2 DEF Items
      <3>3. QED
        BY <3>1, <3>2
    <2>4. Len(Commands) = 5
      BY <2>2
    <2>5. QED
      BY <2>3, <2>4
  <1>3. CASE backend = "windivert"
    <2>1. Commands = <<>>
      BY <1>3 DEF Commands
    <2>2. QED
      BY <1>3, <2>1
  <1>4. QED
    BY <1>1, <1>2, <1>3 DEF BackendTypeOK, Backends

\* Whatever the backend does, its types and the state of its rules hold on.
LEMMA UpkeepStep == BackendInv /\ BackendStep => BackendInv'
  <1>. SUFFICES ASSUME BackendInv, BackendStep PROVE BackendInv'
    OBVIOUS
  <1>. USE StartsAssumption DEF BackendInv, BackendTypeOK
  <1>0. /\ Len(Commands) \in Nat
        /\ backend # "windivert" => Len(Commands) > 0
        /\ \A k \in 1 .. Len(Commands) : Commands[k] \in Items
    BY CommandsLen
  <1>1. ASSUME NEW i \in Starts, BeginOpen(i)
        PROVE  BackendInv'
    <2>1. BackendTypeOK' /\ Commands' = Commands
      BY <1>1 DEF BeginOpen, Goto, kernel, Stages, Commands
    <2>2. ASSUME NEW j \in Starts PROVE Upkeep(j)'
      BY <1>0, <1>1, <2>1 DEF BeginOpen, Goto, kernel, Upkeep, RulesOf, Backends
    <2>3. QED
      BY <2>1, <2>2
  <1>2. ASSUME NEW i \in Starts, InstallRule(i)
        PROVE  BackendInv'
    <2>a. Commands' = Commands
      BY <1>2 DEF InstallRule, Commands
    <2>b. step[i] + 1 \in 1 .. Len(Commands) /\ Commands[step[i] + 1] \in Items
      <3>1. stage[i] \in {"installing", "removing"} /\ step[i] \in Nat
        BY <1>0, <1>2 DEF InstallRule
      <3>2. step[i] < Len(Commands)
        BY <3>1 DEF Upkeep
      <3>3. step[i] + 1 \in 1 .. Len(Commands)
        BY ONLY <1>0, <3>1, <3>2
      <3>4. QED
        BY ONLY <1>0, <3>3
    <2>1. BackendTypeOK' /\ Commands' = Commands
      <3>1. rules' \subseteq Starts \X Items
        BY <1>2, <2>b DEF InstallRule
      <3>2. stage' \in [Starts -> Stages]
        BY <1>2 DEF InstallRule, Goto, Stages
      <3>3. step' \in [Starts -> 0 .. Len(Commands)]
        BY <1>0, <1>2, <2>b DEF InstallRule
      <3>4. QED
        BY <1>2, <2>a, <3>1, <3>2, <3>3 DEF InstallRule
    <2>2. ASSUME NEW j \in Starts PROVE Upkeep(j)'
      <3>1. CASE j = i
        BY <1>0, <1>2, <2>1, <3>1 DEF InstallRule, Goto, Upkeep, RulesOf
      <3>2. CASE j # i
        <4>1. RulesOf(j)' = RulesOf(j) /\ stage'[j] = stage[j] /\ step'[j] = step[j]
          BY <1>2, <3>2 DEF InstallRule, Goto, RulesOf
        <4>2. QED
          BY <1>2, <2>1, <3>2, <4>1 DEF InstallRule, Upkeep, RulesOf
      <3>3. QED
        BY <3>1, <3>2
    <2>3. QED
      BY <2>1, <2>2
  <1>3. ASSUME NEW i \in Starts, IptablesFails(i) \/ BindFails(i) \/ DriverFails(i)
        PROVE  BackendInv'
    <2>1. BackendTypeOK' /\ Commands' = Commands
      BY <1>3 DEF IptablesFails, BindFails, DriverFails, Goto, kernel, Stages, Fates, Commands
    <2>2. ASSUME NEW j \in Starts PROVE Upkeep(j)'
      <3>1. CASE IptablesFails(i)
        BY <1>0, <2>1, <3>1 DEF IptablesFails, Goto, kernel, Upkeep, RulesOf
      <3>2. CASE BindFails(i)
        BY <1>0, <2>1, <3>2 DEF BindFails, Goto, kernel, Upkeep, RulesOf
      <3>3. CASE DriverFails(i)
        BY <1>0, <2>1, <3>3 DEF DriverFails, Goto, kernel, Upkeep, RulesOf
      <3>4. QED
        BY ONLY <1>3, <3>1, <3>2, <3>3
    <2>3. QED
      BY <2>1, <2>2
  <1>4. ASSUME NEW i \in Starts, NftFails(i)
        PROVE  BackendInv'
    <2>1. BackendTypeOK' /\ Commands' = Commands
      BY <1>4 DEF NftFails, Goto, Stages, Fates, Commands, RulesOf
    <2>2. ASSUME NEW j \in Starts PROVE Upkeep(j)'
      BY <1>4, <2>1 DEF NftFails, Goto, Upkeep, RulesOf
    <2>3. QED
      BY <2>1, <2>2
  <1>5. ASSUME NEW i \in Starts, Bind(i) \/ SpawnThread(i)
        PROVE  BackendInv'
    <2>1. BackendTypeOK' /\ Commands' = Commands
      BY <1>5 DEF Bind, SpawnThread, Ends, Goto, kernel, Stages, Fates, Commands
    <2>2. ASSUME NEW j \in Starts PROVE Upkeep(j)'
      BY <1>5, <2>1 DEF Bind, SpawnThread, Ends, Goto, kernel, Upkeep, RulesOf, Nobody
    <2>3. QED
      BY <2>1, <2>2
  <1>6. ASSUME NEW i \in Starts,
               LoopHead(i) \/ Again(i) \/ StaleAfterShutdown(i)
                 \/ RecvFails(i) \/ DivertEnds(i) \/ LoopPanics(i)
        PROVE  BackendInv'
    <2>1. BackendTypeOK' /\ Commands' = Commands
      BY <1>6 DEF LoopHead, Again, StaleAfterShutdown, RecvFails, DivertEnds, LoopPanics,
                  Ends, Goto, kernel, Stages, Fates, Commands
    <2>2. ASSUME NEW j \in Starts PROVE Upkeep(j)'
      BY <1>6, <2>1 DEF LoopHead, Again, StaleAfterShutdown, RecvFails, DivertEnds, LoopPanics,
                        Ends, Goto, kernel, Upkeep, RulesOf
    <2>3. QED
      BY <2>1, <2>2
  <1>7. ASSUME NEW i \in Starts, CloseQueue(i)
        PROVE  BackendInv'
    <2>1. BackendTypeOK' /\ Commands' = Commands
      BY <1>7 DEF CloseQueue, Goto, Stages, Commands
    <2>2. ASSUME NEW j \in Starts PROVE Upkeep(j)'
      <3>1. CASE j = i
        <4>1. /\ stage[i] = "closing" /\ listener' = 0
              /\ stage'[i] = IF backend = "windivert" THEN "finished" ELSE "removing"
          BY <1>7 DEF CloseQueue, Goto, Nobody
        <4>2. /\ RulesOf(i)' = RulesOf(i) /\ step'[i] = step[i] /\ fate' = fate
              /\ backend' = backend /\ stuck' = stuck
          BY <1>7 DEF CloseQueue, RulesOf
        <4>3. step[i] = 0 /\ (backend = "windivert" => RulesOf(i) = {})
          BY <4>1 DEF Upkeep
        <4>4. i # 0 /\ step'[i] = 0 /\ Len(Commands') = Len(Commands) /\ Len(Commands) \in Nat
          BY <1>0, <2>1, <4>2, <4>3
        <4>5. /\ backend' = "windivert" => RulesOf(i)' = {} /\ stage'[i] = "finished"
              /\ backend' # "windivert" => stage'[i] = "removing" /\ step'[i] < Len(Commands)'
          BY <1>0, <4>1, <4>2, <4>3, <4>4
        <4>6. RulesOf(i)' \subseteq {<<i, Commands[k]>> : k \in 1 .. Len(Commands)}'
          <5>1. RulesOf(i) \subseteq {<<i, Commands[k]>> : k \in 1 .. Len(Commands)}
            BY DEF Upkeep
          <5>2. QED
            BY ONLY <2>1, <4>2, <5>1
        <4>7. QED
          BY <3>1, <4>1, <4>4, <4>5, <4>6 DEF Upkeep
      <3>2. CASE j # i
        <4>1. RulesOf(j)' = RulesOf(j) /\ stage'[j] = stage[j] /\ listener' = 0
          BY <1>7, <3>2 DEF CloseQueue, Goto, RulesOf, Nobody
        <4>2. QED
          BY <1>7, <2>1, <3>2, <4>1 DEF CloseQueue, Upkeep
      <3>3. QED
        BY <3>1, <3>2
    <2>3. QED
      BY <2>1, <2>2
  <1>8. ASSUME NEW i \in Starts, DeleteRule(i)
        PROVE  BackendInv'
    <2>a. Commands' = Commands
      BY <1>8 DEF DeleteRule, Commands
    <2>b. step[i] + 1 \in 1 .. Len(Commands) /\ Commands[step[i] + 1] \in Items
      <3>1. stage[i] \in {"installing", "removing"} /\ step[i] \in Nat
        BY <1>0, <1>8 DEF DeleteRule
      <3>2. step[i] < Len(Commands)
        BY <3>1 DEF Upkeep
      <3>3. step[i] + 1 \in 1 .. Len(Commands)
        BY ONLY <1>0, <3>1, <3>2
      <3>4. QED
        BY ONLY <1>0, <3>3
    <2>1. BackendTypeOK' /\ Commands' = Commands
      <3>1. rules' \subseteq Starts \X Items /\ stuck' \subseteq Starts \X Items
        BY <1>8 DEF DeleteRule, RulesOf
      <3>2. stage' \in [Starts -> Stages]
        BY <1>8 DEF DeleteRule, Goto, Stages
      <3>3. step' \in [Starts -> 0 .. Len(Commands)]
        BY <1>0, <1>8, <2>b DEF DeleteRule
      <3>4. QED
        BY <1>8, <2>a, <3>1, <3>2, <3>3 DEF DeleteRule
    <2>2. ASSUME NEW j \in Starts PROVE Upkeep(j)'
      <3>1. CASE j = i
        <4>1. stuck \subseteq stuck' /\ rules' \subseteq rules
          BY <1>8 DEF DeleteRule
        <4>2. LET k == step[i] + 1
              IN  <<i, Commands[k]>> \in rules' => <<i, Commands[k]>> \in stuck'
          BY <1>8 DEF DeleteRule, RulesOf
        <4>3. \A k \in 1 .. step[i] + 1 :
                 <<i, Commands[k]>> \in rules' => <<i, Commands[k]>> \in stuck'
          <5>1. TAKE k \in 1 .. step[i] + 1
          <5>2. CASE k = step[i] + 1
            BY <4>2, <5>2
          <5>3. CASE k # step[i] + 1
            <6>1. k \in 1 .. step[i]
              BY <5>3
            <6>2. QED
              BY <1>8, <4>1, <6>1 DEF DeleteRule, Upkeep
          <5>4. QED
            BY <5>2, <5>3
        <4>4. step[i] + 1 = Len(Commands) => RulesOf(i)' \subseteq stuck'
          BY <4>1, <4>3 DEF Upkeep, RulesOf
        <4>5. QED
          BY <1>0, <1>8, <2>1, <3>1, <4>1, <4>3, <4>4 DEF DeleteRule, Goto, Upkeep, RulesOf
      <3>2. CASE j # i
        <4>1. /\ RulesOf(j)' = RulesOf(j) /\ stuck \subseteq stuck' /\ rules' \subseteq rules
              /\ stage'[j] = stage[j] /\ step'[j] = step[j]
          BY <1>8, <3>2 DEF DeleteRule, Goto, RulesOf
        <4>2. QED
          BY <1>8, <2>1, <3>2, <4>1 DEF DeleteRule, Upkeep
      <3>3. QED
        BY <3>1, <3>2
    <2>3. QED
      BY <2>1, <2>2
  <1>9. ASSUME NEW i \in Starts, DeleteTable(i)
        PROVE  BackendInv'
    <2>1. BackendTypeOK' /\ Commands' = Commands
      BY <1>9 DEF DeleteTable, Goto, Stages, Commands, RulesOf
    <2>2. ASSUME NEW j \in Starts PROVE Upkeep(j)'
      <3>1. CASE j = i
        <4>1. RulesOf(i)' \subseteq stuck' /\ RulesOf(i)' \subseteq RulesOf(i)
          BY <1>9 DEF DeleteTable, RulesOf
        <4>2. listener' = listener /\ stage'[i] = "finished" /\ backend' = "nftables"
          BY <1>9 DEF DeleteTable, Goto
        <4>3. QED
          BY <1>9, <2>1, <3>1, <4>1, <4>2 DEF DeleteTable, Upkeep
      <3>2. CASE j # i
        <4>1. /\ RulesOf(j)' = RulesOf(j) /\ stuck \subseteq stuck' /\ rules' \subseteq rules
              /\ stage'[j] = stage[j] /\ step'[j] = step[j]
          BY <1>9, <3>2 DEF DeleteTable, Goto, RulesOf
        <4>2. QED
          BY <1>9, <2>1, <3>2, <4>1 DEF DeleteTable, Upkeep
      <3>3. QED
        BY <3>1, <3>2
    <2>3. QED
      BY <2>1, <2>2
  <1>10. ASSUME NEW i \in Starts, SendReport(i)
         PROVE  BackendInv'
    <2>1. BackendTypeOK' /\ Commands' = Commands
      BY <1>10 DEF SendReport, Goto, kernel, Stages, Commands
    <2>2. ASSUME NEW j \in Starts PROVE Upkeep(j)'
      BY <1>10, <2>1 DEF SendReport, Goto, kernel, Upkeep, RulesOf
    <2>3. QED
      BY <2>1, <2>2
  <1>11. CASE Ask \/ UNCHANGED backendVars
    <2>1. BackendTypeOK' /\ Commands' = Commands
      BY <1>11 DEF Ask, backendVars, kernel, Commands
    <2>2. ASSUME NEW j \in Starts PROVE Upkeep(j)'
      BY <1>11, <2>1 DEF Ask, backendVars, kernel, Upkeep, RulesOf
    <2>3. QED
      BY <2>1, <2>2
  <1>12. QED
    BY <1>1, <1>2, <1>3, <1>4, <1>5, <1>6, <1>7, <1>8, <1>9, <1>10, <1>11
    DEF BackendStep, OpenStep, ThreadStep

\* All of Lifecycle's steps are such steps.
LEMMA NextIsBackendStep == [Next]_vars => BackendStep
  <1>1. ASSUME NEW i \in Starts, Interceptor(i) \/ Call(i) \/ Host(i)
        PROVE  BackendStep
    BY <1>1 DEF Interceptor, Call, Host, CallOpens, CallSpawns, CallOpened, CallReturns,
                RuntimeEnds, StartCall, StopCall, BackendStep
  <1>2. CASE ChooseTarget \/ ProxyEnds \/ User
    BY <1>2 DEF ChooseTarget, ProxyEnds, User, LeaveDashboard, LeaveFails, Terminate, BackendStep
  <1>3. CASE Main
    BY <1>3, StartsAssumption
    DEF Main, OpenInterceptor, Opening, SpawnInterceptor, StartFails, SpawnProxy, InstallHandlers,
        OnSignal, OnProxyEnd, OnReport, StopReported, StopTimesOut, Stopped, EnterDashboard,
        Exit, BackendStep
  <1>4. CASE UNCHANGED vars
    BY <1>4 DEF vars, BackendStep
  <1>5. QED
    BY <1>1, <1>2, <1>3, <1>4 DEF Next

LEMMA BackendInitially == Init => BackendInv
  BY StartsAssumption DEF Init, BackendInit, BackendInv, BackendTypeOK, Upkeep, RulesOf, Nobody,
                          Stages, Fates

LEMMA BackendAlways == Spec => []BackendInv
  <1>1. Init => BackendInv
    BY BackendInitially
  <1>2. BackendInv /\ [Next]_vars => BackendInv'
    BY UpkeepStep, NextIsBackendStep
  <1>3. QED
    BY <1>1, <1>2, PTL DEF Spec

\* Nobody hears of the end of an interceptor, in main or in the library,
\* while its rules are installed or its queue is bound: for any number of
\* instances and whatever fails.
THEOREM CleanupFirst == Spec => []ReportComesAfterCleanup
  <1>1. BackendInv => ReportComesAfterCleanup
    BY DEF BackendInv, Upkeep, ReportComesAfterCleanup
  <1>2. QED
    BY <1>1, BackendAlways, PTL

-----------------------------------------------------------------------------
\* How far a step of the interceptor's thread takes it.
LEMMA ThreadMoves ==
    ASSUME BackendInv, NEW i \in Starts, ThreadStep(i)
    PROVE  /\ backend' = backend
           /\ \A j \in Starts \ {i} : stage'[j] = stage[j] /\ fate'[j] = fate[j]
           /\ stage[i] \in {"head", "recv", "closing", "removing", "finished"}
           /\ stage'[i] \in {"head", "recv", "closing", "removing", "finished", "gone"}
           /\ fate[i] # "openFailed" => fate'[i] # "openFailed"
  <1>. USE DEF BackendInv, BackendTypeOK, Goto
  <1>1. CASE LoopHead(i) \/ Again(i) \/ StaleAfterShutdown(i) \/ RecvFails(i)
               \/ DivertEnds(i) \/ LoopPanics(i)
    BY <1>1 DEF LoopHead, Again, StaleAfterShutdown, RecvFails, DivertEnds, LoopPanics, Ends
  <1>2. CASE CloseQueue(i) \/ DeleteRule(i) \/ DeleteTable(i) \/ SendReport(i)
    BY <1>2 DEF CloseQueue, DeleteRule, DeleteTable, SendReport
  <1>3. QED
    BY <1>1, <1>2 DEF ThreadStep

\* How far a step of open() takes it.
LEMMA OpenMoves ==
    ASSUME BackendInv, NEW i \in Starts, OpenStep(i)
    PROVE  /\ backend' = backend
           /\ \A j \in Starts \ {i} : stage'[j] = stage[j] /\ fate'[j] = fate[j]
           /\ stage[i] \in {"installing", "binding"}
           /\ stage'[i] \in {"installing", "binding", "open", "removing", "gone"}
           /\ stage'[i] \in {"installing", "binding", "open"} => fate'[i] = fate[i]
  BY DEF BackendInv, BackendTypeOK, Goto, OpenStep, InstallRule, IptablesFails, NftFails, Bind,
         BindFails, DriverFails

\* Startup ends early, or before the interceptor; a raw terminal means that a
\* picker runs.
LEMMA StartupMoves ==
    ASSUME Bookkeeping, StartStep
    PROVE  /\ pc \in Early
           /\ \/ pc' \in Early /\ exit' = exit
              \/ pc' = "returning" /\ exit' \in Exits \ (Orderly \union {"openFailed"})
           /\ intercepts' = intercepts
           /\ screen' \in {"plain", "raw"}
           /\ screen' = "raw" => pc' \in Raw \/ exit' = "terminalFailed"
  <1>0. /\ screen \in {"plain", "raw"}
        /\ pc \in Early /\ screen = "raw" => pc \in Raw
    BY NoneAssumption DEF Bookkeeping, Early, Exits
  <1>. USE <1>0 DEF Jump, Fail, Early, Exits, Orderly, Raw
  <1>1. CASE CheckAccess \/ ForcedTarget \/ ChooseRange
    BY <1>1 DEF CheckAccess, ForcedTarget, ChooseRange
  <1>2. CASE EnterPicker \/ MoveCursor \/ PickerFails \/ PickRange
    BY <1>2 DEF EnterPicker, MoveCursor, PickerFails, PickRange, Picking
  <1>3. CASE Load \/ Scan
    BY <1>3 DEF Load, Scan
  <1>4. CASE ChooseMode \/ PickMode
    BY <1>4 DEF ChooseMode, PickMode
  <1>5. CASE TakePool \/ TakeBest \/ PickEntry \/ LocalInterface
    BY <1>5 DEF TakePool, TakeBest, PickEntry, LocalInterface
  <1>6. QED
    BY <1>1, <1>2, <1>3, <1>4, <1>5 DEF StartStep

LEMMA TypesStep == MainInv /\ [Next]_vars => TypeOK'
  <1>. SUFFICES ASSUME MainInv, [Next]_vars PROVE TypeOK'
    OBVIOUS
  <1>1. BackendTypeOK'
    BY UpkeepStep, NextIsBackendStep DEF MainInv, BackendInv
  <1>. USE <1>1 DEF MainInv, TypeOK
  <1>2. ASSUME NEW i \in Starts, Interceptor(i) \/ Call(i) \/ Host(i)
        PROVE  TypeOK'
    BY <1>2 DEF Interceptor, Call, Host, CallOpens, CallSpawns, CallOpened, CallReturns,
                RuntimeEnds, StartCall, StopCall, Return, startVars, mainVars, hostVars
  <1>3. CASE ChooseTarget
    BY <1>3, StartupMoves DEF ChooseTarget, mainVars, hostVars
  <1>4. CASE ProxyEnds \/ User
    <2>1. CASE ProxyEnds
      BY <2>1 DEF ProxyEnds, Jump, Fail, Exits, startVars, mainVars, hostVars
    <2>2. CASE LeaveDashboard
      BY <2>2 DEF LeaveDashboard, Jump, Fail, Exits, startVars, mainVars, hostVars
    <2>3. CASE LeaveFails
      BY <2>3 DEF LeaveFails, Jump, Fail, Exits, startVars, mainVars, hostVars
    <2>4. CASE Terminate
      BY <2>4 DEF Terminate, Jump, Fail, Exits, startVars, mainVars, hostVars
    <2>5. QED
      BY <1>4, <2>1, <2>2, <2>3, <2>4 DEF User
  <1>5. CASE OpenInterceptor \/ Opening \/ SpawnInterceptor \/ StartFails \/ SpawnProxy
    BY <1>5 DEF OpenInterceptor, Opening, SpawnInterceptor, StartFails, SpawnProxy, Jump, Fail,
                Exits, startVars, mainVars, hostVars
  <1>6. CASE InstallHandlers \/ OnSignal \/ OnProxyEnd \/ OnReport
    <2>1. CASE InstallHandlers
      BY <2>1 DEF InstallHandlers, Jump, Fail, Exits, startVars, mainVars, hostVars
    <2>2. CASE OnSignal
      BY <2>2 DEF OnSignal, Jump, Fail, Exits, startVars, mainVars, hostVars
    <2>3. CASE OnProxyEnd
      BY <2>3 DEF OnProxyEnd, Jump, Fail, Exits, startVars, mainVars, hostVars
    <2>4. CASE OnReport
      BY <2>4 DEF OnReport, Jump, Fail, Exits, startVars, mainVars, hostVars
    <2>5. QED
      BY <1>6, <2>1, <2>2, <2>3, <2>4
  <1>7. CASE StopReported \/ StopTimesOut
    <2>1. CASE StopReported
      BY <2>1 DEF StopReported, Stopped, Fail, Exits, startVars, mainVars, hostVars
    <2>2. CASE StopTimesOut
      BY <2>2 DEF StopTimesOut, Stopped, Fail, Exits, startVars, mainVars, hostVars
    <2>3. QED
      BY <1>7, <2>1, <2>2
  <1>8. CASE EnterDashboard \/ Exit
    <2>1. CASE EnterDashboard
      BY <2>1 DEF EnterDashboard, Jump, Fail, Exits, startVars, mainVars, hostVars
    <2>2. CASE Exit
      BY <2>2 DEF Exit, Jump, Fail, Exits, startVars, mainVars, hostVars
    <2>3. QED
      BY <1>8, <2>1, <2>2
  <1>9. CASE UNCHANGED vars
    BY <1>9 DEF vars, startVars, mainVars, hostVars
  <1>10. QED
    BY <1>2, <1>3, <1>4, <1>5, <1>6, <1>7, <1>8, <1>9 DEF Next, Main

\* A step of the interceptor's thread, wherever main is.
LEMMA ThreadKeepsBooks ==
    ASSUME MainInv, NEW i \in Starts, Interceptor(i)
    PROVE  Bookkeeping'
  <1>1. /\ UNCHANGED <<pc, exit, screen, intercepts, graceful, waitFor, library>>
        /\ ThreadStep(i)
    BY DEF Interceptor, startVars, mainVars, hostVars
  <1>2. /\ backend' = backend
        /\ \A j \in Starts \ {i} : stage'[j] = stage[j] /\ fate'[j] = fate[j]
        /\ stage[i] \in {"head", "recv", "closing", "removing", "finished"}
        /\ stage'[i] \in {"head", "recv", "closing", "removing", "finished", "gone"}
        /\ fate[i] # "openFailed" => fate'[i] # "openFailed"
    BY <1>1, ThreadMoves DEF MainInv
  <1>3. CASE i = 1
    BY <1>1, <1>2, <1>3, StartsAssumption DEF MainInv, Bookkeeping, Served, OnLinux
  <1>4. CASE i # 1
    BY <1>1, <1>2, <1>4, StartsAssumption DEF MainInv, Bookkeeping, Served, OnLinux
  <1>5. QED
    BY <1>3, <1>4

\* A call of the library: main does not run.
LEMMA LibraryKeepsBooks ==
    ASSUME MainInv, NEW i \in Starts, Call(i) \/ Host(i)
    PROVE  Bookkeeping'
  <1>1. UNCHANGED <<pc, exit, screen, intercepts, graceful, waitFor, library>>
    BY DEF Call, Host, CallOpens, CallSpawns, CallOpened, CallReturns, RuntimeEnds, StartCall,
           StopCall, Return, startVars, mainVars, hostVars
  <1>2. CASE UNCHANGED backendVars
    BY <1>1, <1>2 DEF MainInv, Bookkeeping, OnLinux, backendVars
  <1>a. ASSUME library,
               stage'[1] \in {"unopened", "installing", "binding", "open"} => fate'[1] = "none"
        PROVE  Bookkeeping'
    BY <1>1, <1>a, NoneAssumption DEF MainInv, Bookkeeping, Served, Orderly, Exits
  <1>. USE StartsAssumption DEF MainInv, TypeOK, BackendTypeOK
  <1>3. CASE library /\ BeginOpen(i)
    <2>1. stage[1] = "unopened" \/ stage'[1] = stage[1]
      BY <1>3 DEF BeginOpen, Goto
    <2>2. QED
      BY <1>a, <1>3, <2>1 DEF Bookkeeping, BeginOpen
  <1>4. CASE library /\ OpenStep(i)
    <2>1. CASE i = 1
      BY <1>a, <1>4, <2>1, OpenMoves DEF Bookkeeping
    <2>2. CASE i # 1
      BY <1>a, <1>4, <2>2, OpenMoves DEF Bookkeeping
    <2>3. QED
      BY <2>1, <2>2
  <1>5. CASE library /\ SpawnThread(i)
    <2>1. \/ stage'[1] = stage[1] /\ fate'[1] = fate[1]
          \/ stage'[1] \in {"head", "closing"}
      BY <1>5 DEF SpawnThread, Ends, Goto
    <2>2. QED
      BY <1>a, <1>5, <2>1 DEF Bookkeeping
  <1>6. QED
    BY <1>2, <1>3, <1>4, <1>5
    DEF Call, Host, CallOpens, CallSpawns, CallOpened, CallReturns, RuntimeEnds, StartCall, StopCall

\* A step of main: only instance 1 exists.
LEMMA MainKeepsBooks ==
    ASSUME MainInv, ChooseTarget \/ Main \/ ProxyEnds \/ User
    PROVE  Bookkeeping'
  <1>0. /\ ~library => UNCHANGED library
        /\ screen \in {"plain", "raw"} /\ (screen = "raw" /\ pc \notin {"returning", "exited"} => pc \in Raw)
        /\ exit = None => exit \notin Exits
    BY NoneAssumption DEF MainInv, Bookkeeping, Exits, ChooseTarget, Main, ProxyEnds, User,
       LeaveDashboard, LeaveFails, Terminate, OpenInterceptor, Opening, SpawnInterceptor, StartFails,
       SpawnProxy, InstallHandlers, OnSignal, OnProxyEnd, OnReport, StopReported, StopTimesOut,
       Stopped, EnterDashboard, Exit, startVars, mainVars, hostVars
  <1>. USE <1>0, StartsAssumption
       DEF MainInv, Bookkeeping, Early, Served, Raw, Orderly, Exits, Jump, Fail, OnLinux,
           startVars, mainVars, hostVars, backendVars
  <1>1. CASE ChooseTarget
    BY <1>1, StartupMoves DEF ChooseTarget
  <1>2. CASE OpenInterceptor
    BY <1>2 DEF OpenInterceptor, BeginOpen, Goto, TypeOK, BackendTypeOK
  <1>3. CASE Opening
    BY <1>3, OpenMoves DEF Opening
  <1>4. CASE SpawnInterceptor
    BY <1>4 DEF SpawnInterceptor, SpawnThread, Ends, Goto, TypeOK, BackendTypeOK
  <1>5. CASE StartFails
    BY <1>5 DEF StartFails
  <1>6. CASE SpawnProxy
    BY <1>6 DEF SpawnProxy
  <1>7. CASE InstallHandlers
    BY <1>7 DEF InstallHandlers
  <1>8. CASE OnSignal
    BY <1>8 DEF OnSignal, Ask
  <1>9. CASE OnProxyEnd
    BY <1>9 DEF OnProxyEnd, Ask
  <1>10. CASE OnReport
    BY <1>10 DEF OnReport, Reported
  <1>11. CASE StopReported
    BY <1>11 DEF StopReported, Stopped, Reported
  <1>12. CASE StopTimesOut
    BY <1>12 DEF StopTimesOut, Stopped
  <1>13. CASE EnterDashboard \/ Exit
    BY <1>13 DEF EnterDashboard, Exit
  <1>14. CASE ProxyEnds
    BY <1>14 DEF ProxyEnds
  <1>15. CASE User
    BY <1>15 DEF User, LeaveDashboard, LeaveFails, Terminate, Ask, Alive
  <1>16. QED
    BY <1>1, <1>2, <1>3, <1>4, <1>5, <1>6, <1>7, <1>8, <1>9, <1>10, <1>11, <1>12, <1>13, <1>14,
       <1>15 DEF Main

LEMMA BooksInitially == Init => MainInv
  <1>. SUFFICES ASSUME Init PROVE MainInv
    OBVIOUS
  <1>1. BackendInv
    BY BackendInitially
  <1>2. TypeOK
    BY <1>1 DEF Init, HostInit, StartInit, BackendInv, TypeOK
  <1>3. Bookkeeping
    <2>1. exit = None /\ exit \notin Exits
      BY NoneAssumption DEF Init, HostInit, StartInit
    <2>2. /\ stage = [i \in Starts |-> "unopened"] /\ fate = [i \in Starts |-> "none"]
          /\ screen = "plain" /\ graceful = FALSE /\ library \in BOOLEAN
          /\ library => pc = "host"
          /\ ~library => pc = "checks"
      BY DEF Init, HostInit, StartInit, BackendInit
    <2>3. QED
      BY <2>1, <2>2, StartsAssumption DEF Bookkeeping, Early, Served, Raw, Orderly, Exits
  <1>4. QED
    BY <1>1, <1>2, <1>3 DEF MainInv

LEMMA MainAlways == Spec => []MainInv
  <1>1. Init => MainInv
    BY BooksInitially
  <1>2. MainInv /\ [Next]_vars => MainInv'
    <2>. SUFFICES ASSUME MainInv, [Next]_vars PROVE MainInv'
      OBVIOUS
    <2>1. TypeOK'
      BY TypesStep
    <2>2. BackendInv'
      BY UpkeepStep, NextIsBackendStep DEF MainInv
    <2>3. Bookkeeping'
      <3>1. ASSUME NEW i \in Starts, Interceptor(i) \/ Call(i) \/ Host(i)
            PROVE  Bookkeeping'
        BY <3>1, ThreadKeepsBooks, LibraryKeepsBooks
      <3>2. CASE ChooseTarget \/ Main \/ ProxyEnds \/ User
        BY <3>2, MainKeepsBooks
      <3>3. CASE UNCHANGED vars
        BY <3>3 DEF vars, startVars, backendVars, mainVars, hostVars, MainInv, Bookkeeping, OnLinux
      <3>4. QED
        BY <3>1, <3>2, <3>3 DEF Next
    <2>4. QED
      BY <2>1, <2>2, <2>3 DEF MainInv
  <1>3. QED
    BY <1>1, <1>2, PTL DEF Spec

\* The variables of the program keep their types, whatever is listed, chosen
\* or started.
THEOREM LifecycleTypes == Spec => []TypeOK
  <1>1. MainInv => TypeOK
    BY DEF MainInv
  <1>2. QED
    BY <1>1, MainAlways, PTL

\* A termination, a quit and the end of the interceptor leave no rule and no
\* listener behind on Linux, whichever firewall is used and however the
\* threads interleave; no return of main but a terminal error or a kill
\* leaves the terminal raw.
THEOREM NothingLeftBehind == Spec => []LeavesNothingBehind
  <1>1. MainInv => LeavesNothingBehind
    <2>. SUFFICES ASSUME MainInv PROVE LeavesNothingBehind
      OBVIOUS
    <2>1. exit \in Orderly /\ OnLinux => rules \subseteq stuck /\ listener = Nobody
      <3>. SUFFICES ASSUME exit \in Orderly, OnLinux PROVE rules \subseteq stuck /\ listener = Nobody
        OBVIOUS
      <3>1. ~library
        BY NoneAssumption DEF MainInv, Bookkeeping, Orderly, Exits
      <3>2. ASSUME NEW j \in Starts PROVE RulesOf(j) \subseteq stuck /\ listener # j
        BY <3>1, StartsAssumption DEF MainInv, Bookkeeping, BackendInv, Upkeep
      <3>3. QED
        BY <3>2 DEF MainInv, TypeOK, BackendTypeOK, RulesOf
    <2>2. exit = "openFailed" /\ backend = "nftables" => rules \subseteq stuck
      <3>. SUFFICES ASSUME exit = "openFailed", backend = "nftables" PROVE rules \subseteq stuck
        OBVIOUS
      <3>1. ~library
        BY NoneAssumption DEF MainInv, Bookkeeping, Exits
      <3>2. ASSUME NEW j \in Starts PROVE RulesOf(j) \subseteq stuck
        BY <3>1, StartsAssumption DEF MainInv, Bookkeeping, BackendInv, Upkeep
      <3>3. QED
        BY <3>2 DEF MainInv, TypeOK, BackendTypeOK, RulesOf
    <2>3. QED
      BY <2>1, <2>2 DEF MainInv, Bookkeeping, LeavesNothingBehind, Orderly, Raw
  <1>2. QED
    BY <1>1, MainAlways, PTL

-----------------------------------------------------------------------------
\* The choice of the target.

\* A scan returns a sequence of listed addresses.
LEMMA RankedEntries ==
    ASSUME args \in Args, NEW some \in SUBSET Candidates, NEW ranked \in SetToSeqs(some)
    PROVE  LET result == [n \in DOMAIN ranked |-> ranked[n][2]]
           IN  /\ result \in Seq(Addresses)
               /\ ranked # <<>> => result # <<>>
               /\ \A n \in 1 .. Len(result) : \E c \in Candidates : c[2] = result[n]
  <1>1. some \subseteq args.lines \X Addresses /\ args.lines \subseteq Lines
    BY DEF Candidates, Listed, Args
  <1>2. IsFiniteSet(some)
    <2>1. IsFiniteSet(args.lines)
      BY <1>1, FS_Subset, ListAssumption
    <2>2. IsFiniteSet(args.lines \X Addresses)
      BY <2>1, FS_Product, ListAssumption
    <2>3. QED
      BY <1>1, <2>2, FS_Subset
  <1>3. Cardinality(some) \in Nat
    BY <1>2, FS_CardinalityType
  <1>4. ranked \in [1 .. Cardinality(some) -> some]
    BY DEF SetToSeqs
  <1>. DEFINE result == [n \in DOMAIN ranked |-> ranked[n][2]]
  <1>5. ranked \in Seq(some) /\ Len(ranked) = Cardinality(some)
    BY <1>3, <1>4
  <1>6. result \in [1 .. Cardinality(some) -> Addresses]
    BY <1>1, <1>4
  <1>7. result \in Seq(Addresses) /\ Len(result) = Cardinality(some)
    BY <1>3, <1>6
  <1>8. ASSUME NEW n \in 1 .. Len(result)
        PROVE  \E c \in Candidates : c[2] = result[n]
    <2>1. ranked[n] \in Candidates /\ result[n] = ranked[n][2]
      BY <1>4, <1>7, <1>8
    <2>2. QED
      BY <2>1
  <1>9. ranked # <<>> => result # <<>>
    BY <1>5, <1>7
  <1>10. QED
    BY <1>7, <1>8, <1>9

\* What is known of each entry once the scan is done.
LEMMA EntriesAreCandidates ==
    ASSUME ChoiceInv, pc \in Scanned, NEW n \in 1 .. Len(entries)
    PROVE  /\ entries[n] \in Addresses
           /\ \E l \in args.lines : <<l, entries[n]>> \in Listed(args.lines)
           /\ net # None => entries[n] \in Hosts(net) \ IPv6
  <1>1. pc \in Choosing
    BY DEF Scanned, Choosing, Early
  <1>2. PICK c \in Candidates : c[2] = entries[n]
    BY <1>1 DEF ChoiceInv
  <1>3. c \in args.lines \X Addresses /\ c \in Listed(args.lines)
    BY DEF Candidates, Listed
  <1>4. c = <<c[1], entries[n]>> /\ c[1] \in args.lines
    BY <1>2, <1>3
  <1>5. \E l \in args.lines : <<l, entries[n]>> \in Listed(args.lines)
    BY <1>3, <1>4
  <1>6. net # None => entries[n] \in Hosts(net) \ IPv6
    BY <1>1, <1>2, <1>3 DEF ChoiceInv, Candidates, NamesIPv6
  <1>7. QED
    BY <1>2, <1>3, <1>5, <1>6

\* TakePool takes the first entries in their order.
LEMMA PoolIsHead ==
    ASSUME ChoiceInv, pc \in Scanned, args \in Args
    PROVE  LET m == Smaller(args.size, Len(entries))
           IN  /\ SubSeq(entries, 1, m) # <<>>
               /\ SubSeq(entries, 1, m)[1] = entries[1]
               /\ Len(SubSeq(entries, 1, m)) <= args.size
               /\ \A e \in ToSet(SubSeq(entries, 1, m)) : \E n \in 1 .. Len(entries) : e = entries[n]
  <1>1. entries \in Seq(Addresses) /\ entries # <<>>
    BY DEF ChoiceInv, Scanned, Choosing, Early
  <1>2. Len(entries) \in Nat \ {0}
    BY <1>1
  <1>3. args.size \in 1 .. 2
    BY DEF Args
  <1>. DEFINE m == Smaller(args.size, Len(entries))
  <1>4. m \in 1 .. Len(entries) /\ m <= args.size
    BY <1>2, <1>3 DEF Smaller
  <1>. HIDE DEF m
  <1>. DEFINE head == SubSeq(entries, 1, m)
  <1>5. Len(head) = m /\ \A n \in 1 .. m : head[n] = entries[n]
    BY <1>1, <1>4
  <1>6. head # <<>> /\ DOMAIN head = 1 .. m
    BY <1>1, <1>4, <1>5
  <1>7. QED
    BY <1>4, <1>5, <1>6 DEF ToSet, m

LEMMA ChoiceStep == Bookkeeping /\ ChoiceInv /\ StartStep => ChoiceInv'
  <1>. SUFFICES ASSUME Bookkeeping, ChoiceInv, StartStep PROVE ChoiceInv'
    OBVIOUS
  <1>. USE DEF Jump, Fail, Choosing, Early, Scanned
  <1>1. CASE CheckAccess \/ ForcedTarget \/ ChooseRange
    BY <1>1 DEF CheckAccess, ForcedTarget, ChooseRange, ChoiceInv, TargetIsAsChosen, choiceVars,
                Candidates, ToSet
  <1>2. CASE EnterPicker \/ PickerFails \/ PickRange
    BY <1>2 DEF EnterPicker, PickerFails, PickRange, Picking, ChoiceInv, TargetIsAsChosen,
                choiceVars, Candidates
  <1>3. CASE MoveCursor
    <2>1. pc = "ipPick" => Rows = Len(entries)
      BY DEF Rows
    <2>2. pc = "ipPick" => cursor' \in 1 .. Len(entries)
      BY <1>3, <2>1 DEF MoveCursor, ChoiceInv
    <2>3. QED
      BY <1>3, <2>2 DEF MoveCursor, Picking, ChoiceInv, TargetIsAsChosen, Candidates
  <1>4. CASE Load
    BY <1>4 DEF Load, ChoiceInv, TargetIsAsChosen, choiceVars, Candidates
  <1>5. CASE Scan
    <2>1. CASE pc' = "returning" /\ UNCHANGED entries
      BY <1>5, <2>1 DEF Scan, ChoiceInv, TargetIsAsChosen
    <2>2. CASE \E some \in SUBSET Candidates : \E ranked \in SetToSeqs(some) :
                   /\ entries' = [n \in DOMAIN ranked |-> ranked[n][2]]
                   /\ IF ranked = <<>> THEN Fail("nothingFound") ELSE Jump("mode")
      <3>1. PICK some \in SUBSET Candidates : \E ranked \in SetToSeqs(some) :
                   /\ entries' = [n \in DOMAIN ranked |-> ranked[n][2]]
                   /\ IF ranked = <<>> THEN Fail("nothingFound") ELSE Jump("mode")
        BY <2>2
      <3>2. PICK ranked \in SetToSeqs(some) :
                   /\ entries' = [n \in DOMAIN ranked |-> ranked[n][2]]
                   /\ IF ranked = <<>> THEN Fail("nothingFound") ELSE Jump("mode")
        BY <3>1
      <3>3. args \in Args
        BY <1>5 DEF Scan, ChoiceInv
      <3>4. /\ entries' \in Seq(Addresses)
            /\ ranked # <<>> => entries' # <<>>
            /\ \A n \in 1 .. Len(entries') : \E c \in Candidates : c[2] = entries'[n]
        BY <3>2, <3>3, RankedEntries
      <3>5. QED
        BY <1>5, <3>2, <3>4 DEF Scan, ChoiceInv, TargetIsAsChosen, Candidates
    <2>3. QED
      BY <1>5, <2>1, <2>2 DEF Scan
  <1>6. CASE ChooseMode \/ PickMode
    BY <1>6 DEF ChooseMode, PickMode, ChoiceInv, TargetIsAsChosen, choiceVars, Candidates
  <1>7. CASE TakePool
    <2>1. pc \in Scanned /\ args \in Args /\ 1 \in 1 .. Len(entries)
      BY <1>7 DEF TakePool, ChoiceInv
    <2>2. /\ active' = entries[1]
          /\ pool' # <<>> /\ pool'[1] = entries[1] /\ Len(pool') <= args.size
          /\ \A e \in ToSet(pool') : \E n \in 1 .. Len(entries) : e = entries[n]
      BY <1>7, <2>1, PoolIsHead DEF TakePool
    <2>3. /\ \E l \in args.lines : <<l, active'>> \in Listed(args.lines)
          /\ net # None => {active'} \union ToSet(pool') \subseteq Hosts(net) \ IPv6
      BY <2>1, <2>2, EntriesAreCandidates
    <2>4. TargetIsAsChosen'
      BY <1>7, <2>2, <2>3 DEF TakePool, ChoiceInv, TargetIsAsChosen, ToSet
    <2>5. QED
      BY <1>7, <2>4 DEF TakePool, ChoiceInv, Candidates
  <1>8. CASE TakeBest \/ PickEntry
    <2>1. pc \in Scanned /\ 1 \in 1 .. Len(entries) /\ pool = <<>> /\ ~args.pool
      BY <1>8 DEF TakeBest, PickEntry, ChoiceInv
    <2>2. \E n \in 1 .. Len(entries) : active' = entries[n]
      BY <1>8, <2>1 DEF TakeBest, PickEntry, ChoiceInv
    <2>3. /\ \E l \in args.lines : <<l, active'>> \in Listed(args.lines)
          /\ net # None => active' \in Hosts(net) \ IPv6
      BY <2>1, <2>2, EntriesAreCandidates
    <2>4. TargetIsAsChosen'
      BY <1>8, <2>1, <2>3 DEF TakeBest, PickEntry, ChoiceInv, TargetIsAsChosen, ToSet
    <2>5. QED
      BY <1>8, <2>1, <2>4 DEF TakeBest, PickEntry, ChoiceInv, Candidates
  <1>9. CASE LocalInterface
    BY <1>9 DEF LocalInterface, ChoiceInv, TargetIsAsChosen
  <1>10. QED
    BY <1>1, <1>2, <1>3, <1>4, <1>5, <1>6, <1>7, <1>8, <1>9 DEF StartStep

LEMMA ChoiceElsewhere ==
    ASSUME ChoiceInv, UNCHANGED choiceVars, pc' = pc \/ pc' \notin Choosing
    PROVE  ChoiceInv'
  BY DEF ChoiceInv, choiceVars, TargetIsAsChosen, Candidates, Choosing, Early, Scanned

\* The target, and the pool, are what the arguments and the user asked for,
\* whatever the list, the ranges and the result of the scan are.
THEOREM RightTarget == Spec => []TargetIsAsChosen
  <1>1. Init => ChoiceInv
    <2>. SUFFICES ASSUME Init PROVE ChoiceInv
      OBVIOUS
    <2>1. entries = <<>> /\ pool = <<>> /\ net = None /\ pc \in {"host", "checks"}
      BY DEF Init, HostInit, StartInit
    <2>2. pc = "checks" => args \in Args
      BY DEF Init, HostInit, StartInit
    <2>3. entries \in Seq(Addresses) /\ Len(entries) = 0
      BY <2>1
    <2>4. QED
      BY <2>1, <2>2, <2>3 DEF ChoiceInv, TargetIsAsChosen, Choosing, Early, Scanned
  <1>2. MainInv /\ ChoiceInv /\ [Next]_vars => ChoiceInv'
    <2>. SUFFICES ASSUME MainInv, ChoiceInv, [Next]_vars PROVE ChoiceInv'
      OBVIOUS
    <2>1. CASE ChooseTarget
      BY <2>1, ChoiceStep DEF ChooseTarget, MainInv
    <2>2. ASSUME NEW i \in Starts, Interceptor(i) \/ Call(i) \/ Host(i)
          PROVE  ChoiceInv'
      BY <2>2, ChoiceElsewhere DEF Interceptor, Call, Host, CallOpens, CallSpawns, CallOpened,
         CallReturns, RuntimeEnds, StartCall, StopCall, startVars
    <2>3. CASE Main \/ ProxyEnds \/ User
      BY <2>3, ChoiceElsewhere DEF Main, ProxyEnds, User, LeaveDashboard, LeaveFails, Terminate,
         OpenInterceptor, Opening, SpawnInterceptor, StartFails, SpawnProxy, InstallHandlers,
         OnSignal, OnProxyEnd, OnReport, StopReported, StopTimesOut, Stopped, EnterDashboard,
         Exit, Jump, Fail, startVars, Choosing, Early
    <2>4. CASE UNCHANGED vars
      BY <2>4, ChoiceElsewhere DEF vars, startVars
    <2>5. QED
      BY <2>1, <2>2, <2>3, <2>4 DEF Next
  <1>3. ChoiceInv => TargetIsAsChosen
    BY DEF ChoiceInv
  <1>4. QED
    BY <1>1, <1>2, <1>3, MainAlways, PTL DEF Spec
=============================================================================
