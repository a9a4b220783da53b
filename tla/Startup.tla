------------------------------- MODULE Startup -------------------------------
(***************************************************************************)
(* The first half of ip_bypass_plus_main: from the command line, the       *)
(* configuration and the address list to the address, or the pool of       *)
(* addresses, that the proxy will connect to.  SELECTED_IP skips the scan; *)
(* otherwise a range may be chosen, the list is loaded and scanned, and    *)
(* the best entries, the user's entry or a pool of the best are taken.     *)
(* The scan itself is IpScanner and ScanSession; here it returns what they *)
(* can return: the scanned addresses in some order.                   *)
(***************************************************************************)
EXTENDS Naturals, Sequences, FiniteSets, SequencesExt

CONSTANTS
    Addresses,  \* the addresses the list can name
    IPv6,       \* those of them that are IPv6
    Ranges,     \* the CIDR ranges the list can name
    Hosts(_),   \* the addresses of a range
    Lines,      \* what a line of the list file can be
    None

ASSUME AddressesAssumption ==
    /\ IPv6 \subseteq Addresses
    /\ \A r \in Ranges : Hosts(r) \subseteq Addresses
    /\ Lines \subseteq Ranges \union Addresses
    /\ None \notin Addresses \union Ranges

\* A list file ends.
ASSUME ListAssumption == IsFiniteSet(Addresses) /\ IsFiniteSet(Lines)

VARIABLES
    args,       \* the options and the list file; None once they are used up
    noTui,      \* --no-tui or --json-events
    intercepts, \* BYPASS_METHOD is not "tls_frag"
    pc,         \* where main is
    exit,       \* why main returns, or None
    screen,     \* "plain", or "raw" between enter_tui and leave_tui
    cursor,     \* the picker's highlighted row, from 1
    net,        \* the chosen range, or None
    entries,    \* what the scan returned, best first
    active,     \* the selected target, or None
    pool        \* the IP pool; empty in single mode

choiceVars == <<args, cursor, net, entries, active, pool>>

startVars == <<choiceVars, noTui, intercepts, pc, exit, screen>>

\* load_ip_list: what the lines of a file name, an address once for every
\* line that names it.
Listed(lines) ==
    {c \in lines \X Addresses : c[2] = c[1] \/ (c[1] \in Ranges /\ c[2] \in Hosts(c[1]))}

\* parse_cidr_ranges; a --range value is put first and not repeated.
RangeRows ==
    LET found == SetToSeq(args.lines \intersect (Ranges \ {args.range}))
    IN  IF args.range = None THEN found ELSE <<args.range>> \o found

Candidates == {c \in Listed(args.lines) : net = None \/ c[2] \in Hosts(net)}

NamesIPv6(lines) == \E c \in Listed(lines) : c[2] \in IPv6

\* validate() admits no IPv6 SELECTED_IP and no IP_POOL of 0.
Args ==
    [forced : {None} \union (Addresses \ IPv6), range : {None} \union Ranges,
     lines : SUBSET Lines, pool : BOOLEAN, auto : BOOLEAN, size : 1..2]

StartInit ==
    /\ args \in Args
    /\ noTui \in BOOLEAN /\ intercepts \in BOOLEAN
    /\ pc = "checks" /\ exit = None /\ screen = "plain"
    /\ cursor = 1 /\ net = None /\ entries = <<>>
    /\ active = None /\ pool = <<>>

Jump(l) == pc' = l /\ UNCHANGED exit

\* An error return of ip_bypass_plus_main.
Fail(why) == pc' = "returning" /\ exit' = why

-----------------------------------------------------------------------------
\* ensure_packet_interception_access, when the method intercepts.
CheckAccess ==
    /\ pc = "checks"
    /\ \/ Jump("target")
       \/ intercepts /\ Fail("rootRequired")
    /\ UNCHANGED <<choiceVars, noTui, intercepts, screen>>

ForcedTarget ==
    /\ pc = "target" /\ args.forced # None
    /\ active' = args.forced
    /\ Jump("chosen")
    /\ UNCHANGED <<args, noTui, intercepts, screen, cursor, net, entries, pool>>

\* --range, the picker when there is something to pick and a terminal, or the
\* whole list.
ChooseRange ==
    /\ pc = "target" /\ args.forced = None
    /\ \/ /\ args.range # None
          /\ net' = args.range
          /\ Jump("load")
       \/ /\ args.range = None /\ RangeRows # <<>> /\ ~noTui
          /\ Jump("rangeTui") /\ UNCHANGED net
       \/ /\ args.range = None /\ (RangeRows = <<>> \/ noTui)
          /\ Jump("load") /\ UNCHANGED net
    /\ UNCHANGED <<args, noTui, intercepts, screen, cursor, entries, active, pool>>

\* enter_tui before one of the three pickers.
EnterPicker ==
    /\ pc \in {"rangeTui", "modeTui", "ipTui"}
    /\ \/ /\ screen' = "raw" /\ cursor' = 1
          /\ \/ pc = "rangeTui" /\ Jump("rangePick")
             \/ pc = "modeTui" /\ Jump("modePick")
             \/ pc = "ipTui" /\ Jump("ipPick")
       \/ Fail("terminalFailed") /\ UNCHANGED <<screen, cursor>>
    /\ UNCHANGED <<args, noTui, intercepts, net, entries, active, pool>>

Rows ==
    CASE pc = "rangePick" -> Len(RangeRows)
      [] pc = "modePick"  -> 2
      [] pc = "ipPick"    -> Len(entries)

Picking == pc \in {"rangePick", "modePick", "ipPick"}

\* Up, k, Down and j.
MoveCursor ==
    /\ Picking
    /\ cursor' \in {IF cursor > 1 THEN cursor - 1 ELSE 1,
                    IF cursor < Rows THEN cursor + 1 ELSE Rows}
    /\ UNCHANGED <<args, noTui, intercepts, pc, exit, screen, net, entries, active, pool>>

\* The terminal fails while a picker draws or reads, or in leave_tui.  Only
\* the address picker's error is looked at after leave_tui.
PickerFails ==
    /\ Picking
    /\ Fail("terminalFailed")
    /\ screen' \in IF pc = "ipPick" THEN {"plain", "raw"} ELSE {"raw"}
    /\ UNCHANGED <<choiceVars, noTui, intercepts>>

\* Enter on a range.
PickRange ==
    /\ pc = "rangePick"
    /\ net' = RangeRows[cursor]
    /\ screen' = "plain"
    /\ Jump("load")
    /\ UNCHANGED <<args, noTui, intercepts, cursor, entries, active, pool>>

\* Mutant of Load: an IPv6 line passes when the range hides it.
LoadAnything ==
    /\ pc = "load"
    /\ IF Candidates = {} THEN Fail("emptyList") ELSE Jump("scan")
    /\ UNCHANGED <<choiceVars, noTui, intercepts, screen>>

\* load_ip_list; with a range, any IPv6 address in the file is refused, and
\* only the range's addresses stay.
Load ==
    /\ pc = "load"
    /\ \/ Fail("unreadableList")
       \/ net # None /\ NamesIPv6(args.lines) /\ Fail("ipv6")
       \/ /\ net = None \/ ~NamesIPv6(args.lines)
          /\ IF Candidates = {} THEN Fail("emptyList") ELSE Jump("scan")
    /\ UNCHANGED <<choiceVars, noTui, intercepts, screen>>

\* A finished scan returns every address; a user may stop it early.
Scan ==
    /\ pc = "scan"
    /\ \/ \E some \in (IF noTui THEN {Candidates} ELSE SUBSET Candidates) :
             \E ranked \in SetToSeqs(some) :
                /\ entries' = [n \in DOMAIN ranked |-> ranked[n][2]]
                /\ IF ranked = <<>> THEN Fail("nothingFound") ELSE Jump("mode")
                /\ UNCHANGED screen
       \/ ~noTui /\ Fail("terminalFailed") /\ screen' = "raw" /\ UNCHANGED entries
    /\ UNCHANGED <<args, noTui, intercepts, cursor, net, active, pool>>

ChooseMode ==
    /\ pc = "mode"
    /\ \/ args.pool /\ Jump("pool")
       \/ ~args.pool /\ (args.auto \/ noTui) /\ Jump("best")
       \/ ~args.pool /\ ~args.auto /\ ~noTui /\ Jump("modeTui")
    /\ UNCHANGED <<choiceVars, noTui, intercepts, screen>>

\* Enter, or the keys 1 and 2.
PickMode ==
    /\ pc = "modePick"
    /\ screen' = "plain"
    /\ \E row \in {cursor, 1, 2} : Jump(IF row = 2 THEN "pool" ELSE "ipTui")
    /\ UNCHANGED <<choiceVars, noTui, intercepts>>

Smaller(m, n) == IF m < n THEN m ELSE n

TakePool ==
    /\ pc = "pool"
    /\ active' = entries[1]
    /\ pool' = SubSeq(entries, 1, Smaller(args.size, Len(entries)))
    /\ Jump("chosen")
    /\ UNCHANGED <<args, noTui, intercepts, screen, cursor, net, entries>>

TakeBest ==
    /\ pc = "best"
    /\ active' = entries[1]
    /\ Jump("chosen")
    /\ UNCHANGED <<args, noTui, intercepts, screen, cursor, net, entries, pool>>

\* Enter takes the highlighted entry; Esc and q the first.
PickEntry ==
    /\ pc = "ipPick"
    /\ active' \in {entries[cursor], entries[1]}
    /\ screen' = "plain"
    /\ Jump("chosen")
    /\ UNCHANGED <<args, noTui, intercepts, cursor, net, entries, pool>>

\* require_ipv4_target and default_interface_ipv4.  The block's locals are
\* gone; the target goes on to the proxy (Serving).
LocalInterface ==
    /\ pc = "chosen"
    /\ \/ active \in IPv6 /\ Fail("ipv6")
       \/ active \notin IPv6 /\ Jump("serve")
       \/ active \notin IPv6 /\ Fail("noInterface")
    /\ args' = None /\ cursor' = 1 /\ net' = None /\ entries' = <<>>
    /\ active' = None /\ pool' = <<>>
    /\ UNCHANGED <<noTui, intercepts, screen>>

StartStep ==
    \/ CheckAccess
    \/ ForcedTarget
    \/ ChooseRange
    \/ EnterPicker
    \/ MoveCursor
    \/ PickerFails
    \/ PickRange
    \/ Load
    \/ Scan
    \/ ChooseMode
    \/ PickMode
    \/ TakePool
    \/ TakeBest
    \/ PickEntry
    \/ LocalInterface

-----------------------------------------------------------------------------
\* Of the address the proxy is started with: SELECTED_IP wins; otherwise the
\* list names it, and a pool is headed by it and is no larger than IP_POOL.
\* When a range was asked for, target and pool lie in it and are IPv4.
TargetIsAsChosen ==
    pc = "chosen" =>
        /\ args.forced # None => active = args.forced /\ pool = <<>>
        /\ args.forced = None => \E l \in args.lines : <<l, active>> \in Listed(args.lines)
        /\ args.forced = None /\ args.pool => pool # <<>>
        /\ pool # <<>> => pool[1] = active /\ Len(pool) <= args.size
        /\ net # None => {active} \union ToSet(pool) \subseteq Hosts(net) \ IPv6
=============================================================================
