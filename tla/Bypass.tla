------------------------------- MODULE Bypass -------------------------------
(***************************************************************************)
(* What a connection of the intercepting proxy promises, with no packets,  *)
(* no notifications and no waiting in it.  A flow is tracked from the      *)
(* start; its outcome is decided once, by the interceptor or by the proxy  *)
(* that gives up; success is reported only after it was decided; the relay *)
(* starts only after a reported success, in the step that ends tracking;   *)
(* every other end is a failure, which is untracked later.                 *)
(***************************************************************************)

CONSTANT None

VARIABLES
    outcome,    \* the decision: None, "FakeDataAcked" or "UnexpectedClose"
    reported,   \* the outcome in the BypassComplete event, or None
    tracked,    \* packets of the flow are still handled
    phase       \* "opening", "relaying", "closed" or "failed"

vars == <<outcome, reported, tracked, phase>>

Init ==
    /\ outcome = None
    /\ reported = None
    /\ tracked = TRUE
    /\ phase = "opening"

Decide ==
    /\ outcome = None
    /\ outcome' \in {"FakeDataAcked", "UnexpectedClose"}
    /\ UNCHANGED <<reported, tracked, phase>>

ReportSuccess ==
    /\ phase = "opening" /\ reported = None
    /\ outcome = "FakeDataAcked"
    /\ reported' = "FakeDataAcked"
    /\ UNCHANGED <<outcome, tracked, phase>>

StartRelay ==
    /\ phase = "opening" /\ reported = "FakeDataAcked"
    /\ phase' = "relaying"
    /\ tracked' = FALSE
    /\ UNCHANGED <<outcome, reported>>

EndRelay ==
    /\ phase = "relaying"
    /\ phase' = "closed"
    /\ UNCHANGED <<outcome, reported, tracked>>

\* A failure that is reported leaves the flow decided.
GiveUp ==
    /\ phase = "opening" /\ reported = None
    /\ phase' = "failed"
    /\ reported' = "UnexpectedClose"
    /\ outcome' = IF outcome = None THEN "UnexpectedClose" ELSE outcome
    /\ UNCHANGED tracked

\* The task is dropped, or a socket call fails before there is a report.
Break ==
    /\ \/ phase = "opening" /\ reported = None
       \/ phase = "relaying"
    /\ phase' = "failed"
    /\ outcome' \in {outcome, IF outcome = None THEN "UnexpectedClose" ELSE outcome}
    /\ UNCHANGED <<reported, tracked>>

Untrack ==
    /\ phase = "failed"
    /\ tracked' = FALSE
    /\ UNCHANGED <<outcome, reported, phase>>

Next ==
    \/ Decide
    \/ ReportSuccess
    \/ StartRelay
    \/ EndRelay
    \/ GiveUp
    \/ Break
    \/ Untrack

Spec == Init /\ [][Next]_vars
=============================================================================
