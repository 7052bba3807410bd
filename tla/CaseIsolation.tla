---------------------------- MODULE CaseIsolation ----------------------------
(***************************************************************************)
(* What the runner promises the author of a fixture lifecycle (the doc of  *)
(* FixtureLifecycle in runner.ts): every case has a fixture of its own, at *)
(* most one fixture is live at a time, cases follow one another in suite   *)
(* order, a fixture is released exactly once, after its case was judged,   *)
(* and nothing is acquired once the suite has halted.                      *)
(***************************************************************************)
EXTENDS Naturals

CONSTANT NumCases

Case == 1..NumCases

VARIABLES
    stage,   \* of each case: waiting, live, judged or released
    halted

vars == <<stage, halted>>

TypeOK ==
    /\ stage \in [Case -> {"waiting", "live", "judged", "released"}]
    /\ halted \in BOOLEAN

Init ==
    /\ stage = [c \in Case |-> "waiting"]
    /\ halted = FALSE

Acquire(c) ==
    /\ ~halted
    /\ \A d \in Case : stage[d] = IF d < c THEN "released" ELSE "waiting"
    /\ stage' = [stage EXCEPT ![c] = "live"]
    /\ UNCHANGED halted

\* A judgement may halt the suite.
Judge(c) ==
    /\ stage[c] = "live"
    /\ stage' = [stage EXCEPT ![c] = "judged"]
    /\ halted' \in {halted, TRUE}

\* So may the release of a fixture, and it counts as released all the same.
Release(c) ==
    /\ stage[c] = "judged"
    /\ stage' = [stage EXCEPT ![c] = "released"]
    /\ halted' \in {halted, TRUE}

\* The suite may also halt with no fixture live: nothing else changes.
Halt ==
    /\ \A c \in Case : stage[c] \in {"waiting", "released"}
    /\ halted' = TRUE
    /\ UNCHANGED stage

Next ==
    \/ \E c \in Case : Acquire(c) \/ Judge(c) \/ Release(c)
    \/ Halt

\* A fixture that was acquired is not kept.
Fairness ==
    \A c \in Case : WF_vars(Judge(c)) /\ WF_vars(Release(c))

SafeSpec == Init /\ [][Next]_vars
Spec == SafeSpec /\ Fairness
=============================================================================
