-------------------------- MODULE ReportAgreement --------------------------
(***************************************************************************)
(* What run() promises its reporters before it returns: each is told the   *)
(* report once; a reporter that refuses it is left alone from then on; if  *)
(* one has refused, each that took the report is told once more, that the  *)
(* run is aborted; and run() returns when nobody is left with a report     *)
(* that no longer holds, other than by refusing to hear of it.             *)
(***************************************************************************)
CONSTANT Reporter

VARIABLES
    told,      \* what each reporter knows
    settled    \* run() has returned

vars == <<told, settled>>

Knows == {"nothing", "first report", "correction"}
Refuses == {"refused", "refused the correction"}

TypeOK ==
    /\ told \in [Reporter -> Knows \cup Refuses]
    /\ settled \in BOOLEAN

Init ==
    /\ told = [r \in Reporter |-> "nothing"]
    /\ settled = FALSE

Tell(r) ==
    /\ told[r] = "nothing"
    /\ \E heard \in {"first report", "refused"} :
          told' = [told EXCEPT ![r] = heard]
    /\ UNCHANGED settled

EachTold == \A r \in Reporter : told[r] # "nothing"

Overtaken == \E r \in Reporter : told[r] = "refused"

Correct(r) ==
    /\ EachTold
    /\ Overtaken
    /\ told[r] = "first report"
    /\ \E heard \in {"correction", "refused the correction"} :
          told' = [told EXCEPT ![r] = heard]
    /\ UNCHANGED settled

Settle ==
    /\ ~settled
    /\ EachTold
    /\ Overtaken => \A r \in Reporter : told[r] # "first report"
    /\ settled' = TRUE
    /\ UNCHANGED told

Next == (\E r \in Reporter : Tell(r) \/ Correct(r)) \/ Settle

Spec == Init /\ [][Next]_vars
=============================================================================
