------------------------------ MODULE SuiteRun ------------------------------
(***************************************************************************)
(* The whole of AuthorizationRunner.run: the case loop of                  *)
(* AuthorizationRunner followed by the delivery of ReportDelivery, which   *)
(* starts from the variables the loop has left.                            *)
(***************************************************************************)
EXTENDS AuthorizationRunner

CONSTANT NumReporters

ASSUME ReportersAssumption == NumReporters \in Nat

VARIABLES stage, next, deliveryFailures, successfulReporters,
          correctionFailures, accepted, calls

Delivery == INSTANCE ReportDelivery WITH Runs <- {}

deliveryVars == <<stage, next, deliveryFailures, successfulReporters,
                  correctionFailures, accepted, calls>>
loopVars == <<pc, current, fixture, caller, caught, checks, mismatches,
              creations, disposals>>
runVars == <<vars, deliveryVars>>

RunInit == Init /\ Delivery!DeliveryInit

LoopStep ==
    /\ Next
    /\ UNCHANGED deliveryVars

\* Mutation of DeliveryStep: the report goes out before the last disposal.
DeliveryStepEarly ==
    /\ pc \in {"disposing", "reporting"}
    /\ Delivery!Delivers
    /\ UNCHANGED <<loopVars, signalAborted>>

\* Delivery starts when the loop has ended, and nothing else runs then.
DeliveryStep ==
    /\ pc = "reporting"
    /\ Delivery!Delivers
    /\ UNCHANGED <<loopVars, signalAborted>>

RunNext == LoopStep \/ DeliveryStep

RunSpec == RunInit /\ [][RunNext]_runVars

\* As in AuthorizationRunner, and reporters settle.
RunFairness ==
    /\ WF_runVars(Continues /\ UNCHANGED deliveryVars)
    /\ WF_runVars(CallbackSettles /\ UNCHANGED deliveryVars)
    /\ SF_runVars(VerifySettles /\ UNCHANGED deliveryVars)
    /\ WF_runVars(SignalAborts /\ UNCHANGED deliveryVars)
    /\ WF_runVars(SignalRejects /\ UNCHANGED deliveryVars)
    /\ WF_runVars(DeliveryStep)

FairRunSpec == RunSpec /\ RunFairness

-----------------------------------------------------------------------------
Resolved == stage = "returned"

Final == Delivery!Returned

\* A run that resolves as passed has created, checked and disposed of every
\* case without a mismatch, and every reporter took that verdict and no other.
PassedEndToEnd ==
    Resolved /\ Final.outcome = "passed" =>
        /\ \A c \in Case : /\ creations[c] = 1
                           /\ disposals[c] = 1
                           /\ checks[c] = 1 + Postconditions[c]
                           /\ mismatches[c] = <<>>
        /\ \A r \in 1..NumReporters : accepted[r] = <<Delivery!Kept(Final)>>

\* A run that resolves as aborted reports the defect that aborted it, and one
\* that does not has met none: neither the loop nor delivery hides one.
VerdictExplained ==
    Resolved =>
        (Final.outcome = "aborted" <=>
            \/ Final.failures # <<>>
            \/ \E i \in DOMAIN Final.cases :
                  \E j \in DOMAIN Final.cases[i].failures :
                     Final.cases[i].failures[j] = "framework-defect")

\* No reporter is called beside a live fixture, whether it takes the report or
\* throws, and from the first call on no step of the run changes anything it
\* was handed: no case is begun, disposed of or reported behind its back.
ReportedOnceSettled ==
    [][/\ calls' # calls => creations = disposals
       /\ (\E r \in 1..NumReporters : calls[r] > 0) =>
             UNCHANGED <<creations, disposals,
                         total, caseReports, suiteFailures, aborted>>
      ]_runVars

\* run() resolves, however targets, callbacks and reporters behave.
RunResolves == <>Resolved

-----------------------------------------------------------------------------
(* Delivery as far as the above depend on it: it starts when the loop has  *)
(* ended, and while nobody has refused, those the first loop has passed    *)
(* hold the first report and the others nothing.                           *)

DeliveryInv ==
    /\ deliveryFailures \in Seq({"framework-defect"})
    /\ correctionFailures \in Seq({"framework-defect"})
    /\ next \in Nat \ {0}
    /\ accepted = [r \in 1..NumReporters |-> accepted[r]]
    /\ pc # "reporting" => Delivery!DeliveryInit
    /\ stage = "correcting" => deliveryFailures # <<>>
    /\ deliveryFailures = <<>> =>
          \A r \in 1..NumReporters :
             accepted[r] = IF stage = "delivering" /\ r >= next THEN <<>>
                           ELSE <<Delivery!Kept(Delivery!FirstReport)>>
=============================================================================
