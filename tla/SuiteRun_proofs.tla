---------------------------- MODULE SuiteRun_proofs ----------------------------
(***************************************************************************)
(* Proofs about SuiteRun: what the loop guarantees it still guarantees when*)
(* the delivery follows it, and the two together yield the verdict.        *)
(***************************************************************************)
EXTENDS SuiteRun, AuthorizationRunner_proofs

\* A step of the delivery changes nothing that the loop has found.
LEMMA DeliveryReads == ASSUME DeliveryStep PROVE UNCHANGED vars
<1>1. UNCHANGED <<total, caseReports, suiteFailures, aborted>>
  BY DEF DeliveryStep, Delivery!Delivers, Delivery!ReporterTakes,
         Delivery!ReporterThrows, Delivery!EndDelivery,
         Delivery!CorrectionTaken, Delivery!CorrectionThrows,
         Delivery!EndCorrection, Delivery!runVars
<1>2. QED BY <1>1 DEF DeliveryStep, loopVars, vars

\* The run up to its report is a run of AuthorizationRunner.
LEMMA LoopRuns == RunSpec => Spec
<1>1. RunInit => Init
  BY DEF RunInit
<1>2. [RunNext]_runVars => [Next]_vars
  BY DeliveryReads DEF RunNext, LoopStep, runVars
<1>3. QED BY <1>1, <1>2, PTL DEF RunSpec, Spec

LEMMA RunInvariants ==
  RunSpec => [](IInv /\ FixtureOwnership /\ AbortedIffDefect
                     /\ PassedMeansChecked /\ RunAccounting)
BY LoopRuns, InductiveInvariant, OwnershipCorrect, AbortCorrect, CheckCorrect,
   AccountingCorrect, PTL

\* Once the loop has ended only the caller's signal is left to change.
LEMMA LoopEnded ==
  ASSUME pc = "reporting", LoopStep
  PROVE  /\ UNCHANGED <<pc, total, caseReports, suiteFailures, aborted>>
         /\ UNCHANGED <<creations, disposals>>
         /\ UNCHANGED deliveryVars
<1>1. SignalAborts \/ Reporting
  BY DEF LoopStep, Next, ExpandReturns, ExpandThrows, CatalogAccepted,
         CatalogRefused, NextCase, EndLoop, CreateResolves, CreateRejects,
         DisposeResolves, DisposeRejects, RequestBuilt, RequestUnusable,
         AuthorizeResolves, AuthorizeFails, HttpResponds, HttpRejects,
         EvaluateReturns, EvaluateThrows, VerifyExecutes, VerifyReturns,
         VerifyThrows
<1>2. QED
  BY <1>1 DEF LoopStep, SignalAborts, Reporting, suiteVars, ledger, vars

-----------------------------------------------------------------------------
(* The invariant of the delivery.                                          *)

LEMMA DeliveryInvInit == RunInit => DeliveryInv
<1> SUFFICES ASSUME RunInit PROVE DeliveryInv
  OBVIOUS
<1>1. /\ stage = "delivering" /\ next = 1 /\ deliveryFailures = <<>>
      /\ correctionFailures = <<>>
      /\ accepted = [r \in 1..NumReporters |-> <<>>]
  BY DEF RunInit, Delivery!DeliveryInit, Delivery!Reporter
<1>2. QED BY <1>1, ReportersAssumption DEF RunInit, DeliveryInv

LEMMA LoopKeepsDelivery == ASSUME DeliveryInv, LoopStep PROVE DeliveryInv'
<1>1. UNCHANGED <<stage, next, deliveryFailures, successfulReporters,
                  correctionFailures, accepted, calls>>
  BY DEF LoopStep, deliveryVars
<1>2. CASE pc = "reporting"
  <2>1. UNCHANGED <<pc, total, caseReports, suiteFailures, aborted>>
    BY <1>2, LoopEnded
  <2>2. UNCHANGED Delivery!Kept(Delivery!FirstReport)
    BY <2>1 DEF Delivery!Kept, Delivery!FirstReport, BuildReport, Failed, Outcome,
       Delivery!BuildReport, Delivery!Failed, Delivery!Outcome
  <2>3. QED BY <1>1, <1>2, <2>1, <2>2 DEF DeliveryInv
<1>3. CASE pc # "reporting"
  <2>1. Delivery!DeliveryInit
    BY <1>3 DEF DeliveryInv
  <2>2. stage = "delivering" /\ next = 1
        /\ \A r \in 1..NumReporters : accepted[r] = <<>>
    BY <2>1 DEF Delivery!DeliveryInit, Delivery!Reporter
  <2>3. Delivery!DeliveryInit'
    BY <1>1, <2>1 DEF Delivery!DeliveryInit
  <2>4. QED BY <1>1, <2>2, <2>3, ReportersAssumption DEF DeliveryInv
<1>4. QED BY <1>2, <1>3

LEMMA DeliveryKeeps == ASSUME DeliveryInv, DeliveryStep PROVE DeliveryInv'
<1> DEFINE first == Delivery!Kept(Delivery!FirstReport)
<1>1. pc = "reporting" /\ pc' = "reporting"
  BY DEF DeliveryStep, loopVars
<1>2. UNCHANGED first
  <2>1. UNCHANGED <<total, caseReports, suiteFailures, aborted>>
    BY DeliveryReads DEF vars
  <2>2. QED
    BY <2>1 DEF Delivery!Kept, Delivery!FirstReport, BuildReport, Failed, Outcome,
       Delivery!BuildReport, Delivery!Failed, Delivery!Outcome
<1>3. CASE Delivery!ReporterTakes
  <2>1. /\ stage = "delivering" /\ next \in 1..NumReporters
        /\ next' = next + 1
        /\ accepted' = [accepted EXCEPT ![next] = Append(@, first)]
        /\ UNCHANGED <<stage, deliveryFailures, correctionFailures>>
    BY <1>3 DEF Delivery!ReporterTakes, Delivery!Takes, DeliveryInv
  <2>2. PICK kept : kept = first
    OBVIOUS
  <2>3. accepted' = [accepted EXCEPT ![next] = Append(@, kept)]
    BY <2>1, <2>2
  <2>4. first' = kept
    BY <1>2, <2>2
  <2>5. deliveryFailures = <<>> =>
           \A r \in 1..NumReporters :
              accepted'[r] = IF r >= next + 1 THEN <<>> ELSE <<kept>>
    <3>1. deliveryFailures = <<>> =>
             \A r \in 1..NumReporters :
                accepted[r] = IF r >= next THEN <<>> ELSE <<kept>>
      BY <2>1, <2>2 DEF DeliveryInv
    <3>2. Append(<<>>, kept) = <<kept>>
      OBVIOUS
    <3>3. \A r \in 1..NumReporters :
             accepted'[r] = IF r = next THEN Append(accepted[r], kept)
                            ELSE accepted[r]
      BY <2>3 DEF DeliveryInv
    <3>4. next \in Nat
      BY DEF DeliveryInv
    <3>5. ASSUME deliveryFailures = <<>>, NEW r \in 1..NumReporters
          PROVE  accepted'[r] = IF r >= next + 1 THEN <<>> ELSE <<kept>>
      <4>1. CASE r = next
        <5>1. r >= next /\ ~(r >= next + 1)
          BY <3>4, <4>1
        <5>2. accepted[r] = <<>>
          BY <3>1, <3>5, <5>1
        <5>3. accepted'[r] = Append(accepted[r], kept)
          BY <3>3, <4>1
        <5>4. accepted'[r] = <<kept>>
          BY <3>2, <5>2, <5>3, Zenon
        <5>5. QED BY <5>1, <5>4
      <4>2. CASE r # next
        <5>1. r >= next + 1 <=> r >= next
          BY <3>4, <4>2
        <5>2. QED BY <3>1, <3>3, <3>5, <4>2, <5>1
      <4>3. QED BY <4>1, <4>2
    <3>6. QED BY <3>5
  <2>6. accepted' = [r \in 1..NumReporters |-> accepted'[r]]
    BY <2>3 DEF DeliveryInv
  <2>7. QED
    BY <1>1, <2>1, <2>2, <2>4, <2>5, <2>6 DEF DeliveryInv
<1>4. CASE Delivery!ReporterThrows
  <2>1. /\ deliveryFailures' = Append(deliveryFailures, "framework-defect")
        /\ stage = "delivering" /\ next' = next + 1
        /\ UNCHANGED <<stage, accepted, correctionFailures>>
    BY <1>4 DEF Delivery!ReporterThrows, Delivery!Throws
  <2>2. /\ deliveryFailures' \in Seq({"framework-defect"})
        /\ deliveryFailures' # <<>>
    BY <2>1 DEF DeliveryInv
  <2>3. QED BY <1>1, <2>1, <2>2 DEF DeliveryInv
<1>5. CASE Delivery!EndDelivery
  <2>1. /\ stage = "delivering" /\ next > NumReporters /\ next' = 1
        /\ stage' = IF deliveryFailures = <<>> THEN "returned" ELSE "correcting"
        /\ UNCHANGED <<accepted, deliveryFailures, correctionFailures>>
    BY <1>5 DEF Delivery!EndDelivery
  <2>2. deliveryFailures = <<>> =>
           \A r \in 1..NumReporters : accepted[r] = <<first>>
    BY <2>1, ReportersAssumption DEF DeliveryInv
  <2>3. QED BY <1>1, <1>2, <2>1, <2>2 DEF DeliveryInv
<1>6. CASE Delivery!CorrectionTaken \/ Delivery!CorrectionThrows
  <2>1. /\ stage = "correcting" /\ next' = next + 1
        /\ UNCHANGED <<stage, deliveryFailures>>
    BY <1>6 DEF Delivery!CorrectionTaken, Delivery!CorrectionThrows
  <2>2. correctionFailures' \in Seq({"framework-defect"})
    BY <1>6
    DEF Delivery!CorrectionTaken, Delivery!CorrectionThrows, DeliveryInv
  <2>3. PICK r, report :
            accepted' = [accepted EXCEPT ![r] = Append(@, report)]
            \/ accepted' = accepted
    BY <1>6, Zenon DEF Delivery!CorrectionTaken, Delivery!CorrectionThrows,
                Delivery!Takes, Delivery!Throws
  <2>4. accepted' = [q \in 1..NumReporters |-> accepted'[q]]
    BY <2>3 DEF DeliveryInv
  <2>5. QED BY <1>1, <2>1, <2>2, <2>4 DEF DeliveryInv
<1>7. CASE Delivery!EndCorrection
  <2>1. /\ stage = "correcting" /\ stage' = "returned"
        /\ UNCHANGED <<next, accepted, deliveryFailures, correctionFailures>>
    BY <1>7 DEF Delivery!EndCorrection
  <2>2. QED BY <1>1, <2>1 DEF DeliveryInv
<1>8. QED
  BY <1>3, <1>4, <1>5, <1>6, <1>7 DEF DeliveryStep, Delivery!Delivers

LEMMA DeliveryInvariant == RunSpec => []DeliveryInv
<1>1. DeliveryInv /\ [RunNext]_runVars => DeliveryInv'
  <2> SUFFICES ASSUME DeliveryInv, [RunNext]_runVars PROVE DeliveryInv'
    OBVIOUS
  <2>1. CASE LoopStep
    BY <2>1, LoopKeepsDelivery
  <2>2. CASE DeliveryStep
    BY <2>2, DeliveryKeeps
  <2>3. CASE UNCHANGED runVars
    <3>1. UNCHANGED <<vars, deliveryVars>>
      BY <2>3 DEF runVars
    <3>2. UNCHANGED Delivery!Kept(Delivery!FirstReport)
      BY <3>1 DEF vars, Delivery!Kept, Delivery!FirstReport, Delivery!BuildReport,
                  Delivery!Failed, Delivery!Outcome, BuildReport, Failed, Outcome
    <3>3. UNCHANGED Delivery!DeliveryInit
      BY <3>1 DEF deliveryVars, Delivery!DeliveryInit
    <3>4. QED BY <3>1, <3>2, <3>3 DEF vars, deliveryVars, DeliveryInv
  <2>4. QED BY <2>1, <2>2, <2>3 DEF RunNext
<1>2. QED BY <1>1, DeliveryInvInit, PTL DEF RunSpec

-----------------------------------------------------------------------------
(* The theorems.                                                           *)

\* The operator of FiniteSets that ReportDelivery names is the same one.
LEMMA SameCardinality ==
  \A S : Delivery!Cardinality(S) = Cardinality(S)
BY DEF Delivery!Cardinality, Cardinality

\* A run that resolves as passed was not aborted, nobody refused its report
\* and no failure is in it.
LEMMA PassedReport ==
  ASSUME IInv, DeliveryInv, Resolved, Final.outcome = "passed"
  PROVE  /\ pc = "reporting"
         /\ ~aborted
         /\ deliveryFailures = <<>>
         /\ Final = Delivery!FirstReport
         /\ \A i \in DOMAIN caseReports : Outcome(caseReports[i]) = "passed"
<1>1. pc = "reporting"
  BY DEF DeliveryInv, Delivery!DeliveryInit, Resolved
<1>2. deliveryFailures = <<>>
  BY DEF Final, Delivery!Returned, Delivery!BuildReport, BuildReport
<1>3. Final = Delivery!FirstReport
  BY <1>2 DEF Final, Delivery!Returned
<1>4. ~aborted /\ ~(Cardinality(Failed(caseReports)) > 0)
  <2>1. Delivery!Failed(caseReports) = Failed(caseReports)
    BY DEF Delivery!Failed, Failed, Delivery!Outcome, Outcome
  <2>2. Final.outcome =
          IF aborted THEN "aborted"
          ELSE IF \/ Delivery!Cardinality(Delivery!Failed(caseReports)) > 0
                  \/ suiteFailures # <<>> THEN "failed"
          ELSE "passed"
    BY <1>3 DEF Delivery!FirstReport, Delivery!BuildReport
  <2>3. QED BY <2>1, <2>2, SameCardinality
<1>5. Failed(caseReports) = {}
  <2>1. Len(caseReports) \in Nat /\ Failed(caseReports) \subseteq 1..Len(caseReports)
    BY DEF IInv, TypeInv, TypeOK, Failed
  <2>2. IsFiniteSet(1..Len(caseReports))
    BY <2>1, FS_Interval
  <2>3. IsFiniteSet(Failed(caseReports))
    BY <2>1, <2>2, FS_Subset
  <2>4. Cardinality(Failed(caseReports)) = 0
    BY <1>4, <2>3, FS_CardinalityType
  <2>5. QED BY <2>3, <2>4, FS_EmptySet
<1>6. \A i \in DOMAIN caseReports : Outcome(caseReports[i]) = "passed"
  BY <1>5 DEF Failed, Outcome
<1>7. QED BY <1>1, <1>2, <1>3, <1>4, <1>6

\* A passed verdict covers the whole suite and everyone it was told to: each
\* case ran on a fixture that is gone, each check was clean, and each reporter
\* took that report and no other (runner.ts:264-374).
THEOREM PassedCorrect == RunSpec => []PassedEndToEnd
<1>1. ASSUME IInv, FixtureOwnership, PassedMeansChecked, RunAccounting,
             DeliveryInv
      PROVE  PassedEndToEnd
  <2> SUFFICES ASSUME Resolved, Final.outcome = "passed"
               PROVE  /\ \A c \in Case : /\ creations[c] = 1
                                         /\ disposals[c] = 1
                                         /\ checks[c] = 1 + Postconditions[c]
                                         /\ mismatches[c] = <<>>
                      /\ \A r \in 1..NumReporters :
                            accepted[r] = <<Delivery!Kept(Final)>>
    BY DEF PassedEndToEnd
  <2>1. /\ pc = "reporting" /\ ~aborted /\ deliveryFailures = <<>>
        /\ Final = Delivery!FirstReport
        /\ \A i \in DOMAIN caseReports : Outcome(caseReports[i]) = "passed"
    BY <1>1, PassedReport
  <2>2. DOMAIN caseReports = Case /\ \A c \in Case : caseReports[c].case = c
    <3>1. Len(caseReports) = NumCases /\ caseReports \in Seq(CaseReport)
      BY <1>1, <2>1 DEF IInv, PositionInv, TypeInv, TypeOK
    <3>2. DOMAIN caseReports = Case
      BY <3>1 DEF Case
    <3>3. \A i \in DOMAIN caseReports : caseReports[i].case = i
      BY <1>1 DEF IInv, PositionInv
    <3>4. QED BY <3>2, <3>3
  <2>3. ASSUME NEW c \in Case
        PROVE  /\ creations[c] = 1 /\ disposals[c] = 1
               /\ checks[c] = 1 + Postconditions[c] /\ mismatches[c] = <<>>
    <3>1. creations[c] = 1 /\ disposals[c] = 1
      BY <1>1, <2>1, <2>2, NumCasesAssumption
      DEF IInv, LedgerInv, PositionInv, TypeInv, TypeOK, Case, InCase, Executing
    <3>2. checks[c] = 1 + Postconditions[c] /\ mismatches[c] = <<>>
      BY <1>1, <2>1, <2>2 DEF PassedMeansChecked
    <3>3. QED BY <3>1, <3>2
  <2>4. \A r \in 1..NumReporters : accepted[r] = <<Delivery!Kept(Final)>>
    BY <1>1, <2>1 DEF DeliveryInv, Resolved
  <2>5. QED BY <2>3, <2>4
<1>2. QED BY <1>1, RunInvariants, DeliveryInvariant, PTL

\* Neither the loop nor the delivery hides a defect, nor invents one: a run
\* is aborted exactly when its report has one (runner.ts:283-374).
THEOREM VerdictCorrect == RunSpec => []VerdictExplained
<1>1. ASSUME IInv, AbortedIffDefect, DeliveryInv PROVE VerdictExplained
  <2> SUFFICES ASSUME Resolved
               PROVE  Final.outcome = "aborted" <=>
                        \/ Final.failures # <<>>
                        \/ \E i \in DOMAIN Final.cases :
                              \E j \in DOMAIN Final.cases[i].failures :
                                 Final.cases[i].failures[j] = "framework-defect"
    BY DEF VerdictExplained
  <2>1. CASE deliveryFailures = <<>>
    <3>1. /\ Final.failures = suiteFailures /\ Final.cases = caseReports
          /\ Final.outcome = "aborted" <=> aborted
      BY <2>1 DEF Final, Delivery!Returned, Delivery!FirstReport,
                  Delivery!BuildReport, BuildReport
    <3>2. QED BY <1>1, <3>1 DEF AbortedIffDefect, DefectReported
  <2>2. CASE deliveryFailures # <<>>
    <3> DEFINE all == suiteFailures \o deliveryFailures \o correctionFailures
    <3>1. Final.outcome = "aborted" /\ Final.failures = all
      BY <2>2 DEF Final, Delivery!Returned, Delivery!BuildReport, BuildReport
    <3>2. /\ suiteFailures \in Seq(FailureCategory)
          /\ deliveryFailures \in Seq(FailureCategory)
          /\ correctionFailures \in Seq(FailureCategory)
      BY <1>1 DEF IInv, TypeInv, TypeOK, DeliveryInv, FailureCategory
    <3>3. Len(deliveryFailures) > 0
      BY <2>2, <3>2
    <3>4. Len(all) > 0
      BY <3>2, <3>3
    <3>5. all # <<>>
      BY <3>4
    <3>6. QED BY <3>1, <3>5
  <2>3. QED BY <2>1, <2>2
<1>2. QED BY <1>1, RunInvariants, DeliveryInvariant, PTL

\* Every reporter is called after the last disposal, and from the first call
\* on nothing it was handed changes (runner.ts:321-366).
THEOREM ReportingCorrect == RunSpec => ReportedOnceSettled
<1>1. ASSUME IInv, DeliveryInv, [RunNext]_runVars
      PROVE  [/\ calls' # calls => creations = disposals
              /\ (\E r \in 1..NumReporters : calls[r] > 0) =>
                    UNCHANGED <<creations, disposals,
                                total, caseReports, suiteFailures, aborted>>
             ]_runVars
  <2>1. ASSUME calls' # calls PROVE creations = disposals
    <3>1. DeliveryStep
      BY <1>1, <2>1 DEF RunNext, LoopStep, deliveryVars, runVars
    <3>2. \A c \in Case : creations[c] = disposals[c]
      BY <1>1, <3>1 DEF DeliveryStep, IInv, LedgerInv, InCase, Executing
    <3>3. QED BY <1>1, <3>2 DEF IInv, TypeInv, TypeOK
  <2>2. ASSUME NEW r \in 1..NumReporters, calls[r] > 0
        PROVE  UNCHANGED <<creations, disposals,
                           total, caseReports, suiteFailures, aborted>>
    <3>1. pc = "reporting"
      <4>1. SUFFICES ASSUME pc # "reporting" PROVE FALSE
        OBVIOUS
      <4>2. calls[r] = 0
        BY <1>1, <4>1 DEF DeliveryInv, Delivery!DeliveryInit, Delivery!Reporter
      <4>3. QED BY <2>2, <4>2
    <3>2. CASE LoopStep
      BY <3>1, <3>2, LoopEnded
    <3>3. CASE DeliveryStep
      BY <3>3, DeliveryReads DEF vars
    <3>4. CASE UNCHANGED runVars
      BY <3>4 DEF runVars, vars
    <3>5. QED BY <1>1, <3>2, <3>3, <3>4 DEF RunNext
  <2>3. QED BY <2>1, <2>2
<1>2. QED
  BY <1>1, RunInvariants, DeliveryInvariant, PTL DEF RunSpec, ReportedOnceSettled
=============================================================================
