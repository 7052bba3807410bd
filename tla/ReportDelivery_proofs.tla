------------------------ MODULE ReportDelivery_proofs ------------------------
(***************************************************************************)
(* Proofs about ReportDelivery, for every number of reporters and for      *)
(* whatever the run has found.                                             *)
(***************************************************************************)
EXTENDS ReportDelivery, SequenceTheorems, FiniteSetTheorems, TLAPS

LEMMA KeptType ==
  ASSUME TypeOK
  PROVE  /\ Kept(FirstReport) \in KeptReport
         /\ Kept(CorrectedReport) \in KeptReport
<1> DEFINE all == suiteFailures \o deliveryFailures
<1>1. all \in Seq(FailureCategory)
  BY DEF TypeOK, FailureCategory
<1>2. Kept(FirstReport).failures = suiteFailures
  BY DEF Kept, FirstReport, BuildReport
<1> QED
  BY <1>1 DEF TypeOK, Kept, KeptReport, FirstReport, CorrectedReport, BuildReport

\* The successful reporters are reporters.
LEMMA SuccessfulReporters ==
  ASSUME TypeOK
  PROVE  /\ Successful \subseteq Reporter
         /\ \A i \in DOMAIN successfulReporters :
               successfulReporters[i] \in Reporter
BY DEF TypeOK, Successful

\* What a call does to the books that are kept about the reporters.
LEMMA CallTypes ==
  ASSUME TypeOK, NEW r \in Reporter,
         NEW report,
         Kept(report) \in KeptReport,
         Takes(r, report) \/ Throws(r)
  PROVE  /\ accepted' \in [Reporter -> Seq(KeptReport)]
         /\ calls' \in [Reporter -> Nat]
<1> DEFINE kept == Kept(report)
<1>1. calls' \in [Reporter -> Nat]
  <2>1. calls' = [calls EXCEPT ![r] = @ + 1]
    BY Zenon DEF Takes, Throws
  <2>2. calls \in [Reporter -> Nat]
    BY DEF TypeOK
  <2>3. QED BY <2>1, <2>2
<1>2. CASE UNCHANGED accepted
  BY <1>1, <1>2 DEF TypeOK
<1>3. CASE accepted' = [accepted EXCEPT ![r] = Append(@, kept)]
  <2>1. kept \in KeptReport
    OBVIOUS
  <2> HIDE DEF kept
  <2>2. accepted[r] \in Seq(KeptReport)
    BY DEF TypeOK
  <2>3. Append(accepted[r], kept) \in Seq(KeptReport)
    BY <2>1, <2>2
  <2>4. QED BY <1>1, <1>3, <2>3 DEF TypeOK
<1>4. QED BY <1>2, <1>3 DEF Takes, Throws

-----------------------------------------------------------------------------
(* The inductive invariant.                                                *)

LEMMA IInvInit == Init => IInv
<1> SUFFICES ASSUME Init PROVE IInv
  OBVIOUS
<1>1. TypeOK
  BY RunsAssumption DEF Init, DeliveryInit, TypeOK, RunResult
<1>2. LoopInv
  BY NumReportersAssumption DEF Init, DeliveryInit, LoopInv
<1>3. Successful = {}
  BY DEF Init, DeliveryInit, Successful
<1>4. SuccessfulInv
  BY <1>3 DEF Init, DeliveryInit, SuccessfulInv, Called, Reporter
<1>5. LedgerInv
  BY <1>3 DEF Init, DeliveryInit, LedgerInv, Called, Reporter
<1>6. QED BY <1>1, <1>2, <1>4, <1>5 DEF IInv

\* A reporter that takes the first report joins the successful ones.
LEMMA ReporterTakesStep == ASSUME IInv, ReporterTakes PROVE IInv'
<1> USE NumReportersAssumption
<1>0. /\ next \in Reporter /\ stage = "delivering" /\ stage' = stage
      /\ next' = next + 1
      /\ UNCHANGED <<runVars, deliveryFailures, correctionFailures>>
      /\ Takes(next, FirstReport)
  BY DEF ReporterTakes, IInv, TypeOK, Reporter
<1>1. /\ successfulReporters' = Append(successfulReporters, next)
      /\ Len(successfulReporters') = Len(successfulReporters) + 1
      /\ \A i \in DOMAIN successfulReporters :
            successfulReporters'[i] = successfulReporters[i]
      /\ successfulReporters'[Len(successfulReporters) + 1] = next
      /\ DOMAIN successfulReporters' =
            DOMAIN successfulReporters \cup {Len(successfulReporters) + 1}
      /\ Len(successfulReporters) + 1 \notin DOMAIN successfulReporters
  BY DEF ReporterTakes, IInv, TypeOK
<1>2. Successful' = Successful \cup {next}
  BY <1>1 DEF Successful
<1>3. \A r \in Reporter : Called(r)' <=> Called(r) \/ r = next
  BY <1>0 DEF Called, Reporter, IInv, TypeOK
<1>4. next \notin Successful
  BY <1>0 DEF IInv, SuccessfulInv, Called, Reporter
<1>5. Kept(FirstReport)' = Kept(FirstReport)
  BY <1>0 DEF runVars, FirstReport, BuildReport, Kept, Failed, Outcome
<1>6. TypeOK'
  <2>1. /\ accepted' \in [Reporter -> Seq(KeptReport)]
        /\ calls' \in [Reporter -> Nat]
    BY <1>0, KeptType, CallTypes DEF IInv
  <2>2. successfulReporters' \in Seq(Reporter)
    BY <1>0, <1>1 DEF IInv, TypeOK
  <2>3. QED BY <1>0, <2>1, <2>2 DEF IInv, TypeOK, runVars
<1>7. LoopInv'
  BY <1>0 DEF IInv, LoopInv, Reporter
<1>8. SuccessfulInv'
  <2>1. \A i, j \in DOMAIN successfulReporters' :
           successfulReporters'[i] = successfulReporters'[j] => i = j
    BY <1>1, <1>4 DEF IInv, SuccessfulInv, Successful
  <2>2. \A r \in Successful' : Called(r)'
    BY <1>0, <1>2, <1>3, SuccessfulReporters DEF IInv, SuccessfulInv
  <2>3. deliveryFailures' = <<>>
           => \A r \in Reporter : Called(r)' => r \in Successful'
    BY <1>0, <1>2, <1>3 DEF IInv, SuccessfulInv
  <2>4. QED BY <2>1, <2>2, <2>3 DEF SuccessfulInv
<1>9. LedgerInv'
  <2>1. \A r \in Reporter : ~Corrected(r) /\ ~Corrected(r)'
    BY <1>0 DEF Corrected
  <2>2. \A r \in Reporter \ {next} :
           accepted'[r] = accepted[r] /\ calls'[r] = calls[r]
    BY <1>0 DEF Takes, IInv, TypeOK
  <2>3. ~Called(next)
    BY <1>0 DEF Called, Reporter
  <2>4. accepted'[next] = <<Kept(FirstReport)>> /\ calls'[next] = 1
    <3> DEFINE kept == Kept(FirstReport)
    <3> HIDE DEF kept
    <3>1. accepted[next] = <<>> /\ calls[next] = 0
      BY <1>0, <2>3 DEF IInv, LedgerInv
    <3>2. /\ accepted' = [accepted EXCEPT ![next] = Append(@, kept)]
          /\ calls' = [calls EXCEPT ![next] = @ + 1]
      BY <1>0 DEF Takes, kept
    <3>3. accepted'[next] = <<kept>> /\ calls'[next] = 1
      BY <1>0, <3>1, <3>2 DEF IInv, TypeOK
    <3>4. QED BY <3>3 DEF kept
  <2>5. ASSUME NEW r \in Reporter
        PROVE  /\ ~Called(r)' => accepted'[r] = <<>> /\ calls'[r] = 0
               /\ Called(r)' /\ r \notin Successful'
                     => accepted'[r] = <<>> /\ calls'[r] = 1
               /\ r \in Successful' =>
                     accepted'[r] = <<Kept(FirstReport)>> /\ calls'[r] = 1
    BY <1>2, <1>3, <2>1, <2>2, <2>4 DEF IInv, LedgerInv
  <2>6. QED BY <1>5, <2>1, <2>5 DEF LedgerInv
<1>10. QED BY <1>6, <1>7, <1>8, <1>9 DEF IInv

\* A reporter that throws is not among them, and the failure is on record.
LEMMA ReporterThrowsStep == ASSUME IInv, ReporterThrows PROVE IInv'
<1> USE NumReportersAssumption
<1>0. /\ next \in Reporter /\ stage = "delivering" /\ stage' = stage
      /\ next' = next + 1
      /\ UNCHANGED <<runVars, successfulReporters, correctionFailures>>
      /\ deliveryFailures' = Append(deliveryFailures, "framework-defect")
      /\ Throws(next)
  BY DEF ReporterThrows, IInv, TypeOK, Reporter
<1>1. Successful' = Successful /\ next \notin Successful
  <2>1. Successful' = Successful
    BY <1>0 DEF Successful
  <2>2. ~Called(next)
    BY <1>0 DEF Called, Reporter
  <2>3. QED BY <2>1, <2>2 DEF IInv, SuccessfulInv
<1>2. \A r \in Reporter : Called(r)' <=> Called(r) \/ r = next
  BY <1>0 DEF Called, Reporter, IInv, TypeOK
<1>3. Kept(FirstReport)' = Kept(FirstReport)
  BY <1>0 DEF runVars, FirstReport, BuildReport, Kept, Failed, Outcome
<1>4. deliveryFailures' # <<>> /\ deliveryFailures' \in Seq({"framework-defect"})
  <2>1. deliveryFailures \in Seq({"framework-defect"})
    BY DEF IInv, TypeOK
  <2>2. Len(deliveryFailures') = Len(deliveryFailures) + 1
    BY <1>0, <2>1
  <2>3. QED BY <1>0, <2>1, <2>2
<1>5. TypeOK'
  <2>1. /\ accepted' \in [Reporter -> Seq(KeptReport)]
        /\ calls' \in [Reporter -> Nat]
    BY <1>0, KeptType, CallTypes DEF IInv
  <2>2. QED BY <1>0, <1>4, <2>1 DEF IInv, TypeOK, runVars
<1>6. LoopInv'
  BY <1>0 DEF IInv, LoopInv, Reporter
<1>7. SuccessfulInv'
  BY <1>0, <1>1, <1>2, <1>4, SuccessfulReporters DEF IInv, SuccessfulInv
<1>8. LedgerInv'
  <2>1. \A r \in Reporter : ~Corrected(r) /\ ~Corrected(r)'
    BY <1>0 DEF Corrected
  <2>2. /\ accepted' = accepted
        /\ \A r \in Reporter \ {next} : calls'[r] = calls[r]
        /\ calls'[next] = calls[next] + 1
    BY <1>0 DEF Throws, IInv, TypeOK
  <2>3. accepted[next] = <<>> /\ calls[next] = 0
    BY <1>0 DEF IInv, LedgerInv, Called, Reporter
  <2>4. QED BY <1>1, <1>2, <1>3, <2>1, <2>2, <2>3 DEF IInv, LedgerInv
<1>9. QED BY <1>5, <1>6, <1>7, <1>8 DEF IInv

\* When the first loop is over every reporter was called, none a second time.
LEMMA EndDeliveryStep == ASSUME IInv, EndDelivery PROVE IInv'
<1> USE NumReportersAssumption
<1>1. /\ \A r \in Reporter : Called(r) /\ Called(r)'
      /\ \A r \in Reporter : ~Corrected(r)
      /\ Successful' = Successful
  BY DEF EndDelivery, Called, Corrected, Successful, Reporter, IInv, TypeOK
<1>2. \A r \in Reporter : ~Corrected(r)'
  BY DEF EndDelivery, Corrected, IInv, TypeOK
<1>3. Kept(FirstReport)' = Kept(FirstReport)
  BY DEF EndDelivery, runVars, FirstReport, BuildReport, Kept, Failed, Outcome
<1>4. TypeOK'
  BY DEF EndDelivery, IInv, TypeOK, runVars
<1>5. LoopInv'
  BY DEF EndDelivery, IInv, TypeOK, LoopInv
<1>6. SuccessfulInv'
  BY <1>1, SuccessfulReporters DEF EndDelivery, IInv, SuccessfulInv
<1>7. LedgerInv'
  BY <1>1, <1>2, <1>3 DEF EndDelivery, IInv, LedgerInv
<1>8. QED BY <1>4, <1>5, <1>6, <1>7 DEF IInv

\* The reporter that a correction is sent to was successful, has not had one,
\* and has had it when the loop moves on.
LEMMA NextCorrected ==
  ASSUME IInv, stage = "correcting", next <= Len(successfulReporters),
         next' = next + 1,
         UNCHANGED <<runVars, stage, deliveryFailures, successfulReporters>>
  PROVE  /\ successfulReporters[next] \in Successful
         /\ ~Corrected(successfulReporters[next])
         /\ \A r \in Reporter : /\ Called(r) /\ Called(r)'
                                /\ r \in Successful <=> r \in Successful'
         /\ \A r \in Reporter :
               Corrected(r)' <=> Corrected(r) \/ r = successfulReporters[next]
         /\ Kept(FirstReport)' = Kept(FirstReport)
         /\ Kept(CorrectedReport)' = Kept(CorrectedReport)
<1>1. next \in DOMAIN successfulReporters
  BY DEF IInv, TypeOK
<1>2. successfulReporters[next] \in Successful
  BY <1>1 DEF Successful
<1>3. ~Corrected(successfulReporters[next])
  BY <1>1 DEF Corrected, IInv, SuccessfulInv, TypeOK
<1>4. \A r \in Reporter : /\ Called(r) /\ Called(r)'
                          /\ r \in Successful <=> r \in Successful'
  BY DEF Called, Successful
<1>5. \A r \in Reporter :
         Corrected(r)' <=> Corrected(r) \/ r = successfulReporters[next]
  BY <1>1 DEF Corrected, IInv, TypeOK
<1>6. /\ Kept(FirstReport)' = Kept(FirstReport)
      /\ Kept(CorrectedReport)' = Kept(CorrectedReport)
  BY DEF runVars, FirstReport, CorrectedReport, BuildReport, Kept, Failed,
         Outcome
<1>7. QED BY <1>2, <1>3, <1>4, <1>5, <1>6

LEMMA AppendToOne == ASSUME NEW a, NEW b PROVE Append(<<a>>, b) = <<a, b>>
<1> DEFINE pair == Append(<<a>>, b)
<1>1. <<a>> \in Seq({a, b}) /\ Len(<<a>>) = 1 /\ <<a>>[1] = a
  OBVIOUS
<1>2. /\ pair \in Seq({a, b})
      /\ Len(pair) = 2
      /\ pair[1] = a
      /\ pair[2] = b
  BY <1>1, AppendProperties
<1> HIDE DEF pair
<1>3. DOMAIN pair = 1..2 /\ pair = [i \in 1..2 |-> pair[i]]
  BY <1>2
<1>4. <<a, b>> = [i \in 1..2 |-> IF i = 1 THEN a ELSE b]
  OBVIOUS
<1>5. pair = <<a, b>>
  BY <1>2, <1>3, <1>4
<1>6. QED BY <1>5 DEF pair

\* One correction, taken or refused, is booked for the reporter it went to.
LEMMA CorrectionLedger ==
  ASSUME IInv, stage = "correcting", next <= Len(successfulReporters),
         next' = next + 1,
         UNCHANGED <<runVars, stage, deliveryFailures, successfulReporters>>,
         \/ Takes(successfulReporters[next], CorrectedReport)
         \/ Throws(successfulReporters[next])
  PROVE  /\ LedgerInv'
         /\ accepted' \in [Reporter -> Seq(KeptReport)]
         /\ calls' \in [Reporter -> Nat]
<1> DEFINE to    == successfulReporters[next]
           first == Kept(FirstReport)
           again == Kept(CorrectedReport)
<1>0. /\ to \in Successful
      /\ ~Corrected(to)
      /\ \A r \in Reporter : /\ Called(r) /\ Called(r)'
                             /\ r \in Successful <=> r \in Successful'
                             /\ Corrected(r)' <=> Corrected(r) \/ r = to
  BY NextCorrected
<1>1. to \in Reporter
  BY <1>0, SuccessfulReporters DEF IInv
<1>2. accepted[to] = <<first>> /\ calls[to] = 1
  BY <1>0, <1>1 DEF IInv, LedgerInv
<1>3. \/ accepted' = [accepted EXCEPT ![to] = Append(@, again)]
      \/ accepted' = accepted
  BY Zenon DEF Takes, Throws
<1>4. calls' = [calls EXCEPT ![to] = @ + 1]
  BY Zenon DEF Takes, Throws
<1>5. accepted' \in [Reporter -> Seq(KeptReport)] /\ calls' \in [Reporter -> Nat]
  BY <1>1, KeptType, CallTypes DEF IInv
<1>6. /\ \A r \in Reporter \ {to} :
            accepted'[r] = accepted[r] /\ calls'[r] = calls[r]
      /\ accepted'[to] \in {<<first>>, <<first, again>>}
      /\ calls'[to] = 2
  <2> HIDE DEF to, first, again
  <2>1. calls'[to] = 2
    BY <1>1, <1>2, <1>4 DEF IInv, TypeOK
  <2>2. accepted'[to] \in {<<first>>, <<first, again>>}
    <3>1. CASE accepted' = [accepted EXCEPT ![to] = Append(@, again)]
      <4>1. accepted'[to] = Append(<<first>>, again)
        BY <1>1, <1>2, <3>1 DEF IInv, TypeOK
      <4>2. QED BY <4>1, AppendToOne
    <3>2. CASE accepted' = accepted
      BY <1>2, <3>2
    <3>3. QED BY <1>3, <3>1, <3>2
  <2>3. \A r \in Reporter \ {to} :
           accepted'[r] = accepted[r] /\ calls'[r] = calls[r]
    BY <1>1, <1>3, <1>4 DEF IInv, TypeOK
  <2>4. QED BY <2>1, <2>2, <2>3
<1>7. LedgerInv'
  <2>1. ASSUME NEW r \in Reporter
        PROVE  /\ Called(r)'
               /\ r \notin Successful' => accepted'[r] = <<>> /\ calls'[r] = 1
               /\ r \in Successful' /\ ~Corrected(r)' =>
                     accepted'[r] = <<first>> /\ calls'[r] = 1
               /\ r \in Successful' /\ Corrected(r)' =>
                     /\ accepted'[r] \in {<<first>>, <<first, again>>}
                     /\ calls'[r] = 2
    <3>1. CASE r = to
      <4>1. Called(r)' /\ r \in Successful' /\ Corrected(r)'
        BY <3>1, <1>0, <1>1
      <4> HIDE DEF to, first, again
      <4>2. QED BY <3>1, <4>1, <1>6
    <3>2. CASE r # to
      <4>1. /\ Called(r)
            /\ Called(r)'
            /\ r \in Successful' <=> r \in Successful
            /\ Corrected(r)' <=> Corrected(r)
        BY <3>2, <1>0
      <4>2. accepted'[r] = accepted[r] /\ calls'[r] = calls[r]
        BY <3>2, <1>6
      <4> HIDE DEF to
      <4>3. QED BY <4>1, <4>2 DEF IInv, LedgerInv
    <3>3. QED BY <3>1, <3>2
  <2>2. QED BY <2>1, NextCorrected DEF LedgerInv
<1>8. QED BY <1>5, <1>7

LEMMA CorrectionStep ==
  ASSUME IInv, CorrectionTaken \/ CorrectionThrows PROVE IInv'
<1>1. /\ stage = "correcting" /\ next <= Len(successfulReporters)
      /\ next' = next + 1
      /\ UNCHANGED <<runVars, stage, deliveryFailures, successfulReporters>>
      /\ \/ Takes(successfulReporters[next], CorrectedReport)
         \/ Throws(successfulReporters[next])
  BY DEF CorrectionTaken, CorrectionThrows
<1>2. correctionFailures' \in Seq({"framework-defect"})
  <2>1. correctionFailures \in Seq({"framework-defect"})
    BY DEF IInv, TypeOK
  <2>2. \/ correctionFailures' = Append(correctionFailures, "framework-defect")
        \/ correctionFailures' = correctionFailures
    BY DEF CorrectionTaken, CorrectionThrows
  <2>3. QED BY <2>1, <2>2
<1>3. /\ LedgerInv'
      /\ accepted' \in [Reporter -> Seq(KeptReport)]
      /\ calls' \in [Reporter -> Nat]
  BY <1>1, CorrectionLedger
<1>4. TypeOK'
  BY <1>1, <1>2, <1>3 DEF IInv, TypeOK, runVars
<1>5. LoopInv'
  BY <1>1 DEF IInv, TypeOK, LoopInv
<1>6. SuccessfulInv'
  BY <1>1 DEF IInv, SuccessfulInv, Successful, Called
<1>7. QED BY <1>3, <1>4, <1>5, <1>6 DEF IInv

LEMMA EndCorrectionStep == ASSUME IInv, EndCorrection PROVE IInv'
<1>1. /\ stage = "correcting" /\ stage' = "returned"
      /\ next > Len(successfulReporters)
      /\ UNCHANGED <<runVars, next, deliveryFailures, successfulReporters,
                     correctionFailures, accepted, calls>>
  BY DEF EndCorrection
<1>2. /\ Kept(FirstReport)' = Kept(FirstReport)
      /\ Kept(CorrectedReport)' = Kept(CorrectedReport)
  BY <1>1 DEF runVars, FirstReport, CorrectedReport, BuildReport, Kept, Failed,
              Outcome
<1>3. TypeOK'
  BY <1>1 DEF IInv, TypeOK, runVars
<1>4. LoopInv'
  BY <1>1 DEF IInv, TypeOK, LoopInv
<1>5. SuccessfulInv'
  BY <1>1 DEF IInv, SuccessfulInv, Successful, Called
<1>6. LedgerInv'
  BY <1>1, <1>2 DEF IInv, LedgerInv, Successful, Called, Corrected
<1>7. QED BY <1>3, <1>4, <1>5, <1>6 DEF IInv

LEMMA StutterStep == ASSUME IInv, UNCHANGED vars PROVE IInv'
<1>1. /\ Kept(FirstReport)' = Kept(FirstReport)
      /\ Kept(CorrectedReport)' = Kept(CorrectedReport)
  BY DEF vars, runVars, FirstReport, CorrectedReport, BuildReport, Kept, Failed,
         Outcome
<1>2. TypeOK'
  BY DEF IInv, TypeOK, vars, runVars
<1>3. LoopInv'
  BY DEF IInv, LoopInv, vars
<1>4. SuccessfulInv'
  BY DEF IInv, SuccessfulInv, Successful, Called, vars
<1>5. LedgerInv'
  BY <1>1 DEF IInv, LedgerInv, Successful, Called, Corrected, vars
<1>6. QED BY <1>2, <1>3, <1>4, <1>5 DEF IInv

LEMMA IInvNext == IInv /\ [Next]_vars => IInv'
<1> SUFFICES ASSUME IInv, [Next]_vars PROVE IInv'
  OBVIOUS
<1>1. CASE ReporterTakes
  BY <1>1, ReporterTakesStep
<1>2. CASE ReporterThrows
  BY <1>2, ReporterThrowsStep
<1>3. CASE EndDelivery
  BY <1>3, EndDeliveryStep
<1>4. CASE CorrectionTaken \/ CorrectionThrows
  BY <1>4, CorrectionStep
<1>5. CASE EndCorrection
  BY <1>5, EndCorrectionStep
<1>6. CASE UNCHANGED vars
  BY <1>6, StutterStep
<1>7. QED
  BY <1>1, <1>2, <1>3, <1>4, <1>5, <1>6 DEF Next, Delivers, Finished

LEMMA IInvAlways == Spec => []IInv
BY IInvInit, IInvNext, PTL DEF Spec
-----------------------------------------------------------------------------
(* The theorems.                                                           *)

\* Every variable of the delivery keeps its type.
THEOREM TypeCorrect == Spec => []TypeOK
<1>1. IInv => TypeOK
  BY DEF IInv
<1>2. QED BY <1>1, IInvAlways, PTL

\* A run that returns passed or failed returns what every one of its reporters
\* took, in the only call each of them got (runner.ts:338-374).
THEOREM AgreementCorrect == Spec => []AgreementUnlessAborted
<1>1. ASSUME IInv PROVE AgreementUnlessAborted
  <2> SUFFICES ASSUME stage = "returned", Returned.outcome # "aborted",
                      NEW r \in Reporter
               PROVE  accepted[r] = <<Kept(Returned)>> /\ calls[r] = 1
    BY DEF AgreementUnlessAborted
  <2>1. deliveryFailures = <<>>
    BY DEF Returned, BuildReport
  <2>2. Returned = FirstReport
    BY <2>1 DEF Returned
  <2>3. r \in Successful /\ ~Corrected(r)
    <3>1. Called(r)
      BY DEF Called
    <3>2. r \in Successful
      BY <2>1, <3>1, <1>1 DEF IInv, SuccessfulInv
    <3>3. next = 1
      BY <2>1, <1>1 DEF IInv, LoopInv
    <3>4. ~Corrected(r)
      BY <3>3, <1>1 DEF Corrected, IInv, TypeOK
    <3>5. QED BY <3>2, <3>4
  <2>4. QED BY <2>2, <2>3, <1>1 DEF IInv, LedgerInv
<1>2. QED BY <1>1, IInvAlways, PTL

\* What a reporter is left with when a run whose delivery failed returns.
LEMMA CorrectedKept ==
  ASSUME IInv, stage = "returned", deliveryFailures # <<>>,
         NEW r \in Reporter, Refusals(r) = 0
  PROVE  accepted[r] = <<Kept(FirstReport), Kept(CorrectedReport)>>
<1>1. Called(r)
  BY DEF Called
<1>2. r \in Successful
  <2>1. r \notin Successful => accepted[r] = <<>> /\ calls[r] = 1
    BY <1>1 DEF IInv, LedgerInv
  <2>2. QED BY <2>1 DEF Refusals
<1>3. next = Len(successfulReporters) + 1
  BY DEF IInv, LoopInv
<1>4. Corrected(r)
  BY <1>2, <1>3 DEF Corrected, Successful, IInv, TypeOK
<1>5. /\ accepted[r] \in {<<Kept(FirstReport)>>,
                          <<Kept(FirstReport), Kept(CorrectedReport)>>}
      /\ calls[r] = 2
  BY <1>2, <1>4 DEF IInv, LedgerInv
<1> DEFINE first == Kept(FirstReport)
           again == Kept(CorrectedReport)
<1> HIDE DEF first, again
<1>6. accepted[r] # <<first>>
  BY <1>5 DEF Refusals
<1>7. QED BY <1>5, <1>6 DEF first, again

\* Every reporter that never threw ends with the outcome that is returned, and
\* with a prefix of the failures that are (runner.ts:350-372).
THEOREM NoneStale == Spec => []NoStaleReporter
<1>1. ASSUME IInv PROVE NoStaleReporter
  <2> SUFFICES ASSUME stage = "returned", NEW r \in Reporter, Refusals(r) = 0
               PROVE  /\ accepted[r] # <<>>
                      /\ LastKept(r).outcome = Returned.outcome
                      /\ \E n \in 0..Len(Returned.failures) :
                            LastKept(r).failures =
                               SubSeq(Returned.failures, 1, n)
    BY DEF NoStaleReporter
  <2>1. CASE deliveryFailures = <<>>
    <3>1. Returned = FirstReport
      BY <2>1 DEF Returned
    <3>2. Called(r)
      BY DEF Called
    <3>3. r \in Successful
      BY <2>1, <3>2, <1>1 DEF IInv, SuccessfulInv
    <3>4. ~Corrected(r)
      BY <2>1, <1>1 DEF Corrected, IInv, LoopInv, TypeOK
    <3>5. accepted[r] = <<Kept(FirstReport)>>
      BY <3>3, <3>4, <1>1 DEF IInv, LedgerInv
    <3>6. LastKept(r) = Kept(FirstReport)
      BY <3>5 DEF LastKept
    <3>7. /\ LastKept(r).outcome = Returned.outcome
          /\ LastKept(r).failures = suiteFailures
          /\ Returned.failures = suiteFailures
      BY <3>1, <3>6 DEF Kept, FirstReport, BuildReport
    <3>8. SubSeq(suiteFailures, 1, Len(suiteFailures)) = suiteFailures
      BY <1>1 DEF IInv, TypeOK
    <3>9. Len(suiteFailures) \in 0..Len(suiteFailures)
      BY <1>1 DEF IInv, TypeOK
    <3>10. accepted[r] # <<>>
      BY <3>5
    <3>11. QED BY <3>7, <3>8, <3>9, <3>10
  <2>2. CASE deliveryFailures # <<>>
    <3> DEFINE sent == suiteFailures \o deliveryFailures
               all  == sent \o correctionFailures
    <3>1. accepted[r] = <<Kept(FirstReport), Kept(CorrectedReport)>>
      BY <2>2, <1>1, CorrectedKept
    <3>2. accepted[r] # <<>> /\ LastKept(r) = Kept(CorrectedReport)
      BY <3>1 DEF LastKept
    <3>3. /\ LastKept(r).outcome = "aborted"
          /\ LastKept(r).failures = sent
      BY <3>2 DEF Kept, CorrectedReport, BuildReport
    <3>4. Returned.outcome = "aborted" /\ Returned.failures = all
      BY <2>2 DEF Returned, BuildReport
    <3>5. /\ sent \in Seq(FailureCategory)
          /\ correctionFailures \in Seq(FailureCategory)
      <4>1. {"framework-defect"} \subseteq FailureCategory
        BY DEF FailureCategory
      <4>2. QED BY <4>1, <1>1 DEF IInv, TypeOK
    <3> HIDE DEF sent
    <3>6. /\ SubSeq(all, 1, Len(sent)) = sent
          /\ Len(sent) \in 0..Len(all)
      <4>1. all \in Seq(FailureCategory) /\ Len(all) = Len(sent) + Len(correctionFailures)
        BY <3>5
      <4>2. \A i \in 1..Len(sent) : all[i] = sent[i]
        BY <3>5
      <4>3. QED BY <3>5, <4>1, <4>2
    <3>7. QED BY <3>2, <3>3, <3>4, <3>6
  <2>3. QED BY <2>1, <2>2
<1>2. QED BY <1>1, IInvAlways, PTL

\* A reporter that threw is left alone, and none is called a third time
\* (runner.ts:350-366).
THEOREM RefusersLeftAlone == Spec => NotCalledAfterRefusal
<1> DEFINE Bounded == \A r \in Reporter :
                         /\ Refusals(r) > 0 => calls'[r] = calls[r]
                         /\ calls'[r] <= 2
<1>1. ASSUME IInv, [Next]_vars PROVE Bounded
  <2>1. \A r \in Reporter : calls'[r] <= 2
    <3>1. IInv'
      BY <1>1, IInvNext
    <3>2. \A r \in Reporter : calls'[r] \in {0, 1, 2}
      BY <3>1 DEF IInv, LedgerInv
    <3>3. QED BY <3>2
  <2>2. ASSUME NEW r \in Reporter, Refusals(r) > 0 PROVE calls'[r] = calls[r]
    <3>1. Called(r) /\ (r \in Successful => Corrected(r))
      <4> DEFINE first == Kept(FirstReport)
      <4>1. /\ ~Called(r) => accepted[r] = <<>> /\ calls[r] = 0
            /\ r \in Successful /\ ~Corrected(r) =>
                  accepted[r] = <<first>> /\ calls[r] = 1
        BY <1>1 DEF IInv, LedgerInv
      <4> HIDE DEF first
      <4>2. CASE ~Called(r)
        BY <2>2, <4>1, <4>2 DEF Refusals
      <4>3. CASE r \in Successful /\ ~Corrected(r)
        <5>1. accepted[r] = <<first>> /\ calls[r] = 1
          BY <4>1, <4>3
        <5>2. Len(accepted[r]) = 1
          BY <5>1
        <5>3. Refusals(r) = 0
          BY <5>1, <5>2 DEF Refusals
        <5>4. QED BY <2>2, <5>3
      <4>4. QED BY <4>2, <4>3
    <3>2. CASE ReporterTakes \/ ReporterThrows
      BY <1>1, <3>1, <3>2
         DEF ReporterTakes, ReporterThrows, Takes, Throws, Called, IInv, TypeOK
    <3>3. CASE CorrectionTaken \/ CorrectionThrows
      <4>1. /\ stage = "correcting" /\ next <= Len(successfulReporters)
            /\ next' = next + 1
            /\ UNCHANGED <<runVars, stage, deliveryFailures,
                           successfulReporters>>
            /\ calls' = [calls EXCEPT ![successfulReporters[next]] = @ + 1]
        BY <3>3 DEF CorrectionTaken, CorrectionThrows, Takes, Throws
      <4>2. /\ successfulReporters[next] \in Successful
            /\ ~Corrected(successfulReporters[next])
        BY <1>1, <4>1, NextCorrected
      <4>3. r # successfulReporters[next]
        BY <3>1, <4>2
      <4>4. QED BY <1>1, <4>1, <4>3 DEF IInv, TypeOK
    <3>4. CASE UNCHANGED calls
      BY <3>4
    <3>5. QED
      BY <1>1, <3>2, <3>3, <3>4
         DEF Next, Delivers, Finished, EndDelivery, EndCorrection, vars
  <2>3. QED BY <2>1, <2>2
<1>2. QED BY <1>1, IInvAlways, PTL DEF Spec, NotCalledAfterRefusal

-----------------------------------------------------------------------------
(* Counting the refusals.                                                  *)

\* A call that is taken is not a refusal.
LEMMA TakenIsNoRefusal ==
  ASSUME TypeOK, NEW r \in Reporter, NEW report, Takes(r, report),
         Kept(report) \in KeptReport
  PROVE  Refused' = Refused
<1> DEFINE kept == Kept(report)
<1>1. accepted' = [accepted EXCEPT ![r] = Append(@, kept)]
  BY DEF Takes
<1>2. calls' = [calls EXCEPT ![r] = @ + 1]
  BY Zenon DEF Takes
<1>3. kept \in KeptReport
  OBVIOUS
<1> HIDE DEF kept
<1>4. Len(Append(accepted[r], kept)) = Len(accepted[r]) + 1
  BY <1>3 DEF TypeOK
<1>5. \A q \in Reporter : Refusals(q)' = Refusals(q)
  <2> SUFFICES ASSUME NEW q \in Reporter PROVE Refusals(q)' = Refusals(q)
    OBVIOUS
  <2>1. accepted[q] \in Seq(KeptReport) /\ calls[q] \in Nat
    BY DEF TypeOK
  <2>2. Len(accepted[q]) \in Nat
    BY <2>1
  <2>3. CASE q = r
    <3>1. accepted'[q] = Append(accepted[q], kept) /\ calls'[q] = calls[q] + 1
      BY <1>1, <1>2, <2>3 DEF TypeOK
    <3>2. Len(accepted'[q]) = Len(accepted[q]) + 1
      BY <1>4, <2>3, <3>1
    <3>3. QED BY <2>1, <2>2, <3>1, <3>2 DEF Refusals
  <2>4. CASE q # r
    <3>1. accepted'[q] = accepted[q] /\ calls'[q] = calls[q]
      BY <1>1, <1>2, <2>4 DEF TypeOK
    <3>2. QED BY <3>1 DEF Refusals
  <2>5. QED BY <2>3, <2>4
<1>6. QED BY <1>5 DEF Refused

\* A reporter that refuses a call for the first time adds one refusal.
LEMMA ThrownIsRefusal ==
  ASSUME TypeOK, NEW r \in Reporter, Throws(r), Refusals(r) = 0
  PROVE  Cardinality(Refused') = Cardinality(Refused) + 1
<1>1. \A q \in Reporter :
         Refusals(q)' = IF q = r THEN 1 ELSE Refusals(q)
  <2> SUFFICES ASSUME NEW q \in Reporter
               PROVE  Refusals(q)' = IF q = r THEN 1 ELSE Refusals(q)
    OBVIOUS
  <2>1. accepted[q] \in Seq(KeptReport) /\ calls[q] \in Nat
    BY DEF TypeOK
  <2>2. Len(accepted[q]) \in Nat
    BY <2>1
  <2>3. accepted' = accepted /\ calls'[q] = IF q = r THEN calls[q] + 1 ELSE calls[q]
    BY DEF Throws, TypeOK
  <2>4. QED BY <2>1, <2>2, <2>3 DEF Refusals
<1>2. Refused' = Refused \cup {<<r, 1>>}
  <2>1. Refused \subseteq Reporter \X (1..2) /\ Refused' \subseteq Reporter \X (1..2)
    BY DEF Refused
  <2>2. <<r, 1>> \in Reporter \X (1..2)
    OBVIOUS
  <2>3. ASSUME NEW z \in Reporter \X (1..2)
        PROVE  z \in Refused' <=> z \in Refused \/ z = <<r, 1>>
    <3>1. PICK q \in Reporter, n \in 1..2 : z = <<q, n>>
      OBVIOUS
    <3>2. z[1] = q /\ z[2] = n
      BY <3>1
    <3>3. z \in Refused <=> n <= Refusals(q)
      BY <3>2 DEF Refused
    <3>4. z \in Refused' <=> n <= Refusals(q)'
      BY <3>2 DEF Refused
    <3>5. CASE q = r
      <4>1. (z = <<r, 1>>) <=> n = 1
        BY <3>1, <3>5
      <4>2. Refusals(q)' = 1 /\ Refusals(q) = 0
        BY <1>1, <3>5
      <4>3. QED BY <3>3, <3>4, <4>1, <4>2
    <3>6. CASE q # r
      <4>1. z # <<r, 1>>
        BY <3>1, <3>6
      <4>2. Refusals(q)' = Refusals(q)
        BY <1>1, <3>6
      <4>3. QED BY <3>3, <3>4, <4>1, <4>2
    <3>7. QED BY <3>5, <3>6
  <2>4. QED BY <2>1, <2>2, <2>3
<1>3. <<r, 1>> \notin Refused
  BY DEF Refused
<1>4. IsFiniteSet(Refused)
  <2>1. IsFiniteSet(Reporter) /\ IsFiniteSet(1..2)
    <3>1. \A n \in Nat : IsFiniteSet(1..n)
      BY FS_Interval
    <3>2. QED BY <3>1, NumReportersAssumption DEF Reporter
  <2>2. IsFiniteSet(Reporter \X (1..2))
    BY <2>1, FS_Product
  <2>3. QED BY <2>2, FS_Subset DEF Refused
<1>5. QED BY <1>2, <1>3, <1>4, FS_AddElement

LEMMA CountInit == Init => CountInv
<1> SUFFICES ASSUME Init PROVE CountInv
  OBVIOUS
<1>1. \A r \in Reporter : Refusals(r) = 0
  BY DEF Init, DeliveryInit, Refusals
<1>2. Refused = {}
  BY <1>1 DEF Refused
<1>3. QED BY <1>2, FS_EmptySet DEF Init, DeliveryInit, CountInv

LEMMA CountStep == ASSUME IInv, CountInv, [Next]_vars PROVE CountInv'
<1> USE NumReportersAssumption
<1>0. /\ Len(deliveryFailures) \in Nat /\ Len(correctionFailures) \in Nat
      /\ Len(Append(deliveryFailures, "framework-defect"))
            = Len(deliveryFailures) + 1
      /\ Len(Append(correctionFailures, "framework-defect"))
            = Len(correctionFailures) + 1
  BY DEF IInv, TypeOK
<1>1. CASE ReporterTakes
  <2>1. next \in Reporter /\ Takes(next, FirstReport)
    BY <1>1 DEF ReporterTakes, IInv, TypeOK, Reporter
  <2>2. Refused' = Refused
    BY <2>1, KeptType, TakenIsNoRefusal DEF IInv
  <2>3. QED BY <1>1, <2>2 DEF ReporterTakes, CountInv
<1>2. CASE ReporterThrows
  <2>1. PICK r \in Reporter : r = next
    BY <1>2 DEF ReporterThrows, IInv, TypeOK, Reporter
  <2>2. ~Called(r)
    BY <1>2, <2>1 DEF ReporterThrows, Called, Reporter
  <2>3. accepted[r] = <<>> /\ calls[r] = 0
    BY <2>2 DEF IInv, LedgerInv
  <2>4. Throws(r) /\ Refusals(r) = 0
    <3>1. Throws(r)
      BY <1>2, <2>1, Zenon DEF ReporterThrows
    <3>2. Len(accepted[r]) = 0
      BY <2>3
    <3>3. calls[r] = 0
      BY <2>3
    <3>4. Refusals(r) = 0
      BY <3>2, <3>3 DEF Refusals
    <3>5. QED BY <3>1, <3>4
  <2>5. Cardinality(Refused') = Cardinality(Refused) + 1
    BY <2>4, ThrownIsRefusal DEF IInv
  <2>6. QED BY <1>0, <1>2, <2>5 DEF ReporterThrows, CountInv
<1>3. CASE CorrectionTaken \/ CorrectionThrows
  <2>1. PICK r : r = successfulReporters[next]
    OBVIOUS
  <2>2. /\ stage = "correcting" /\ next <= Len(successfulReporters)
        /\ next' = next + 1
        /\ UNCHANGED <<runVars, stage, deliveryFailures, successfulReporters>>
    BY <1>3 DEF CorrectionTaken, CorrectionThrows
  <2>3. r \in Successful /\ r \in Reporter /\ ~Corrected(r)
    BY <2>1, <2>2, NextCorrected, SuccessfulReporters DEF IInv
  <2>4. CASE CorrectionTaken
    <3>1. Takes(r, CorrectedReport)
      BY <2>1, <2>4, Zenon DEF CorrectionTaken
    <3>2. Refused' = Refused
      BY <2>3, <3>1, KeptType, TakenIsNoRefusal DEF IInv
    <3>3. QED BY <2>4, <3>2 DEF CorrectionTaken, CountInv
  <2>5. CASE CorrectionThrows
    <3> DEFINE first == Kept(FirstReport)
    <3>1. accepted[r] = <<first>> /\ calls[r] = 1
      BY <2>3 DEF IInv, LedgerInv
    <3> HIDE DEF first
    <3>2. Refusals(r) = 0
      BY <3>1 DEF Refusals
    <3>3. Throws(r)
      BY <2>1, <2>5, Zenon DEF CorrectionThrows
    <3>4. Cardinality(Refused') = Cardinality(Refused) + 1
      BY <2>3, <3>2, <3>3, ThrownIsRefusal DEF IInv
    <3>5. QED BY <1>0, <2>5, <3>4 DEF CorrectionThrows, CountInv
  <2>6. QED BY <1>3, <2>4, <2>5
<1>4. CASE UNCHANGED <<accepted, calls, deliveryFailures, correctionFailures>>
  BY <1>4 DEF CountInv, Refused, Refusals
<1>5. QED
  BY <1>1, <1>2, <1>3, <1>4
  DEF Next, Delivers, Finished, EndDelivery, EndCorrection, vars

\* What is returned owns up to every refusal: the suite's own failures, and
\* then as many framework defects as there were calls that threw
\* (runner.ts:345-374).
THEOREM RefusalsCorrect == Spec => []RefusalsRecorded
<1>1. Spec => []CountInv
  <2>1. IInv /\ CountInv /\ [Next]_vars => CountInv'
    BY CountStep
  <2>2. QED BY <2>1, CountInit, IInvAlways, PTL DEF Spec
<1>2. ASSUME IInv, CountInv PROVE RefusalsRecorded
  <2> DEFINE refused == deliveryFailures \o correctionFailures
             own == Len(suiteFailures)
  <2> SUFFICES ASSUME stage = "returned"
               PROVE  /\ SubSeq(Returned.failures, 1, own) = suiteFailures
                      /\ Len(Returned.failures) = own + Cardinality(Refused)
                      /\ \A r \in Reporter : calls[r] > 0
    BY DEF RefusalsRecorded
  <2>1. /\ suiteFailures \in Seq(FailureCategory)
        /\ deliveryFailures \in Seq(FailureCategory)
        /\ correctionFailures \in Seq(FailureCategory)
    <3>1. {"framework-defect"} \subseteq FailureCategory
      BY DEF FailureCategory
    <3>2. QED BY <3>1, <1>2 DEF IInv, TypeOK
  <2>2. Returned.failures = suiteFailures \o deliveryFailures \o correctionFailures
    <3>1. CASE deliveryFailures = <<>>
      <4>1. correctionFailures = <<>>
        BY <1>2, <3>1 DEF IInv, LoopInv
      <4>2. Returned.failures = suiteFailures
        BY <3>1 DEF Returned, FirstReport, BuildReport
      <4>3. QED BY <2>1, <3>1, <4>1, <4>2
    <3>2. CASE deliveryFailures # <<>>
      BY <3>2 DEF Returned, BuildReport
    <3>3. QED BY <3>1, <3>2
  <2>3. /\ Len(Returned.failures) =
              own + (Len(deliveryFailures) + Len(correctionFailures))
        /\ Returned.failures \in Seq(FailureCategory)
        /\ \A i \in 1..own : Returned.failures[i] = suiteFailures[i]
    BY <2>1, <2>2
  <2>4. SubSeq(Returned.failures, 1, own) = suiteFailures
    BY <2>1, <2>3
  <2>5. ASSUME NEW r \in Reporter PROVE calls[r] > 0
    <3>1. Called(r)
      BY DEF Called
    <3>2. calls[r] \in {1, 2}
      BY <1>2, <3>1 DEF IInv, LedgerInv
    <3>3. QED BY <3>2
  <2>6. QED BY <1>2, <2>3, <2>4, <2>5 DEF CountInv
<1>3. QED BY <1>1, <1>2, IInvAlways, PTL

-----------------------------------------------------------------------------
(* The two loops implement ReportAgreement.                                *)

LEMMA RefusalStep ==
  ASSUME IInv, RefusalInv, [Next]_vars
  PROVE  RefusalInv'
<1>1. CASE ReporterTakes
  <2> SUFFICES ASSUME deliveryFailures' # <<>>
               PROVE  \E r \in Reporter : Called(r)' /\ r \notin Successful'
    BY DEF RefusalInv
  <2>1. deliveryFailures # <<>>
    BY <1>1 DEF ReporterTakes
  <2>2. PICK r \in Reporter : Called(r) /\ r \notin Successful
    BY <2>1 DEF RefusalInv
  <2>3. r < next
    BY <1>1, <2>2 DEF ReporterTakes, Called
  <2>4. Successful' = Successful \cup {next}
    <3>1. successfulReporters \in Seq(Reporter) /\ next \in Nat
      BY DEF IInv, TypeOK
    <3>2. successfulReporters' = Append(successfulReporters, next)
      BY <1>1 DEF ReporterTakes
    <3>3. QED BY <3>1, <3>2 DEF Successful
  <2>5. Called(r)' /\ r \notin Successful'
    BY <1>1, <2>2, <2>3, <2>4 DEF ReporterTakes, Called, Reporter, IInv, TypeOK
  <2>6. QED BY <2>5
<1>2. CASE ReporterThrows
  <2>1. next \in Reporter /\ next \notin Successful
    BY <1>2 DEF ReporterThrows, IInv, TypeOK, SuccessfulInv, Called, Reporter
  <2>2. PICK r \in Reporter : r = next
    BY <2>1
  <2>3. Successful' = Successful
    BY <1>2 DEF ReporterThrows, Successful
  <2>4. Called(r)'
    BY <1>2, <2>2 DEF ReporterThrows, Called, Reporter
  <2>5. QED BY <2>1, <2>2, <2>3, <2>4 DEF RefusalInv
<1>3. CASE /\ UNCHANGED <<successfulReporters, deliveryFailures>>
           /\ stage' = "delivering" => UNCHANGED <<stage, next>>
  BY <1>3 DEF RefusalInv, Called, Successful
<1>4. QED
  BY <1>1, <1>2, <1>3
     DEF Next, Delivers, Finished, EndDelivery, CorrectionTaken,
         CorrectionThrows, EndCorrection, vars

\* What a reporter has been told, by where the loops stand.
LEMMA ToldByPosition ==
  ASSUME IInv, NEW r \in Reporter
  PROVE  /\ ~Called(r) => toldReporter[r] = "nothing"
         /\ Called(r) /\ r \notin Successful => toldReporter[r] = "refused"
         /\ r \in Successful /\ ~Corrected(r) => toldReporter[r] = "first report"
         /\ r \in Successful /\ Corrected(r) =>
               toldReporter[r] \in {"correction", "refused the correction"}
<1> DEFINE first == Kept(FirstReport)
           second == Kept(CorrectedReport)
<1>1. /\ ~Called(r) => calls[r] = 0
      /\ Called(r) /\ r \notin Successful => accepted[r] = <<>> /\ calls[r] = 1
      /\ r \in Successful /\ ~Corrected(r) =>
            accepted[r] = <<first>> /\ calls[r] = 1
      /\ r \in Successful /\ Corrected(r) => calls[r] = 2
  BY DEF IInv, LedgerInv
<1> HIDE DEF first, second
<1>2. <<first>> # <<>>
  OBVIOUS
<1>3. QED BY <1>1, <1>2 DEF toldReporter, Heard

\* A call of one reporter leaves what the others have been told.
LEMMA OthersTold ==
  ASSUME TypeOK, NEW r \in Reporter, NEW report,
         Takes(r, report) \/ Throws(r),
         NEW heard, toldReporter'[r] = heard
  PROVE  toldReporter' = [toldReporter EXCEPT ![r] = heard]
<1> DEFINE kept == Kept(report)
<1>1. calls' = [calls EXCEPT ![r] = @ + 1]
  BY Zenon DEF Takes, Throws
<1>2. accepted' = accepted \/ accepted' = [accepted EXCEPT ![r] = Append(@, kept)]
  BY Zenon DEF Takes, Throws
<1> HIDE DEF kept
<1>3. \A q \in Reporter : q # r =>
          calls'[q] = calls[q] /\ accepted'[q] = accepted[q]
  <2>1. \A q \in Reporter : q # r => calls'[q] = calls[q]
    BY <1>1 DEF TypeOK
  <2>2. CASE accepted' = accepted
    BY <2>1, <2>2
  <2>3. CASE accepted' = [accepted EXCEPT ![r] = Append(@, kept)]
    <3> DEFINE longer == Append(accepted[r], kept)
    <3>1. accepted' = [accepted EXCEPT ![r] = longer]
      BY <2>3
    <3> HIDE DEF longer
    <3>2. QED BY <2>1, <3>1 DEF TypeOK
  <2>4. QED BY <1>2, <2>2, <2>3
<1>4. \A q \in Reporter : q # r => toldReporter'[q] = toldReporter[q]
  BY <1>3 DEF toldReporter
<1>5. /\ toldReporter = [q \in Reporter |-> toldReporter[q]]
      /\ toldReporter' = [q \in Reporter |-> toldReporter'[q]]
  BY DEF toldReporter
<1>6. toldReporter' = [q \in Reporter |->
                          IF q = r THEN heard ELSE toldReporter[q]]
  BY <1>4, <1>5
<1>7. QED BY <1>5, <1>6

LEMMA FirstRoundTells ==
  ASSUME IInv, ReporterTakes \/ ReporterThrows
  PROVE  Agreement!Next
<1> DEFINE kept == Kept(FirstReport)
<1>1. next \in Reporter /\ ~Called(next)
  BY DEF ReporterTakes, ReporterThrows, IInv, TypeOK, Called, Reporter
<1>2. accepted[next] = <<>> /\ calls[next] = 0
  BY <1>1 DEF IInv, LedgerInv
<1>3. toldReporter[next] = "nothing"
  BY <1>1, <1>2 DEF toldReporter, Heard
<1>4. /\ calls' = [calls EXCEPT ![next] = @ + 1]
      /\ \/ accepted' = [accepted EXCEPT ![next] = Append(@, kept)]
         \/ accepted' = accepted
      /\ stage' = stage /\ stage = "delivering"
  BY Zenon DEF ReporterTakes, ReporterThrows, Takes, Throws
<1>5. Takes(next, FirstReport) \/ Throws(next)
  BY Zenon DEF ReporterTakes, ReporterThrows
<1> HIDE DEF kept
<1>6. calls'[next] = 1
  BY <1>1, <1>2, <1>4 DEF IInv, TypeOK
<1>7. toldReporter'[next] \in {"first report", "refused"}
  BY <1>1, <1>6 DEF toldReporter, Heard
<1>8. PICK heard \in {"first report", "refused"} :
          toldReporter'[next] = heard
  BY <1>7
<1>9. toldReporter' = [toldReporter EXCEPT ![next] = heard]
  BY <1>1, <1>5, <1>8, OthersTold DEF IInv
<1>10. UNCHANGED (stage = "returned")
  BY <1>4
<1>11. Agreement!Tell(next)
  BY <1>3, <1>8, <1>9, <1>10 DEF Agreement!Tell
<1>12. QED BY <1>1, <1>11 DEF Agreement!Next

LEMMA SecondRoundCorrects ==
  ASSUME IInv, RefusalInv, CorrectionTaken \/ CorrectionThrows
  PROVE  Agreement!Next
<1>0. PICK r : r = successfulReporters[next]
  OBVIOUS
<1>1. /\ stage = "correcting" /\ stage' = stage
      /\ next <= Len(successfulReporters)
      /\ Takes(r, CorrectedReport) \/ Throws(r)
  BY <1>0, Zenon DEF CorrectionTaken, CorrectionThrows
<1>2. r \in Successful /\ r \in Reporter /\ ~Corrected(r)
  <2>1. /\ next' = next + 1
        /\ UNCHANGED <<runVars, stage, deliveryFailures, successfulReporters>>
    BY DEF CorrectionTaken, CorrectionThrows
  <2>2. r \in Successful /\ ~Corrected(r)
    BY <1>0, <1>1, <2>1, NextCorrected
  <2>3. QED BY <2>2, SuccessfulReporters DEF IInv
<1>3. toldReporter[r] = "first report" /\ calls[r] = 1
  BY <1>2, ToldByPosition DEF IInv, LedgerInv
<1>4. calls'[r] = 2
  <2>1. calls' = [calls EXCEPT ![r] = @ + 1]
    BY <1>1, Zenon DEF Takes, Throws
  <2>2. calls \in [Reporter -> Nat]
    BY DEF IInv, TypeOK
  <2>3. r \in Reporter /\ calls[r] = 1
    BY <1>2, <1>3
  <2>4. QED BY <2>1, <2>2, <2>3
<1>5. toldReporter'[r] \in {"correction", "refused the correction"}
  BY <1>2, <1>4 DEF toldReporter, Heard
<1>6. PICK heard \in {"correction", "refused the correction"} :
          toldReporter'[r] = heard
  BY <1>5
<1>7. toldReporter' = [toldReporter EXCEPT ![r] = heard]
  BY <1>1, <1>2, <1>6, OthersTold DEF IInv
<1>8. Agreement!EachTold
  <2>1. \A q \in Reporter : Called(q)
    BY <1>1 DEF Called
  <2>2. \A q \in Reporter : toldReporter[q] # "nothing"
    BY <2>1, ToldByPosition
  <2>3. QED BY <2>2 DEF Agreement!EachTold
<1>9. Agreement!Overtaken
  <2>1. PICK q \in Reporter : Called(q) /\ q \notin Successful
    BY <1>1 DEF RefusalInv, IInv, LoopInv
  <2>2. QED BY <2>1, ToldByPosition DEF Agreement!Overtaken
<1>10. Agreement!Correct(r)
  BY <1>1, <1>3, <1>6, <1>7, <1>8, <1>9 DEF Agreement!Correct
<1>11. QED BY <1>2, <1>10 DEF Agreement!Next

LEMMA ReturningSettles ==
  ASSUME IInv, stage # "returned", stage' = "returned",
         EndDelivery \/ EndCorrection
  PROVE  Agreement!Next
<1>1. UNCHANGED toldReporter
  <2>1. UNCHANGED <<accepted, calls>>
    BY DEF EndDelivery, EndCorrection
  <2>2. QED BY <2>1, Zenon DEF toldReporter
<1>2. \A r \in Reporter : Called(r)
  <2>1. stage = "delivering" => next > NumReporters
    BY DEF EndDelivery, EndCorrection
  <2>2. next \in Nat
    BY DEF IInv, TypeOK
  <2>3. QED
    BY <2>1, <2>2, NumReportersAssumption DEF Called, Reporter
<1>3. Agreement!EachTold
  BY <1>2, ToldByPosition DEF Agreement!EachTold
<1>4. Agreement!Overtaken => \A r \in Reporter : toldReporter[r] # "first report"
  <2>1. CASE EndDelivery
    <3>1. deliveryFailures = <<>>
      BY <2>1 DEF EndDelivery
    <3>2. \A r \in Reporter : r \in Successful /\ ~Corrected(r)
      BY <1>2, <2>1, <3>1
         DEF IInv, SuccessfulInv, EndDelivery, Corrected
    <3>3. QED BY <3>2, ToldByPosition DEF Agreement!Overtaken
  <2>2. CASE EndCorrection
    <3>1. \A r \in Reporter : r \in Successful => Corrected(r)
      BY <2>2 DEF EndCorrection, Corrected, Successful, IInv, TypeOK
    <3>2. QED BY <1>2, <3>1, ToldByPosition
  <2>3. QED BY <2>1, <2>2
<1>5. Agreement!Settle
  BY <1>1, <1>3, <1>4 DEF Agreement!Settle
<1>6. QED BY <1>5 DEF Agreement!Next

LEMMA AgreementStep ==
  ASSUME IInv, RefusalInv, [Next]_vars
  PROVE  [Agreement!Next]_(Agreement!vars)
<1>1. CASE ReporterTakes \/ ReporterThrows
  BY <1>1, FirstRoundTells
<1>2. CASE CorrectionTaken \/ CorrectionThrows
  BY <1>2, SecondRoundCorrects
<1>3. CASE EndDelivery \/ EndCorrection
  <2>1. CASE stage' = "returned"
    BY <1>3, <2>1, ReturningSettles DEF EndDelivery, EndCorrection
  <2>2. CASE stage' # "returned"
    <3>1. UNCHANGED <<accepted, calls, stage = "returned">>
      BY <1>3, <2>2 DEF EndDelivery, EndCorrection
    <3>2. UNCHANGED toldReporter
      BY <3>1, Zenon DEF toldReporter
    <3>3. QED BY <3>1, <3>2 DEF Agreement!vars
  <2>3. QED BY <2>1, <2>2
<1>4. CASE UNCHANGED vars
  <2>1. UNCHANGED <<accepted, calls, stage>>
    BY <1>4 DEF vars
  <2>2. UNCHANGED toldReporter
    BY <2>1, Zenon DEF toldReporter
  <2>3. QED BY <2>1, <2>2 DEF Agreement!vars
<1>5. QED
  BY <1>1, <1>2, <1>3, <1>4 DEF Next, Delivers, Finished

\* Every reporter is told once, and once more if it took a report that another
\* one's refusal has overtaken; those that refused are left alone
\* (runner.ts:345-374).
THEOREM DeliveryImplementsAgreement == Spec => ReportersAgree
<1>1. Init => RefusalInv /\ Agreement!Init
  <2> SUFFICES ASSUME Init PROVE RefusalInv /\ Agreement!Init
    OBVIOUS
  <2>1. \A r \in Reporter : calls[r] = 0
    BY DEF Init, DeliveryInit
  <2>2. toldReporter = [r \in Reporter |-> "nothing"]
    BY <2>1 DEF toldReporter, Heard
  <2>3. QED
    BY <2>2 DEF Init, DeliveryInit, RefusalInv, Agreement!Init
<1>2. Spec => []RefusalInv
  <2>1. IInv /\ RefusalInv /\ [Next]_vars => RefusalInv'
    BY RefusalStep
  <2>2. QED BY <1>1, <2>1, IInvAlways, PTL DEF Spec
<1>3. IInv /\ RefusalInv /\ [Next]_vars => [Agreement!Next]_(Agreement!vars)
  BY AgreementStep
<1>4. QED
  BY <1>1, <1>2, <1>3, IInvAlways, PTL
  DEF Spec, ReportersAgree, Agreement!Spec
=============================================================================
