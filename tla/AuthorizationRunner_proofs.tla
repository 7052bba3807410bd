---------------------- MODULE AuthorizationRunner_proofs ----------------------
(***************************************************************************)
(* Proofs about AuthorizationRunner, for every number of cases, of         *)
(* postconditions and of anonymous cases, with and without a catalog.      *)
(***************************************************************************)
EXTENDS AuthorizationRunner, SequenceTheorems, FiniteSetTheorems, TLAPS

\* The failures recorded for mismatches are of the two mismatch categories,
\* and there are none exactly when there are no mismatches (runner.ts:453-456).
LEMMA FailuresOfMismatches ==
  ASSUME NEW m \in Seq(MismatchKind)
  PROVE  /\ FailuresOf(m) \in Seq(FailureCategory)
         /\ FailuresOf(m) = <<>> <=> m = <<>>
         /\ \A i \in DOMAIN FailuresOf(m) : FailuresOf(m)[i] # "framework-defect"
<1>1. /\ DOMAIN FailuresOf(m) = DOMAIN m
      /\ \A i \in DOMAIN m : FailuresOf(m)[i] = CategoryOf(m[i])
  BY DEF FailuresOf
<1>2. \A i \in DOMAIN m : m[i] \in MismatchKind
  OBVIOUS
<1>3. \A i \in DOMAIN m : CategoryOf(m[i]) \in
                              {"policy-mismatch", "malformed-response"}
  BY <1>2 DEF CategoryOf
<1>4. FailuresOf(m) \in Seq(FailureCategory)
  BY <1>3, SMT DEF FailuresOf, FailureCategory
<1>5. FailuresOf(m) = <<>> <=> m = <<>>
  <2>1. Len(FailuresOf(m)) = Len(m)
    BY <1>1, <1>4
  <2>2. QED BY <2>1, <1>4, EmptySeq
<1>6. QED BY <1>1, <1>3, <1>4, <1>5

-----------------------------------------------------------------------------
\* Appending a well-formed case report (every path of executeCase).
LEMMA ConcludeType ==
  ASSUME TypeOK, NEW actual \in Observation,
         NEW failures \in Seq(FailureCategory), NEW fatal \in BOOLEAN,
         Conclude(actual, failures, fatal)
  PROVE  /\ caseReports' \in Seq(CaseReport)
         /\ aborted' \in BOOLEAN
         /\ pc' \in Location
<1>1. [case |-> current, actual |-> actual, failures |-> failures] \in CaseReport
  BY NumCasesAssumption DEF TypeOK, CaseReport
<1>2. QED BY <1>1 DEF Conclude, TypeOK, Location, Holding

LEMMA ExecutorThrowsType ==
  ASSUME TypeOK, NEW category \in ExecutorError, ExecutorThrows(category)
  PROVE  /\ caseReports' \in Seq(CaseReport)
         /\ aborted' \in BOOLEAN
         /\ caught' \in SUBSET ExecutorError
         /\ pc' \in Location
<1>1. <<category>> \in Seq(FailureCategory)
  BY DEF ExecutorError, FailureCategory
<1>2. CASE caller = "case"
  <2>1. PICK actual \in Observation :
           Conclude(actual, <<category>>, category = "framework-defect")
    BY <1>2 DEF ExecutorThrows, Observation
  <2>2. QED BY <1>1, <1>2, <2>1, ConcludeType DEF ExecutorThrows, TypeOK
<1>3. CASE caller = "postcondition"
  BY <1>3 DEF ExecutorThrows, TypeOK, Location, Holding, InCase
<1>4. QED BY <1>2, <1>3 DEF TypeOK

LEMMA CheckReturnsType ==
  ASSUME TypeOK, current \in Case,
         NEW found \in MismatchLists, CheckReturns(found)
  PROVE  /\ caseReports' \in Seq(CaseReport)
         /\ aborted' \in BOOLEAN
         /\ caught' \in SUBSET ExecutorError
         /\ checks' \in [Case -> Nat]
         /\ mismatches' \in [Case -> Seq(MismatchKind)]
         /\ pc' \in Location
<1> DEFINE all == mismatches[current] \o found
<1>1. all \in Seq(MismatchKind)
  <2>1. found \in Seq(MismatchKind)
    BY MismatchListsAssumption
  <2>2. mismatches[current] \in Seq(MismatchKind)
    BY DEF TypeOK
  <2>3. QED BY <2>1, <2>2, ConcatProperties
<1>2. /\ checks' \in [Case -> Nat]
      /\ mismatches' \in [Case -> Seq(MismatchKind)]
  BY <1>1 DEF CheckReturns, TypeOK
<1>3. CASE pc' = "verifying" /\ caught' = {} /\ UNCHANGED <<caseReports, aborted>>
  BY <1>2, <1>3 DEF TypeOK, Location, Holding, InCase
<1>4. CASE Conclude("response", FailuresOf(all), FALSE) /\ caught' = caught
  <2>1. FailuresOf(all) \in Seq(FailureCategory)
    BY <1>1, FailuresOfMismatches
  <2>2. "response" \in Observation
    BY DEF Observation
  <2>3. QED BY <1>2, <1>4, <2>1, <2>2, ConcludeType DEF TypeOK
<1>5. QED BY <1>3, <1>4 DEF CheckReturns

\* Counting one more call keeps a ledger a ledger.
LEMMA LedgerType ==
  ASSUME NEW f \in [Case -> Nat], NEW c
  PROVE  [f EXCEPT ![c] = @ + 1] \in [Case -> Nat]
<1>1. CASE c \in Case
  BY <1>1
<1>2. CASE c \notin Case
  BY <1>2
<1>3. QED BY <1>1, <1>2

-----------------------------------------------------------------------------
(* Type correctness.  The type invariant is inductive together with the    *)
(* fact that a fixture is asked for and held only for a case of the suite. *)

LEMMA TypeInvInit == Init => TypeInv
<1> SUFFICES ASSUME Init PROVE TypeInv
  OBVIOUS
<1>1. /\ checks \in [Case -> Nat]
      /\ mismatches \in [Case -> Seq(MismatchKind)]
      /\ creations \in [Case -> Nat]
      /\ disposals \in [Case -> Nat]
  BY DEF Init
<1>2. /\ caseReports \in Seq(CaseReport)
      /\ suiteFailures \in Seq({"fixture-failure", "framework-defect"})
  BY DEF Init
<1>3. /\ pc \in Location
      /\ ~(pc \in Holding \cup {"creating"})
  BY DEF Init, Location, Holding, InCase, Executing
<1>4. /\ total \in {0, NumCases}
      /\ current \in 0..NumCases
      /\ fixture \in 0..NumCases
      /\ caller \in {"case", "postcondition"}
      /\ caught \in SUBSET ExecutorError
      /\ aborted \in BOOLEAN
      /\ signalAborted \in BOOLEAN
  <2>1. /\ total = 0 /\ current = 0 /\ fixture = 0
        /\ caller = "case" /\ caught = {}
        /\ aborted = FALSE /\ signalAborted = FALSE
    BY DEF Init
  <2>2. aborted \in BOOLEAN /\ signalAborted \in BOOLEAN
    BY <2>1, Zenon
  <2>3. 0 \in 0..NumCases
    BY NumCasesAssumption
  <2>4. caught \in SUBSET ExecutorError
    BY <2>1
  <2>5. QED BY <2>1, <2>2, <2>3, <2>4
<1>5. QED
  BY <1>1, <1>2, <1>3, <1>4 DEF TypeInv, TypeOK

LEMMA TypeInvStep == TypeInv /\ [Next]_vars => TypeInv'
<1> SUFFICES ASSUME TypeInv, [Next]_vars PROVE TypeInv'
  OBVIOUS
<1> USE NumCasesAssumption
    DEF TypeInv, TypeOK, Location, Holding, InCase, Executing,
        suiteVars, caseVars, ledger
<1>1. CASE ExpandReturns
  BY <1>1 DEF ExpandReturns
<1>2. CASE ExpandThrows
  BY <1>2 DEF ExpandThrows, AbortSuite
<1>3. CASE CatalogAccepted
  BY <1>3 DEF CatalogAccepted
<1>4. CASE CatalogRefused
  BY <1>4 DEF CatalogRefused, AbortSuite
<1>5. CASE NextCase
  BY <1>5 DEF NextCase, Case
<1>6. CASE EndLoop
  BY <1>6 DEF EndLoop
<1>7. CASE CreateResolves
  BY <1>7 DEF CreateResolves
<1>8. CASE CreateRejects
  BY <1>8 DEF CreateRejects, AbortSuite
<1>9. CASE DisposeResolves
  BY <1>9, LedgerType DEF DisposeResolves
<1>10. CASE DisposeRejects
  <2>1. disposals' \in [Case -> Nat]
    BY <1>10, LedgerType DEF DisposeRejects
  <2>2. QED BY <1>10, <2>1 DEF DisposeRejects, AbortSuite
<1>11. CASE RequestBuilt
  BY <1>11 DEF RequestBuilt
<1>12. CASE RequestUnusable \/ AuthorizeFails \/ HttpRejects
  <2>1. PICK category \in ExecutorError : ExecutorThrows(category)
    BY <1>12 DEF RequestUnusable, AuthorizeFails, HttpRejects, ExecutorError
  <2>2. /\ caseReports' \in Seq(CaseReport)
        /\ aborted' \in BOOLEAN
        /\ caught' \in SUBSET ExecutorError
        /\ pc' \in Location
    BY <2>1, ExecutorThrowsType
  <2>3. QED
    BY <1>12, <2>2 DEF RequestUnusable, AuthorizeFails, HttpRejects
<1>13. CASE AuthorizeResolves
  BY <1>13 DEF AuthorizeResolves
<1>14. CASE HttpResponds
  BY <1>14 DEF HttpResponds
<1>15. CASE EvaluateReturns \/ VerifyReturns
  <2>1. PICK found \in MismatchLists : CheckReturns(found)
    BY <1>15 DEF EvaluateReturns, VerifyReturns
  <2>2. current \in Case
    BY <1>15 DEF EvaluateReturns, VerifyReturns
  <2>3. /\ caseReports' \in Seq(CaseReport)
        /\ aborted' \in BOOLEAN
        /\ caught' \in SUBSET ExecutorError
        /\ checks' \in [Case -> Nat]
        /\ mismatches' \in [Case -> Seq(MismatchKind)]
        /\ pc' \in Location
    BY <2>1, <2>2, CheckReturnsType
  <2>4. QED
    BY <1>15, <2>2, <2>3 DEF EvaluateReturns, VerifyReturns
<1>16. CASE EvaluateThrows \/ VerifyThrows
  <2>1. PICK category \in ExecutorError : CheckThrows(category)
    BY <1>16 DEF EvaluateThrows, VerifyThrows, ExecutorError
  <2>2. <<category>> \in Seq(FailureCategory)
    BY DEF ExecutorError, FailureCategory
  <2>3. /\ caseReports' \in Seq(CaseReport)
        /\ aborted' \in BOOLEAN
        /\ pc' \in Location
    BY <2>1, <2>2, ConcludeType DEF CheckThrows, Observation
  <2>4. QED
    BY <1>16, <2>3 DEF EvaluateThrows, VerifyThrows
<1>17. CASE VerifyExecutes
  BY <1>17 DEF VerifyExecutes
<1>18. CASE SignalAborts
  BY <1>18 DEF SignalAborts
<1>19. CASE Reporting \/ UNCHANGED vars
  BY <1>19 DEF Reporting, vars
<1>20. QED
  BY <1>1, <1>2, <1>3, <1>4, <1>5, <1>6, <1>7, <1>8, <1>9, <1>10, <1>11,
     <1>12, <1>13, <1>14, <1>15, <1>16, <1>17, <1>18, <1>19
  DEF Next

\* Every variable of the runner keeps its type (runner.ts:263-468).
THEOREM TypeCorrect == Spec => []TypeOK
<1>1. TypeInv => TypeOK
  BY DEF TypeInv
<1>2. QED BY <1>1, TypeInvInit, TypeInvStep, PTL DEF Spec

-----------------------------------------------------------------------------
(* The position of the loop.                                               *)

\* executeCase returns a report of the present case and nothing else moves.
LEMMA ConcludePosition ==
  ASSUME TypeInv, PositionInv, pc \in InCase,
         NEW actual, NEW failures, NEW fatal,
         Conclude(actual, failures, fatal),
         UNCHANGED <<total, current, fixture>>
  PROVE  PositionInv'
<1> DEFINE report == [case |-> current, actual |-> actual, failures |-> failures]
<1>1. caseReports \in Seq(CaseReport) /\ caseReports' = Append(caseReports, report)
  BY DEF TypeInv, TypeOK, Conclude
<1>2. /\ Len(caseReports') = Len(caseReports) + 1
      /\ DOMAIN caseReports' = 1..(Len(caseReports) + 1)
      /\ \A i \in 1..Len(caseReports) : caseReports'[i] = caseReports[i]
      /\ caseReports'[Len(caseReports) + 1] = report
  BY <1>1
<1>3. Len(caseReports) = current - 1 /\ fixture = current /\ total = NumCases
  BY DEF PositionInv, InCase, Executing
<1>4. pc' = "disposing"
  BY DEF Conclude
<1>5. current \in Nat
  BY NumCasesAssumption DEF TypeInv, TypeOK
<1>6. \A i \in DOMAIN caseReports' : caseReports'[i].case = i
  BY <1>1, <1>2, <1>3, <1>5 DEF PositionInv
<1>7. QED
  BY <1>2, <1>3, <1>4, <1>5, <1>6 DEF PositionInv, InCase, Executing

LEMMA PositionStep == TypeInv /\ PositionInv /\ [Next]_vars => PositionInv'
<1> SUFFICES ASSUME TypeInv, PositionInv, [Next]_vars PROVE PositionInv'
  OBVIOUS
<1> USE NumCasesAssumption DEF suiteVars, caseVars, ledger
<1>1. CASE ExpandReturns \/ ExpandThrows \/ CatalogAccepted \/ CatalogRefused
  BY <1>1 DEF ExpandReturns, ExpandThrows, CatalogAccepted, CatalogRefused,
              AbortSuite, PositionInv, TypeInv, TypeOK, InCase, Executing
<1>2. CASE NextCase \/ EndLoop
  BY <1>2 DEF NextCase, EndLoop, PositionInv, TypeInv, TypeOK, InCase, Executing
<1>3. CASE CreateResolves \/ CreateRejects
  BY <1>3 DEF CreateResolves, CreateRejects, AbortSuite,
              PositionInv, TypeInv, TypeOK, InCase, Executing
<1>4. CASE DisposeResolves \/ DisposeRejects
  BY <1>4 DEF DisposeResolves, DisposeRejects, AbortSuite,
              PositionInv, TypeInv, TypeOK, InCase, Executing
<1>5. CASE RequestBuilt \/ AuthorizeResolves \/ HttpResponds \/ VerifyExecutes
  BY <1>5 DEF RequestBuilt, AuthorizeResolves, HttpResponds, VerifyExecutes,
              PositionInv, TypeInv, TypeOK, InCase, Executing
<1>6. CASE RequestUnusable \/ AuthorizeFails \/ HttpRejects
  <2>1. PICK category : ExecutorThrows(category)
    BY <1>6 DEF RequestUnusable, AuthorizeFails, HttpRejects
  <2>2. /\ pc \in Executing
        /\ UNCHANGED <<total, current, fixture>>
    BY <1>6 DEF RequestUnusable, AuthorizeFails, HttpRejects, Executing
  <2>3. CASE caller = "case"
    BY <2>1, <2>2, <2>3, ConcludePosition DEF ExecutorThrows, InCase
  <2>4. CASE pc' = "verifying" /\ UNCHANGED <<caseReports, aborted>>
    BY <2>2, <2>4 DEF PositionInv, InCase, Executing
  <2>5. QED BY <2>1, <2>3, <2>4 DEF ExecutorThrows
<1>7. CASE EvaluateReturns \/ VerifyReturns
  <2>1. PICK found \in MismatchLists : CheckReturns(found)
    BY <1>7 DEF EvaluateReturns, VerifyReturns
  <2>2. /\ pc \in InCase
        /\ UNCHANGED <<total, current, fixture>>
    BY <1>7 DEF EvaluateReturns, VerifyReturns, InCase
  <2>3. CASE pc' = "verifying" /\ UNCHANGED <<caseReports, aborted>>
    BY <2>2, <2>3 DEF PositionInv, InCase, Executing
  <2>4. CASE pc' = "disposing"
    <3>1. PICK failures : Conclude("response", failures, FALSE)
      BY <2>1, <2>4 DEF CheckReturns
    <3>2. QED BY <3>1, <2>2, ConcludePosition
  <2>5. QED BY <2>1, <2>3, <2>4 DEF CheckReturns, Conclude
<1>8. CASE EvaluateThrows \/ VerifyThrows
  <2>1. PICK category : CheckThrows(category)
    BY <1>8 DEF EvaluateThrows, VerifyThrows
  <2>2. /\ pc \in InCase
        /\ UNCHANGED <<total, current, fixture>>
    BY <1>8 DEF EvaluateThrows, VerifyThrows, InCase
  <2>3. QED BY <2>1, <2>2, ConcludePosition DEF CheckThrows
<1>9. CASE SignalAborts \/ Reporting \/ UNCHANGED vars
  BY <1>9 DEF SignalAborts, Reporting, vars, PositionInv, InCase, Executing
<1>10. QED
  BY <1>1, <1>2, <1>3, <1>4, <1>5, <1>6, <1>7, <1>8, <1>9 DEF Next

-----------------------------------------------------------------------------
(* The ledger of creations and disposals.                                  *)

\* The report of the present case takes the place of its being in progress.
LEMMA ConcludeLedger ==
  ASSUME TypeInv, PositionInv, LedgerInv, pc \in InCase,
         NEW actual, NEW failures, NEW fatal,
         Conclude(actual, failures, fatal),
         UNCHANGED <<current, ledger>>
  PROVE  LedgerInv'
<1>1. /\ Len(caseReports') = Len(caseReports) + 1
      /\ Len(caseReports) \in Nat
  BY DEF Conclude, TypeInv, TypeOK
<1>2. Len(caseReports) = current - 1 /\ current \in Nat
  BY NumCasesAssumption DEF PositionInv, TypeInv, TypeOK
<1>3. pc' = "disposing" /\ pc \notin {"disposing"}
  BY DEF Conclude, InCase, Executing
<1>4. QED
  BY <1>1, <1>2, <1>3 DEF LedgerInv, Case, InCase, Executing, ledger

LEMMA LedgerStep ==
  TypeInv /\ PositionInv /\ LedgerInv /\ [Next]_vars => LedgerInv'
<1> SUFFICES ASSUME TypeInv, PositionInv, LedgerInv, [Next]_vars
             PROVE  LedgerInv'
  OBVIOUS
<1> USE NumCasesAssumption DEF suiteVars, caseVars, ledger
<1>1. CASE ExpandReturns \/ ExpandThrows \/ CatalogAccepted \/ CatalogRefused
  BY <1>1 DEF ExpandReturns, ExpandThrows, CatalogAccepted, CatalogRefused,
              AbortSuite, LedgerInv, InCase, Executing
<1>2. CASE NextCase \/ EndLoop
  BY <1>2 DEF NextCase, EndLoop, LedgerInv, InCase, Executing
<1>3. CASE CreateResolves
  <2>1. /\ Len(caseReports) = current - 1
        /\ current \in Case
    BY <1>3 DEF CreateResolves, PositionInv, TypeInv
  <2>2. creations[current] = 0
    BY <1>3, <2>1 DEF CreateResolves, LedgerInv, InCase, Executing, Case
  <2>3. QED
    BY <1>3, <2>1, <2>2 DEF CreateResolves, LedgerInv, InCase, Executing, Case,
                            TypeInv, TypeOK
<1>4. CASE CreateRejects
  BY <1>4 DEF CreateRejects, AbortSuite, PositionInv, LedgerInv, InCase, Executing
<1>5. CASE DisposeResolves \/ DisposeRejects
  <2>1. /\ Len(caseReports) = current
        /\ fixture = current
        /\ current \in Case
    BY <1>5 DEF DisposeResolves, DisposeRejects, PositionInv, TypeInv, Holding
  <2>2. disposals[current] = 0
    BY <1>5, <2>1 DEF DisposeResolves, DisposeRejects, LedgerInv, Case
  <2>3. /\ disposals' = [disposals EXCEPT ![current] = 1]
        /\ pc' \in {"reporting", "looping"}
        /\ UNCHANGED <<current, caseReports, creations>>
    BY <1>5, <2>1, <2>2 DEF DisposeResolves, DisposeRejects
  <2>4. QED
    BY <1>5, <2>1, <2>2, <2>3
    DEF LedgerInv, InCase, Executing, Case, TypeInv, TypeOK,
        DisposeResolves, DisposeRejects
<1>6. CASE RequestBuilt \/ AuthorizeResolves \/ HttpResponds \/ VerifyExecutes
  BY <1>6 DEF RequestBuilt, AuthorizeResolves, HttpResponds, VerifyExecutes,
              LedgerInv, InCase, Executing
<1>7. CASE RequestUnusable \/ AuthorizeFails \/ HttpRejects
  <2>1. PICK category : ExecutorThrows(category)
    BY <1>7 DEF RequestUnusable, AuthorizeFails, HttpRejects
  <2>2. /\ pc \in Executing
        /\ UNCHANGED <<current, ledger>>
    BY <1>7 DEF RequestUnusable, AuthorizeFails, HttpRejects, Executing
  <2>3. CASE caller = "case"
    BY <2>1, <2>2, <2>3, ConcludeLedger DEF ExecutorThrows, InCase
  <2>4. CASE pc' = "verifying" /\ UNCHANGED <<caseReports, aborted>>
    BY <2>2, <2>4 DEF LedgerInv, InCase, Executing
  <2>5. QED BY <2>1, <2>3, <2>4 DEF ExecutorThrows
<1>8. CASE EvaluateReturns \/ VerifyReturns
  <2>1. PICK found \in MismatchLists : CheckReturns(found)
    BY <1>8 DEF EvaluateReturns, VerifyReturns
  <2>2. /\ pc \in InCase
        /\ UNCHANGED <<current, ledger>>
    BY <1>8 DEF EvaluateReturns, VerifyReturns, InCase
  <2>3. CASE pc' = "verifying" /\ UNCHANGED <<caseReports, aborted>>
    BY <2>2, <2>3 DEF LedgerInv, InCase, Executing
  <2>4. CASE pc' = "disposing"
    <3>1. PICK failures : Conclude("response", failures, FALSE)
      BY <2>1, <2>4 DEF CheckReturns
    <3>2. QED BY <3>1, <2>2, ConcludeLedger
  <2>5. QED BY <2>1, <2>3, <2>4 DEF CheckReturns, Conclude
<1>9. CASE EvaluateThrows \/ VerifyThrows
  <2>1. PICK category : CheckThrows(category)
    BY <1>9 DEF EvaluateThrows, VerifyThrows
  <2>2. /\ pc \in InCase
        /\ UNCHANGED <<current, ledger>>
    BY <1>9 DEF EvaluateThrows, VerifyThrows, InCase
  <2>3. QED BY <2>1, <2>2, ConcludeLedger DEF CheckThrows
<1>10. CASE SignalAborts \/ Reporting \/ UNCHANGED vars
  BY <1>10 DEF SignalAborts, Reporting, vars, LedgerInv, InCase, Executing
<1>11. QED
  BY <1>1, <1>2, <1>3, <1>4, <1>5, <1>6, <1>7, <1>8, <1>9, <1>10 DEF Next

-----------------------------------------------------------------------------
(* Aborting and recording a defect go together.                            *)

\* A case concluded as fatal exactly with a framework defect.
LEMMA ConcludeAbort ==
  ASSUME TypeInv, AbortInv, pc \in InCase,
         NEW actual \in Observation, NEW failures \in Seq(FailureCategory),
         NEW fatal \in BOOLEAN,
         fatal <=> \E j \in DOMAIN failures : failures[j] = "framework-defect",
         Conclude(actual, failures, fatal),
         UNCHANGED suiteFailures
  PROVE  AbortInv'
<1> DEFINE report == [case |-> current, actual |-> actual, failures |-> failures]
<1>1. caseReports \in Seq(CaseReport) /\ caseReports' = Append(caseReports, report)
  BY DEF TypeInv, TypeOK, Conclude
<1>2. /\ DOMAIN caseReports' = 1..(Len(caseReports) + 1)
      /\ DOMAIN caseReports = 1..Len(caseReports)
      /\ Len(caseReports) \in Nat
      /\ \A i \in 1..Len(caseReports) : caseReports'[i] = caseReports[i]
      /\ caseReports'[Len(caseReports) + 1] = report
  BY <1>1
<1>3. ~aborted
  BY DEF AbortInv, InCase, Executing
<1>4. ~DefectReported
  BY <1>3 DEF AbortInv, AbortedIffDefect
<1>5. aborted' <=> fatal
  BY <1>3 DEF Conclude
<1>6. DefectReported' <=> \E j \in DOMAIN failures : failures[j] = "framework-defect"
  <2>1. report.failures = failures
    OBVIOUS
  <2>2. suiteFailures' = <<>>
    BY <1>4 DEF DefectReported
  <2>3. \A i \in 1..Len(caseReports) : \A j \in DOMAIN caseReports[i].failures :
            caseReports[i].failures[j] # "framework-defect"
    BY <1>4, <1>2 DEF DefectReported
  <2>4. QED BY <1>2, <2>1, <2>2, <2>3 DEF DefectReported
<1>7. pc' = "disposing"
  BY DEF Conclude
<1>8. QED BY <1>5, <1>6, <1>7 DEF AbortInv, AbortedIffDefect

\* A failure of the suite itself is recorded as it aborts the suite.
LEMMA AbortSuiteAbort ==
  ASSUME TypeInv, NEW category, AbortSuite(category),
         pc' \in {"disposing", "reporting"}
  PROVE  AbortInv'
<1>1. suiteFailures' # <<>>
  BY DEF AbortSuite, TypeInv, TypeOK
<1>2. aborted'
  BY DEF AbortSuite
<1>3. QED BY <1>1, <1>2 DEF AbortInv, AbortedIffDefect, DefectReported

\* A step that records nothing and does not resume an aborted suite.
LEMMA NoAbort ==
  ASSUME AbortInv, UNCHANGED <<caseReports, suiteFailures, aborted>>,
         aborted => pc' \in {"disposing", "reporting"}
  PROVE  AbortInv'
BY DEF AbortInv, AbortedIffDefect, DefectReported

LEMMA AbortStep == TypeInv /\ AbortInv /\ [Next]_vars => AbortInv'
<1> SUFFICES ASSUME TypeInv, AbortInv, [Next]_vars PROVE AbortInv'
  OBVIOUS
<1> USE DEF suiteVars, caseVars, ledger
<1>1. CASE ExpandThrows \/ CatalogRefused \/ CreateRejects \/ DisposeRejects
  <2>1. PICK category : AbortSuite(category)
    BY <1>1 DEF ExpandThrows, CatalogRefused, CreateRejects, DisposeRejects
  <2>2. pc' \in {"disposing", "reporting"}
    BY <1>1 DEF ExpandThrows, CatalogRefused, CreateRejects, DisposeRejects
  <2>3. QED BY <2>1, <2>2, AbortSuiteAbort
<1>2. CASE ExpandReturns \/ CatalogAccepted \/ NextCase \/ EndLoop \/ CreateResolves
  <2>1. /\ UNCHANGED <<caseReports, suiteFailures, aborted>>
        /\ pc \notin {"disposing", "reporting"}
    BY <1>2 DEF ExpandReturns, CatalogAccepted, NextCase, EndLoop, CreateResolves
  <2>2. ~aborted
    BY <2>1 DEF AbortInv
  <2>3. QED BY <2>1, <2>2, NoAbort
<1>3. CASE DisposeResolves
  <2>1. UNCHANGED <<caseReports, suiteFailures, aborted>>
    BY <1>3 DEF DisposeResolves
  <2>2. aborted => pc' = "reporting"
    BY <1>3 DEF DisposeResolves
  <2>3. QED BY <2>1, <2>2, NoAbort
<1>4. CASE RequestBuilt \/ AuthorizeResolves \/ HttpResponds \/ VerifyExecutes
  <2>1. /\ UNCHANGED <<caseReports, suiteFailures, aborted>>
        /\ pc \notin {"disposing", "reporting"}
    BY <1>4 DEF RequestBuilt, AuthorizeResolves, HttpResponds, VerifyExecutes
  <2>2. ~aborted
    BY <2>1 DEF AbortInv
  <2>3. QED BY <2>1, <2>2, NoAbort
<1>5. CASE RequestUnusable \/ AuthorizeFails \/ HttpRejects
  <2>1. PICK category \in ExecutorError : ExecutorThrows(category)
    BY <1>5 DEF RequestUnusable, AuthorizeFails, HttpRejects, ExecutorError
  <2>2. pc \in InCase /\ UNCHANGED suiteFailures
    BY <1>5 DEF RequestUnusable, AuthorizeFails, HttpRejects, InCase, Executing
  <2>3. CASE caller = "case"
    <3>1. PICK actual \in Observation :
             Conclude(actual, <<category>>, category = "framework-defect")
      BY <2>1, <2>3 DEF ExecutorThrows, Observation
    <3>2. <<category>> \in Seq(FailureCategory)
      BY DEF ExecutorError, FailureCategory
    <3>3. category = "framework-defect" <=>
             \E j \in DOMAIN <<category>> : <<category>>[j] = "framework-defect"
      OBVIOUS
    <3>4. QED BY <3>1, <3>2, <3>3, <2>2, ConcludeAbort
  <2>4. CASE pc' = "verifying" /\ UNCHANGED <<caseReports, aborted>>
    <3>1. ~aborted
      BY <2>2 DEF AbortInv, InCase, Executing
    <3>2. QED BY <2>2, <2>4, <3>1, NoAbort
  <2>5. QED BY <2>1, <2>3, <2>4 DEF ExecutorThrows
<1>6. CASE EvaluateReturns \/ VerifyReturns
  <2>1. PICK found \in MismatchLists : CheckReturns(found)
    BY <1>6 DEF EvaluateReturns, VerifyReturns
  <2>2. pc \in InCase /\ UNCHANGED suiteFailures
    BY <1>6 DEF EvaluateReturns, VerifyReturns, InCase
  <2>3. CASE pc' = "verifying" /\ UNCHANGED <<caseReports, aborted>>
    <3>1. ~aborted
      BY <2>2 DEF AbortInv, InCase, Executing
    <3>2. QED BY <2>2, <2>3, <3>1, NoAbort
  <2>4. CASE pc' = "disposing"
    <3> DEFINE all == mismatches[current] \o found
    <3>1. all \in Seq(MismatchKind)
      BY <2>2, MismatchListsAssumption, ConcatProperties DEF TypeInv, TypeOK, Holding
    <3>2. Conclude("response", FailuresOf(all), FALSE)
      BY <2>1, <2>4 DEF CheckReturns
    <3>3. /\ FailuresOf(all) \in Seq(FailureCategory)
          /\ ~\E j \in DOMAIN FailuresOf(all) : FailuresOf(all)[j] = "framework-defect"
      BY <3>1, FailuresOfMismatches
    <3>4. "response" \in Observation
      BY DEF Observation
    <3> HIDE DEF all
    <3>5. QED BY <3>2, <3>3, <3>4, <2>2, ConcludeAbort
  <2>5. QED BY <2>1, <2>3, <2>4 DEF CheckReturns, Conclude
<1>7. CASE EvaluateThrows \/ VerifyThrows
  <2>1. PICK category \in ExecutorError : CheckThrows(category)
    BY <1>7 DEF EvaluateThrows, VerifyThrows, ExecutorError, TypeInv, TypeOK
  <2>2. pc \in InCase /\ UNCHANGED suiteFailures
    BY <1>7 DEF EvaluateThrows, VerifyThrows, InCase
  <2>3. <<category>> \in Seq(FailureCategory)
    BY DEF ExecutorError, FailureCategory
  <2>4. category = "framework-defect" <=>
           \E j \in DOMAIN <<category>> : <<category>>[j] = "framework-defect"
    OBVIOUS
  <2>5. "response" \in Observation
    BY DEF Observation
  <2>6. QED BY <2>1, <2>2, <2>3, <2>4, <2>5, ConcludeAbort DEF CheckThrows
<1>8. CASE SignalAborts \/ Reporting \/ UNCHANGED vars
  BY <1>8, NoAbort DEF SignalAborts, Reporting, vars, AbortInv
<1>9. QED
  BY <1>1, <1>2, <1>3, <1>4, <1>5, <1>6, <1>7, <1>8 DEF Next

-----------------------------------------------------------------------------
(* What has been checked of each case.                                     *)

\* The report of the present case: it passes only after its last check.
LEMMA ConcludeCheck ==
  ASSUME TypeInv, PositionInv, CheckInv, pc \in InCase,
         NEW actual, NEW failures, NEW fatal,
         Conclude(actual, failures, fatal),
         UNCHANGED current,
         checks' \in [Case -> Nat], mismatches' \in [Case -> Seq(MismatchKind)],
         \A c \in Case \ {current} : checks'[c] = checks[c] /\ mismatches'[c] = mismatches[c],
         failures = <<>> => /\ actual = "response"
                            /\ checks'[current] = 1 + Postconditions[current]
                            /\ mismatches'[current] = <<>>
  PROVE  CheckInv'
<1> DEFINE report == [case |-> current, actual |-> actual, failures |-> failures]
<1>1. caseReports \in Seq(CaseReport) /\ caseReports' = Append(caseReports, report)
  BY DEF TypeInv, TypeOK, Conclude
<1>2. /\ DOMAIN caseReports' = 1..(Len(caseReports) + 1)
      /\ Len(caseReports') = Len(caseReports) + 1
      /\ DOMAIN caseReports = 1..Len(caseReports)
      /\ Len(caseReports) \in Nat
      /\ \A i \in 1..Len(caseReports) : caseReports'[i] = caseReports[i]
      /\ caseReports'[Len(caseReports) + 1] = report
  BY <1>1
<1>3. Len(caseReports) = current - 1 /\ current \in Case
  BY DEF PositionInv, TypeInv, Holding
<1>4. \A i \in 1..Len(caseReports) :
          caseReports[i].case = i /\ i \in Case /\ i # current
  <2>1. \A i \in 1..Len(caseReports) : caseReports[i].case = i
    BY <1>2 DEF PositionInv
  <2>2. QED BY <1>2, <1>3, <2>1, NumCasesAssumption DEF Case
<1>5. PassedMeansChecked'
  <2> SUFFICES ASSUME NEW i \in DOMAIN caseReports',
                      Outcome(caseReports'[i]) = "passed"
               PROVE  /\ caseReports'[i].actual = "response"
                      /\ checks'[caseReports'[i].case]
                            = 1 + Postconditions[caseReports'[i].case]
                      /\ mismatches'[caseReports'[i].case] = <<>>
    BY DEF PassedMeansChecked
  <2>1. CASE i \in 1..Len(caseReports)
    BY <1>2, <1>4, <2>1 DEF CheckInv, PassedMeansChecked
  <2>2. CASE i = Len(caseReports) + 1
    BY <1>2, <2>2 DEF Outcome
  <2>3. QED BY <1>2, <2>1, <2>2
<1>6. pc' = "disposing"
  BY DEF Conclude
<1>7. \A c \in Case : c > Len(caseReports') => checks'[c] = 0 /\ mismatches'[c] = <<>>
  <2>1. \A c \in Case : c > Len(caseReports) /\ c # current =>
                             checks[c] = 0 /\ mismatches[c] = <<>>
    BY DEF CheckInv
  <2>2. /\ Len(caseReports') = current
        /\ Len(caseReports) < current
        /\ Len(caseReports) \in Nat
        /\ current \in Nat
    BY <1>2, <1>3, NumCasesAssumption DEF Case
  <2>3. ASSUME NEW c \in Case, c > Len(caseReports')
        PROVE  c > Len(caseReports) /\ c # current
    BY <2>2, <2>3, NumCasesAssumption DEF Case
  <2>4. QED BY <2>1, <2>3
<1>8. QED BY <1>5, <1>6, <1>7 DEF CheckInv, InCase, Executing

\* A step that returns no check and reports nothing, within a case or not.
LEMMA NoCheck ==
  ASSUME TypeInv, CheckInv, UNCHANGED <<checks, mismatches, caseReports>>,
         \/ pc' \in InCase /\ current' = current
         \/ ~(pc \in InCase)
         \/ current' = current /\ current <= Len(caseReports),
         pc' = "evaluating" \/ (pc' \in Executing /\ caller' = "case") =>
            checks[current'] = 0 /\ mismatches[current'] = <<>>,
         pc' = "verifying" \/ (pc' \in Executing /\ caller' = "postcondition") =>
            checks[current'] \in 1..Postconditions[current']
  PROVE  CheckInv'
<1>1. PassedMeansChecked'
  BY DEF CheckInv, PassedMeansChecked, Outcome
<1>2. \A c \in Case :
          c > Len(caseReports) /\ ~(pc' \in InCase /\ c = current') =>
              checks[c] = 0 /\ mismatches[c] = <<>>
  <2>1. \A c \in Case :
            c > Len(caseReports) /\ ~(pc \in InCase /\ c = current) =>
                checks[c] = 0 /\ mismatches[c] = <<>>
    BY DEF CheckInv
  <2>2. /\ Len(caseReports) \in Nat
        /\ current \in Nat
    BY NumCasesAssumption DEF TypeInv, TypeOK
  <2>3. QED BY <2>1, <2>2, NumCasesAssumption DEF Case
<1>3. QED BY <1>1, <1>2 DEF CheckInv

\* A check of the present case returned and a postcondition is next.
LEMMA MoreChecks ==
  ASSUME TypeInv, PositionInv, CheckInv, pc \in {"evaluating", "verifying"},
         NEW found \in MismatchLists, CheckReturns(found),
         checks[current] < Postconditions[current],
         pc' = "verifying", UNCHANGED <<current, caseReports>>
  PROVE  CheckInv'
<1>1. current \in Case /\ Len(caseReports) = current - 1
  BY DEF TypeInv, PositionInv, Holding, InCase
<1>2. checks[current] \in Nat /\ Postconditions[current] \in Nat
  BY <1>1, PostconditionsAssumption DEF TypeInv, TypeOK
<1>3. /\ checks'[current] = checks[current] + 1
      /\ \A c \in Case \ {current} :
            checks'[c] = checks[c] /\ mismatches'[c] = mismatches[c]
  BY <1>1 DEF CheckReturns, TypeInv, TypeOK
<1>4. checks'[current] \in 1..Postconditions[current]
  BY <1>2, <1>3
<1>5. \A i \in DOMAIN caseReports :
          caseReports[i].case = i /\ i \in Case \ {current}
  <2>1. /\ DOMAIN caseReports = 1..Len(caseReports)
        /\ Len(caseReports) \in Nat
    BY DEF TypeInv, TypeOK
  <2>2. \A i \in DOMAIN caseReports : caseReports[i].case = i
    BY DEF PositionInv
  <2>3. QED BY <1>1, <2>1, <2>2, NumCasesAssumption DEF Case
<1>6. PassedMeansChecked'
  <2> SUFFICES ASSUME NEW i \in DOMAIN caseReports,
                      Outcome(caseReports[i]) = "passed"
               PROVE  /\ caseReports[i].actual = "response"
                      /\ checks'[caseReports[i].case]
                            = 1 + Postconditions[caseReports[i].case]
                      /\ mismatches'[caseReports[i].case] = <<>>
    BY DEF PassedMeansChecked, Outcome
  <2>1. QED BY <1>3, <1>5 DEF CheckInv, PassedMeansChecked
<1>7. \A c \in Case : c > Len(caseReports) /\ c # current =>
                          checks'[c] = 0 /\ mismatches'[c] = <<>>
  <2>1. \A c \in Case : c > Len(caseReports) /\ c # current =>
                            checks[c] = 0 /\ mismatches[c] = <<>>
    BY DEF CheckInv
  <2>2. QED BY <1>3, <2>1
<1>8. QED BY <1>4, <1>6, <1>7 DEF CheckInv, InCase, Executing

\* The last check of the present case returned and the case is reported.
LEMMA LastCheck ==
  ASSUME TypeInv, PositionInv, CheckInv, pc \in {"evaluating", "verifying"},
         NEW found \in MismatchLists, CheckReturns(found),
         checks[current] >= Postconditions[current],
         Conclude("response", FailuresOf(mismatches[current] \o found), FALSE),
         UNCHANGED current
  PROVE  CheckInv'
<1> DEFINE all == mismatches[current] \o found
           failures == FailuresOf(all)
<1>1. current \in Case /\ pc \in InCase
  BY DEF TypeInv, Holding, InCase
<1>2. checks[current] \in Nat /\ Postconditions[current] \in Nat
  BY <1>1, PostconditionsAssumption DEF TypeInv, TypeOK
<1>3. checks[current] = Postconditions[current]
  BY <1>2 DEF CheckInv
<1>4. all \in Seq(MismatchKind)
  BY <1>1, MismatchListsAssumption, ConcatProperties DEF TypeInv, TypeOK
<1>5. failures = <<>> => all = <<>>
  BY <1>4, FailuresOfMismatches
<1>6. /\ checks' \in [Case -> Nat]
      /\ mismatches' \in [Case -> Seq(MismatchKind)]
      /\ checks'[current] = 1 + Postconditions[current]
      /\ mismatches'[current] = all
      /\ \A c \in Case \ {current} :
            checks'[c] = checks[c] /\ mismatches'[c] = mismatches[c]
  BY <1>1, <1>2, <1>3, <1>4 DEF CheckReturns, TypeInv, TypeOK
<1>7. failures = <<>> => /\ "response" = "response"
                         /\ checks'[current] = 1 + Postconditions[current]
                         /\ mismatches'[current] = <<>>
  BY <1>5, <1>6
<1>8. Conclude("response", failures, FALSE)
  OBVIOUS
<1> HIDE DEF failures, all
<1>9. QED BY <1>1, <1>6, <1>7, <1>8, ConcludeCheck

LEMMA CheckStep ==
  TypeInv /\ PositionInv /\ CheckInv /\ [Next]_vars => CheckInv'
<1> SUFFICES ASSUME TypeInv, PositionInv, CheckInv, [Next]_vars PROVE CheckInv'
  OBVIOUS
<1> USE DEF suiteVars, caseVars, ledger
<1>1. CASE ExpandReturns \/ ExpandThrows \/ CatalogAccepted \/ CatalogRefused
           \/ NextCase \/ EndLoop \/ CreateRejects
           \/ DisposeResolves \/ DisposeRejects
  <2>1. /\ UNCHANGED <<checks, mismatches, caseReports>>
        /\ pc \notin InCase /\ pc' \notin InCase
    BY <1>1 DEF ExpandReturns, ExpandThrows, CatalogAccepted, CatalogRefused,
         NextCase, EndLoop, CreateRejects, DisposeResolves, DisposeRejects,
         InCase, Executing
  <2>2. QED BY <2>1, NoCheck DEF InCase
<1>2. CASE CreateResolves
  <2>1. /\ UNCHANGED <<checks, mismatches, caseReports, current>>
        /\ pc = "creating" /\ pc' = "building" /\ caller' = "case"
    BY <1>2 DEF CreateResolves
  <2>2. current \in Case /\ Len(caseReports) = current - 1
    BY <2>1 DEF TypeInv, PositionInv
  <2>3. current > Len(caseReports)
    BY <2>2, NumCasesAssumption DEF Case
  <2>4. checks[current] = 0 /\ mismatches[current] = <<>>
    BY <2>1, <2>2, <2>3 DEF CheckInv, InCase, Executing
  <2>5. QED BY <2>1, <2>4, NoCheck DEF InCase, Executing
<1>3. CASE RequestBuilt \/ AuthorizeResolves \/ HttpResponds \/ VerifyExecutes
  <2>1. /\ UNCHANGED <<checks, mismatches, caseReports, current>>
        /\ pc' \in InCase
    BY <1>3 DEF RequestBuilt, AuthorizeResolves, HttpResponds, VerifyExecutes,
                InCase, Executing
  <2>2. pc' = "evaluating" \/ (pc' \in Executing /\ caller' = "case") =>
            checks[current'] = 0 /\ mismatches[current'] = <<>>
    BY <1>3 DEF RequestBuilt, AuthorizeResolves, HttpResponds, VerifyExecutes,
                CheckInv, Executing
  <2>3. pc' = "verifying" \/ (pc' \in Executing /\ caller' = "postcondition") =>
            checks[current'] \in 1..Postconditions[current']
    BY <1>3 DEF RequestBuilt, AuthorizeResolves, HttpResponds, VerifyExecutes,
                CheckInv, Executing, TypeInv, TypeOK
  <2>4. QED BY <2>1, <2>2, <2>3, NoCheck
<1>4. CASE RequestUnusable \/ AuthorizeFails \/ HttpRejects
  <2>1. PICK category : ExecutorThrows(category)
    BY <1>4 DEF RequestUnusable, AuthorizeFails, HttpRejects
  <2>2. /\ pc \in Executing
        /\ UNCHANGED <<current, caller, checks, mismatches>>
    BY <1>4 DEF RequestUnusable, AuthorizeFails, HttpRejects, Executing
  <2>3. CASE caller = "case"
    <3>1. PICK actual, fatal : Conclude(actual, <<category>>, fatal)
      BY <2>1, <2>3 DEF ExecutorThrows
    <3>2. /\ pc \in InCase
          /\ checks' \in [Case -> Nat]
          /\ mismatches' \in [Case -> Seq(MismatchKind)]
          /\ <<category>> # <<>>
      BY <2>2 DEF InCase, TypeInv, TypeOK
    <3>3. QED BY <3>1, <3>2, <2>2, ConcludeCheck
  <2>4. CASE /\ caller = "postcondition"
             /\ pc' = "verifying" /\ UNCHANGED <<caseReports, aborted>>
    <3>1. checks[current] \in 1..Postconditions[current]
      BY <2>2, <2>4 DEF CheckInv
    <3>2. QED BY <2>2, <2>4, <3>1, NoCheck DEF InCase, Executing
  <2>5. QED BY <2>1, <2>3, <2>4 DEF ExecutorThrows
<1>5. CASE EvaluateReturns \/ VerifyReturns
  <2>1. PICK found \in MismatchLists : CheckReturns(found)
    BY <1>5 DEF EvaluateReturns, VerifyReturns
  <2>2. /\ pc \in {"evaluating", "verifying"}
        /\ UNCHANGED current
    BY <1>5 DEF EvaluateReturns, VerifyReturns
  <2>3. CASE checks[current] < Postconditions[current] /\ pc' = "verifying"
             /\ UNCHANGED caseReports
    BY <2>1, <2>2, <2>3, MoreChecks
  <2>4. CASE /\ checks[current] >= Postconditions[current]
             /\ Conclude("response", FailuresOf(mismatches[current] \o found), FALSE)
    BY <2>1, <2>2, <2>4, LastCheck
  <2>5. QED BY <2>1, <2>3, <2>4 DEF CheckReturns
<1>6. CASE EvaluateThrows \/ VerifyThrows
  <2>1. PICK category : CheckThrows(category)
    BY <1>6 DEF EvaluateThrows, VerifyThrows
  <2>2. PICK fatal : Conclude("response", <<category>>, fatal)
    BY <2>1 DEF CheckThrows
  <2>3. /\ pc \in InCase
        /\ UNCHANGED <<current, checks, mismatches>>
    BY <1>6 DEF EvaluateThrows, VerifyThrows, InCase
  <2>4. /\ checks' \in [Case -> Nat]
        /\ mismatches' \in [Case -> Seq(MismatchKind)]
        /\ <<category>> # <<>>
    BY <2>3 DEF TypeInv, TypeOK
  <2>5. QED BY <2>2, <2>3, <2>4, ConcludeCheck
<1>7. CASE SignalAborts \/ Reporting \/ UNCHANGED vars
  <2>1. UNCHANGED <<pc, current, caller, checks, mismatches, caseReports>>
    BY <1>7 DEF SignalAborts, Reporting, vars
  <2>2. QED BY <2>1 DEF CheckInv, PassedMeansChecked, Outcome
<1>8. QED
  BY <1>1, <1>2, <1>3, <1>4, <1>5, <1>6, <1>7 DEF Next

-----------------------------------------------------------------------------
(* The inductive invariant and what follows from it.                       *)

LEMMA InductiveInvariant == Spec => []IInv
<1>1. Init => IInv
  <2> SUFFICES ASSUME Init PROVE IInv
    OBVIOUS
  <2>1. TypeInv
    BY TypeInvInit
  <2>2. /\ pc = "expanding" /\ current = 0 /\ caseReports = <<>>
        /\ suiteFailures = <<>> /\ aborted = FALSE
        /\ \A c \in Case : /\ checks[c] = 0 /\ mismatches[c] = <<>>
                           /\ creations[c] = 0 /\ disposals[c] = 0
    BY DEF Init
  <2>3. Len(caseReports) = 0 /\ DOMAIN caseReports = {}
    BY <2>2
  <2>4. PositionInv
    BY <2>2, <2>3 DEF PositionInv, InCase, Executing
  <2>5. LedgerInv
    BY <2>2, <2>3, NumCasesAssumption DEF LedgerInv, InCase, Executing, Case
  <2>6. AbortInv
    BY <2>2, <2>3 DEF AbortInv, AbortedIffDefect, DefectReported
  <2>7. CheckInv
    BY <2>2, <2>3 DEF CheckInv, PassedMeansChecked, InCase, Executing
  <2>8. QED BY <2>1, <2>4, <2>5, <2>6, <2>7 DEF IInv
<1>2. IInv /\ [Next]_vars => IInv'
  BY TypeInvStep, PositionStep, LedgerStep, AbortStep, CheckStep DEF IInv
<1>3. QED BY <1>1, <1>2, PTL DEF Spec

\* The runner owns its fixtures: at most one is live, that of the present
\* case, each is created and disposed of at most once, and none is left when
\* the report is built (runner.ts:107-119, 293-336).
THEOREM OwnershipCorrect == Spec => []FixtureOwnership
<1>1. IInv => FixtureOwnership
  <2> SUFFICES ASSUME IInv PROVE FixtureOwnership
    OBVIOUS
  <2>1. ASSUME NEW c \in Case
        PROVE  /\ creations[c] <= 1
               /\ disposals[c] <= creations[c]
               /\ disposals[c] < creations[c] => c = current /\ pc \in Holding
    BY DEF IInv, LedgerInv, Holding
  <2>2. ASSUME pc \in Holding
        PROVE  /\ fixture = current
               /\ current \in Case
               /\ disposals[current] < creations[current]
    <3>1. current \in Case /\ fixture = current
      BY <2>2 DEF IInv, TypeInv, PositionInv, Holding
    <3>2. CASE pc = "disposing"
      <4>1. Len(caseReports) = current
        BY <3>2 DEF IInv, PositionInv
      <4>2. creations[current] = 1 /\ disposals[current] = 0
        BY <3>1, <3>2, <4>1 DEF IInv, LedgerInv, Case
      <4>3. QED BY <3>1, <4>2
    <3>3. CASE pc \in InCase
      <4>1. Len(caseReports) = current - 1
        BY <3>3 DEF IInv, PositionInv
      <4>2. creations[current] = 1 /\ disposals[current] = 0
        BY <3>1, <3>3, <4>1, NumCasesAssumption DEF IInv, LedgerInv, Case
      <4>3. QED BY <3>1, <4>2
    <3>4. QED BY <2>2, <3>2, <3>3 DEF Holding
  <2>3. QED BY <2>1, <2>2 DEF FixtureOwnership
<1>2. QED BY <1>1, InductiveInvariant, PTL

\* The suite aborts exactly when a fixture failure or a framework defect is in
\* its report, never for mismatches or transport failures (runner.ts:312-334).
THEOREM AbortCorrect == Spec => []AbortedIffDefect
<1>1. IInv => AbortedIffDefect
  BY DEF IInv, AbortInv
<1>2. QED BY <1>1, InductiveInvariant, PTL

\* A case passes only with its request answered and all of its checks returned
\* without a mismatch (runner.ts:377-468).
THEOREM CheckCorrect == Spec => []PassedMeansChecked
<1>1. IInv => PassedMeansChecked
  BY DEF IInv, CheckInv
<1>2. QED BY <1>1, InductiveInvariant, PTL

\* A report that is not aborted is complete, and what a report counts as
\* skipped are the cases that got no fixture (runner.ts:502-527).
THEOREM AccountingCorrect == Spec => []RunAccounting
<1>1. IInv => RunAccounting
  <2> SUFFICES ASSUME IInv, pc = "reporting" PROVE RunAccounting
    BY DEF RunAccounting
  <2>1. \A i \in DOMAIN caseReports : caseReports[i].case = i
    BY DEF IInv, PositionInv
  <2>2. Len(caseReports) \in Nat /\ Len(caseReports) <= NumCases
    BY NumCasesAssumption DEF IInv, PositionInv, TypeInv, TypeOK
  <2>3. {c \in Case : creations[c] > 0} = 1..Len(caseReports)
    BY <2>2, NumCasesAssumption DEF IInv, LedgerInv, InCase, Executing, Case
  <2>4. Len(caseReports) = Cardinality({c \in Case : creations[c] > 0})
    <3>1. ASSUME NEW n \in Nat PROVE Cardinality(1..n) = n
      BY FS_Interval
    <3>2. QED BY <2>2, <2>3, <3>1
  <2>5. ASSUME Report.outcome # "aborted"
        PROVE  /\ total = NumCases
               /\ Report.summary.skipped = 0
               /\ \A c \in Case : creations[c] = 1
               /\ Report.outcome = "failed" => Report.summary.failed > 0
    <3>1. ~aborted
      BY <2>5 DEF Report, BuildReport
    <3>2. total = NumCases /\ Len(caseReports) = NumCases
      BY <3>1 DEF IInv, PositionInv
    <3>3. Report.summary.skipped = 0
      BY <3>2, NumCasesAssumption DEF Report, BuildReport
    <3>4. \A c \in Case : creations[c] = 1
      BY <3>2, NumCasesAssumption DEF IInv, LedgerInv, Case
    <3>5. suiteFailures = <<>>
      BY <3>1 DEF IInv, AbortInv, AbortedIffDefect, DefectReported
    <3>6. Report.outcome = "failed" => Report.summary.failed > 0
      BY <3>1, <3>5 DEF Report, BuildReport
    <3>7. QED BY <3>2, <3>3, <3>4, <3>6
  <2>6. QED BY <2>1, <2>4, <2>5 DEF RunAccounting
<1>2. QED BY <1>1, InductiveInvariant, PTL

\* Once the suite is aborted all that is left is a disposal (runner.ts:333).
THEOREM AbortStops == Spec => NothingStartsAfterAbort
<1>1. IInv /\ [Next]_vars =>
        [aborted => /\ pc' \in {"disposing", "reporting"}
                    /\ UNCHANGED <<current, creations, caseReports>>]_vars
  <2> SUFFICES ASSUME IInv, [Next]_vars, aborted, ~ UNCHANGED vars
               PROVE  /\ pc' \in {"disposing", "reporting"}
                      /\ UNCHANGED <<current, creations, caseReports>>
    OBVIOUS
  <2>1. pc \in {"disposing", "reporting"}
    BY DEF IInv, AbortInv
  <2>2. DisposeResolves \/ DisposeRejects \/ SignalAborts \/ Reporting
    BY <2>1
    DEF Next, ExpandReturns, ExpandThrows, CatalogAccepted, CatalogRefused,
        NextCase, EndLoop, CreateResolves, CreateRejects, RequestBuilt,
        RequestUnusable, AuthorizeResolves, AuthorizeFails, HttpResponds,
        HttpRejects, EvaluateReturns, EvaluateThrows, VerifyExecutes,
        VerifyReturns, VerifyThrows
  <2>3. QED
    BY <2>1, <2>2 DEF DisposeResolves, DisposeRejects, SignalAborts, Reporting,
                      suiteVars, caseVars, ledger, vars
<1>2. QED BY <1>1, InductiveInvariant, PTL DEF Spec, NothingStartsAfterAbort

-----------------------------------------------------------------------------
(* The runner implements CaseIsolation.                                    *)

\* Under the invariant the stage of a case is a matter of its position.
StageAt(c) ==
    IF pc = "disposing" /\ c = current THEN "judged"
    ELSE IF c <= Len(caseReports) THEN "released"
    ELSE IF pc \in InCase /\ c = current THEN "live"
    ELSE "waiting"

StagesByPosition == \A c \in Case : stageOfCase[c] = StageAt(c)

LEMMA StagePosition == IInv => StagesByPosition
<1> SUFFICES ASSUME IInv, NEW c \in Case PROVE stageOfCase[c] = StageAt(c)
  BY DEF StagesByPosition
<1>1. /\ creations[c] = IF c <= Len(caseReports) \/ (pc \in InCase /\ c = current)
                        THEN 1 ELSE 0
      /\ disposals[c] = IF c <= Len(caseReports) /\ ~(pc = "disposing" /\ c = current)
                        THEN 1 ELSE 0
  BY DEF IInv, LedgerInv
<1>2. c \in DOMAIN caseReports <=> c <= Len(caseReports)
  BY NumCasesAssumption DEF IInv, TypeInv, TypeOK, Case
<1>3. pc = "disposing" /\ c = current => c <= Len(caseReports)
  BY NumCasesAssumption DEF IInv, PositionInv, TypeInv, TypeOK
<1>4. QED BY <1>1, <1>2, <1>3 DEF stageOfCase, StageAt, InCase, Executing

\* A step that neither creates, reports nor disposes leaves every stage alone.
LEMMA StageKept ==
  ASSUME UNCHANGED <<creations, disposals, caseReports>>
  PROVE  UNCHANGED stageOfCase
BY DEF stageOfCase

\* CreateResolves acquires: the cases before are released, those after wait.
LEMMA CreateAcquires ==
  ASSUME IInv, IInv', CreateResolves
  PROVE  Isolation!Acquire(current)
<1>0. StagesByPosition /\ StagesByPosition'
  <2>1. StagesByPosition
    BY StagePosition
  <2>2. IInv' => StagesByPosition'
    BY StagePosition, PTL
  <2>3. QED BY <2>1, <2>2
<1>1. /\ pc = "creating" /\ pc' = "building"
      /\ UNCHANGED <<current, caseReports, aborted>>
  BY DEF CreateResolves, suiteVars
<1>2. current \in Case /\ Len(caseReports) = current - 1 /\ ~aborted
  BY <1>1 DEF IInv, TypeInv, PositionInv, AbortInv
<1>3. \A d \in Case : stageOfCase[d] = IF d < current THEN "released" ELSE "waiting"
  BY <1>1, <1>2, <1>0, NumCasesAssumption DEF StagesByPosition, StageAt, InCase, Executing, Case
<1>4. \A d \in Case : stageOfCase'[d] =
                         IF d = current THEN "live" ELSE stageOfCase[d]
  <2>1. \A d \in Case : stageOfCase'[d] =
           IF d <= Len(caseReports) THEN "released"
           ELSE IF d = current THEN "live"
           ELSE "waiting"
    BY <1>1, <1>0 DEF StagesByPosition, StageAt, InCase, Executing
  <2>2. QED BY <1>2, <1>3, <2>1, NumCasesAssumption DEF Case
<1>5. stageOfCase' = [stageOfCase EXCEPT ![current] = "live"]
  BY <1>4 DEF stageOfCase
<1>6. QED BY <1>1, <1>2, <1>3, <1>5 DEF Isolation!Acquire, Isolation!Case, Case

\* The report of the present case judges it.
LEMMA ConcludeJudges ==
  ASSUME IInv, IInv', pc \in InCase,
         NEW actual, NEW failures, NEW fatal \in BOOLEAN,
         Conclude(actual, failures, fatal), UNCHANGED current
  PROVE  Isolation!Judge(current)
<1>0. StagesByPosition /\ StagesByPosition'
  <2>1. StagesByPosition
    BY StagePosition
  <2>2. IInv' => StagesByPosition'
    BY StagePosition, PTL
  <2>3. QED BY <2>1, <2>2
<1>1. pc # "disposing" /\ pc' = "disposing"
  BY DEF Conclude, InCase, Executing
<1>2. /\ current \in Case
      /\ Len(caseReports) = current - 1
      /\ Len(caseReports') = current
  BY <1>1 DEF IInv, TypeInv, PositionInv, Holding
<1>3. /\ stageOfCase[current] = "live"
      /\ \A d \in Case : d # current =>
            stageOfCase[d] = IF d <= Len(caseReports) THEN "released" ELSE "waiting"
  BY <1>1, <1>2, <1>0, NumCasesAssumption DEF StagesByPosition, StageAt, Case
<1>4. \A d \in Case : stageOfCase'[d] =
                         IF d = current THEN "judged" ELSE stageOfCase[d]
  <2>1. \A d \in Case : stageOfCase'[d] =
           IF d = current THEN "judged"
           ELSE IF d <= current THEN "released"
           ELSE "waiting"
    BY <1>1, <1>2, <1>0 DEF StagesByPosition, StageAt, InCase, Executing
  <2>2. QED BY <1>2, <1>3, <2>1, NumCasesAssumption DEF Case
<1>5. stageOfCase' = [stageOfCase EXCEPT ![current] = "judged"]
  BY <1>4 DEF stageOfCase
<1>6. aborted' \in {aborted, TRUE}
  <2>1. aborted \in BOOLEAN /\ aborted' = (aborted \/ fatal)
    BY DEF Conclude, IInv, TypeInv, TypeOK
  <2>2. QED BY <2>1
<1>7. QED BY <1>3, <1>5, <1>6 DEF Isolation!Judge

\* A disposal, resolved or rejected, releases the fixture.
LEMMA DisposeReleases ==
  ASSUME IInv, IInv', DisposeResolves \/ DisposeRejects
  PROVE  Isolation!Release(current)
<1>0. StagesByPosition /\ StagesByPosition'
  <2>1. StagesByPosition
    BY StagePosition
  <2>2. IInv' => StagesByPosition'
    BY StagePosition, PTL
  <2>3. QED BY <2>1, <2>2
<1>1. /\ pc = "disposing" /\ pc' \in {"looping", "reporting"}
      /\ UNCHANGED <<current, caseReports>>
  BY DEF DisposeResolves, DisposeRejects, suiteVars
<1>2. current \in Case /\ Len(caseReports) = current
  BY <1>1 DEF IInv, TypeInv, PositionInv, Holding
<1>3. /\ stageOfCase[current] = "judged"
      /\ \A d \in Case : d # current =>
            stageOfCase[d] = IF d <= Len(caseReports) THEN "released" ELSE "waiting"
  BY <1>1, <1>2, <1>0 DEF StagesByPosition, StageAt, InCase, Executing
<1>4. \A d \in Case : stageOfCase'[d] =
                         IF d = current THEN "released" ELSE stageOfCase[d]
  <2>1. \A d \in Case : stageOfCase'[d] =
           IF d <= Len(caseReports) THEN "released" ELSE "waiting"
    BY <1>1, <1>0 DEF StagesByPosition, StageAt, InCase, Executing
  <2>2. QED BY <1>2, <1>3, <2>1, NumCasesAssumption DEF Case
<1>5. stageOfCase' = [stageOfCase EXCEPT ![current] = "released"]
  BY <1>4 DEF stageOfCase
<1>6. aborted' \in {aborted, TRUE}
  BY DEF DisposeResolves, DisposeRejects, AbortSuite
<1>7. QED BY <1>3, <1>5, <1>6 DEF Isolation!Release

LEMMA IsolationStep ==
  IInv /\ IInv' /\ [Next]_vars => [Isolation!Next]_(Isolation!vars)
<1> SUFFICES ASSUME IInv, IInv', [Next]_vars
             PROVE  Isolation!Next \/ UNCHANGED <<stageOfCase, aborted>>
  BY DEF Isolation!vars
<1> USE DEF suiteVars, caseVars, ledger
<1>1. CASE ExpandThrows \/ CatalogRefused \/ CreateRejects
  <2>1. /\ pc \in {"expanding", "loading", "creating"}
        /\ aborted' = TRUE
        /\ UNCHANGED <<creations, disposals, caseReports>>
    BY <1>1 DEF ExpandThrows, CatalogRefused, CreateRejects, AbortSuite
  <2>2. \A c \in Case : stageOfCase[c] \in {"waiting", "released"}
    BY <2>1, StagePosition DEF StagesByPosition, StageAt, InCase, Executing
  <2>3. Isolation!Halt
    BY <2>1, <2>2, StageKept DEF Isolation!Halt, Isolation!Case, Case
  <2>4. QED BY <2>3 DEF Isolation!Next
<1>2. CASE ExpandReturns \/ CatalogAccepted \/ NextCase \/ EndLoop
           \/ RequestBuilt \/ AuthorizeResolves \/ HttpResponds
           \/ VerifyExecutes \/ SignalAborts \/ Reporting \/ UNCHANGED vars
  <2>1. UNCHANGED <<creations, disposals, caseReports, aborted>>
    BY <1>2 DEF ExpandReturns, CatalogAccepted, NextCase, EndLoop, RequestBuilt,
                AuthorizeResolves, HttpResponds, VerifyExecutes, SignalAborts,
                Reporting, vars
  <2>2. QED BY <2>1, StageKept
<1>3. CASE CreateResolves
  <2>1. current \in Case
    BY <1>3 DEF CreateResolves, IInv, TypeInv
  <2>2. QED BY <1>3, <2>1, CreateAcquires DEF Isolation!Next, Isolation!Case, Case
<1>4. CASE DisposeResolves \/ DisposeRejects
  <2>1. current \in Case
    BY <1>4 DEF DisposeResolves, DisposeRejects, IInv, TypeInv, Holding
  <2>2. QED BY <1>4, <2>1, DisposeReleases DEF Isolation!Next, Isolation!Case, Case
<1>5. ASSUME NEW actual, NEW failures, NEW fatal \in BOOLEAN,
             Conclude(actual, failures, fatal),
             pc \in InCase, UNCHANGED current
      PROVE  Isolation!Next
  <2>1. current \in Case
    BY <1>5 DEF IInv, TypeInv, Holding
  <2>2. Isolation!Judge(current)
    BY <1>5, ConcludeJudges
  <2>3. QED BY <2>1, <2>2 DEF Isolation!Next, Isolation!Case, Case
<1>6. CASE RequestUnusable \/ AuthorizeFails \/ HttpRejects
  <2>1. PICK category : ExecutorThrows(category)
    BY <1>6 DEF RequestUnusable, AuthorizeFails, HttpRejects
  <2>2. pc \in InCase /\ UNCHANGED <<current, creations, disposals>>
    BY <1>6 DEF RequestUnusable, AuthorizeFails, HttpRejects, InCase, Executing
  <2>3. CASE caller = "case"
    <3> DEFINE fatal == category = "framework-defect"
    <3>1. PICK actual : Conclude(actual, <<category>>, fatal)
      BY <2>1, <2>3 DEF ExecutorThrows
    <3>2. fatal \in BOOLEAN
      OBVIOUS
    <3> HIDE DEF fatal
    <3>3. QED BY <1>5, <2>2, <3>1, <3>2
  <2>4. CASE UNCHANGED <<caseReports, aborted>>
    BY <2>2, <2>4, StageKept
  <2>5. QED BY <2>1, <2>3, <2>4 DEF ExecutorThrows
<1>7. CASE EvaluateReturns \/ VerifyReturns
  <2>1. PICK found \in MismatchLists : CheckReturns(found)
    BY <1>7 DEF EvaluateReturns, VerifyReturns
  <2>2. pc \in InCase /\ UNCHANGED <<current, creations, disposals>>
    BY <1>7 DEF EvaluateReturns, VerifyReturns, InCase
  <2>3. CASE UNCHANGED <<caseReports, aborted>>
    BY <2>2, <2>3, StageKept
  <2>4. CASE Conclude("response", FailuresOf(mismatches[current] \o found), FALSE)
    BY <1>5, <2>2, <2>4
  <2>5. QED BY <2>1, <2>3, <2>4 DEF CheckReturns
<1>8. CASE EvaluateThrows \/ VerifyThrows
  <2>1. PICK category : CheckThrows(category)
    BY <1>8 DEF EvaluateThrows, VerifyThrows
  <2>2. pc \in InCase /\ UNCHANGED current
    BY <1>8 DEF EvaluateThrows, VerifyThrows, InCase
  <2>3. QED BY <1>5, <2>1, <2>2 DEF CheckThrows
<1>9. QED
  BY <1>1, <1>2, <1>3, <1>4, <1>6, <1>7, <1>8 DEF Next

\* Each case has a fixture of its own, acquired in suite order when no other is
\* live, judged and then released, and none once the suite has halted
\* (runner.ts:107-119, 240).
THEOREM RunnerIsolatesCases == Spec => Isolated
<1>1. Init => Isolation!Init
  <2> SUFFICES ASSUME Init PROVE Isolation!Init
    OBVIOUS
  <2>1. \A c \in Case : creations[c] = 0
    BY DEF Init
  <2>2. stageOfCase = [c \in Case |-> "waiting"]
    BY <2>1 DEF stageOfCase
  <2>3. aborted = FALSE
    BY DEF Init
  <2>4. QED BY <2>2, <2>3 DEF Isolation!Init, Isolation!Case, Case
<1>2. QED
  BY <1>1, IsolationStep, InductiveInvariant, PTL
  DEF Spec, Isolated, Isolation!SafeSpec
=============================================================================
