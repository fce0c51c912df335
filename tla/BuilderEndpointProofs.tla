------------------------ MODULE BuilderEndpointProofs ------------------------
(* What the submitter guarantees holds beside /builder too.                   *)
EXTENDS BuilderEndpoint, TransactionSubmitterProofs

\* The network's number moves, and nothing of the submitter.
LEMMA CallerStep == IInv /\ CallerSubmits => IInv'
<1> SUFFICES ASSUME IInv, CallerSubmits  PROVE IInv'
  OBVIOUS
<1>1. /\ ledgerSeq' = ledgerSeq + 1
      /\ UNCHANGED <<pc, obj, tmp, num, resp, row, cached, seq, lock, gen, numGen, pool,
                     applied, configured, up, crashes>>
  BY DEF CallerSubmits, reqVars, accVars, procVars
<1>2. TypeOK'
  BY <1>1 DEF IInv, TypeOK
<1>3. LedgerLinear'
  <2>1. \A a \in applied : a.tx.seq \in Nat
    BY DEF IInv, TypeOK, Envelope
  <2>2. \A a \in applied : a.tx.seq <= ledgerSeq + 1
    BY <2>1 DEF IInv, TypeOK, LedgerLinear
  <2>3. QED
    BY <1>1, <2>2 DEF IInv, LedgerLinear, OnLedger
<1>4. ObjectKnown' /\ RequestOrder' /\ AnswersTrue' /\ EverySubmissionRecorded'
  BY <1>1 DEF IInv, ObjectKnown, RequestOrder, AnswersTrue, EverySubmissionRecorded,
     Marked, AppliedOk, Tx
<1>5. ObjectOwners' /\ OneObject' /\ NumbersBelow' /\ NumberHandedOutOnce'
  BY <1>1 DEF IInv, ObjectOwners, OneObject, NumbersBelow, NumberHandedOutOnce
<1>6. QED
  BY <1>2, <1>3, <1>4, <1>5 DEF IInv

\* Every step of either keeps the submitter's invariant.
LEMMA EndpointStep == IInv /\ [EndpointNext]_vars => IInv'
<1> SUFFICES ASSUME IInv, [EndpointNext]_vars  PROVE IInv'
  OBVIOUS
<1>1. CASE [Next]_vars
  BY <1>1, IInvStep
<1>2. CASE CallerSubmits
  BY <1>2, CallerStep
<1>3. QED
  BY <1>1, <1>2 DEF EndpointNext

\* Callers of /builder who use the account's numbers themselves cannot make the
\* submitter's table say what is not so.
THEOREM EndpointInvariance == EndpointSpec => []IInv
<1>1. Init => IInv
  BY IInvInit
<1>2. QED
  BY <1>1, EndpointStep, PTL DEF EndpointSpec

\* So the rows, the answers and the numbers of the submitter are right beside any
\* callers of /builder, who take its numbers away at any time.
THEOREM SubmitterSafeBesideBuilder ==
  EndpointSpec =>
    [](/\ SuccessRowApplied /\ FailureRowFinal /\ AcknowledgedIsRecorded
       /\ EverySubmissionRecorded /\ NumberHandedOutOnce)
<1>1. IInv => /\ SuccessRowApplied /\ FailureRowFinal /\ AcknowledgedIsRecorded
              /\ EverySubmissionRecorded /\ NumberHandedOutOnce
  BY DEF IInv, AnswersTrue, RequestOrder, SuccessRowApplied, FailureRowFinal,
     AcknowledgedIsRecorded
<1>2. QED
  BY <1>1, EndpointInvariance, PTL

\* Nor can they break the promise of AuditTrail.
THEOREM EndpointImplementsTrail == EndpointSpec => ImplementsTrail
<1>1. Init => Trail!Init
  BY TrailInit
<1>2. IInv /\ IInv' /\ [EndpointNext]_vars => [Trail!Next]_(Trail!vars)
  <2> SUFFICES ASSUME IInv, IInv', [EndpointNext]_vars
               PROVE  [Trail!Next]_(Trail!vars)
    OBVIOUS
  <2>1. CASE [Next]_vars
    BY <2>1, TrailStep
  <2>2. CASE CallerSubmits
    BY <2>2 DEF CallerSubmits, Trail!vars, Written, Tx, reqVars, accVars, procVars
  <2>3. QED
    BY <2>1, <2>2 DEF EndpointNext
<1>3. QED
  BY <1>1, <1>2, EndpointInvariance, PTL DEF EndpointSpec, ImplementsTrail, Trail!Spec

=============================================================================
