--------------------- MODULE TransactionSubmitterProofs ---------------------
(* Proofs about TransactionSubmitter, for any number of requests, payloads,   *)
(* crashes and foreign transactions.                                          *)
EXTENDS TransactionSubmitter, FiniteSetTheorems, TLAPS

-----------------------------------------------------------------------------
(* The inductive invariant.                                                   *)

Unnumbered == {"idle", "load", "loaded", "alloc", "inc"}
Submitted == {"submit", "wait", "mark", "sync", "syncRead", "syncWrite", "done"}
HasObject == {"alloc", "inc", "persist"} \cup Submitted

\* A request past GetAccount has an Account object.
ObjectKnown == \A r \in Requests : pc[r] \in HasObject => obj[r] # NoRequest

\* What a request has done, by where it is.
RequestOrder ==
  \A r \in Requests :
    /\ pc[r] \in Unnumbered => num[r] = 0
    /\ pc[r] \in Submitted \cup {"persist"} => num[r] # 0
    /\ num[r] = 0 => row[r] = "none"
    /\ pc[r] \in Submitted => row[r] # "none"
    /\ pc[r] = "persist" => row[r] = "none"
    /\ pc[r] \in {"submit", "wait", "mark"} => row[r] = "sending"
    /\ row[r] = "none" => resp[r] = "none"
    /\ pc[r] \in {"persist", "submit", "wait"} => resp[r] = "none"
    /\ pc[r] \in {"sync", "syncRead", "syncWrite", "done"} => row[r] = Marked(r)
    /\ pc[r] = "mark" => resp[r] # "none"

\* What Horizon said is so.
AnswersTrue ==
  \A r \in Requests :
    /\ row[r] = "success" => resp[r] = "ok"
    /\ row[r] = "failure" => resp[r] \in {"failed", "bad_seq"}
    /\ resp[r] = "ok" => AppliedOk(Tx(r))
    /\ resp[r] \in {"failed", "bad_seq"} /\ (AppliedOk(Tx(r)) \/ Tx(r) \in pool) =>
         \E s \in Requests \ {r} : Tx(s) = Tx(r) /\ row[s] # "none"

\* The ledger applies one transaction per number, and forgets none.
LedgerLinear ==
  /\ \A a \in applied : a.tx.seq <= ledgerSeq
  /\ \A a, b \in applied : a.tx.seq = b.tx.seq => a = b
  /\ \A t \in pool : ~OnLedger(t)

\* Who works with which Account object, and who holds its mutex.
ObjectOwners ==
  /\ cached \in Requests => pc[cached] \notin {"idle", "load", "loaded"}
  /\ \A r \in Requests :
       /\ obj[r] \in Requests => pc[obj[r]] \notin {"idle", "load", "loaded"}
       /\ num[r] # 0 => obj[r] # NoRequest
       /\ pc[r] \in {"idle", "load", "loaded"} => obj[r] = NoRequest
       /\ pc[r] \in {"inc", "syncRead", "syncWrite"} => lock[obj[r]] = r
       /\ pc[r] = "inc" => tmp[r] = seq[obj[r]]

\* A configured seed has the object InitAccount made, and no other.
OneObject ==
  /\ ~up => \A r \in Requests : pc[r] \in Final \cup {"idle"}
  /\ configured =>
       /\ up => cached = Main
       /\ \A r \in Requests : obj[r] \in {Main, NoRequest} /\ pc[r] \notin {"load", "loaded"}

\* Numbers given out since the last reset are not above the object's own.
NumbersBelow ==
  \A r \in Requests :
    num[r] # 0 =>
      /\ numGen[r] <= gen[obj[r]]
      /\ numGen[r] = gen[obj[r]] => num[r] <= seq[obj[r]]

IInv ==
  /\ TypeOK
  /\ ObjectKnown
  /\ RequestOrder
  /\ AnswersTrue
  /\ LedgerLinear
  /\ EverySubmissionRecorded
  /\ ObjectOwners
  /\ OneObject
  /\ NumbersBelow
  /\ NumberHandedOutOnce

-----------------------------------------------------------------------------
(* Type correctness.                                                          *)

\* A request's transaction is an envelope.
LEMMA TxType == TypeOK => \A r \in Requests : Tx(r) \in Envelope
BY DEF TypeOK, Tx, Envelope

\* Every step of a request keeps the types.
LEMMA HandleType ==
  ASSUME TypeOK, ObjectKnown, NEW r \in Requests, Handle(r)
  PROVE  TypeOK' /\ ObjectKnown'
<1> USE DEF TypeOK, ObjectKnown, HasObject, Submitted, PC, Final, Goto, accVars, netVars,
            procVars, Objects
<1>1. CASE GetAccount(r)
  BY <1>1 DEF GetAccount
<1>2. CASE LoadAccount(r)
  BY <1>2 DEF LoadAccount
<1>3. CASE CacheAccount(r)
  BY <1>3, RequestsAssumption DEF CacheAccount
<1>4. CASE LoadAccountFails(r)
  BY <1>4 DEF LoadAccountFails
<1>5. CASE LockAccount(r)
  BY <1>5 DEF LockAccount
<1>6. CASE NextSequence(r)
  BY <1>6 DEF NextSequence
<1>7. CASE PersistSending(r) \/ PersistSendingFails(r)
  BY <1>7 DEF PersistSending, PersistSendingFails, Insert, RowStatus
<1>8. CASE Submit(r)
  BY <1>8, TxType DEF Submit
<1>9. CASE AnswerApplied(r) \/ AnswerRejected(r)
  BY <1>9 DEF AnswerApplied, AnswerRejected, Answer, Response
<1>10. CASE SubmitFails(r)
  BY <1>10 DEF SubmitFails
<1>11. CASE MarkTransaction(r) \/ MarkTransactionFails(r)
  BY <1>11 DEF MarkTransaction, MarkTransactionFails, Update, Marked, RowStatus
<1>12. CASE SyncLock(r) \/ SyncFails(r)
  BY <1>12 DEF SyncLock, SyncFails
<1>13. CASE SyncRead(r)
  BY <1>13 DEF SyncRead
<1>14. CASE SyncWrite(r)
  BY <1>14 DEF SyncWrite
<1>15. QED
  BY <1>1, <1>2, <1>3, <1>4, <1>5, <1>6, <1>7, <1>8, <1>9, <1>10, <1>11, <1>12,
     <1>13, <1>14 DEF Handle, Proceed, LoadAccountAnswers

\* Every step keeps the types.
LEMMA TypeStep == TypeOK /\ ObjectKnown /\ [Next]_vars => TypeOK' /\ ObjectKnown'
<1> SUFFICES ASSUME TypeOK, ObjectKnown, [Next]_vars PROVE TypeOK' /\ ObjectKnown'
  OBVIOUS
<1> USE DEF ObjectKnown, HasObject, Submitted
<1>1. CASE \E r \in Requests : Handle(r)
  BY <1>1, HandleType
<1>0. CASE InitAccount
  BY <1>0 DEF InitAccount, TypeOK, Objects, reqVars, netVars
<1>2. CASE Apply
  <2>1. PICK t \in pool, b \in BOOLEAN :
          /\ pool' = pool \ {t} /\ applied' = applied \cup {[tx |-> t, ok |-> b]}
    BY <1>2 DEF Apply
  <2>2. QED
    BY <1>2, <2>1 DEF Apply, TypeOK, reqVars, accVars, procVars
<1>3. CASE ForeignTransaction
  BY <1>3 DEF ForeignTransaction, TypeOK, reqVars, accVars, procVars
<1>4. CASE Crash
  BY <1>4, BoundsAssumption DEF Crash, TypeOK, PC, Final, netVars
<1>5. CASE UNCHANGED vars
  BY <1>5 DEF vars, TypeOK
<1>6. QED
  BY <1>0, <1>1, <1>2, <1>3, <1>4, <1>5 DEF Next

\* The types hold at the start.
LEMMA TypeInit == Init => TypeOK /\ ObjectKnown
BY BoundsAssumption DEF Init, TypeOK, PC, Response, RowStatus, ObjectKnown, HasObject,
   Submitted

\* The submitter's variables keep their types; a request past GetAccount has an
\* Account object to work with.
THEOREM TypeCorrect == Spec => []TypeOK
BY TypeInit, TypeStep, PTL DEF Spec

-----------------------------------------------------------------------------
(* The order of a request's steps.                                            *)

\* A number, then a row, then an answer, then the outcome in the row: every step
\* keeps that order.
LEMMA OrderStep ==
  ASSUME TypeOK, RequestOrder, [Next]_vars
  PROVE  RequestOrder'
<1> USE DEF RequestOrder, Unnumbered, Submitted, Marked
<1>1. ASSUME NEW r \in Requests, Handle(r)
      PROVE  RequestOrder'
  <2> USE DEF TypeOK, Goto, accVars, netVars, procVars
  <2>1. CASE \/ GetAccount(r) \/ LoadAccount(r) \/ CacheAccount(r) \/ LoadAccountFails(r)
             \/ LockAccount(r)
    BY <2>1 DEF GetAccount, LoadAccount, CacheAccount, LoadAccountFails, LockAccount
  <2>2. CASE NextSequence(r)
    BY <2>2 DEF NextSequence
  <2>3. CASE PersistSending(r) \/ PersistSendingFails(r)
    BY <2>3 DEF PersistSending, PersistSendingFails, Insert
  <2>4. CASE Submit(r) \/ SubmitFails(r)
    BY <2>4 DEF Submit, SubmitFails
  <2>5. CASE AnswerApplied(r) \/ AnswerRejected(r)
    BY <2>5 DEF AnswerApplied, AnswerRejected, Answer
  <2>6. CASE MarkTransaction(r) \/ MarkTransactionFails(r)
    BY <2>6 DEF MarkTransaction, MarkTransactionFails, Update
  <2>7. CASE SyncLock(r) \/ SyncRead(r) \/ SyncWrite(r) \/ SyncFails(r)
    BY <2>7 DEF SyncLock, SyncRead, SyncWrite, SyncFails
  <2>8. QED
    BY <1>1, <2>1, <2>2, <2>3, <2>4, <2>5, <2>6, <2>7 DEF Handle, Proceed, LoadAccountAnswers
<1>2. CASE InitAccount \/ Apply \/ ForeignTransaction \/ UNCHANGED vars
  BY <1>2 DEF InitAccount, Apply, ForeignTransaction, vars, reqVars
<1>3. CASE Crash
  BY <1>3 DEF Crash, Final, TypeOK
<1>4. QED
  BY <1>1, <1>2, <1>3 DEF Next

\* A transaction, once it has a number, is never changed; a row is never
\* removed, an answer never replaced.
LEMMA Stable ==
  ASSUME TypeOK, RequestOrder, [Next]_vars, NEW s \in Requests
  PROVE  /\ num[s] # 0 => num'[s] = num[s] /\ Tx(s)' = Tx(s)
         /\ row[s] # "none" => row'[s] # "none"
         /\ resp[s] # "none" => resp'[s] = resp[s]
<1>1. ASSUME NEW r \in Requests, Handle(r)
      PROVE  /\ num[s] # 0 => num'[s] = num[s]
             /\ row[s] # "none" => row'[s] # "none"
             /\ resp[s] # "none" => resp'[s] = resp[s]
  <2> USE DEF TypeOK, accVars, netVars, procVars, RequestOrder
  <2>1. CASE NextSequence(r)
    BY <2>1 DEF NextSequence, Unnumbered
  <2>2. CASE \/ PersistSending(r) \/ PersistSendingFails(r)
             \/ MarkTransaction(r) \/ MarkTransactionFails(r)
    BY <2>2 DEF PersistSending, PersistSendingFails, Insert, MarkTransaction,
       MarkTransactionFails, Update, Marked
  <2>3. CASE AnswerApplied(r) \/ AnswerRejected(r)
    BY <2>3 DEF AnswerApplied, AnswerRejected, Answer
  <2>4. CASE UNCHANGED <<num, row, resp>>
    BY <2>4
  <2>5. QED
    BY <1>1, <2>1, <2>2, <2>3, <2>4 DEF Handle, Proceed, LoadAccountAnswers, GetAccount, LoadAccount, CacheAccount,
       LoadAccountFails, LockAccount, Submit, SubmitFails, SyncLock, SyncRead,
       SyncWrite, SyncFails
<1>2. CASE InitAccount \/ Apply \/ ForeignTransaction \/ Crash \/ UNCHANGED vars
  BY <1>2 DEF InitAccount, Apply, ForeignTransaction, Crash, vars, reqVars, Tx
<1>3. QED
  BY <1>1, <1>2 DEF Next, Tx

-----------------------------------------------------------------------------
(* The network.                                                               *)

\* What a step can do to the pool and to the ledger.
LEMMA NetworkStep ==
  ASSUME TypeOK, [Next]_vars
  PROVE  \/ UNCHANGED <<applied, ledgerSeq>> /\ pool' \subseteq pool
         \/ /\ UNCHANGED <<applied, ledgerSeq>>
            /\ \E r \in Requests : /\ pc[r] = "submit" /\ ~OnLedger(Tx(r))
                                   /\ pool' = pool \cup {Tx(r)}
         \/ /\ ledgerSeq' = ledgerSeq + 1
            /\ \E t \in pool, b \in BOOLEAN :
                 /\ t.seq = ledgerSeq + 1 /\ pool' = pool \ {t}
                 /\ applied' = applied \cup {[tx |-> t, ok |-> b]}
         \/ ledgerSeq' = ledgerSeq + 1 /\ UNCHANGED <<applied, pool>>
<1>1. ASSUME NEW r \in Requests, Handle(r)
      PROVE  \/ UNCHANGED <<applied, ledgerSeq>> /\ pool' \subseteq pool
             \/ /\ UNCHANGED <<applied, ledgerSeq>>
                /\ pc[r] = "submit" /\ ~OnLedger(Tx(r)) /\ pool' = pool \cup {Tx(r)}
  BY <1>1 DEF Handle, Proceed, LoadAccountAnswers, GetAccount, LoadAccount, CacheAccount, LoadAccountFails,
     LockAccount, NextSequence, PersistSending, PersistSendingFails, Submit,
     AnswerApplied, AnswerRejected, SubmitFails, MarkTransaction, MarkTransactionFails,
     SyncLock, SyncRead, SyncWrite, SyncFails, netVars
<1>2. CASE Apply
  BY <1>2 DEF Apply
<1>3. CASE InitAccount \/ ForeignTransaction \/ Crash \/ UNCHANGED vars
  BY <1>3 DEF InitAccount, ForeignTransaction, Crash, vars, netVars
<1>4. QED
  BY <1>1, <1>2, <1>3 DEF Next

\* A number is on the ledger at most once, and what is there is not pending.
LEMMA LedgerStep ==
  ASSUME TypeOK, LedgerLinear, [Next]_vars
  PROVE  LedgerLinear'
<1>1. /\ ledgerSeq \in Nat
      /\ \A a \in applied : a.tx.seq \in Nat
      /\ \A t \in pool : t.seq \in Nat
  BY DEF TypeOK, Envelope
<1>2. CASE UNCHANGED <<applied, ledgerSeq>> /\ pool' \subseteq pool
  BY <1>2 DEF LedgerLinear, OnLedger
<1>3. CASE /\ UNCHANGED <<applied, ledgerSeq>>
           /\ \E r \in Requests : /\ pc[r] = "submit" /\ ~OnLedger(Tx(r))
                                  /\ pool' = pool \cup {Tx(r)}
  BY <1>3 DEF LedgerLinear, OnLedger
<1>4. ASSUME ledgerSeq' = ledgerSeq + 1,
             NEW t \in pool, NEW b \in BOOLEAN,
             t.seq = ledgerSeq + 1, pool' = pool \ {t},
             applied' = applied \cup {[tx |-> t, ok |-> b]}
      PROVE  LedgerLinear'
  <2>1. \A a \in applied' : a.tx.seq <= ledgerSeq'
    BY <1>1, <1>4 DEF LedgerLinear
  <2>2. \A a, c \in applied' : a.tx.seq = c.tx.seq => a = c
    <3>1. \A a \in applied : a.tx.seq # t.seq
      BY <1>1, <1>4 DEF LedgerLinear
    <3>2. QED
      BY <1>4, <3>1 DEF LedgerLinear
  <2>3. \A u \in pool' : ~OnLedger(u)'
    <3> SUFFICES ASSUME NEW u \in pool, u # t, NEW c \in BOOLEAN
                 PROVE  [tx |-> u, ok |-> c] \notin applied'
      BY <1>4 DEF OnLedger
    <3>1. [tx |-> u, ok |-> c] \notin applied
      BY DEF LedgerLinear, OnLedger
    <3>2. QED
      BY <1>4, <3>1
  <2>4. QED
    BY <2>1, <2>2, <2>3 DEF LedgerLinear
<1>5. CASE ledgerSeq' = ledgerSeq + 1 /\ UNCHANGED <<applied, pool>>
  <2>1. \A a \in applied' : a.tx.seq <= ledgerSeq'
    BY <1>1, <1>5 DEF LedgerLinear
  <2>2. QED
    BY <1>5, <2>1 DEF LedgerLinear, OnLedger
<1>6. QED
  BY <1>2, <1>3, <1>4, <1>5, NetworkStep

\* The row is there before the transaction is, and stays.
LEMMA RecordedStep ==
  ASSUME TypeOK, RequestOrder, EverySubmissionRecorded, [Next]_vars
  PROVE  EverySubmissionRecorded'
<1> DEFINE Known == pool \cup {a.tx : a \in applied}
<1>1. \A t \in Known : \E r \in Requests : row'[r] # "none" /\ Tx(r)' = t
  <2> SUFFICES ASSUME NEW t \in Known
               PROVE  \E r \in Requests : row'[r] # "none" /\ Tx(r)' = t
    OBVIOUS
  <2>1. PICK r \in Requests : row[r] # "none" /\ Tx(r) = t
    BY DEF EverySubmissionRecorded
  <2>2. num[r] # 0
    BY <2>1 DEF RequestOrder
  <2>3. QED
    BY <2>1, <2>2, Stable
<1>2. \A r \in Requests : pc[r] = "submit" => row'[r] # "none" /\ Tx(r)' = Tx(r)
  BY Stable DEF RequestOrder, Submitted
<1>3. \A t \in Known' : t \in Known \/ \E r \in Requests : pc[r] = "submit" /\ t = Tx(r)
  <2>1. CASE UNCHANGED applied /\ pool' \subseteq pool
    BY <2>1
  <2>2. CASE /\ UNCHANGED applied
             /\ \E r \in Requests : pc[r] = "submit" /\ pool' = pool \cup {Tx(r)}
    BY <2>2
  <2>3. CASE \E t \in pool, b \in BOOLEAN : /\ pool' = pool \ {t}
                                            /\ applied' = applied \cup {[tx |-> t, ok |-> b]}
    BY <2>3
  <2>4. QED
    BY <2>1, <2>2, <2>3, NetworkStep
<1>4. QED
  BY <1>1, <1>2, <1>3 DEF EverySubmissionRecorded

-----------------------------------------------------------------------------
(* Answers.                                                                   *)

\* A final row carries the answer it was marked with.
LEMMA RowsMatchAnswers ==
  ASSUME TypeOK, RequestOrder, AnswersTrue, [Next]_vars, NEW s \in Requests
  PROVE  /\ row'[s] = "success" => resp'[s] = "ok"
         /\ row'[s] = "failure" => resp'[s] \in {"failed", "bad_seq"}
<1>1. CASE row'[s] = row[s]
  BY <1>1, Stable DEF AnswersTrue
<1>2. CASE row'[s] # row[s]
  <2>1. ASSUME NEW r \in Requests, Handle(r), row' # row
        PROVE  \/ PersistSending(r) \/ PersistSendingFails(r)
               \/ MarkTransaction(r) \/ MarkTransactionFails(r)
    BY <2>1 DEF Handle, Proceed, LoadAccountAnswers, GetAccount, LoadAccount, CacheAccount, LoadAccountFails,
       LockAccount, NextSequence, Submit, AnswerApplied, AnswerRejected, SubmitFails,
       SyncLock, SyncRead, SyncWrite, SyncFails
  <2>2. PICK r \in Requests : \/ PersistSending(r) \/ PersistSendingFails(r)
                              \/ MarkTransaction(r) \/ MarkTransactionFails(r)
    BY <1>2, <2>1 DEF Next, InitAccount, Apply, ForeignTransaction, Crash, vars, reqVars
  <2>3. CASE PersistSending(r) \/ PersistSendingFails(r)
    BY <1>2, <2>3 DEF PersistSending, PersistSendingFails, Insert, TypeOK
  <2>4. CASE MarkTransaction(r) \/ MarkTransactionFails(r)
    <3>1. /\ r = s /\ pc[s] = "mark" /\ row'[s] = Marked(s) /\ resp' = resp
      BY <1>2, <2>4 DEF MarkTransaction, MarkTransactionFails, Update, TypeOK
    <3>2. resp[s] \in {"ok", "failed", "bad_seq"}
      BY <3>1 DEF RequestOrder, TypeOK, Response
    <3>3. QED
      BY <3>1, <3>2 DEF Marked
  <2>5. QED
    BY <2>2, <2>3, <2>4
<1>3. QED
  BY <1>1, <1>2

\* An answer is given once, by the action that waits for it.
LEMMA NewAnswer ==
  ASSUME TypeOK, [Next]_vars, NEW s \in Requests, resp'[s] # resp[s]
  PROVE  AnswerApplied(s) \/ AnswerRejected(s)
<1>1. ASSUME NEW r \in Requests, Handle(r), resp' # resp
      PROVE  AnswerApplied(r) \/ AnswerRejected(r)
  BY <1>1 DEF Handle, Proceed, LoadAccountAnswers, GetAccount, LoadAccount, CacheAccount, LoadAccountFails,
     LockAccount, NextSequence, PersistSending, PersistSendingFails, Submit, SubmitFails,
     MarkTransaction, MarkTransactionFails, SyncLock, SyncRead, SyncWrite, SyncFails
<1>2. PICK r \in Requests : AnswerApplied(r) \/ AnswerRejected(r)
  BY <1>1 DEF Next, InitAccount, Apply, ForeignTransaction, Crash, vars, reqVars
<1>3. r = s
  BY <1>2 DEF AnswerApplied, AnswerRejected, Answer, TypeOK
<1>4. QED
  BY <1>2, <1>3

\* A first answer is true of the ledger and the pool it was given on.
LEMMA FirstAnswer ==
  ASSUME TypeOK, LedgerLinear, NEW s \in Requests,
         AnswerApplied(s) \/ AnswerRejected(s)
  PROVE  /\ resp'[s] = "ok" => AppliedOk(Tx(s))'
         /\ resp'[s] \in {"failed", "bad_seq"} => ~AppliedOk(Tx(s))' /\ Tx(s)' \notin pool'
<1>1. Tx(s)' = Tx(s) /\ applied' = applied
  BY DEF AnswerApplied, AnswerRejected, Tx, netVars
<1>2. CASE AnswerApplied(s) /\ AppliedOk(Tx(s)) /\ Answer(s, "ok")
  BY <1>1, <1>2 DEF Answer, AppliedOk, TypeOK
<1>3. CASE /\ AnswerApplied(s) /\ [tx |-> Tx(s), ok |-> FALSE] \in applied
           /\ Answer(s, "failed")
  <2>1. OnLedger(Tx(s))
    BY <1>3 DEF OnLedger
  <2>2. Tx(s) \notin pool' /\ resp'[s] = "failed"
    BY <1>3, <2>1 DEF LedgerLinear, AnswerApplied, Answer, netVars, TypeOK
  <2>3. ~AppliedOk(Tx(s))
    <3> DEFINE a == [tx |-> Tx(s), ok |-> FALSE]
               b == [tx |-> Tx(s), ok |-> TRUE]
    <3>1. a.tx.seq = b.tx.seq /\ a.ok # b.ok
      OBVIOUS
    <3>2. a \in applied /\ b \in applied => a = b
      BY <3>1 DEF LedgerLinear
    <3>3. QED
      BY <1>3, <3>1, <3>2 DEF AppliedOk
  <2>4. QED
    BY <1>1, <2>2, <2>3 DEF AppliedOk
<1>4. CASE AnswerRejected(s)
  <2>1. resp'[s] \in {"failed", "bad_seq"} /\ Tx(s) \notin pool'
    BY <1>4 DEF AnswerRejected, Answer, TypeOK
  <2>2. ~AppliedOk(Tx(s))
    BY <1>4 DEF AnswerRejected, OnLedger, AppliedOk
  <2>3. QED
    BY <1>1, <2>1, <2>2 DEF AppliedOk
<1>5. QED
  BY <1>2, <1>3, <1>4 DEF AnswerApplied

\* An answer given stays true: the network applies only what it holds, and takes
\* a refused transaction again only from another request.
LEMMA AnswersStep ==
  ASSUME TypeOK, RequestOrder, LedgerLinear, AnswersTrue, [Next]_vars
  PROVE  AnswersTrue'
<1> SUFFICES ASSUME NEW s \in Requests
             PROVE  /\ resp'[s] = "ok" => AppliedOk(Tx(s))'
                    /\ resp'[s] \in {"failed", "bad_seq"}
                         /\ (AppliedOk(Tx(s))' \/ Tx(s)' \in pool') =>
                           \E q \in Requests \ {s} : Tx(q)' = Tx(s)' /\ row'[q] # "none"
  BY RowsMatchAnswers DEF AnswersTrue
<1>1. CASE resp'[s] # resp[s]
  BY <1>1, NewAnswer, FirstAnswer
<1>2. CASE resp'[s] = resp[s] /\ resp[s] = "none"
  BY <1>2
<1>3. CASE resp'[s] = resp[s] /\ resp[s] # "none"
  <2>1. num[s] # 0 /\ Tx(s)' = Tx(s)
    BY <1>3, Stable DEF RequestOrder
  <2>2. applied \subseteq applied'
    BY NetworkStep
  <2>3. resp'[s] = "ok" => AppliedOk(Tx(s))'
    BY <1>3, <2>1, <2>2 DEF AnswersTrue, AppliedOk
  <2>4. ASSUME resp[s] \in {"failed", "bad_seq"},
               AppliedOk(Tx(s))' \/ Tx(s) \in pool'
        PROVE  \E q \in Requests \ {s} : Tx(q)' = Tx(s) /\ row'[q] # "none"
    <3>1. CASE AppliedOk(Tx(s)) \/ Tx(s) \in pool
      <4>1. PICK q \in Requests \ {s} : Tx(q) = Tx(s) /\ row[q] # "none"
        BY <2>4, <3>1 DEF AnswersTrue
      <4>2. num[q] = num[s]
        BY <4>1 DEF Tx
      <4>3. Tx(q)' = Tx(q) /\ row'[q] # "none"
        BY <2>1, <4>1, <4>2, Stable
      <4>4. QED
        BY <4>1, <4>3
    <3>2. CASE ~AppliedOk(Tx(s)) /\ Tx(s) \notin pool
      <4>1. ~(\E t \in pool, b \in BOOLEAN : /\ pool' = pool \ {t}
                                            /\ applied' = applied \cup {[tx |-> t, ok |-> b]})
        BY <2>1, <2>4, <3>2 DEF AppliedOk
      <4>2. ~(UNCHANGED applied /\ pool' \subseteq pool)
        BY <2>1, <2>4, <3>2 DEF AppliedOk
      <4>3. PICK q \in Requests : /\ UNCHANGED applied /\ pc[q] = "submit"
                                  /\ pool' = pool \cup {Tx(q)}
        BY <4>1, <4>2, NetworkStep
      <4>4. Tx(q) = Tx(s)
        BY <2>1, <2>4, <3>2, <4>3 DEF AppliedOk
      <4>5. q # s /\ num[q] # 0 /\ row[q] # "none"
        BY <1>3, <4>3 DEF RequestOrder, Submitted
      <4>6. QED
        BY <4>4, <4>5, Stable
    <3>3. QED
      BY <3>1, <3>2
  <2>5. QED
    BY <1>3, <2>1, <2>3, <2>4
<1>4. QED
  BY <1>1, <1>2, <1>3

-----------------------------------------------------------------------------
(* Account objects and their numbers.                                         *)

\* The request that holds an object's mutex is the only one at work inside it.
LEMMA ObjectStep ==
  ASSUME TypeOK, ObjectKnown, RequestOrder, ObjectOwners, OneObject, [Next]_vars
  PROVE  ObjectOwners'
<1> USE DEF ObjectOwners, Objects
<1>1. ASSUME NEW r \in Requests, Handle(r)
      PROVE  ObjectOwners'
  <2> USE DEF TypeOK, Goto, accVars, netVars, procVars
  <2>1. CASE GetAccount(r)
    BY <2>1, RequestsAssumption DEF GetAccount, RequestOrder, Unnumbered
  <2>2. CASE LoadAccount(r) \/ LoadAccountFails(r)
    BY <2>2, RequestsAssumption DEF LoadAccount, LoadAccountFails
  <2>3. CASE CacheAccount(r)
    BY <2>3, RequestsAssumption DEF CacheAccount
  <2>4. CASE LockAccount(r)
    BY <2>4, RequestsAssumption DEF LockAccount, ObjectKnown, HasObject
  <2>5. CASE NextSequence(r)
    BY <2>5, RequestsAssumption DEF NextSequence, ObjectKnown, HasObject
  <2>6. CASE PersistSending(r) \/ PersistSendingFails(r) \/ Submit(r) \/ SubmitFails(r)
    BY <2>6 DEF PersistSending, PersistSendingFails, Submit, SubmitFails
  <2>7. CASE AnswerApplied(r) \/ AnswerRejected(r)
    BY <2>7 DEF AnswerApplied, AnswerRejected, Answer
  <2>8. CASE MarkTransaction(r) \/ MarkTransactionFails(r)
    BY <2>8 DEF MarkTransaction, MarkTransactionFails, Update
  <2>9. CASE SyncLock(r)
    BY <2>9, RequestsAssumption DEF SyncLock, ObjectKnown, HasObject, Submitted
  <2>10. CASE SyncRead(r)
    BY <2>10 DEF SyncRead
  <2>11. CASE SyncWrite(r)
    BY <2>11, RequestsAssumption DEF SyncWrite, ObjectKnown, HasObject, Submitted
  <2>12. CASE SyncFails(r)
    BY <2>12, RequestsAssumption DEF SyncFails, ObjectKnown, HasObject, Submitted
  <2>13. QED
    BY <1>1, <2>1, <2>2, <2>3, <2>4, <2>5, <2>6, <2>7, <2>8, <2>9, <2>10, <2>11, <2>12
       DEF Handle, Proceed, LoadAccountAnswers
<1>2. CASE Apply \/ ForeignTransaction \/ UNCHANGED vars
  BY <1>2 DEF Apply, ForeignTransaction, vars, reqVars, accVars
<1>3. CASE Crash
  BY <1>3, RequestsAssumption DEF Crash, Final, TypeOK
<1>4. CASE InitAccount
  BY <1>4, MainAssumption DEF InitAccount, OneObject, Final, TypeOK, reqVars
<1>5. QED
  BY <1>1, <1>2, <1>3, <1>4 DEF Next

\* Between InitAccount and a crash the map holds the object InitAccount made, and
\* every request finds it.
LEMMA OneObjectStep ==
  ASSUME TypeOK, OneObject, [Next]_vars
  PROVE  OneObject'
<1> USE DEF OneObject, TypeOK
<1>1. ASSUME NEW r \in Requests, Handle(r)
      PROVE  OneObject'
  <2> USE DEF Goto, accVars, procVars
  <2>1. CASE GetAccount(r)
    BY <2>1, MainAssumption DEF GetAccount, Final
  <2>2. CASE LoadAccount(r) \/ CacheAccount(r) \/ LoadAccountFails(r)
    BY <2>2 DEF LoadAccount, CacheAccount, LoadAccountFails, Final
  <2>3. CASE LockAccount(r) \/ NextSequence(r)
    BY <2>3 DEF LockAccount, NextSequence, Final
  <2>4. CASE PersistSending(r) \/ PersistSendingFails(r) \/ Submit(r) \/ SubmitFails(r)
    BY <2>4 DEF PersistSending, PersistSendingFails, Submit, SubmitFails, Final
  <2>5. CASE AnswerApplied(r) \/ AnswerRejected(r)
    BY <2>5 DEF AnswerApplied, AnswerRejected, Answer, Final
  <2>6. CASE MarkTransaction(r) \/ MarkTransactionFails(r)
    BY <2>6 DEF MarkTransaction, MarkTransactionFails, Final
  <2>7. CASE SyncLock(r) \/ SyncRead(r) \/ SyncWrite(r) \/ SyncFails(r)
    BY <2>7 DEF SyncLock, SyncRead, SyncWrite, SyncFails, Final
  <2>8. QED
    BY <1>1, <2>1, <2>2, <2>3, <2>4, <2>5, <2>6, <2>7
       DEF Handle, Proceed, LoadAccountAnswers
<1>2. CASE InitAccount
  BY <1>2 DEF InitAccount, reqVars
<1>3. CASE Crash
  BY <1>3 DEF Crash, Final
<1>4. CASE Apply \/ ForeignTransaction \/ UNCHANGED vars
  BY <1>4 DEF Apply, ForeignTransaction, vars, reqVars, accVars, procVars
<1>5. QED
  BY <1>1, <1>2, <1>3, <1>4 DEF Next

\* A number is given out under the mutex, above all the object gave out since
\* its last reset; a new object, and a reset one, starts a new series.
LEMMA NumbersStep ==
  ASSUME TypeOK, ObjectKnown, RequestOrder, ObjectOwners, NumbersBelow,
         NumberHandedOutOnce, [Next]_vars
  PROVE  NumbersBelow' /\ NumberHandedOutOnce'
<1> USE DEF NumbersBelow, NumberHandedOutOnce, Objects
<1>1. ASSUME NEW r \in Requests, Handle(r)
      PROVE  NumbersBelow' /\ NumberHandedOutOnce'
  <2> USE DEF TypeOK, accVars
  <2>1. CASE GetAccount(r)
    BY <2>1 DEF GetAccount, RequestOrder, Unnumbered
  <2>2. CASE CacheAccount(r)
    <3>1. num[r] = 0
      BY <2>2 DEF CacheAccount, RequestOrder, Unnumbered
    <3>2. \A q \in Requests : num[q] # 0 => q # r /\ obj'[q] = obj[q] /\ obj[q] # r
      BY <2>2, <3>1 DEF CacheAccount, ObjectOwners
    <3>3. QED
      BY <2>2, <3>1, <3>2 DEF CacheAccount, ObjectOwners
  <2>3. CASE NextSequence(r)
    <3>1. /\ num[r] = 0 /\ obj[r] \in Objects /\ tmp[r] = seq[obj[r]]
      BY <2>3 DEF NextSequence, RequestOrder, Unnumbered, ObjectKnown, HasObject,
         ObjectOwners
    <3>2. /\ num'[r] = seq[obj[r]] + 1 /\ seq'[obj[r]] = seq[obj[r]] + 1
          /\ numGen'[r] = gen[obj[r]] /\ gen' = gen /\ obj' = obj
      BY <2>3, <3>1 DEF NextSequence
    <3>3. \A q \in Requests \ {r} : num'[q] = num[q] /\ numGen'[q] = numGen[q]
      BY <2>3 DEF NextSequence
    <3>4. \A o \in Objects : seq'[o] \in Nat /\ seq[o] <= seq'[o]
      BY <2>3, <3>1 DEF NextSequence
    <3>5. \A q \in Requests : num[q] # 0 => obj[q] \in Objects
      BY DEF ObjectOwners
    <3>6. NumbersBelow'
      <4> SUFFICES ASSUME NEW q \in Requests, num'[q] # 0
                   PROVE  /\ numGen'[q] <= gen'[obj'[q]]
                          /\ numGen'[q] = gen'[obj'[q]] => num'[q] <= seq'[obj'[q]]
        OBVIOUS
      <4>1. CASE q = r
        BY <3>1, <3>2, <4>1
      <4>2. CASE q # r
        BY <3>2, <3>3, <3>4, <3>5, <4>2
      <4>3. QED
        BY <4>1, <4>2
    <3>7. \A q \in Requests \ {r} :
            obj[q] = obj[r] /\ numGen[q] = gen[obj[r]] => num[q] < num'[r]
      BY <3>1, <3>2
    <3>8. NumberHandedOutOnce'
      BY <3>2, <3>3, <3>7
    <3>9. QED
      BY <3>6, <3>8
  <2>4. CASE SyncWrite(r)
    <3>1. obj[r] \in Objects
      BY <2>4 DEF SyncWrite, ObjectKnown, HasObject, Submitted
    <3>2. \A q \in Requests : num[q] # 0 => obj[q] \in Objects
      BY DEF ObjectOwners
    <3>3. QED
      BY <2>4, <3>1, <3>2 DEF SyncWrite
  <2>5. CASE UNCHANGED <<obj, num, numGen, seq, gen>>
    BY <2>5
  <2>6. QED
    BY <1>1, <2>1, <2>2, <2>3, <2>4, <2>5 DEF Handle, Proceed, LoadAccountAnswers, LoadAccount, LoadAccountFails,
       LockAccount, PersistSending, PersistSendingFails, Submit, AnswerApplied,
       AnswerRejected, SubmitFails, MarkTransaction, MarkTransactionFails, SyncLock,
       SyncRead, SyncFails
<1>2. CASE Apply \/ ForeignTransaction \/ Crash \/ UNCHANGED vars
  BY <1>2 DEF Apply, ForeignTransaction, Crash, vars, reqVars, accVars
<1>3. CASE InitAccount
  <2>1. \A q \in Requests : num[q] # 0 => obj[q] \in Objects
    BY DEF ObjectOwners, TypeOK
  <2>2. /\ UNCHANGED <<obj, num, numGen>>
        /\ \A o \in Objects \ {Main} : gen'[o] = gen[o] /\ seq'[o] = seq[o]
        /\ gen'[Main] = gen[Main] + 1 /\ gen[Main] \in Nat
    BY <1>3 DEF InitAccount, TypeOK, reqVars
  <2>3. QED
    BY <2>1, <2>2 DEF TypeOK
<1>4. QED
  BY <1>1, <1>2, <1>3 DEF Next

-----------------------------------------------------------------------------
(* The theorems.                                                              *)

\* The invariant holds before the first request.
LEMMA IInvInit == Init => IInv
<1> SUFFICES ASSUME Init PROVE IInv
  OBVIOUS
<1>1. RequestOrder /\ AnswersTrue
  BY DEF Init, RequestOrder, AnswersTrue, Submitted, Marked
<1>2. LedgerLinear /\ EverySubmissionRecorded
  BY DEF Init, LedgerLinear, EverySubmissionRecorded
<1>3. ObjectOwners /\ OneObject /\ NumbersBelow /\ NumberHandedOutOnce
  BY RequestsAssumption DEF Init, ObjectOwners, OneObject, NumbersBelow, NumberHandedOutOnce
<1>4. QED
  BY <1>1, <1>2, <1>3, TypeInit DEF IInv

\* Every step keeps it.
LEMMA IInvStep == IInv /\ [Next]_vars => IInv'
BY TypeStep, OrderStep, AnswersStep, LedgerStep, RecordedStep, ObjectStep, OneObjectStep,
   NumbersStep
   DEF IInv

\* The inductive invariant: what rows, answers, the ledger and the Account
\* objects say of each other, in every reachable state.
THEOREM Invariance == Spec => []IInv
BY IInvInit, IInvStep, PTL DEF Spec

\* SignAndSubmitRawTransaction writes the row before it submits: whatever the
\* network holds or has applied has a row, through crashes and timeouts.
THEOREM SubmissionsRecorded == Spec => []EverySubmissionRecorded
<1>1. IInv => EverySubmissionRecorded
  BY DEF IInv
<1>2. QED
  BY <1>1, Invariance, PTL

\* A request has one transaction, the network applies one per number, and both are
\* in the table: what is paid was asked for as often.
LEMMA PaidOncePerRow ==
  ASSUME IsFiniteSet(Requests), IInv
  PROVE  PaidNoMoreThanAsked
<1> SUFFICES ASSUME NEW p \in {Payload[r] : r \in Requests}
             PROVE  Cardinality({a \in applied : a.tx.pay = p}) <=
                      Cardinality({r \in Requests : Payload[r] = p /\ row[r] # "none"})
  BY DEF PaidNoMoreThanAsked
<1> DEFINE A == {a \in applied : a.tx.pay = p}
           R == {r \in Requests : Payload[r] = p /\ row[r] # "none"}
           f == [a \in A |-> CHOOSE r \in R : Tx(r) = a.tx]
<1>1. \A a \in A : \E r \in R : Tx(r) = a.tx
  BY DEF IInv, EverySubmissionRecorded, Tx
<1>2. \A a \in A : f[a] \in R /\ Tx(f[a]) = a.tx
  BY <1>1
<1>3. \A a, b \in A : a.tx = b.tx => a = b
  BY DEF IInv, LedgerLinear
<1>4. f \in [A -> R]
  BY <1>2
<1>5. IsFiniteSet(R)
  BY IsFiniteSet(Requests), FS_Subset
<1> HIDE DEF A, R, f
<1>6. \A a, b \in DOMAIN f : f[a] = f[b] => a = b
  BY <1>2, <1>3, <1>4
<1>7. f \in Injection(A, R)
  BY <1>4, <1>6 DEF Injection, IsInjective
<1>8. Cardinality(A) <= Cardinality(R)
  BY <1>5, <1>7, FS_Injection
<1>9. QED
  BY <1>8 DEF A, R

\* However many requests fail, time out or die, nobody pays more often than a row
\* says that it was asked for.
THEOREM NobodyPaysTwice ==
  ASSUME IsFiniteSet(Requests)
  PROVE  Spec => []PaidNoMoreThanAsked
<1>1. IInv => PaidNoMoreThanAsked
  BY PaidOncePerRow
<1>2. QED
  BY <1>1, Invariance, PTL

\* MarkSucceeded is called only for what is on the ledger.
THEOREM SuccessIsOnLedger == Spec => []SuccessRowApplied
<1>1. IInv => SuccessRowApplied
  BY DEF IInv, AnswersTrue, SuccessRowApplied
<1>2. QED
  BY <1>1, Invariance, PTL

\* MarkFailed is called only for what is not applied later, save as the
\* identical transaction of another request.
THEOREM FailureIsFinal == Spec => []FailureRowFinal
<1>1. IInv => FailureRowFinal
  BY DEF IInv, AnswersTrue, FailureRowFinal
<1>2. QED
  BY <1>1, Invariance, PTL

\* A request returns without error only after its row has the outcome.
THEOREM OutcomeIsRecorded == Spec => []AcknowledgedIsRecorded
<1>1. IInv => AcknowledgedIsRecorded
  BY DEF IInv, RequestOrder, AcknowledgedIsRecorded
<1>2. QED
  BY <1>1, Invariance, PTL

\* The mutex makes SequenceNumber++ hand out a number once per object and reset.
THEOREM NumbersAreUnique == Spec => []NumberHandedOutOnce
<1>1. IInv => NumberHandedOutOnce
  BY DEF IInv
<1>2. QED
  BY <1>1, Invariance, PTL

\* InitAccount runs before the process serves: the requests of a configured seed
\* share one Account object, and between two resets no two have the same number.
THEOREM ConfiguredIsUnique == Spec => []ConfiguredNumbersUnique
<1>1. IInv => ConfiguredNumbersUnique
  <2> SUFFICES ASSUME IInv, configured, NEW r \in Requests, NEW s \in Requests,
                      r # s, num[r] # 0, num[s] # 0, numGen[r] = numGen[s]
               PROVE  num[r] # num[s]
    BY DEF ConfiguredNumbersUnique
  <2>1. obj[r] = Main /\ obj[s] = Main
    BY DEF IInv, OneObject, ObjectOwners
  <2>2. QED
    BY <2>1 DEF IInv, NumberHandedOutOnce
<1>2. QED
  BY <1>1, Invariance, PTL

\* Every way into the critical sections takes the mutex and every way out
\* releases it; a crash forgets both.
LEMMA MutexStep ==
  ASSUME TypeOK, ObjectKnown, ObjectOwners, OneObject, MutexHeldInside, [Next]_vars
  PROVE  MutexHeldInside'
<1> USE DEF MutexHeldInside, Objects
<1>1. ASSUME NEW r \in Requests, Handle(r)
      PROVE  MutexHeldInside'
  <2> USE DEF TypeOK, Goto, accVars
  <2>1. CASE GetAccount(r)
    BY <2>1 DEF GetAccount
  <2>2. CASE LoadAccount(r) \/ LoadAccountFails(r)
    BY <2>2 DEF LoadAccount, LoadAccountFails
  <2>3. CASE CacheAccount(r)
    BY <2>3 DEF CacheAccount
  <2>4. CASE LockAccount(r) \/ SyncLock(r)
    BY <2>4, RequestsAssumption DEF LockAccount, SyncLock, ObjectKnown, HasObject, Submitted
  <2>5. CASE NextSequence(r) \/ SyncWrite(r) \/ SyncFails(r)
    BY <2>5, RequestsAssumption DEF NextSequence, SyncWrite, SyncFails, ObjectKnown, HasObject,
       Submitted
  <2>6. CASE PersistSending(r) \/ PersistSendingFails(r) \/ Submit(r) \/ SubmitFails(r)
    BY <2>6 DEF PersistSending, PersistSendingFails, Submit, SubmitFails
  <2>7. CASE AnswerApplied(r) \/ AnswerRejected(r)
    BY <2>7 DEF AnswerApplied, AnswerRejected, Answer
  <2>8. CASE MarkTransaction(r) \/ MarkTransactionFails(r)
    BY <2>8 DEF MarkTransaction, MarkTransactionFails
  <2>9. CASE SyncRead(r)
    BY <2>9 DEF SyncRead
  <2>10. QED
    BY <1>1, <2>1, <2>2, <2>3, <2>4, <2>5, <2>6, <2>7, <2>8, <2>9
       DEF Handle, Proceed, LoadAccountAnswers
<1>2. CASE Apply \/ ForeignTransaction \/ InitAccount \/ UNCHANGED vars
  BY <1>2 DEF Apply, ForeignTransaction, InitAccount, vars, reqVars, accVars
<1>3. CASE Crash
  BY <1>3, RequestsAssumption DEF Crash, Final, TypeOK
<1>4. QED
  BY <1>1, <1>2, <1>3 DEF Next

\* The two critical sections of SignAndSubmitRawTransaction exclude each other on
\* one Account, for any number of requests, and neither returns with it locked.
THEOREM MutexIsExact == Spec => []MutexHeldInside
<1>1. Init => MutexHeldInside
  BY RequestsAssumption DEF Init, MutexHeldInside
<1>2. IInv /\ MutexHeldInside /\ [Next]_vars => MutexHeldInside'
  BY MutexStep DEF IInv
<1>3. QED
  BY <1>1, <1>2, Invariance, PTL DEF Spec

-----------------------------------------------------------------------------
(* The submitter implements AuditTrail.                                       *)

\* What is written down for a request stays as it is.
LEMMA WrittenKept ==
  ASSUME TypeOK, RequestOrder, [Next]_vars, NEW s \in Requests,
         row[s] # "none" \/ row'[s] = "none"
  PROVE  Written'[s] = Written[s]
<1>1. CASE row[s] # "none"
  BY <1>1, Stable DEF Written, RequestOrder
<1>2. CASE row[s] = "none" /\ row'[s] = "none"
  BY <1>2 DEF Written
<1>3. QED
  BY <1>1, <1>2

\* A step that leaves statuses as they are, or sets one that is set, leaves the
\* written transactions as they are.
LEMMA AllWrittenKept ==
  ASSUME TypeOK, RequestOrder, [Next]_vars,
         \A s \in Requests : row[s] # "none" \/ row'[s] = "none"
  PROVE  Written' = Written
<1>1. \A s \in Requests : Written'[s] = Written[s]
  BY WrittenKept
<1>2. QED
  BY <1>1 DEF Written

\* The INSERT writes a transaction down, for one request.
LEMMA InsertRecords ==
  ASSUME IInv, [Next]_vars, NEW r \in Requests,
         PersistSending(r) \/ PersistSendingFails(r), row' # row
  PROVE  Trail!Record(r)
<1> USE DEF IInv
<1>1. row[r] = "none" /\ row' = [row EXCEPT ![r] = "sending"]
  BY DEF PersistSending, PersistSendingFails, Insert, RequestOrder
<1>2. UNCHANGED <<num, pool, applied>>
  BY DEF PersistSending, PersistSendingFails, netVars
<1>3. Written'[r] = Tx(r) /\ Tx(r) \in Envelope
  BY <1>1, <1>2, TxType DEF Written, Tx, TypeOK
<1>4. Written'[r] # NoRequest
  BY <1>3, EnvelopeAssumption
<1>5. Written' = [Written EXCEPT ![r] = Written'[r]]
  <2>1. \A s \in Requests \ {r} : Written'[s] = Written[s]
    BY <1>1, WrittenKept DEF TypeOK
  <2>2. QED
    BY <2>1 DEF Written
<1>6. QED
  BY <1>1, <1>2, <1>4, <1>5 DEF Trail!Record

\* The UPDATE writes the outcome the answer stands for.
LEMMA UpdateConcludes ==
  ASSUME IInv, [Next]_vars, NEW r \in Requests,
         MarkTransaction(r) \/ MarkTransactionFails(r), row' # row
  PROVE  Trail!Conclude(r)
<1> USE DEF IInv
<1>1. /\ pc[r] = "mark" /\ row[r] = "sending"
      /\ row' = [row EXCEPT ![r] = Marked(r)]
      /\ UNCHANGED <<pool, applied>>
  BY DEF MarkTransaction, MarkTransactionFails, Update, RequestOrder, netVars
<1>2. Written' = Written
  <2>1. \A s \in Requests : row[s] # "none" \/ row'[s] = "none"
    BY <1>1 DEF TypeOK
  <2>2. QED
    BY <2>1, AllWrittenKept
<1>3. Written[r] = Tx(r)
  BY <1>1 DEF Written
<1>4. CASE resp[r] = "ok"
  <2>1. row' = [row EXCEPT ![r] = "success"] /\ AppliedOk(Tx(r))
    BY <1>1, <1>4 DEF Marked, AnswersTrue
  <2>2. QED
    BY <1>1, <1>2, <1>3, <2>1 DEF Trail!Conclude, AppliedOk
<1>5. CASE resp[r] # "ok"
  <2>1. row' = [row EXCEPT ![r] = "failure"] /\ resp[r] \in {"failed", "bad_seq"}
    BY <1>1, <1>5 DEF Marked, RequestOrder, TypeOK, Response
  <2>2. ASSUME AppliedOk(Tx(r)) \/ Tx(r) \in pool
        PROVE  \E s \in Requests \ {r} : Written[s] = Written[r]
    <3>1. PICK s \in Requests \ {r} : Tx(s) = Tx(r) /\ row[s] # "none"
      BY <2>1, <2>2 DEF AnswersTrue
    <3>2. QED
      BY <1>3, <3>1 DEF Written
  <2>3. QED
    BY <1>1, <1>2, <1>3, <2>1, <2>2 DEF Trail!Conclude, Trail!MaySucceed, AppliedOk
<1>6. QED
  BY <1>4, <1>5

\* A step that leaves the table alone is the network's, or none.
LEMMA NetworkImplements ==
  ASSUME IInv, [Next]_vars, row' = row
  PROVE  [Trail!Next]_(Trail!vars)
<1> USE DEF IInv
<1>1. Written' = Written
  BY AllWrittenKept
<1>2. ASSUME UNCHANGED applied, NEW r \in Requests, pc[r] = "submit",
             pool' = pool \cup {Tx(r)}
      PROVE  Trail!Send(r)
  <2>1. row[r] = "sending" /\ Written[r] = Tx(r)
    BY <1>2 DEF RequestOrder, Written
  <2>2. QED
    BY <1>1, <1>2, <2>1 DEF Trail!Send
<1>3. ASSUME NEW t \in pool, NEW b \in BOOLEAN, pool' = pool \ {t},
             applied' = applied \cup {[tx |-> t, ok |-> b]}
      PROVE  Trail!Settle(t, b)
  BY <1>1, <1>3 DEF Trail!Settle, LedgerLinear, OnLedger
<1>4. ASSUME UNCHANGED applied, NEW t \in pool, pool' = pool \ {t}
      PROVE  Trail!Drop(t)
  BY <1>1, <1>4 DEF Trail!Drop
<1>5. CASE UNCHANGED <<pool, applied>>
  BY <1>1, <1>5 DEF Trail!vars
<1>6. \/ UNCHANGED <<pool, applied>>
      \/ UNCHANGED applied /\ \E t \in pool : pool' = pool \ {t}
      \/ UNCHANGED applied /\ \E r \in Requests : pc[r] = "submit" /\ pool' = pool \cup {Tx(r)}
      \/ \E t \in pool, b \in BOOLEAN : /\ pool' = pool \ {t}
                                       /\ applied' = applied \cup {[tx |-> t, ok |-> b]}
  <2>1. ASSUME NEW r \in Requests, AnswerRejected(r) \/ SubmitFails(r)
        PROVE  UNCHANGED applied /\ (pool' = pool \/ \E t \in pool : pool' = pool \ {t})
    <3>1. UNCHANGED applied /\ (pool' = pool \/ pool' = pool \ {Tx(r)})
      BY <2>1 DEF AnswerRejected, SubmitFails
    <3>2. QED
      BY <3>1
  <2>2. ASSUME NEW r \in Requests, Handle(r), ~(AnswerRejected(r) \/ SubmitFails(r))
        PROVE  \/ UNCHANGED <<pool, applied>>
               \/ UNCHANGED applied /\ pc[r] = "submit" /\ pool' = pool \cup {Tx(r)}
    BY <2>2 DEF Handle, Proceed, LoadAccountAnswers, GetAccount, LoadAccount, CacheAccount,
       LoadAccountFails, LockAccount, NextSequence, PersistSending, PersistSendingFails,
       Submit, AnswerApplied, MarkTransaction, MarkTransactionFails, SyncLock, SyncRead,
       SyncWrite, SyncFails, netVars
  <2>3. CASE Apply
    BY <2>3 DEF Apply
  <2>4. CASE InitAccount \/ ForeignTransaction \/ Crash \/ UNCHANGED vars
    BY <2>4 DEF InitAccount, ForeignTransaction, Crash, netVars, vars
  <2>5. QED
    BY <2>1, <2>2, <2>3, <2>4 DEF Next
<1>7. QED
  BY <1>2, <1>3, <1>4, <1>5, <1>6 DEF Trail!Next

\* Every step of the submitter is one of the trail's, or none.
LEMMA TrailStep ==
  ASSUME IInv, [Next]_vars
  PROVE  [Trail!Next]_(Trail!vars)
<1>1. CASE row' = row
  BY <1>1, NetworkImplements
<1>2. CASE row' # row
  <2>1. ASSUME NEW r \in Requests, Handle(r)
        PROVE  \/ PersistSending(r) \/ PersistSendingFails(r)
               \/ MarkTransaction(r) \/ MarkTransactionFails(r)
    BY <1>2, <2>1 DEF Handle, Proceed, LoadAccountAnswers, GetAccount, LoadAccount,
       CacheAccount, LoadAccountFails, LockAccount, NextSequence, Submit, AnswerApplied,
       AnswerRejected, SubmitFails, SyncLock, SyncRead, SyncWrite, SyncFails
  <2>2. PICK r \in Requests : \/ PersistSending(r) \/ PersistSendingFails(r)
                              \/ MarkTransaction(r) \/ MarkTransactionFails(r)
    BY <1>2, <2>1 DEF Next, InitAccount, Apply, ForeignTransaction, Crash, vars, reqVars
  <2>3. QED
    BY <1>2, <2>2, InsertRecords, UpdateConcludes DEF Trail!Next
<1>3. QED
  BY <1>1, <1>2

\* At the start nothing is written down and the network holds nothing.
LEMMA TrailInit == Init => Trail!Init
<1> SUFFICES ASSUME Init PROVE Trail!Init
  OBVIOUS
<1>1. Written = [r \in Requests |-> NoRequest]
  BY DEF Init, Written
<1>2. QED
  BY <1>1 DEF Init, Trail!Init

\* SignAndSubmitRawTransaction keeps the audit trail AuditTrail specifies, for any
\* number of requests, crashes, lost answers and late applications.
THEOREM SubmitterImplementsTrail == Spec => ImplementsTrail
BY TrailInit, TrailStep, Invariance, PTL DEF Spec, Trail!Spec, ImplementsTrail

=============================================================================
