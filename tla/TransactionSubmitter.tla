------------------------ MODULE TransactionSubmitter ------------------------
(* The bridge server's TransactionSubmitter: request handlers run             *)
(* SignAndSubmitRawTransaction concurrently for one source account. They      *)
(* share the Account object that ts.Accounts caches for its seed (a sequence  *)
(* number behind a mutex), keep one SentTransaction row each, and submit to   *)
(* the network through Horizon, which may answer, reject, or fail while the   *)
(* transaction is applied all the same. A seed of the configuration has its   *)
(* account loaded before the process serves; any other when it is first used. *)
EXTENDS Naturals, FiniteSets

CONSTANTS
  Requests,     \* handler goroutines; each submits one transaction
  Payload,      \* what each of them pays: equal payloads make equal envelopes
  NoRequest,    \* model value: no holder, no object
  Main,         \* model value: the Account object of a configured seed
  ForeignUpTo,  \* bound: others use the account while its number is below this
  MaxCrashes    \* bound: crashes of the bridge process

ASSUME RequestsAssumption == NoRequest \notin Requests
ASSUME MainAssumption == Main \notin Requests /\ Main # NoRequest
ASSUME PayloadAssumption == DOMAIN Payload = Requests
ASSUME BoundsAssumption == ForeignUpTo \in Nat /\ MaxCrashes \in Nat

\* Transactions, as the table and the network see them.
Envelope == [pay : {Payload[r] : r \in Requests}, seq : Nat]

ASSUME EnvelopeAssumption == NoRequest \notin Envelope

\* An Account object is named by the request that loads it.
Objects == Requests \cup {Main}

VARIABLES
  configured,  \* is the seed accounts.base_seed or accounts.authorizing_seed?
  up,       \* does the process serve?
  pc,       \* where each request is
  obj,      \* the Account object a request works with, NoRequest: none
  tmp,      \* the number a request has read and not yet written back; 0: none
  num,      \* the sequence number of a request's transaction; 0: none yet
  resp,     \* Horizon's answer to a request's transaction
  row,      \* status of a request's SentTransaction row; "none": no row
  cached,   \* ts.Accounts[seed]
  seq,      \* SequenceNumber of each Account object
  lock,     \* holder of each Account object's Mutex
  gen,      \* how often an object's number was reset from Horizon
  numGen,   \* gen of the object when a request was given its number
  ledgerSeq,  \* the account's number on the ledger
  pool,     \* transactions the network holds and may still apply
  applied,  \* transactions on the ledger, with their outcome
  crashes

reqVars == <<pc, obj, tmp, num, resp, row>>
accVars == <<cached, seq, lock, gen, numGen>>
procVars == <<configured, up, crashes>>
netVars == <<ledgerSeq, pool, applied>>
vars == <<configured, up, pc, obj, tmp, num, resp, row, cached, seq, lock,
          gen, numGen, ledgerSeq, pool, applied, crashes>>

Final == {"done", "error", "lost"}
PC == Final \cup {"idle", "load", "loaded", "alloc", "inc", "persist", "submit",
                  "wait", "mark", "sync", "syncRead", "syncWrite"}
Response == {"none", "ok", "failed", "bad_seq"}
RowStatus == {"none", "sending", "success", "failure"}

\* The signed envelope, whose hash is the transaction id.
Tx(r) == [pay |-> Payload[r], seq |-> num[r]]
AppliedOk(t) == [tx |-> t, ok |-> TRUE] \in applied
OnLedger(t) == \E b \in BOOLEAN : [tx |-> t, ok |-> b] \in applied

Goto(r, l) == pc' = [pc EXCEPT ![r] = l]

-----------------------------------------------------------------------------
\* The account exists on the ledger with a number above 0.
Init ==
  /\ configured \in BOOLEAN
  /\ up = ~configured
  /\ pc = [r \in Requests |-> "idle"]
  /\ obj = [r \in Requests |-> NoRequest]
  /\ tmp = [r \in Requests |-> 0]
  /\ num = [r \in Requests |-> 0]
  /\ resp = [r \in Requests |-> "none"]
  /\ row = [r \in Requests |-> "none"]
  /\ cached = NoRequest
  /\ seq = [o \in Objects |-> 0]
  /\ lock = [o \in Objects |-> NoRequest]
  /\ gen = [o \in Objects |-> 0]
  /\ numGen = [r \in Requests |-> 0]
  /\ ledgerSeq = 1
  /\ pool = {}
  /\ applied = {}
  /\ crashes = 0

(* GetAccount.                                                                *)

\* Mutant of InitAccount: the account is loaded and checked, but not kept.
AccountChecked ==
  /\ ~up
  /\ up' = TRUE
  /\ UNCHANGED <<reqVars, accVars, netVars, configured, crashes>>

\* NewApp loads the account of a configured seed; until Horizon has answered
\* there is no process that serves.
InitAccount ==
  /\ ~up
  /\ up' = TRUE
  /\ cached' = Main
  /\ seq' = [seq EXCEPT ![Main] = ledgerSeq]
  /\ gen' = [gen EXCEPT ![Main] = @ + 1]
  /\ UNCHANGED <<reqVars, lock, numGen, netVars, configured, crashes>>

\* The unsynchronised map lookup: a hit goes on with the cached object.
GetAccount(r) ==
  /\ up
  /\ pc[r] = "idle"
  /\ IF cached # NoRequest
       THEN obj' = [obj EXCEPT ![r] = cached] /\ Goto(r, "alloc")
       ELSE UNCHANGED obj /\ Goto(r, "load")
  /\ UNCHANGED <<tmp, num, resp, row, accVars, netVars, procVars>>

\* A miss asks Horizon: it reads the number of the ledger...
LoadAccount(r) ==
  /\ pc[r] = "load"
  /\ tmp' = [tmp EXCEPT ![r] = ledgerSeq]
  /\ Goto(r, "loaded")
  /\ UNCHANGED <<obj, num, resp, row, accVars, netVars, procVars>>

\* ... and a new Account with that number replaces what the map then holds.
CacheAccount(r) ==
  /\ pc[r] = "loaded"
  /\ seq' = [seq EXCEPT ![r] = tmp[r]]
  /\ cached' = r
  /\ obj' = [obj EXCEPT ![r] = r]
  /\ tmp' = [tmp EXCEPT ![r] = 0]
  /\ Goto(r, "alloc")
  /\ UNCHANGED <<num, resp, row, lock, gen, numGen, netVars, procVars>>

\* Horizon fails: the request fails, but the Account is cached, with number 0.
LoadAccountFails(r) ==
  /\ pc[r] = "load"
  /\ cached' = r
  /\ Goto(r, "error")
  /\ UNCHANGED <<obj, tmp, num, resp, row, seq, lock, gen, numGen, netVars, procVars>>

(* The number, under the object's mutex.                                      *)

\* Mutant of LockAccount: the number is read without waiting for the mutex.
ReadUnlocked(r) ==
  /\ pc[r] = "alloc"
  /\ tmp' = [tmp EXCEPT ![r] = seq[obj[r]]]
  /\ Goto(r, "inc")
  /\ UNCHANGED <<obj, num, resp, row, cached, seq, lock, gen, numGen, netVars, procVars>>

LockAccount(r) ==
  /\ pc[r] = "alloc"
  /\ lock[obj[r]] = NoRequest
  /\ lock' = [lock EXCEPT ![obj[r]] = r]
  /\ tmp' = [tmp EXCEPT ![r] = seq[obj[r]]]
  /\ Goto(r, "inc")
  /\ UNCHANGED <<obj, num, resp, row, cached, seq, gen, numGen, netVars, procVars>>

NextSequence(r) ==
  /\ pc[r] = "inc"
  /\ seq' = [seq EXCEPT ![obj[r]] = tmp[r] + 1]
  /\ num' = [num EXCEPT ![r] = tmp[r] + 1]
  /\ numGen' = [numGen EXCEPT ![r] = gen[obj[r]]]
  /\ lock' = [lock EXCEPT ![obj[r]] = NoRequest]
  /\ tmp' = [tmp EXCEPT ![r] = 0]
  /\ Goto(r, "persist")
  /\ UNCHANGED <<obj, resp, row, cached, gen, netVars, procVars>>

(* The row, written before the transaction leaves.                            *)

\* Persist of a new entity, and of one that has its id: the drivers' INSERT and
\* UPDATE.
Insert(r) == [row EXCEPT ![r] = "sending"]
Update(r, s) == [row EXCEPT ![r] = s]

\* Mutant of PersistSending: the row is left for the outcome to write.
SubmitFirst(r) ==
  /\ pc[r] = "persist"
  /\ Goto(r, "submit")
  /\ UNCHANGED <<obj, tmp, num, resp, row, accVars, netVars, procVars>>

PersistSending(r) ==
  /\ pc[r] = "persist"
  /\ row' = Insert(r)
  /\ Goto(r, "submit")
  /\ UNCHANGED <<obj, tmp, num, resp, accVars, netVars, procVars>>

\* Hashing, signing or encoding fails, the INSERT does (perhaps after its commit),
\* or there is no database and Persist panics: the number is used up and nothing
\* is submitted.
PersistSendingFails(r) ==
  /\ pc[r] = "persist"
  /\ row' \in {row, Insert(r)}
  /\ Goto(r, "error")
  /\ UNCHANGED <<obj, tmp, num, resp, accVars, netVars, procVars>>

(* Horizon.SubmitTransaction.                                                 *)

\* The envelope is posted. One already on the ledger is not applied again.
Submit(r) ==
  /\ pc[r] = "submit"
  /\ pool' = IF OnLedger(Tx(r)) THEN pool ELSE pool \cup {Tx(r)}
  /\ Goto(r, "wait")
  /\ UNCHANGED <<obj, tmp, num, resp, row, accVars, ledgerSeq, applied, procVars>>

Answer(r, a) ==
  /\ pc[r] = "wait"
  /\ resp' = [resp EXCEPT ![r] = a]
  /\ Goto(r, "mark")

\* The transaction is on the ledger: Horizon returns the ledger or the result.
AnswerApplied(r) ==
  /\ \/ AppliedOk(Tx(r)) /\ Answer(r, "ok")
     \/ [tx |-> Tx(r), ok |-> FALSE] \in applied /\ Answer(r, "failed")
  /\ UNCHANGED <<obj, tmp, num, row, accVars, netVars, procVars>>

\* The network refuses it: a wrong number, or another reason (fee, signature)
\* that uses up no number.
AnswerRejected(r) ==
  /\ ~OnLedger(Tx(r))
  /\ \/ num[r] # ledgerSeq + 1 /\ Answer(r, "bad_seq")
     \/ Answer(r, "failed")
  /\ pool' = pool \ {Tx(r)}
  /\ UNCHANGED <<obj, tmp, num, row, accVars, ledgerSeq, applied, procVars>>

\* Mutant of SubmitFails: an unknown outcome is taken for a failure.
TimeoutIsFailure(r) ==
  /\ Answer(r, "failed")
  /\ pool' \in {pool, pool \ {Tx(r)}}
  /\ UNCHANGED <<obj, tmp, num, row, accVars, ledgerSeq, applied, procVars>>

\* Mutant of SubmitFails: what was not answered is taken from the table again.
RowRemoved(r) ==
  /\ pc[r] = "wait"
  /\ pool' = pool \ {Tx(r)}
  /\ row' = [row EXCEPT ![r] = "none"]
  /\ Goto(r, "error")
  /\ UNCHANGED <<obj, tmp, num, resp, accVars, ledgerSeq, applied, procVars>>

\* Mutant of SubmitFails: the submission is tried again, with another number.
TimeoutRetried(r) ==
  /\ pc[r] = "wait"
  /\ pool' \in {pool, pool \ {Tx(r)}}
  /\ Goto(r, "alloc")
  /\ UNCHANGED <<obj, tmp, num, resp, row, accVars, ledgerSeq, applied, procVars>>

\* The 30 seconds pass, the connection breaks, or the body is not the JSON
\* expected (one without `extras` panics): the transaction may have arrived.
SubmitFails(r) ==
  /\ pc[r] = "wait"
  /\ pool' \in {pool, pool \ {Tx(r)}}
  /\ Goto(r, "error")
  /\ UNCHANGED <<obj, tmp, num, resp, row, accVars, ledgerSeq, applied, procVars>>

(* The outcome.                                                               *)

\* Mutants of Marked: only tx_bad_seq is a failure; Horizon's word is stored.
MarkedUnlessBadSeq(r) == IF resp[r] = "bad_seq" THEN "failure" ELSE "success"
MarkedRaw(r) == resp[r]

Marked(r) == IF resp[r] = "ok" THEN "success" ELSE "failure"

MarkTransaction(r) ==
  /\ pc[r] = "mark"
  /\ row' = Update(r, Marked(r))
  /\ Goto(r, IF resp[r] = "bad_seq" THEN "sync" ELSE "done")
  /\ UNCHANGED <<obj, tmp, num, resp, accVars, netVars, procVars>>

\* Mutant of MarkTransactionFails: the error is logged and dropped.
MarkErrorDropped(r) ==
  /\ pc[r] = "mark"
  /\ row' \in {row, Update(r, Marked(r))}
  /\ Goto(r, "done")
  /\ UNCHANGED <<obj, tmp, num, resp, accVars, netVars, procVars>>

\* The UPDATE fails (perhaps after its commit): no sync either.
MarkTransactionFails(r) ==
  /\ pc[r] = "mark"
  /\ row' \in {row, Update(r, Marked(r))}
  /\ Goto(r, "error")
  /\ UNCHANGED <<obj, tmp, num, resp, accVars, netVars, procVars>>

(* After tx_bad_seq, the number is read from Horizon under the mutex.         *)

SyncLock(r) ==
  /\ pc[r] = "sync"
  /\ lock[obj[r]] = NoRequest
  /\ lock' = [lock EXCEPT ![obj[r]] = r]
  /\ Goto(r, "syncRead")
  /\ UNCHANGED <<obj, tmp, num, resp, row, cached, seq, gen, numGen, netVars, procVars>>

SyncRead(r) ==
  /\ pc[r] = "syncRead"
  /\ tmp' = [tmp EXCEPT ![r] = ledgerSeq]
  /\ Goto(r, "syncWrite")
  /\ UNCHANGED <<obj, num, resp, row, accVars, netVars, procVars>>

SyncWrite(r) ==
  /\ pc[r] = "syncWrite"
  /\ seq' = [seq EXCEPT ![obj[r]] = tmp[r]]
  /\ gen' = [gen EXCEPT ![obj[r]] = @ + 1]
  /\ lock' = [lock EXCEPT ![obj[r]] = NoRequest]
  /\ tmp' = [tmp EXCEPT ![r] = 0]
  /\ Goto(r, "done")
  /\ UNCHANGED <<obj, num, resp, row, cached, numGen, netVars, procVars>>

\* Mutant of SyncFails: the error path returns without Unlock.
SyncKeepsLock(r) ==
  /\ pc[r] = "syncRead"
  /\ Goto(r, "done")
  /\ UNCHANGED <<obj, tmp, num, resp, row, accVars, netVars, procVars>>

SyncFails(r) ==
  /\ pc[r] = "syncRead"
  /\ lock' = [lock EXCEPT ![obj[r]] = NoRequest]
  /\ Goto(r, "done")
  /\ UNCHANGED <<obj, tmp, num, resp, row, cached, seq, gen, numGen, netVars, procVars>>

(* The network and the process.                                               *)

\* A transaction with the next number is applied; its operations may fail.
Apply ==
  /\ \E t \in pool, b \in BOOLEAN :
       /\ t.seq = ledgerSeq + 1
       /\ pool' = pool \ {t}
       /\ applied' = applied \cup {[tx |-> t, ok |-> b]}
  /\ ledgerSeq' = ledgerSeq + 1
  /\ UNCHANGED <<reqVars, accVars, procVars>>

\* Somebody else uses the account: /payment without compliance, which asks
\* Horizon for the number itself, or another program.
ForeignTransaction ==
  /\ ledgerSeq < ForeignUpTo
  /\ ledgerSeq' = ledgerSeq + 1
  /\ UNCHANGED <<reqVars, accVars, pool, applied, procVars>>

\* The process dies with its objects and the requests it was serving, and is
\* started again.
Crash ==
  /\ up
  /\ crashes < MaxCrashes
  /\ crashes' = crashes + 1
  /\ up' = ~configured
  /\ pc' = [r \in Requests |-> IF pc[r] \in Final \cup {"idle"} THEN pc[r] ELSE "lost"]
  /\ cached' = NoRequest
  /\ lock' = [o \in Objects |-> NoRequest]
  /\ tmp' = [r \in Requests |-> 0]
  /\ UNCHANGED <<obj, num, resp, row, seq, gen, numGen, netVars, configured>>

\* What Horizon's LoadAccount, which has no time limit, has to answer for.
LoadAccountAnswers(r) ==
  LoadAccount(r) \/ LoadAccountFails(r) \/ SyncRead(r) \/ SyncFails(r)

\* The other steps of a request that has arrived.
Proceed(r) ==
  \/ CacheAccount(r) \/ LockAccount(r) \/ NextSequence(r)
  \/ PersistSending(r) \/ PersistSendingFails(r)
  \/ Submit(r) \/ AnswerApplied(r) \/ AnswerRejected(r) \/ SubmitFails(r)
  \/ MarkTransaction(r) \/ MarkTransactionFails(r)
  \/ SyncLock(r) \/ SyncWrite(r)

Handle(r) == GetAccount(r) \/ Proceed(r) \/ LoadAccountAnswers(r)

Next ==
  \/ InitAccount
  \/ \E r \in Requests : Handle(r)
  \/ Apply
  \/ ForeignTransaction
  \/ Crash

Spec == Init /\ [][Next]_vars

\* Goroutines are scheduled, the database returns, and so does a submission: with
\* its answer or after its 30 seconds. LoadAccount may never return.
FairSpec == Spec /\ \A r \in Requests : WF_vars(Proceed(r))

-----------------------------------------------------------------------------
(* Properties.                                                                *)

TypeOK ==
  /\ configured \in BOOLEAN /\ up \in BOOLEAN
  /\ pc \in [Requests -> PC]
  /\ obj \in [Requests -> Objects \cup {NoRequest}]
  /\ tmp \in [Requests -> Nat] /\ num \in [Requests -> Nat]
  /\ resp \in [Requests -> Response]
  /\ row \in [Requests -> RowStatus]
  /\ cached \in Objects \cup {NoRequest}
  /\ seq \in [Objects -> Nat] /\ gen \in [Objects -> Nat] /\ numGen \in [Requests -> Nat]
  /\ lock \in [Objects -> Requests \cup {NoRequest}]
  /\ ledgerSeq \in Nat
  /\ pool \subseteq Envelope
  /\ applied \subseteq [tx : Envelope, ok : BOOLEAN]
  /\ crashes \in 0..MaxCrashes

\* Whatever the network holds or has applied for the bridge has a row: the
\* audit trail is written before the transaction leaves, and survives crashes,
\* timeouts and late application.
EverySubmissionRecorded ==
  \A t \in pool \cup {a.tx : a \in applied} :
    \E r \in Requests : row[r] # "none" /\ Tx(r) = t

\* Nothing is paid more often than it was asked for: the ledger has no more
\* transactions with a payment than requests that recorded one, whatever was
\* refused, timed out, applied late or cut off by a crash.
PaidNoMoreThanAsked ==
  \A p \in {Payload[r] : r \in Requests} :
    Cardinality({a \in applied : a.tx.pay = p}) <=
      Cardinality({r \in Requests : Payload[r] = p /\ row[r] # "none"})

\* A row that says success is on the ledger, applied.
SuccessRowApplied ==
  \A r \in Requests : row[r] = "success" => AppliedOk(Tx(r))

\* A row that says failure stays true: the transaction is not applied later,
\* unless another request was given the same number for the same payment.
FailureRowFinal ==
  \A r \in Requests :
    row[r] = "failure" /\ (AppliedOk(Tx(r)) \/ Tx(r) \in pool) =>
      \E s \in Requests \ {r} : Tx(s) = Tx(r)

\* The caller is told of a success only when the row says so too.
AcknowledgedIsRecorded ==
  \A r \in Requests : pc[r] = "done" => row[r] = Marked(r)

\* The mutex of an Account object is held exactly by the request that is between
\* its Lock and its Unlock there: two are never inside, and no way out, a failing
\* sync included, leaves it locked for the requests to come.
MutexHeldInside ==
  \A r \in Requests, o \in Objects :
    lock[o] = r <=> pc[r] \in {"inc", "syncRead", "syncWrite"} /\ obj[r] = o

\* An Account object hands out a number once between two resets from Horizon,
\* however requests and syncs interleave. (Equal numbers, which turn equal
\* payments into one transaction, take a reset or a second object.)
NumberHandedOutOnce ==
  \A r, s \in Requests :
    r # s /\ num[r] # 0 /\ obj[r] = obj[s] /\ numGen[r] = numGen[s] => num[r] # num[s]

\* A configured seed has one Account object in the life of a process, whatever
\* arrives first: between two resets no number is handed out twice at all.
ConfiguredNumbersUnique ==
  configured =>
    \A r, s \in Requests :
      r # s /\ num[r] # 0 /\ num[s] # 0 /\ numGen[r] = numGen[s] => num[r] # num[s]

\* The submitter keeps the promise of AuditTrail: seen from the table and the
\* network, every step of a request, of the network or of a crash is a step of
\* that specification, or none.
Written == [r \in Requests |-> IF row[r] = "none" THEN NoRequest ELSE Tx(r)]

Trail == INSTANCE AuditTrail WITH
  NoTx <- NoRequest,
  status <- row,
  tx <- Written,
  inFlight <- pool,
  ledger <- applied

ImplementsTrail == Trail!Spec

\* A request does not return only while a LoadAccount does not: its own, or that
\* of a request that syncs the same Account with its mutex held. Every other path
\* releases the mutex.
ReturnsUnlessHorizonHangs ==
  \A r \in Requests :
    \/ pc[r] # "idle" ~> pc[r] \in Final
    \/ <>[](pc[r] \in {"load", "syncRead"})
    \/ \E s \in Requests :
         <>[](pc[s] = "syncRead" /\ obj[s] = obj[r] /\ lock[obj[s]] = s)

=============================================================================
