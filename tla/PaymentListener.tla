--------------------------- MODULE PaymentListener ---------------------------
(* The bridge server's payment listener: the goroutine that follows Horizon's *)
(* event stream of the receiving account (listener.Listen and                 *)
(* horizon.StreamPayments), decides what each operation is (onPayment), posts *)
(* the payments to the receive callback, and records every operation it is    *)
(* done with in the ReceivedPayment table, whose newest row is the cursor a   *)
(* new connection or a restarted process resumes from.                        *)
(*                                                                            *)
(* Horizon, the callback's server, the compliance server and the database are *)
(* environments: they answer, refuse, time out or fail as they like.          *)
EXTENDS Naturals, Sequences

CONSTANTS
  MaxOps,      \* bound: operations the receiving account ever sees
  FirstOpId,   \* Horizon's operation ids are FirstOpId + 1, FirstOpId + 2, ...
  MaxCrashes,  \* bound: crashes of the bridge process
  Arriving,    \* the classes of operations that arrive
  Compliance,  \* is config.Compliance set?
  Faults       \* which of the faults below can happen

\* A failing SELECT of the cursor; an INSERT that commits though the database
\* connection breaks before the driver learns of it; a request to Horizon that is
\* never answered.
FaultKinds == {"cursorRead", "lostAck", "hang"}

\* What onPayment tells apart about an operation of the account.
OpClass == {"not_payment", "sent", "asset_not_allowed", "text", "hash"}

\* Horizon numbers operations from 2^32 on; auto-increment row ids start at 1.
\* The two ranges stay apart while the table is shorter than that.
ASSUME BoundsAssumption == MaxOps \in Nat /\ FirstOpId \in Nat /\ FirstOpId >= MaxOps
ASSUME CrashAssumption == MaxCrashes \in Nat
ASSUME ArrivingAssumption == Arriving \subseteq OpClass
ASSUME ConfigAssumption == Compliance \in BOOLEAN /\ Faults \subseteq FaultKinds

VARIABLES
  ledger,    \* classes of the account's operations, in ledger order
  rows,      \* ReceivedPayment, in row-id order: [op, status]
  pc,        \* where the listener goroutine is
  pos,       \* the operation the stream delivered last (its handler's argument)
  cursor,    \* the cursor read for the connection about to be made
  accepted,  \* operations the callback's server has processed and answered 200
  late,      \* callback requests given up on by the bridge, not yet processed
  origin,    \* newest operation of the ledger at the last connection from `now`
  crashes    \* crashes so far

netVars == <<ledger, accepted, late>>
vars == <<ledger, rows, pc, pos, cursor, accepted, late, origin, crashes>>

Handling == {"lookup", "filter", "memo", "compliance", "callback", "save"}
PC == Handling \cup {"down", "dead", "load", "connect", "scan", "hung"}

Status == {"Success", "Not a payment operation", "Operation sent not received",
           "Asset not allowed"}

-----------------------------------------------------------------------------
(* The repository. Positions in the ledger stand for paging tokens; 0, which  *)
(* is no position, for the nil cursor of an empty table.                      *)

Nil == 0
OpId(k) == FirstOpId + k
Recorded == {rows[i].op : i \in DOMAIN rows}

\* Mutants of GetLastCursorValue: operation_id instead of paging_token; only the
\* payments the callback was told of.
CursorIsOperationId == IF rows = <<>> THEN Nil ELSE OpId(rows[Len(rows)].op)
CursorOfSuccess ==
  LET told == {i \in DOMAIN rows : rows[i].status = "Success"}
  IN  IF told = {} THEN Nil ELSE rows[CHOOSE i \in told : \A j \in told : j <= i].op

\* ORDER BY id DESC LIMIT 1: the paging token of the newest row.
GetLastCursorValue == IF rows = <<>> THEN Nil ELSE rows[Len(rows)].op

\* SELECT ... WHERE id = ?: the column is the row id, not operation_id.
GetReceivedPaymentByID(id) == id \in DOMAIN rows

\* Mutant of Insert: no unique key.
InsertNotUnique(k, s) == rows' = Append(rows, [op |-> k, status |-> s])

\* INSERT: operation_id is UNIQUE.
Insert(k, s) == /\ k \notin Recorded
                /\ rows' = Append(rows, [op |-> k, status |-> s])

-----------------------------------------------------------------------------
(* What onPayment decides about an operation.                                 *)

\* The status of an operation that is recorded without a callback.
FilterStatus(k) ==
  CASE ledger[k] = "not_payment"       -> "Not a payment operation"
    [] ledger[k] = "sent"              -> "Operation sent not received"
    [] OTHER                           -> "Asset not allowed"

Eligible(k) == ledger[k] \in {"text", "hash"}
AsksCompliance(k) == Compliance /\ ledger[k] = "hash"

-----------------------------------------------------------------------------
Init ==
  /\ ledger = <<>>
  /\ rows = <<>>
  /\ pc = "down"
  /\ pos = 0
  /\ cursor = Nil
  /\ accepted = {}
  /\ late = {}
  /\ origin = 0
  /\ crashes = 0

\* The network: an operation touches the receiving account.
OperationArrives ==
  /\ Len(ledger) < MaxOps
  /\ \E c \in Arriving : ledger' = Append(ledger, c)
  /\ UNCHANGED <<rows, pc, pos, cursor, accepted, late, origin, crashes>>

\* Listen: the receiving account loads, the goroutine starts. (When it does
\* not load, NewApp fails and the process stays down.)
Listen ==
  /\ pc = "down"
  /\ pc' = "load"
  /\ UNCHANGED <<netVars, rows, pos, cursor, origin, crashes>>

\* Top of the goroutine's loop.
ReadCursor ==
  /\ pc = "load"
  /\ cursor' = GetLastCursorValue
  /\ pc' = "connect"
  /\ UNCHANGED <<netVars, rows, pos, origin, crashes>>

\* A database error here returns from the goroutine: nothing restarts it.
ReadCursorFails ==
  /\ "cursorRead" \in Faults
  /\ pc = "load"
  /\ pc' = "dead"
  /\ UNCHANGED <<netVars, rows, pos, cursor, origin, crashes>>

\* StreamPayments: Horizon answers with the operations after the cursor; with
\* no cursor, `now`, only with those after the present end of the ledger.
Connect ==
  /\ pc = "connect"
  /\ pos' = IF cursor = Nil THEN Len(ledger) ELSE cursor
  /\ origin' = IF cursor = Nil THEN Len(ledger) ELSE origin
  /\ pc' = "scan"
  /\ UNCHANGED <<netVars, rows, cursor, crashes>>

\* The request fails: Listen sleeps and starts over.
ConnectFails ==
  /\ pc = "connect"
  /\ pc' = "load"
  /\ UNCHANGED <<netVars, rows, pos, cursor, origin, crashes>>

\* The scanner yields the next event; the handler is called with it. Events
\* that are not messages (hello, byebye) are skipped and change nothing.
Deliver ==
  /\ pc = "scan"
  /\ pos < Len(ledger)
  /\ pos' = pos + 1
  /\ pc' = "lookup"
  /\ UNCHANGED <<netVars, rows, cursor, origin, crashes>>

\* The stream ends, breaks or does not parse: StreamPayments returns.
StreamEnds ==
  /\ pc = "scan"
  /\ pc' = "load"
  /\ UNCHANGED <<netVars, rows, pos, cursor, origin, crashes>>

\* onPayment up to the filters: an operation found in the table is done with.
\* (A failing SELECT makes StreamPayments call the handler again from here.)
Lookup ==
  /\ pc = "lookup"
  /\ pc' = IF GetReceivedPaymentByID(OpId(pos)) THEN "scan"
           ELSE IF Eligible(pos) THEN "memo" ELSE "filter"
  /\ UNCHANGED <<netVars, rows, pos, cursor, origin, crashes>>

\* An operation nobody is told about is recorded.
Filter ==
  /\ pc = "filter"
  /\ Insert(pos, FilterStatus(pos))
  /\ pc' = "scan"
  /\ UNCHANGED <<netVars, pos, cursor, origin, crashes>>

\* When that INSERT fails the error is ignored, and the stream goes on.
FilterNotSaved ==
  /\ pc = "filter"
  /\ pc' = "scan"
  /\ UNCHANGED <<netVars, rows, pos, cursor, origin, crashes>>

\* Mutant of LoadMemo: the payment is recorded before the callback is posted.
SavedBeforeCallback ==
  /\ pc = "memo"
  /\ Insert(pos, "Success")
  /\ pc' = IF AsksCompliance(pos) THEN "compliance" ELSE "callback"
  /\ UNCHANGED <<netVars, pos, cursor, origin, crashes>>

LoadMemo ==
  /\ pc = "memo"
  /\ pc' = IF AsksCompliance(pos) THEN "compliance" ELSE "callback"
  /\ UNCHANGED <<netVars, rows, pos, cursor, origin, crashes>>

\* The compliance server answers 200 with the data the payment was
\* authorized with.
ComplianceReceive ==
  /\ pc = "compliance"
  /\ pc' = "callback"
  /\ UNCHANGED <<netVars, rows, pos, cursor, origin, crashes>>

\* It answers anything else: onPayment logs it and returns err, which is nil
\* here, so StreamPayments goes on to the next event.
ComplianceRejects ==
  /\ pc = "compliance"
  /\ pc' = "scan"
  /\ UNCHANGED <<netVars, rows, pos, cursor, origin, crashes>>

\* The callback is posted, processed and answered 200 in time.
CallbackAccepted ==
  /\ pc = "callback"
  /\ accepted' = accepted \cup {pos}
  /\ pc' = "save"
  /\ UNCHANGED <<ledger, late, rows, pos, cursor, origin, crashes>>

\* Mutant of CallbackTimesOut: the timeout counts as delivery.
TimeoutIsDelivery ==
  /\ pc = "callback"
  /\ late' = late \cup {pos}
  /\ pc' = "save"
  /\ UNCHANGED <<ledger, accepted, rows, pos, cursor, origin, crashes>>

\* The callback's 60 seconds pass, or the connection breaks: the bridge retries
\* while the request it gave up on may still be processed.
CallbackTimesOut ==
  /\ pc = "callback"
  /\ late' = late \cup {pos}
  /\ pc' = "lookup"
  /\ UNCHANGED <<ledger, accepted, rows, pos, cursor, origin, crashes>>

\* The callback's server processes a request the bridge has given up on.
LateAccept ==
  /\ \E k \in late : accepted' = accepted \cup {k} /\ late' = late \ {k}
  /\ UNCHANGED <<ledger, rows, pc, pos, cursor, origin, crashes>>

\* After a 200 the row is saved with status Success, and the stream goes on.
Save ==
  /\ pc = "save"
  /\ Insert(pos, "Success")
  /\ pc' = "scan"
  /\ UNCHANGED <<netVars, pos, cursor, origin, crashes>>

\* The INSERT commits but its answer is lost: onPayment returns the error.
SaveAckLost ==
  /\ "lostAck" \in Faults
  /\ pc = "save"
  /\ Insert(pos, "Success")
  /\ pc' = "lookup"
  /\ UNCHANGED <<netVars, pos, cursor, origin, crashes>>

\* Mutants of HandlerFails: the retry loop goes on to the next event; the
\* callback's status is not looked at.
ErrorSwallowed ==
  /\ pc \in {"memo", "compliance", "callback", "save"}
  /\ pc' = "scan"
  /\ UNCHANGED <<netVars, rows, pos, cursor, origin, crashes>>
StatusIgnored ==
  /\ pc \in {"memo", "compliance", "callback", "save"}
  /\ pc' = IF pc = "callback" THEN "save" ELSE "lookup"
  /\ UNCHANGED <<netVars, rows, pos, cursor, origin, crashes>>

\* LoadMemo, the compliance request, the callback (refused, or answered with
\* another status) or the INSERT fails: the error goes back to StreamPayments,
\* which sleeps and calls the handler again with the same payment.
HandlerFails ==
  /\ pc \in {"memo", "compliance", "callback", "save"}
  /\ pc' = "lookup"
  /\ UNCHANGED <<netVars, rows, pos, cursor, origin, crashes>>

\* The requests for the stream, its next event and a memo have no time limit: one
\* that is neither answered nor broken off holds the goroutine for good.
HorizonHangs ==
  /\ "hang" \in Faults
  /\ pc \in {"connect", "scan", "memo"}
  /\ pc' = "hung"
  /\ UNCHANGED <<netVars, rows, pos, cursor, origin, crashes>>

\* The goroutine ends with its process (it is not waited for on a graceful stop
\* either); a callback request it had sent may still be processed.
Dies ==
  /\ pc' = "down"
  /\ pos' = 0
  /\ cursor' = Nil
  /\ late' \in {late} \cup (IF pc = "callback" THEN {late \cup {pos}} ELSE {})
  /\ UNCHANGED <<ledger, rows, accepted, origin>>

Crash ==
  /\ crashes < MaxCrashes
  /\ pc # "down"
  /\ crashes' = crashes + 1
  /\ Dies

\* What the goroutine does with the cursor it has read.
Stream ==
  \/ Connect \/ ConnectFails
  \/ Deliver \/ StreamEnds
  \/ Lookup \/ Filter \/ FilterNotSaved \/ LoadMemo
  \/ ComplianceReceive \/ ComplianceRejects
  \/ CallbackAccepted \/ CallbackTimesOut
  \/ Save \/ SaveAckLost
  \/ HandlerFails \/ HorizonHangs

Next ==
  \/ OperationArrives
  \/ Listen
  \/ ReadCursor \/ ReadCursorFails
  \/ Stream
  \/ LateAccept
  \/ Crash

Spec == Init /\ [][Next]_vars

\* Steps the goroutine (or whoever restarts the process) takes by itself.
Step == Listen \/ ReadCursor \/ Connect \/ Deliver \/ Lookup \/ Filter \/ LoadMemo
        \/ CallbackAccepted \/ Save \/ HandlerFails

\* The goroutine keeps being scheduled and a crashed process is restarted; and
\* a dependency asked again and again, by loops that never give up, succeeds
\* some day. Nothing is assumed of the compliance server.
Fairness ==
  /\ WF_vars(Step)
  /\ SF_vars(Connect) /\ SF_vars(Deliver) /\ SF_vars(Filter)
  /\ SF_vars(LoadMemo) /\ SF_vars(CallbackAccepted) /\ SF_vars(Save)

FairSpec == Spec /\ Fairness

-----------------------------------------------------------------------------
(* Properties.                                                                *)

TypeOK ==
  /\ ledger \in Seq(OpClass) /\ Len(ledger) <= MaxOps
  /\ rows \in Seq([op : 1..MaxOps, status : Status])
  /\ pc \in PC
  /\ pos \in 0..MaxOps /\ (pc \in Handling => pos # 0)
  /\ cursor \in 0..MaxOps
  /\ accepted \subseteq 1..MaxOps
  /\ late \subseteq 1..MaxOps
  /\ origin \in 0..MaxOps
  /\ crashes \in 0..MaxCrashes

\* Payments the listener owes a notification on its own account: those it does
\* not need the compliance server for.
Owed(k) == Eligible(k) /\ ~AsksCompliance(k)

\* onPayment's retry loop keeps the callback in ledger order: no operation
\* reaches the callback's server while an earlier payment (since the listener
\* first followed the stream) has not been accepted there, whatever timeouts,
\* late requests, lost connections and crashes come between.
NoOvertaking ==
  \A m \in accepted : \A k \in (origin + 1)..m : Owed(k) => k \in accepted

\* The cursor never passes a payment that was not delivered: what a restarted
\* or reconnected listener resumes behind, the callback has accepted.
CursorBehindAccepted ==
  \A k \in (origin + 1)..GetLastCursorValue : Owed(k) => k \in accepted

\* A row that says Success records a callback that answered 200, for an
\* operation that was a payment to the account.
SuccessIsAccepted ==
  \A i \in DOMAIN rows :
    rows[i].status = "Success" => rows[i].op \in accepted /\ Eligible(rows[i].op)

\* Row order is ledger order, so the newest row is the right cursor.
RowsInLedgerOrder ==
  \A i, j \in DOMAIN rows : i < j => rows[i].op < rows[j].op

\* Once a row exists no connection starts from `now` again: the listener
\* skips nothing, and the cursor it resumes from never goes back.
ResumesWhereItStopped ==
  [][rows # <<>> => origin' = origin /\ GetLastCursorValue' >= GetLastCursorValue]_vars

\* The listener keeps the promise of NotificationLog: seen from the callback's
\* server and from the table, every step of the goroutine, of a late request or
\* of a crash is a step of that specification, or none.
Log == INSTANCE NotificationLog WITH
  length <- Len(ledger),
  due <- {k \in 1..Len(ledger) : Owed(k)},
  known <- accepted,
  start <- origin,
  done <- GetLastCursorValue

ImplementsLog == Log!Spec

\* readme_bridge.md, Callbacks: "Every time a payment arrives it will send a
\* HTTP POST request"; "will not continue to next payments until it receives
\* 200 OK". Said of every payment, those that need the compliance server too.
EveryPaymentAccepted ==
  \A k \in (origin + 1)..GetLastCursorValue : Eligible(k) => k \in accepted

\* readme_bridge.md, callbacks.receive: the bridge keeps calling until 200 OK.
\* A payment that arrives once the table has a row is accepted some day.
EventuallyAccepted ==
  \A k \in 1..MaxOps :
    (rows # <<>> /\ k \in (origin + 1)..Len(ledger) /\ Owed(k)) ~> (k \in accepted)

=============================================================================
