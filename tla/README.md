# A TLA+ model of the Stellar bridge server

The repository holds two servers. The **bridge server** turns HTTP requests of
an institution's back end into Stellar transactions and tells the back end of
the payments its receiving account gets. The **compliance server** speaks the
compliance protocol with other institutions' compliance servers: it answers
whether a payment may be sent, stores what was authorized, and hands it to the
bridge when the payment arrives. All paths below are relative to
`src/src/github.com/stellar/gateway/`.

## Inventory

| component | state | operations | talks to |
|---|---|---|---|
| payment listener (`listener/`) | the stream position and the event in hand; the `ReceivedPayment` table | `Listen`, `onPayment` | Horizon, compliance server, receive callback, database |
| Horizon client (`horizon/`) | none | `StreamPayments` (with the handler's retry loop), `LoadMemo`, `LoadAccount`, `SubmitTransaction` | Horizon |
| transaction submitter (`submitter/`) | map seed -> `Account` (sequence number, mutex); the `SentTransaction` table | `InitAccount`, `GetAccount`, `SignAndSubmitRawTransaction`, `SubmitTransaction` | Horizon, database |
| bridge handlers (`bridge/handlers/`) | none of their own | `/payment`, `/authorize`, `/builder`, `/create-keypair` | submitter, Horizon, compliance server, federation |
| compliance handlers (`compliance/handlers/`) | `AuthorizedTransaction`, `AllowedFi`, `AllowedUser` tables | `/auth`, `/send`, `/receive`, `/allow_access`, `/remove_access` | other compliance servers, sanctions / ask_user / fetch_info callbacks, database |
| repository, entity manager, drivers (`db/`) | the tables | `Persist`, `Delete`, the `Get...` queries | MySQL or PostgreSQL |
| start (`cmd/`, `bridge/app.go`, `compliance/app.go`, `*/config/`) | the process and its goroutines | `run`, `Validate`, `NewApp`, `Serve`, `--migrate-db` | database, Horizon, listener, submitter |
| messages (`protocols/`) | none | `FromRequest`, `ToValues`, validation, the operations of `/builder` | the handlers |
| resolvers, crypto, HTTP helpers | none | lookups, signatures, answers | |

**What is hard.** The listener is one goroutine, but every call it makes can
fail, time out with its effect done, or be cut off by a crash, and it resumes
from whatever row was written last. The submitter serves concurrent requests
that share an unsynchronised map and a counter behind a mutex, while the
network may apply a transaction long after the request for it has failed. The
compliance handlers read and write shared tables around calls to callbacks. A
start can fail at six places, with the listener already at work at the last two
(the API key and the port), and no request to Horizon but a submission has a time
limit. A payment is written into a form twice before it becomes an operation.
`PROJECT.json` lists these hazards line by line with the properties that cover
them.

**What makes the components correct.**

* Listener: payments reach the callback in ledger order; none is passed over;
  the cursor never gets ahead of what was accepted; a `Success` row is true;
  every payment is accepted some day.
* Bridge process: a complete configuration comes to serve, whatever fails at a
  start, and goes on until it is killed; what the listener promises outlives the processes.
* Submitter: nothing leaves without a row; nobody pays twice; a row's outcome is never
  contradicted by the ledger; a number is given out once; no request is stuck.
* Endpoints: 200 means a payment made; an error that names a reason is final, so
  that the caller may try again; two requests are two payments.
* Compliance servers: what one institution pays the other has approved, in both
  respects and for that request; the other finds it when the payment arrives; the
  caller is told what is so, and nothing that was said or done is taken back;
  whoever was removed from the allow lists gets no info any more; what is paid is
  what the caller's form asks for.

## Modules

| module | models |
|---|---|
| `NotificationLog` | abstract: what the listener promises the application |
| `PaymentListener` | `listener/payment_listener.go`, `horizon/main.go` `StreamPayments`, the two repository queries the listener uses |
| `PaymentListenerProofs` | its inductive invariant and theorems, `NotificationLog` implemented |
| `BridgeApp` | extends `PaymentListener`: the bridge process around it, `cmd/bridge/main.go`, `bridge/config/config.go`, `bridge/app.go` |
| `MCBridgeApp` | six configurations for TLC |
| `BridgeAppProofs` | the listener's invariant and refinement, in any process |
| `AuditTrail` | abstract: what the `SentTransaction` table promises |
| `TransactionSubmitter` | `submitter/transaction_submitter.go` and the Horizon calls it makes |
| `MCTransactionSubmitter` | model values and symmetry for TLC |
| `TransactionSubmitterProofs` | its inductive invariant and theorems, `AuditTrail` implemented |
| `BuilderEndpoint` | extends `TransactionSubmitter`: `/builder` (`protocols/bridge/builder.go` and its handler) and its callers beside the submitter |
| `MCBuilderEndpoint` | requests to `/builder` for TLC |
| `BuilderEndpointProofs` | the submitter's invariant and refinement beside such callers |
| `PaymentForm` | operators only: `protocols/common.go`, `Validate` of `/payment` and `/send`, the operation either builds |
| `PaymentFormProofs` | that a path survives its two forms |
| `PaymentAgreement` | abstract: what two institutions promise each other and the caller |
| `PaymentAgreementProofs` | what that promise comes to |
| `ComplianceProtocol` | extends `PaymentForm`: the compliance path of `/payment`, and `/send`, `/auth`, `/receive`, `/allow_access`, `/remove_access` of two institutions' servers, composed |
| `MCComplianceProtocol` | requests, forms, memos and users for TLC, and symmetry |
| `ComplianceProtocolProofs` | its inductive invariants and theorems, `PaymentAgreement` implemented |
| `PaymentEndpoint` | the direct path of `/payment`, `/authorize` and the mapping of Horizon's results to answers |
| `MCPaymentEndpoint` | requests and payloads for TLC, and symmetry |
| `PaymentEndpointProofs` | its inductive invariant and theorems |

The operators that a comment calls a *mutant* describe a plausible bug of the
definition that follows them; no specification uses them. They show that the
properties notice such a bug.

### PaymentListener

`ledger` is the sequence of the account's operations, each reduced to the class
`onPayment` tells apart (`not_payment`, `sent`, `asset_not_allowed`, a payment
with a `text`-like memo, a payment with a `hash` memo). A position in it stands
for Horizon's paging token. `rows` is the `ReceivedPayment` table in row-id
order, `pc` the place of the goroutine, `pos` the event in its hand. `accepted`
holds what the callback's server has processed and answered 200, `late` the
requests the bridge has given up on that the server may still process, and
`origin` the end of the ledger at the last connection from `now` (a history
variable: the listener owes nothing before it).

| action | code |
|---|---|
| `Listen`, `ReadCursor`, `ReadCursorFails` | `Listen`; a failing SELECT returns from the goroutine |
| `Connect`, `ConnectFails`, `Deliver`, `StreamEnds` | `StreamPayments`; the `now` cursor means the present end of the ledger |
| `Lookup` | `onPayment` to the filters. The query compares the auto-increment row id with an operation id, as the code does |
| `Filter`, `FilterNotSaved` | the three filters; the error of saving is ignored |
| `LoadMemo`, `ComplianceReceive`, `ComplianceRejects` | memo and compliance request; an answer other than 200 returns a nil error |
| `CallbackAccepted`, `CallbackTimesOut`, `LateAccept` | the callback; the client's timeout is 60 seconds |
| `Save`, `SaveAckLost` | the final INSERT; the fault `lostAck` is a commit the driver does not hear of |
| `HandlerFails` | every error `onPayment` returns: `StreamPayments` sleeps and calls it again |
| `HorizonHangs` | `StreamPayments` and `LoadMemo` have no time limit: with the fault `hang`, the goroutine waits in one of them for good |
| `Crash` | the process dies anywhere |

Several failing steps of one handler call that lead to the same retry are the
one action `HandlerFails`; a failing SELECT in `Lookup` leaves the goroutine
where it is. `FirstOpId` keeps operation ids and row ids apart
(`FirstOpId >= MaxOps`): Horizon's ids are above 2^32, so they stay apart until
the table has that many rows.

**Refinement.** `NotificationLog` knows no streams, cursors or processes: the
application accepts operations in order, what is durably done is known to it,
and the listener may begin anew only while nothing is durable. The mapping reads
`known` off the callback's server (`accepted`), `done` off the newest row and
`start` off `origin`; `due` are the payments that need no compliance server.

### BridgeApp

`boot` is where the main goroutine is, from `run` to `Serve`; `conf` the
configuration file, reduced to what the start tells apart; `migrated` whether
the tables exist. The listener's goroutine (`pc` of `PaymentListener`) lives
beside it: it is started before the API key is looked at and the port is bound,
and every end of the process (`ProcessEnds`: a `log.Fatal`, a returned error, a
panic; `Killed`) ends it wherever it is. A start whose `LoadAccount` never
returns is `hanging` until it is killed.

| action | code |
|---|---|
| `Run` with `Validate` | `cmd/bridge/main.go` `run`, `Config.Validate` |
| `InitDriver`, `InitAccounts`, `StartListener`, `CheckAPIKey` | `NewApp` in its order; a configuration without `database.type` leaves the repository nil |
| `StartFails`, `StartHangs` | the errors of these, from the database and Horizon; Horizon may also never answer (`AsksHorizon`) |
| `Serve`, `BindFails` | `Serve`: goji binds the port, or ends the process by `log.Fatal`, its listener included |
| `MigrateDB` | `--migrate-db`, a run of its own at any time |
| `ListenerPanics`, `CursorTableMissing`, `Load`, `Follow` | the goroutine: with a nil repository, without a table, and as `PaymentListener` has it |

A supervisor that starts an ended process again is assumed, as for the listener.

### TransactionSubmitter

Requests run `SignAndSubmitRawTransaction` for one seed. `ts.Accounts[seed]` is
`cached`; an `Account` object is named by the request that loaded it, with its
number in `seq` and its mutex in `lock`. `num` is the number a request was
given, `resp` Horizon's answer, `row` the status of its `SentTransaction`. The
network is `pool` (what it may still apply), `applied` and `ledgerSeq`. `gen`
and `numGen` are history variables that count resets of a number. Reads and
writes of shared state are steps of their own wherever another goroutine can
come between them: the map lookup, the load from Horizon, the store into the
map, and inside the mutex the read and the write of the number.

An envelope is its payment and its number, so two requests with equal payments
and equal numbers have the same transaction, as they have the same hash in
Stellar. Another user of the account, the direct path of `/payment` among them,
is `ForeignTransaction`.

The seed is one of the configuration's or another (`configured`, either at
`Init`). `NewApp` loads a configured seed's account before the process serves
(`InitAccount`), again after each crash, so a lookup that misses is that of a
seed named in a request; then two requests can load it side by side.

**Refinement.** `AuditTrail` has the table, the network and nothing else: a
transaction is recorded, then sent, then settled or dropped, and concluded once
with an outcome that the ledger has or can no longer contradict. The mapping is
`row`, the transaction of each row (`Written`), `pool` and `applied`.

Concurrent access to a Go map is undefined; the outcome modelled is that of
atomic reads and writes of one key. (A build may also end the process with
"concurrent map writes"; that is a `Crash`.)

### BuilderEndpoint

`/builder` keeps no state, so its handler is a predicate of the request
(`Builder`): an envelope, or the error of `Process`, of `Validate`, of parsing
the number, of the library, or of a signer that is an address and no seed. The
operations are reduced to which of these refuses them. As the endpoint shares
nothing with the submitter, answering is no step; but the caller names the number
and posts the envelope itself, at any time (`CallerSubmits`), which takes the
number from under the submitter's.

### PaymentForm

The caller's form becomes a `PaymentRequest`, that a `SendRequest`, that a form
again, and that a `SendRequest` in the compliance server, which builds the
operation. Values are strings that are empty or not; a path is given by its
indexed codes and issuers. `DirectOperation` is what `/payment` builds itself
from the same form, and the reference `SendOperation` is held against.

### ComplianceProtocol

A request is one call of the sender's `/payment` with `extra_memo`; a retry is
another request with the same memo hash (the hash covers the sender's info, the
route and the extra memo, not the attempt). `front` is where the request is in
the sender's bridge and `/send`, which holds no state between its steps, and
`handler` where the receiver's `/auth` handler for it is. The two meet twice:
when `/send` posts (`HandlerSend`) and when the answer arrives
(`AuthAnswered`). In between either side can fail or die without the other
knowing, and the receiver's handler runs on.

| action | code |
|---|---|
| `Payment`, `AuthAnswered` with `Decision`, `SubmitPayment` | the compliance path of `Payment` in `bridge/handlers/`; a submission that fails, or that a crash cuts off, leaves the request `lost` |
| `LateApply` | the network applies what a `lost` request submitted; its caller has heard of an error |
| `HandlerSend`, `SendFails` | `compliance/handlers/request_handler_send.go` and the bridge's errors around it |
| `CheckAuth`, `AskSanctions`, `UserInfo`, `AskUserAnswers`, `GetAllowedFi`, `GetAllowedUser`, `FetchInfo`, `PersistAuthorized`, `PersistAuthorizedFails`, `AuthFails` | `request_handler_auth.go`, one step for each call that leaves the process |
| `HandlerReceive` | `request_handler_receive.go`; any of the rows with the memo may be the one found |
| `HandlerAllowAccess`, `FindGrant`, `DeleteGrant`, `RemoveFails` | the two editors of the allow lists; a removal reads a row and deletes it by id in two steps |
| `ReceiverCrash`, `SenderCrash` | the processes die; the tables stay |

`grants` holds the rows of both allow lists with their unique keys
(`Conflicts`): `AllowedFI` by domain, `AllowedUser` by public key and user. The
sending institution is one, so the unique public key of `AllowedFI` adds
nothing. (The drivers write to `AllowedFi` and the queries read `AllowedFI`; the
model is of a database that takes these for one table, as PostgreSQL does. A
MySQL server with case-sensitive table names refuses every row for an
institution.) History variables say what has been promised and read
nothing off the tables: `excluded` holds the users, and the institution, that
were never allowed or that a removal was answered 200 for and that were not
allowed since, where a removal counts only if nobody was allowed between its two
steps (`sole`); `barred` holds the requests that arrived when both their user and
the institution were excluded, until one of the two is allowed anew. A pending answer's waiting time is left
out; so is the difference between transactions that share a memo, which
`/receive` cannot tell apart either. `form` is what the caller posted
(`PaymentForm`). The receiver's server opens two ports one after the other, in
either order (`Serve`): `/auth` is on the external one, the others on the
internal one, and a port that cannot be had ends the process.

**Refinement.** `PaymentAgreement` has no servers, messages or lists: the
receiver approves a request or refuses it, what is approved may be paid, now or
after its caller gave up, and a payment is found by its memo among what was
approved. The mapping reads the approvals off the `AuthorizedTransaction` rows,
the answers off where the bridge's handler ended, the payments off the ledger
and the findings off `/receive`. So the receiver's decision is the moment the row
is stored, and not when the callbacks or the lists said yes: an error after that
is an approval nobody uses.

### PaymentEndpoint

A request to `/payment` without compliance, or to `/authorize`, is handled in
steps (`pc`) for one source account. Its `Payload` stands for the parameters:
`Native` payloads are lumens, `Path` ones have `send_max`, `Trust` ones are
authorizations; equal payloads make equal operations. `op` is the operation
built, `num` the transaction's number, `answer` what the caller got. The network
is that of `TransactionSubmitter`, with the result of each transaction on the
ledger and the destination accounts that exist. `earlier` is a history variable.
A request answered with nothing sent is `unsent`, and what it had built is
dropped; `done` is one that has submitted. `PaidNoMoreThanAsked` counts the
latter only, and those that wait for Horizon.

| action | code |
|---|---|
| `ValidateFails`, `Reject` | the errors of the request itself: validation, resolution, memo, source account, amount and asset code |
| `Payment` with `PayOp`, `LoadDestination` | the choice of operation; any error of `LoadAccount` is taken for an account that does not exist |
| `LoadSource` | the source account's number, read from Horizon |
| `Authorize` | `/authorize` up to the submission. The submitter's cached number may be behind or ahead, so the model lets it be any up to `MaxNumber`; `TransactionSubmitter` has the detail |
| `Submit`, `SubmitFails` | building, signing, encoding, posting |
| `AnswerApplied`, `AnswerRejected` with `ErrorFromHorizonResponse`, `NoAnswer` | Horizon's response and the caller's answer |
| `Apply`, `ForeignTransaction` | the network and other users of the account |

Results that differ only in the name of their error are one (`payment_failed`
for eight of a payment's nine, and so on). A result without an operation's part
makes the handler panic; goji's default middleware answers 500, which the model
calls `internal_server_error` like the others. The handlers keep nothing between
requests, so a crash of the process is a request that takes no further step,
which the specification allows everywhere.

## Runs

| run | instance | shows |
|---|---|---|
| `listener_safety` | 3 operations of 5 classes, 2 crashes, all faults, compliance on | `NoOvertaking`, `CursorBehindAccepted`, `SuccessIsAccepted`, `RowsInLedgerOrder`, `ResumesWhereItStopped`, `ImplementsLog` |
| `listener_live` | the whole bridge process (`BridgeApp`): 6 configurations, tables there or not, 2 operations, 1 kill, any number of failing starts, requests to Horizon that hang, no database faults in the listener | `ImplementsLog`, `EndsOnlyIfKilled`, `ServesUnlessHorizonHangs`, `PaymentsMadeKnown` |
| `listener_skipped` | 2 operations | **violated**: a payment is passed over when the compliance server does not answer 200 |
| `listener_wedged` | 2 operations, fault `lostAck` | **violated**: the listener retries one payment for ever though the callback answers 200 |
| `listener_dead` | 2 operations, fault `cursorRead` | **violated**: one database error stops the listener |
| `submitter_safety` | 3 requests (two with the same payment), 1 crash, a configured seed and another | `EverySubmissionRecorded`, `PaidNoMoreThanAsked`, `SuccessRowApplied`, `FailureRowFinal`, `AcknowledgedIsRecorded`, `MutexHeldInside`, `NumberHandedOutOnce`, `ConfiguredNumbersUnique`, `ImplementsTrail` |
| `submitter_live` | `BuilderEndpoint`: 2 requests with the same payment, 2 crashes, other users of the account and callers of `/builder` up to number 3, ten requests to `/builder` | `ImplementsTrail`, `ReturnsUnlessHorizonHangs` |
| `compliance_agreement` | a payment, its retry and another payment with any of 3 forms, both callbacks, 1 crash | `PaidWasApproved`, `PaidIsFound`, `PaidIsAsked`, `CallersTold`, `ImplementsAgreement` |
| `compliance_access` | a payment and its retry, 2 removals, 3 rows ever inserted, one public key, 1 crash | `RevokedGetsNoInfo` |
| `compliance_two_keys` | the same with two public keys | **violated**: a removal leaves the user's second row |
| `payment_endpoint` | two equal payments of lumens, a path payment, an authorization, another user of the account | `OkIsPaidUnlessCreated`, `PaidNoMoreThanAsked`, `ErrorIsFinal`, `LaterIsAnother` |
| `payment_created` | two equal payments of lumens | **violated** (`OkIsPaid`): a create_account that failed is answered 200 |

**Bounds.** Three operations are one recorded, one in hand and one behind it,
which is what an overtaking, a gap in the rows or a wrong cursor takes;
`listener_live` has two, one recorded before the payment that is to be accepted.
Two crashes allow one in the recovery from another. Three requests are what it
takes to have one reset a number that a second holds and a third gets again;
two equal payloads make equal envelopes possible. `ForeignUpTo` makes others
use the account first, which gives `tx_bad_seq` beyond what reordering and the
poisoned cache give; `submitter_live` has that, `submitter_safety` the third
request instead. The requests to `/builder` are two that get a signed
envelope and one for each way not to. The forms
have a path of five elements with lumens among them, the longest there is; a
path with a gap; one with half an asset; and one that lacks half of the asset to
send. The configurations are one with everything,
the minimal one, two between, and two that cannot serve. A payment,
its retry and a payment with another memo are what a mix-up of two
authorizations needs; three rows and two removals let a row be removed,
inserted again and removed by a request that read the first. Two equal payments
are what a mix-up of answers needs, and the other two requests bring the other
operations; `MaxNumber = 2` gives an authorization a number that is used up and
one that competes with a payment's, `ForeignUpTo = 2` lets another user take
that number first. The proofs have no bounds.

**Deadlock** is not checked: the listener may be dead, and all requests may be
done; both are ends the program can come to.

**The properties leave out what the code does not promise.**
`NoOvertaking`, `CursorBehindAccepted` and `EventuallyAccepted` speak of
payments that need no compliance server (`Owed`), because the code passes over
the others (`listener_skipped`). `PaymentsMadeKnown` speaks of configurations
with what the documentation asks for and of tables made before the first start:
without them the goroutine ends at once, and only another start helps.
`ServesUnlessHorizonHangs` and `EndsOnlyIfKilled` leave out a receive callback
without a database, where every start ends in a panic. `EndsOnlyIfKilled` also
leaves out the moment between the API key and serving: whoever has the port ends
the process there. `ServesUnlessHorizonHangs` and `PaymentsMadeKnown` except the
start, and the latter the goroutine, that waits for ever for an answer of
Horizon. `CallersTold` says nothing of
errors: the payment may have been made, or be made later. `PaidNoMoreThanAsked`
counts and does not match requests with payments one to one: two requests can
have one transaction. `PaidIsAsked` leaves out paths of more than five
elements, which `/send` cuts to five and the direct path refuses.
`FailureRowFinal` excepts another request with
the identical transaction: a reset after `tx_bad_seq`, or two `Account` objects,
can give a number out twice, and then one application on the ledger stands for
two requests. `SuccessRowApplied` holds of both. `ErrorIsFinal` has the same
exception, since the direct path of `/payment` gives concurrent requests the
same number; so `LaterIsAnother` speaks of requests one after the other, and of
`/payment` only, where the number is Horizon's and not the submitter's.
`RevokedGetsNoInfo` speaks of
requests that arrive with both their user and the institution excluded, since a
row of either lets the info out, and of receivers whose allow lists decide; where an `ask_user` callback does, the lists
are not read.

**Fairness.** `listener_wedged` and `listener_dead`: weak fairness of the
goroutine's steps (the Go scheduler; whoever restarts a crashed process) and
strong fairness of those that depend on others (`Connect`, `Deliver`, `Filter`,
`LoadMemo`, `CallbackAccepted`, `Save`): the loops of `Listen` and
`StreamPayments` never give up, so a service that succeeds some time is asked at
such a time. Nothing is assumed of the compliance server. `listener_live` has
the same of the listener's steps in their process, weak fairness of the start
(the supervisor starts an ended process again) and strong fairness of the steps
of a start that can fail, the port among them: each start asks again. That a
request to Horizon returns is not assumed, neither at the start nor in the
listener: it has no time limit, and a call that hangs is left only by a kill,
which nobody owes. Nobody need run the migration.
`submitter_live`: weak fairness of a request's steps but those that wait for
`LoadAccount`: goroutines are scheduled, the database returns, and a submission
ends after 30 seconds. `LoadAccount` has no time limit, so nothing is assumed of
it, and the property says exactly who then waits for it: the request that called
it, and those that wait for the mutex of an account whose sync did. Nothing is
assumed of the callers of `/builder`.

## Proofs

Checked by TLAPS for every value of the constants.

* **PaymentListener.** `IInv` joins the type invariant, what the data say
  (`DataInv`) and what the goroutine knows where it is (`StreamInv`).
  `CursorBehindAccepted` is not inductive alone: that a row may be added needs
  to know that all payments between the newest row and the event in hand have
  been accepted (`StreamBehindAccepted`), and that holds because the stream was
  opened at or behind the newest row (`StreamBehindRows`); late requests are
  harmless because they are for operations no later than the one in hand whose
  predecessors were accepted (`LateBehindAccepted`). Theorems: `TypeCorrect`,
  `InOrderDelivery`, `CursorLosesNothing`, `SuccessRowsAreAccepted`,
  `RowsFollowLedger`, `NeverSkipsAhead`, an action property,
  `AllAcceptedWithoutCompliance`, that nothing at all is passed over when no
  compliance server is configured (so finding 1 has the one cause), and
  `ListenerImplementsLog`: the initial states are `NotificationLog`'s, and in
  `IInv` every step is one of its steps or a stutter, where the guards of
  `Notify` and `Advance` follow from `StreamBehindAccepted` and
  `LateBehindAccepted`. They rest on
  `FirstOpId >= MaxOps` (no operation id is a row id) and on the types of the
  constants.
* **BridgeApp.** `BridgeInv` is the listener's `IInv` and `BridgeTypeOK`. A step
  of the process is a step of the listener, the end of its goroutine, or none of
  its business (`BridgeStepIs`), so the listener's lemmas carry over.
  `BridgeTypeCorrect`, which also says that the goroutine lives only in a process
  that has started it, `ListenerSafeInProcess` and `BridgeResumes`, the
  listener's properties of the whole process, `BridgeImplementsLog`, and
  `ProcessStaysUp`: with a complete configuration, a process that has its listener
  ends only when killed, or for want of its port (`BindFails`).
* **TransactionSubmitter.** `IInv` adds to the types: the order of a request's
  steps (`RequestOrder`); that an answer given is and stays true (`AnswersTrue`:
  the network applies only what it holds, and takes a refused transaction again
  only from another request); that the ledger applies one transaction per number
  (`LedgerLinear`); who may be inside an object's mutex (`ObjectOwners`); and
  that an object's number is not below any it gave out since its last reset
  (`NumbersBelow`). Theorems: `TypeCorrect`, `SubmissionsRecorded`,
  `SuccessIsOnLedger`, `FailureIsFinal`, `OutcomeIsRecorded`,
  `NumbersAreUnique`; `ConfiguredIsUnique`, from the one object a configured seed
  has while its process lives (`OneObject`); `MutexIsExact`, which adds to
  `ObjectOwners` that whoever is inside has the lock; `NobodyPaysTwice`; and
  `SubmitterImplementsTrail`. `NobodyPaysTwice` counts: each payment on the ledger
  is sent to a request whose row has its transaction, which takes two payments to
  two requests, because the ledger applies a transaction once; so it assumes that
  the requests are finitely many.
* **BuilderEndpoint.** `EndpointInvariance` and `EndpointImplementsTrail`: the
  submitter's invariant and refinement with callers who use its numbers, and
  `SubmitterSafeBesideBuilder` what follows for its rows and numbers.
* **PaymentForm.** `RoundTrip`: a form whose path ends within five elements gives
  the same request after the second form as after the first. `SameOperation`: the
  operation is then the direct one.
* **PaymentAgreement.** `AllAgree`: the receiver, the ledger and the caller never
  contradict each other on a request. `AgreementStands`: nothing is taken back.
  Both are proved of the abstract specification alone, so they hold of whatever
  implements it.
* **ComplianceProtocol.** `AgreementInv` says what a handler has decided by where
  it is (`HandlerOrder`): once a row is stored its statuses are ok and change no
  more, and an ok answer is written only after the row. So a bridge that is
  about to submit has a stored row behind it (`PaidIsStored`), rows are never
  removed, and `/receive` finds one (`ServedIsStored`). `AccessInv` carries the
  lists: a removal under way knows the only row there can be unless somebody was
  allowed since, and nobody excluded has a row (`ListExact`, of the institution
  and of each user); so a barred request's handler never gets to `fetch`
  (`BarredGetNothing`). Theorems: `TypeCorrect`, `PaymentsApproved`,
  `PaymentsFound`, `PaymentsAsked` (from `SameOperation`, for any forms);
  `InstitutionRemoved`, without an assumption, for `AllowedFI` is unique by
  domain; and `RemovalWorks`, which assumes that no user has two rows at once
  (`UsersOnce`), under however many keys users were allowed one after the other.
  The key of `AllowedUser` does not ensure that, and without it the theorem is
  false, as `compliance_two_keys` shows.
  `ServersImplementAgreement`: the initial states are `PaymentAgreement`'s and in
  `AgreementInv` every step is one of its steps or a stutter. That a step of the
  sender is a `Refuse` and not something the abstract side forbids needs to know
  that a handler which has answered has no row unless the answer was ok; that
  storing a row is an `Approve`, that a caller told `pending` or `denied` has an
  answered handler, which is the last part of `HandlerOrder`. `CallersToldRight`
  and `AnswersStand`, an action property, are then `AllAgree` and
  `AgreementStands` read through the mapping, without another induction.
* **PaymentEndpoint.** `Inv` says what a request has by where it is (`Phase`),
  that a transaction is pending or on the ledger, with one result, and uses up
  its number (`LedgerInv`), and that what the network has was sent by a request
  that keeps it (`AllSent`). An answer 200 has its transaction on the ledger
  (`OkOnLedger`), so its number is used up, and a request that reads the number
  later gets a greater one (`Ordered`). An error is final because a refused
  transaction leaves the pool and an applied one has its only result; it can
  come back only through a request that sends the same transaction, and such a
  request keeps it (`FailedForGood`); one that sent nothing has no number, and the
  network has nothing without. Theorems: `TypeCorrect`, `OkPaid`,
  `ErrorFinal`, `LaterAnother`; `OkPaidUnlessLumens`, from the fact that only
  lumens become a create_account (`CreatesLumens`), so finding 5 touches nobody
  else; and `NobodyPaysTwice`, as for the submitter, of finitely many requests.
  The others need no assumption but that the bounds are numbers.

Model-checked only: the liveness properties `ServesUnlessHorizonHangs`,
`PaymentsMadeKnown` and `ReturnsUnlessHorizonHangs` (TLAPS does not prove liveness under fairness).
Every invariant and action property of the passing runs, and every refinement,
has a theorem.

## Findings

1. `listener/payment_listener.go:197`: an answer other than 200 from the
   compliance server returns a nil error, so the payment is passed over.
2. `db/repository.go:119`: the lookup of an operation compares its id with the
   auto-increment key. After an INSERT whose acknowledgement was lost the
   listener posts the same payment for ever and never gets to the next.
3. `listener/payment_listener.go:82`: a failing read of the cursor ends the
   listener until the process is restarted.
4. `compliance/handlers/request_handler_remove_access.go:35`: users are looked up
   by domain and id, but the table is unique by public key and id. A user
   allowed under two keys keeps access after `/remove_access` answered 200.
5. `protocols/bridge/errors.go:105`: a `CreateAccountResult` has no branch, so a
   create_account that failed on the ledger is answered 200. One way there is a
   failing `LoadAccount` of an existing destination
   (`bridge/handlers/request_handler_payment.go:184`), which makes the payment a
   create_account.

Met on the way, without a run of their own:

* `protocols/bridge/builder_set_options.go:29`: the `source` of a `set_options` is
  validated and then left out of the operation, so that the transaction's source
  gets the options; `readme_bridge.md:115` has `source` left out only where it is
  the transaction's.
* `protocols/bridge/builder_manage_offer.go:48`: assets, amount and price of an
  offer are not validated, so a wrong one is answered 500 and not 400.
* `/send` cuts a path of more than five elements to five; the direct path of
  `/payment` refuses it.
* `bridge/app.go:122`: a listener without a database panics at every start.

## Not modelled

* `/create-keypair`, `crypto/`, the TOML and federation lookups, the HTTP helpers
  and middlewares: no state; their callers have an answer or a failure.
* `Validate` and `NewApp` of the compliance server: they run before its first
  port is open and keep nothing; its `Serve` is modelled.
* The values in the eleven bodies of `/builder`: which of them `Validate` looks at,
  which the library refuses, and how they are copied into the operation. They are
  data of one request, and no state depends on them.
* SQL generation by reflection in the drivers, the generated `bindata.go`.
* The waiting time of a pending answer; the memo preimage and its encoding, which
  is one value with its hash here.
* Vendored code, but for what the modules say of the libraries they meet.

## Plan

Done: the listener, its process, the submitter, `/builder`, the compliance
protocol with its forms, the endpoints, three abstract specifications and the
theorems above. What could follow:

1. The listener and the compliance protocol composed: a hash-memo payment that
   was approved reaches the callback with its data, as long as the compliance
   server answers; liveness of the compliance protocol.
2. `/authorize` over `TransactionSubmitter` itself in place of any number.
