------------------------- MODULE ComplianceProtocol -------------------------
(* The compliance protocol between two institutions. The sender's bridge      *)
(* (/payment with extra_memo) asks its compliance server (/send), which asks  *)
(* the receiver's (/auth). That one checks sanctions and whether the sender   *)
(* may have the recipient's info, stores the authorization and answers; the   *)
(* sender's bridge submits the payment or not. When the payment arrives, the  *)
(* receiver's listener asks its compliance server for the data (/receive).    *)
(* Meanwhile the receiver edits its allow lists (/allow_access,               *)
(* /remove_access). Handlers run concurrently, answers get lost, servers die. *)
EXTENDS PaymentForm, FiniteSets

CONSTANTS
  Requests,     \* /payment requests; a retry is a request with the same memo
  Forms,        \* what the caller of each may post
  Memo,         \* the memo hash of each: that of sender info, route and extra
  User,         \* the sending institution's user each is made for
  Institution,  \* model value: the sending institution itself, in AllowedFi
  Keys,         \* public keys the institution is known by
  NeedInfo,     \* does each ask for the recipient's info (config.NeedsAuth)?
  Sanctions,    \* does the receiver have callbacks.sanctions?
  AskUser,      \* ... callbacks.ask_user?
  Removers,     \* /remove_access requests
  MaxRows,      \* bound: rows ever inserted into AllowedFi and AllowedUser
  MaxCrashes    \* bound: crashes of either side

ASSUME RequestAssumption ==
  /\ DOMAIN Forms = Requests
  /\ DOMAIN Memo = Requests /\ DOMAIN User = Requests
  /\ Institution \notin {User[a] : a \in Requests}
  /\ "none" \notin Requests /\ "not_found" \notin Requests
ASSUME ConfigAssumption ==
  NeedInfo \in [Requests -> BOOLEAN] /\ Sanctions \in BOOLEAN /\ AskUser \in BOOLEAN
ASSUME BoundsAssumption == MaxRows \in Nat /\ MaxCrashes \in Nat

VARIABLES
  form,        \* the form posted to /payment for a request
  serving,     \* the ports the receiver's compliance server listens on
  front,       \* where a request is on the sender's side (bridge and /send)
  handler,     \* where the receiver's /auth handler of a request is
  txStatus,    \* tx_status of the handler's response
  infoStatus,  \* info_status of the handler's response
  info,        \* requests whose response carries dest_info
  authorized,  \* AuthorizedTransaction: the requests stored
  paid,        \* requests whose payment reached the ledger
  served,      \* what /receive found for a payment
  grants,      \* AllowedFi and AllowedUser: [id, who, key]
  nextId,      \* next auto-increment id
  remover,     \* the /remove_access requests: [pc, id, who, sole]
  excluded,    \* who may have no info: never allowed, or removed and not allowed since
  barred,      \* requests that arrived when user and institution were excluded
  crashes

authVars == <<front, handler, txStatus, infoStatus, info>>
listVars == <<grants, nextId, remover, excluded, barred>>
procVars == <<form, serving, crashes>>
vars == <<front, handler, txStatus, infoStatus, info, authorized, paid, served,
          grants, nextId, remover, excluded, barred, procVars>>

AuthStatus == {"ok", "pending", "denied"}
Returned == {"paid", "pending", "denied", "error", "lost"}
Front == Returned \cup {"idle", "send", "auth", "submit"}
Over == {"idle", "answered", "failed"}
Handler == Over \cup {"check", "sanctions", "info", "ask", "fi", "user", "fetch",
                      "persist", "reply"}

\* The response's tx_status is set from here on; its info_status from here.
TxKnown == {"info", "ask", "fi", "user", "fetch", "persist", "reply", "answered"}
InfoKnown == {"fi", "user", "fetch", "persist", "reply", "answered"}

Ports == {"external", "internal"}
Who == {User[a] : a \in Requests} \cup {Institution}
Grant == [id : Nat, who : Who, key : Keys]
Idle == [pc |-> "idle"]
Removing(i, w, b) == [pc |-> "delete", id |-> i, who |-> w, sole |-> b]
Remover == {Idle} \cup [pc : {"delete"}, id : Nat, who : Who, sole : BOOLEAN]

Allowed(w) == \E g \in grants : g.who = w
Approved(a) == txStatus[a] = "ok" /\ infoStatus[a] = "ok"

ToFront(a, l) == front' = [front EXCEPT ![a] = l]
ToHandler(a, l) == handler' = [handler EXCEPT ![a] = l]

-----------------------------------------------------------------------------
Init ==
  /\ form \in [Requests -> UNION {Forms[a] : a \in Requests}]
  /\ \A a \in Requests : form[a] \in Forms[a]
  /\ serving = {}
  /\ front = [a \in Requests |-> "idle"]
  /\ handler = [a \in Requests |-> "idle"]
  /\ txStatus = [a \in Requests |-> "none"]
  /\ infoStatus = [a \in Requests |-> "none"]
  /\ info = {}
  /\ authorized = {}
  /\ paid = {}
  /\ served = [a \in Requests |-> "none"]
  /\ grants = {}
  /\ nextId = 1
  /\ remover = [q \in Removers |-> Idle]
  /\ excluded = Who
  /\ barred = {}
  /\ crashes = 0

(* The sender: Payment and HandlerSend.                                       *)

\* A valid /payment request with extra_memo goes to /send.
Payment(a) ==
  /\ front[a] = "idle"
  /\ ToFront(a, IF ValidatePayment(FromRequest(form[a])) THEN "send" ELSE "error")
  /\ UNCHANGED <<handler, txStatus, infoStatus, info, authorized, paid, served,
                 listVars, procVars>>

\* /send resolves the destination, builds the transaction, fetches the sender's
\* info, signs the request and posts it to the receiver's /auth.
HandlerSend(a) ==
  /\ front[a] = "send" /\ Sendable(form[a])
  /\ "external" \in serving
  /\ ToFront(a, "auth")
  /\ ToHandler(a, "check")
  /\ barred' = IF {User[a], Institution} \subseteq excluded THEN barred \cup {a} ELSE barred
  /\ UNCHANGED <<txStatus, infoStatus, info, authorized, paid, served,
                 grants, nextId, remover, excluded, procVars>>

\* A step of /send fails, a connection breaks, or an answer is not 200: the
\* bridge answers 500. The receiver's handler, if it runs, runs on.
SendFails(a) ==
  /\ front[a] \in {"send", "auth"}
  /\ ToFront(a, "error")
  /\ UNCHANGED <<handler, txStatus, infoStatus, info, authorized, paid, served,
                 listVars, procVars>>

\* Mutant of Decision: denied is forgotten.
DeniedForgotten(a) ==
  IF "pending" \in {txStatus[a], infoStatus[a]} THEN "pending" ELSE "submit"

\* The bridge on /auth's response: pending first, then denied.
Decision(a) ==
  IF "pending" \in {txStatus[a], infoStatus[a]} THEN "pending"
  ELSE IF "denied" \in {txStatus[a], infoStatus[a]} THEN "denied"
  ELSE "submit"

AuthAnswered(a) ==
  /\ front[a] = "auth" /\ handler[a] = "reply"
  /\ ToHandler(a, "answered")
  /\ ToFront(a, Decision(a))
  /\ UNCHANGED <<txStatus, infoStatus, info, authorized, paid, served, listVars, procVars>>

\* The submitter's work, as far as this protocol sees it: the payment is on the
\* ledger and the caller knows, or the caller gets an error, ...
SubmitPayment(a) ==
  /\ front[a] = "submit"
  /\ \/ ToFront(a, "paid") /\ paid' = paid \cup {a}
     \/ ToFront(a, "lost") /\ UNCHANGED paid
  /\ UNCHANGED <<handler, txStatus, infoStatus, info, authorized, served, listVars, procVars>>

\* ... which may come before the ledger has the payment.
LateApply(a) ==
  /\ front[a] = "lost"
  /\ ToFront(a, "error")
  /\ paid' = paid \cup {a}
  /\ UNCHANGED <<handler, txStatus, infoStatus, info, authorized, served, listVars, procVars>>

(* The receiver: HandlerAuth.                                                 *)

\* Data, stellar.toml, signature, transaction and memo preimage are in order.
CheckAuth(a) ==
  /\ handler[a] = "check"
  /\ IF Sanctions THEN ToHandler(a, "sanctions") /\ UNCHANGED txStatus
     ELSE ToHandler(a, "info") /\ txStatus' = [txStatus EXCEPT ![a] = "ok"]
  /\ UNCHANGED <<front, infoStatus, info, authorized, paid, served, listVars, procVars>>

\* The sanctions callback answers 200, 202 or 403. The handler goes on anyway.
AskSanctions(a) ==
  /\ handler[a] = "sanctions"
  /\ \E s \in AuthStatus : txStatus' = [txStatus EXCEPT ![a] = s]
  /\ ToHandler(a, "info")
  /\ UNCHANGED <<front, infoStatus, info, authorized, paid, served, listVars, procVars>>

\* Mutant of UserInfo: no info_status before the lists are read.
NotDeniedFirst(a) ==
  /\ handler[a] = "info"
  /\ \/ /\ ~NeedInfo[a]
        /\ infoStatus' = [infoStatus EXCEPT ![a] = "ok"] /\ ToHandler(a, "persist")
     \/ /\ NeedInfo[a]
        /\ ToHandler(a, IF AskUser THEN "ask" ELSE "fi") /\ UNCHANGED infoStatus
  /\ UNCHANGED <<front, txStatus, info, authorized, paid, served, listVars, procVars>>

\* Who decides on the recipient's info: nobody need, the user, or the lists.
UserInfo(a) ==
  /\ handler[a] = "info"
  /\ \/ /\ ~NeedInfo[a]
        /\ infoStatus' = [infoStatus EXCEPT ![a] = "ok"] /\ ToHandler(a, "persist")
     \/ /\ NeedInfo[a] /\ AskUser
        /\ ToHandler(a, "ask") /\ UNCHANGED infoStatus
     \/ /\ NeedInfo[a] /\ ~AskUser
        /\ infoStatus' = [infoStatus EXCEPT ![a] = "denied"] /\ ToHandler(a, "fi")
  /\ UNCHANGED <<front, txStatus, info, authorized, paid, served, listVars, procVars>>

\* The ask_user callback answers 200, 202 or 403.
AskUserAnswers(a) ==
  /\ handler[a] = "ask"
  /\ \E s \in AuthStatus :
       /\ infoStatus' = [infoStatus EXCEPT ![a] = s]
       /\ ToHandler(a, IF s = "ok" THEN "fetch" ELSE "persist")
  /\ UNCHANGED <<front, txStatus, info, authorized, paid, served, listVars, procVars>>

\* A row for w lets the info out; otherwise the handler goes on to l.
CheckList(a, w, l) ==
  /\ IF Allowed(w)
       THEN infoStatus' = [infoStatus EXCEPT ![a] = "ok"] /\ ToHandler(a, "fetch")
       ELSE ToHandler(a, l) /\ UNCHANGED infoStatus
  /\ UNCHANGED <<front, txStatus, info, authorized, paid, served, listVars, procVars>>

GetAllowedFi(a) == handler[a] = "fi" /\ CheckList(a, Institution, "user")
GetAllowedUser(a) == handler[a] = "user" /\ CheckList(a, User[a], "persist")

FetchInfo(a) ==
  /\ handler[a] = "fetch"
  /\ info' = info \cup {a}
  /\ ToHandler(a, "persist")
  /\ UNCHANGED <<front, txStatus, infoStatus, authorized, paid, served, listVars, procVars>>

\* Mutant of PersistAuthorized: whatever was decided is stored.
PersistsAnyway(a) ==
  /\ handler[a] = "persist"
  /\ authorized' = authorized \cup {a}
  /\ ToHandler(a, "reply")
  /\ UNCHANGED <<front, txStatus, infoStatus, info, paid, served, listVars, procVars>>

\* Two times ok is stored, with the response still to be written.
PersistAuthorized(a) ==
  /\ handler[a] = "persist"
  /\ authorized' = IF Approved(a) THEN authorized \cup {a} ELSE authorized
  /\ ToHandler(a, "reply")
  /\ UNCHANGED <<front, txStatus, infoStatus, info, paid, served, listVars, procVars>>

\* Mutant of PersistAuthorizedFails: the error is logged and the answer is ok.
PersistErrorDropped(a) ==
  /\ handler[a] = "persist" /\ Approved(a)
  /\ authorized' \in {authorized, authorized \cup {a}}
  /\ ToHandler(a, "reply")
  /\ UNCHANGED <<front, txStatus, infoStatus, info, paid, served, listVars, procVars>>

\* The INSERT fails, perhaps after its commit: the answer is 500.
PersistAuthorizedFails(a) ==
  /\ handler[a] = "persist" /\ Approved(a)
  /\ authorized' \in {authorized, authorized \cup {a}}
  /\ ToHandler(a, "failed")
  /\ UNCHANGED <<front, txStatus, infoStatus, info, paid, served, listVars, procVars>>

\* A check, a callback or a query fails: the answer is an error.
AuthFails(a) ==
  /\ handler[a] \in {"check", "sanctions", "ask", "fi", "user", "fetch"}
  /\ ToHandler(a, "failed")
  /\ UNCHANGED <<front, txStatus, infoStatus, info, authorized, paid, served,
                 listVars, procVars>>

(* The receiver: HandlerReceive, asked by the listener for a payment's memo.  *)

\* One of the rows with the memo; which one, the query does not say.
GetAuthorizedTransactionByMemo(m) == {b \in authorized : Memo[b] = m}

HandlerReceive(a) ==
  /\ "internal" \in serving
  /\ a \in paid /\ served[a] = "none"
  /\ LET found == GetAuthorizedTransactionByMemo(Memo[a])
     IN  \E b \in (IF found = {} THEN {"not_found"} ELSE found) :
           served' = [served EXCEPT ![a] = b]
  /\ UNCHANGED <<authVars, authorized, paid, listVars, procVars>>

(* The receiver's allow lists.                                                *)

\* AllowedFi is unique by domain, AllowedUser by public key and user.
Conflicts(g, w, k) == g.who = w /\ (w = Institution \/ g.key = k)

\* A row is inserted, whether its answer arrives or not. (An INSERT that is refused
\* changes nothing.)
HandlerAllowAccess ==
  /\ "internal" \in serving
  /\ nextId <= MaxRows
  /\ \E w \in Who, k \in Keys :
       /\ ~\E g \in grants : Conflicts(g, w, k)
       /\ grants' = grants \cup {[id |-> nextId, who |-> w, key |-> k]}
       /\ excluded' = excluded \ {w}
       /\ remover' = [q \in Removers |->
                        IF remover[q] # Idle /\ remover[q].who = w
                          THEN Removing(remover[q].id, w, FALSE) ELSE remover[q]]
       /\ barred' = IF w = Institution THEN {}
                    ELSE {a \in barred : User[a] # w}
  /\ nextId' = nextId + 1
  /\ UNCHANGED <<authVars, authorized, paid, served, procVars>>

\* /remove_access reads one row by domain (and user)...
FindGrant(q) ==
  /\ "internal" \in serving
  /\ remover[q] = Idle
  /\ \E g \in grants :
       remover' = [remover EXCEPT ![q] = Removing(g.id, g.who, TRUE)]
  /\ UNCHANGED <<authVars, authorized, paid, served, grants, nextId, excluded, barred,
                 procVars>>

\* Mutant of DeleteGrant: an institution's row is not deleted.
FiNotDeleted(q) ==
  /\ remover[q] # Idle
  /\ grants' = {g \in grants : g.id # remover[q].id \/ g.who = Institution}
  /\ excluded' = IF remover[q].sole THEN excluded \cup {remover[q].who} ELSE excluded
  /\ remover' = [remover EXCEPT ![q] = Idle]
  /\ UNCHANGED <<authVars, authorized, paid, served, nextId, barred, procVars>>

\* ... and deletes it by its id. If nobody was allowed in between, the one
\* removed counts as removed.
DeleteGrant(q) ==
  /\ remover[q] # Idle
  /\ grants' = {g \in grants : g.id # remover[q].id}
  /\ excluded' = IF remover[q].sole THEN excluded \cup {remover[q].who} ELSE excluded
  /\ remover' = [remover EXCEPT ![q] = Idle]
  /\ UNCHANGED <<authVars, authorized, paid, served, nextId, barred, procVars>>

\* The query or the DELETE fails.
RemoveFails(q) ==
  /\ remover[q] # Idle
  /\ grants' \in {grants, {g \in grants : g.id # remover[q].id}}
  /\ remover' = [remover EXCEPT ![q] = Idle]
  /\ UNCHANGED <<authVars, authorized, paid, served, nextId, excluded, barred, procVars>>

(* The receiver's compliance server starts, on its two ports in either order. *)
(* It dies, by itself or because a port cannot be had; the tables stay.       *)

Serve ==
  /\ \E p \in Ports \ serving : serving' = serving \cup {p}
  /\ UNCHANGED <<authVars, authorized, paid, served, listVars, form, crashes>>

ReceiverCrash ==
  /\ crashes < MaxCrashes
  /\ crashes' = crashes + 1
  /\ serving' = {}
  /\ handler' = [a \in Requests |-> IF handler[a] \in Over THEN handler[a] ELSE "failed"]
  /\ remover' = [q \in Removers |-> Idle]
  /\ UNCHANGED <<form, front, txStatus, infoStatus, info, authorized, paid, served,
                 grants, nextId, excluded, barred>>

SenderCrash ==
  /\ crashes < MaxCrashes
  /\ crashes' = crashes + 1
  /\ front' = [a \in Requests |->
                 IF front[a] \in Returned \cup {"idle"} THEN front[a]
                 ELSE IF front[a] = "submit" THEN "lost" ELSE "error"]
  /\ UNCHANGED <<form, serving, handler, txStatus, infoStatus, info, authorized, paid,
                 served, listVars>>

Sender(a) == Payment(a) \/ HandlerSend(a) \/ SendFails(a) \/ AuthAnswered(a)
             \/ SubmitPayment(a) \/ LateApply(a)

HandlerAuth(a) ==
  \/ CheckAuth(a) \/ AskSanctions(a) \/ UserInfo(a) \/ AskUserAnswers(a)
  \/ GetAllowedFi(a) \/ GetAllowedUser(a) \/ FetchInfo(a)
  \/ PersistAuthorized(a) \/ PersistAuthorizedFails(a) \/ AuthFails(a)

HandlerRemoveAccess(q) == FindGrant(q) \/ DeleteGrant(q) \/ RemoveFails(q)

Next ==
  \/ \E a \in Requests : Sender(a) \/ HandlerAuth(a) \/ HandlerReceive(a)
  \/ HandlerAllowAccess
  \/ \E q \in Removers : HandlerRemoveAccess(q)
  \/ Serve
  \/ ReceiverCrash
  \/ SenderCrash

Spec == Init /\ [][Next]_vars

\* What this implements: PaymentAgreement. The receiver's approval is the row it
\* stores, and the caller is told where the bridge's handler ends.
Agreed == INSTANCE PaymentAgreement WITH
  approved <- authorized,
  answer <- [a \in Requests |-> IF front[a] = "lost" THEN "error"
                                ELSE IF front[a] \in Returned THEN front[a] ELSE "open"],
  sent <- paid,
  found <- served

-----------------------------------------------------------------------------
(* Properties.                                                                *)

\* The statuses of a response are set before anybody reads them: an empty one would
\* pass for ok at the sender's bridge, which asks for pending and denied only.
TypeOK ==
  /\ DOMAIN form = Requests /\ \A a \in Requests : form[a] \in Forms[a]
  /\ serving \subseteq Ports
  /\ front \in [Requests -> Front]
  /\ handler \in [Requests -> Handler]
  /\ txStatus \in [Requests -> AuthStatus \cup {"none"}]
  /\ infoStatus \in [Requests -> AuthStatus \cup {"none"}]
  /\ \A a \in Requests : /\ handler[a] \in TxKnown => txStatus[a] # "none"
                         /\ handler[a] \in InfoKnown => infoStatus[a] # "none"
  /\ info \subseteq Requests /\ authorized \subseteq Requests /\ paid \subseteq Requests
  /\ served \in [Requests -> Requests \cup {"none", "not_found"}]
  /\ grants \subseteq Grant
  /\ nextId \in Nat
  /\ remover \in [Removers -> Remover]
  /\ excluded \subseteq Who
  /\ barred \subseteq Requests
  /\ crashes \in 0..MaxCrashes

\* Two servers of two institutions agree: what the sender's bridge submits, the
\* receiver has approved in both respects, in answer to that very request and
\* not to an earlier one with the same memo.
PaidWasApproved == \A a \in paid : Approved(a)

\* The receiver knows what it is paid: /receive finds an approved transaction
\* with the payment's memo for every payment that went through /auth, whatever
\* answers were lost and whichever server died.
PaidIsFound ==
  \A a \in Requests :
    served[a] # "none" =>
      /\ served[a] \in Requests
      /\ Memo[served[a]] = Memo[a]
      /\ Approved(served[a])

\* Two forms later the payment is still the one asked for: the transaction the
\* sender signs has the operation the bridge would have built from the caller's
\* form itself, path, send_max and assets included. (Of a path with more than five
\* elements /send takes the first five, where the bridge would refuse.)
PaidIsAsked ==
  \A a \in paid :
    ~(0..5 \subseteq DOMAIN form[a].code) =>
      DirectOperation(form[a]) # Refused /\ SendOperation(form[a]) = DirectOperation(form[a])

\* What a caller of /payment with extra_memo was told is so: 200 stands for a
\* payment on the ledger; after pending or denied the request is not paid for,
\* and the receiver, whatever it has still to do, holds no authorization for it.
CallersTold ==
  \A a \in Requests :
    /\ front[a] = "paid" => a \in paid
    /\ front[a] \in {"pending", "denied"} => a \notin paid \cup authorized

\* The two servers, with what they lose and where they die, keep the promise of
\* PaymentAgreement: they rule once, pay only what is approved and stored, tell
\* each caller one thing that is so, and find each payment's authorization.
ImplementsAgreement == Agreed!Spec

\* Whoever was never allowed gets no info, and a removal that was answered 200
\* works, of a user and of the institution alike: a request that arrives when both
\* are excluded gets no info from the allow lists, unless one is allowed anew.
RevokedGetsNoInfo == ~AskUser => barred \cap info = {}

=============================================================================
