-------------------------- MODULE PaymentAgreement --------------------------
(* What two institutions that run the compliance protocol promise each other  *)
(* and the caller of /payment (readme_compliance.md): the receiver rules once *)
(* on each request, nothing is paid before it was approved for good, a caller *)
(* hears one answer and not a wrong one, and what was approved can be looked  *)
(* up by the memo of its payment. Nothing is said here of servers, messages,  *)
(* callbacks or allow lists.                                                  *)

CONSTANTS
  Requests,  \* payments asked for
  Memo       \* the memo each has; a retry has that of the first try

VARIABLES
  approved,  \* requests the receiver has approved
  answer,    \* what the caller of each was told; "open" until then
  sent,      \* requests whose payment is on the ledger
  found      \* the approved request a payment was taken for; "none" before

vars == <<approved, answer, sent, found>>

\* Answers of a receiver that does not approve: not now, or not at all.
Refusals == {"pending", "denied"}

Init ==
  /\ approved = {}
  /\ answer = [a \in Requests |-> "open"]
  /\ sent = {}
  /\ found = [a \in Requests |-> "none"]

\* The receiver approves, whether or not somebody still waits for it.
Approve(a) ==
  /\ a \notin approved /\ answer[a] \notin Refusals
  /\ approved' = approved \cup {a}
  /\ UNCHANGED <<answer, sent, found>>

\* It refuses, and the caller hears how.
Refuse(a) ==
  /\ a \notin approved /\ answer[a] = "open"
  /\ \E s \in Refusals : answer' = [answer EXCEPT ![a] = s]
  /\ UNCHANGED <<approved, sent, found>>

\* What is approved may be paid, and the caller learns it.
Pay(a) ==
  /\ a \in approved /\ answer[a] = "open"
  /\ answer' = [answer EXCEPT ![a] = "paid"]
  /\ sent' = sent \cup {a}
  /\ UNCHANGED <<approved, found>>

\* The payment may come after the caller heard of an error.
PayLate(a) ==
  /\ a \in approved /\ answer[a] = "error"
  /\ sent' = sent \cup {a}
  /\ UNCHANGED <<approved, answer, found>>

\* Some of those who wait hear of an error, which says nothing.
GiveUp ==
  /\ \E waiting \in SUBSET {a \in Requests : answer[a] = "open"} :
       answer' = [a \in Requests |-> IF a \in waiting THEN "error" ELSE answer[a]]
  /\ UNCHANGED <<approved, sent, found>>

\* The receiver looks a payment up by its memo.
Find(a) ==
  /\ a \in sent /\ found[a] = "none"
  /\ \E b \in approved : Memo[b] = Memo[a] /\ found' = [found EXCEPT ![a] = b]
  /\ UNCHANGED <<approved, answer, sent>>

Next ==
  \/ \E a \in Requests : Approve(a) \/ Refuse(a) \/ Pay(a) \/ PayLate(a) \/ Find(a)
  \/ GiveUp

Spec == Init /\ [][Next]_vars

-----------------------------------------------------------------------------
(* What the promise comes to.                                                 *)

\* The two sides and the caller agree on every request.
Consistent ==
  \A a \in Requests :
    /\ a \in sent => a \in approved /\ answer[a] \in {"paid", "error"}
    /\ answer[a] = "paid" => a \in sent
    /\ answer[a] \in Refusals => a \notin approved
    /\ found[a] # "none" =>
         a \in sent /\ found[a] \in approved /\ Memo[found[a]] = Memo[a]

\* Nothing is taken back: no approval, answer, payment or finding; and a caller
\* who was told how it ended is not paid for afterwards.
NothingTakenBack ==
  [][/\ approved \subseteq approved' /\ sent \subseteq sent'
     /\ \A a \in Requests :
          /\ answer[a] # "open" => answer'[a] = answer[a]
          /\ answer[a] \in {"paid", "pending", "denied"} => (a \in sent' <=> a \in sent)
          /\ found[a] # "none" => found'[a] = found[a]]_vars

=============================================================================
