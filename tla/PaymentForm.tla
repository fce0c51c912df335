----------------------------- MODULE PaymentForm -----------------------------
(* A payment as a form. The caller posts one to the bridge's /payment, which  *)
(* makes a PaymentRequest of it; the bridge makes a SendRequest, posts that   *)
(* as a form to its compliance server's /send, and the operation is built     *)
(* there. Without the compliance server the bridge builds it itself, from the *)
(* caller's form. A form has the values given by name, and the codes and      *)
(* issuers given by their index in the path; a request has a string for every *)
(* name, "" for none, and the path as a sequence of assets. The source, a     *)
(* seed for the bridge and its account for /send, is left out.                *)
EXTENDS Naturals, Sequences

Names == {"sender", "destination", "amount", "asset_code", "asset_issuer", "send_max",
          "send_asset_code", "send_asset_issuer", "extra_memo"}

\* PostFormValue: what is not there is empty.
Value(given, n) == IF n \in DOMAIN given THEN given[n] ELSE ""

-----------------------------------------------------------------------------
(* FromRequest and ToValues.                                                  *)

\* Does the loop over the path end with n elements, of at most limit? It goes by
\* the codes, an empty one included.
EndsAt(f, n, limit) ==
  /\ \A i \in 0..(n - 1) : i \in DOMAIN f.code
  /\ n = limit \/ n \notin DOMAIN f.code

Element(f, i) == [code |-> Value(f.code, i), issuer |-> Value(f.issuer, i)]
Path(f, n) == [i \in 1..n |-> Element(f, i - 1)]

\* Mutant of PathLength: one iteration too few.
PathLengthFour(f) == CHOOSE n \in 0..4 : EndsAt(f, n, 4)

PathLength(f) == CHOOSE n \in 0..5 : EndsAt(f, n, 5)

FromRequest(f) ==
  [value |-> [n \in Names |-> Value(f.value, n)], path |-> Path(f, PathLength(f))]

\* Empty values are not sent, but empty path elements are.
ToValues(q) ==
  [value |-> [n \in {m \in Names : q.value[m] # ""} |-> q.value[n]],
   code |-> [i \in 0..(Len(q.path) - 1) |-> q.path[i + 1].code],
   issuer |-> [i \in 0..(Len(q.path) - 1) |-> q.path[i + 1].issuer]]

(* Validation. An account id that does not parse fails where it is looked at, *)
(* like one that is missing. memo and memo_type are left out: a payment that   *)
(* goes to /send does not use them.                                           *)

CheckRequired(q, required) == \A n \in required : q.value[n] # ""

\* Both are given, or neither.
Paired(q, n, m) == (q.value[n] = "") <=> (q.value[m] = "")

ValidatePayment(q) ==
  /\ CheckRequired(q, {"destination", "amount"})
  /\ Paired(q, "asset_code", "asset_issuer")
  /\ Paired(q, "send_asset_code", "send_asset_issuer")

ValidateSend(q) ==
  CheckRequired(q, {"sender", "destination", "amount", "asset_code", "asset_issuer",
                    "extra_memo"})

-----------------------------------------------------------------------------
(* The operation.                                                             *)

Refused == [refused |-> TRUE]

\* An element is an asset when it has both parts, and lumens when it has none.
Whole(x) == (x.code = "") <=> (x.issuer = "")

\* A path_payment when send_max is given, a payment otherwise, whatever else is.
Operation(q, path) ==
  LET basic == {"destination", "amount", "asset_code", "asset_issuer"}
      sent == {"send_max", "send_asset_code", "send_asset_issuer"}
  IN  IF q.value["send_max"] = ""
        THEN [args |-> [n \in basic |-> q.value[n]], path |-> <<>>]
      ELSE IF Paired(q, "send_asset_code", "send_asset_issuer")
              /\ \A i \in DOMAIN path : Whole(path[i])
        THEN [args |-> [n \in basic \cup sent |-> q.value[n]], path |-> path]
      ELSE Refused

\* What the compliance server builds from what the bridge posts it; the fields of
\* the SendRequest are those of the PaymentRequest.
SendRequest(f) == FromRequest(ToValues(FromRequest(f)))
SendOperation(f) == Operation(SendRequest(f), SendRequest(f).path)

\* What the bridge builds without it. The loop over the path has no limit of its
\* own; a transaction with more than five elements cannot be encoded.
DirectOperation(f) ==
  IF \E n \in 0..5 : EndsAt(f, n, 6)
    THEN Operation(FromRequest(f), Path(f, CHOOSE n \in 0..5 : EndsAt(f, n, 6)))
    ELSE Refused

\* /payment and /send let the form pass, and the operation can be built.
Sendable(f) ==
  /\ ValidatePayment(FromRequest(f))
  /\ ValidateSend(SendRequest(f))
  /\ SendOperation(f) # Refused

=============================================================================
