-------------------------- MODULE PaymentFormProofs --------------------------
(* Proofs about PaymentForm, for every form.                                  *)
EXTENDS PaymentForm, TLAPS

\* A path of n elements has length n.
LEMMA PathLen ==
  ASSUME NEW f, NEW n \in Nat
  PROVE  Len(Path(f, n)) = n /\ DOMAIN Path(f, n) = 1..n
BY DEF Path

\* Both loops over the path end at the same element, where the first missing code
\* is among the first six.
LEMMA OneEnd ==
  ASSUME NEW f, NEW n \in 0..5, EndsAt(f, n, 6)
  PROVE  PathLength(f) = n /\ (CHOOSE m \in 0..5 : EndsAt(f, m, 6)) = n
<1>1. \A m \in 0..5 : EndsAt(f, m, 6) => m = n
  BY DEF EndsAt
<1>2. \A m \in 0..5 : EndsAt(f, m, 5) => m = n
  BY DEF EndsAt
<1>3. EndsAt(f, n, 5)
  BY DEF EndsAt
<1>4. PathLength(f) = n
  BY <1>2, <1>3 DEF PathLength
<1>5. QED
  BY <1>1, <1>4

\* A missing code among the first six ends the loop.
LEMMA SomeEnd ==
  ASSUME NEW f, ~(0..5 \subseteq DOMAIN f.code)
  PROVE  \E n \in 0..5 : EndsAt(f, n, 6)
<1> DEFINE Given(i) == i \in DOMAIN f.code
<1>1. CASE ~Given(0)
  BY <1>1 DEF EndsAt
<1>2. CASE Given(0) /\ ~Given(1)
  BY <1>2 DEF EndsAt
<1>3. CASE Given(0) /\ Given(1) /\ ~Given(2)
  BY <1>3 DEF EndsAt
<1>4. CASE Given(0) /\ Given(1) /\ Given(2) /\ ~Given(3)
  BY <1>4 DEF EndsAt
<1>5. CASE Given(0) /\ Given(1) /\ Given(2) /\ Given(3) /\ ~Given(4)
  BY <1>5 DEF EndsAt
<1>6. CASE Given(0) /\ Given(1) /\ Given(2) /\ Given(3) /\ Given(4) /\ ~Given(5)
  BY <1>6 DEF EndsAt
<1>7. Given(0) /\ Given(1) /\ Given(2) /\ Given(3) /\ Given(4) /\ Given(5)
      => 0..5 \subseteq DOMAIN f.code
  OBVIOUS
<1>8. QED
  BY <1>1, <1>2, <1>3, <1>4, <1>5, <1>6, <1>7

\* The form the bridge posts to /send is read there as the request it was made
\* of: the lumens in a path survive, and so do values left out because empty.
THEOREM RoundTrip ==
  ASSUME NEW f, NEW n \in 0..5, EndsAt(f, n, 6)
  PROVE  SendRequest(f) = FromRequest(f)
<1> DEFINE q == FromRequest(f)
           g == ToValues(q)
<1>1. PathLength(f) = n
  BY OneEnd
<1>2. q.path = Path(f, n) /\ Len(q.path) = n
  BY <1>1, PathLen DEF FromRequest
<1>3. /\ DOMAIN g.code = 0..(n - 1) /\ DOMAIN g.issuer = 0..(n - 1)
      /\ \A i \in 0..(n - 1) : g.code[i] = q.path[i + 1].code /\ g.issuer[i] = q.path[i + 1].issuer
  BY <1>2 DEF ToValues
<1>4. EndsAt(g, n, 6)
  BY <1>3 DEF EndsAt
<1>5. PathLength(g) = n
  BY <1>4, OneEnd
<1>6. \A i \in 1..n : Element(g, i - 1) = q.path[i]
  <2> SUFFICES ASSUME NEW i \in 1..n PROVE Element(g, i - 1) = q.path[i]
    OBVIOUS
  <2>1. q.path[i] = Element(f, i - 1)
    BY <1>2 DEF Path
  <2>2. i - 1 \in 0..(n - 1) /\ (i - 1) + 1 = i
    OBVIOUS
  <2>3. Value(g.code, i - 1) = q.path[i].code /\ Value(g.issuer, i - 1) = q.path[i].issuer
    BY <1>3, <2>2 DEF Value
  <2>4. QED
    BY <2>1, <2>3 DEF Element
<1>7. Path(g, n) = Path(f, n)
  <2>1. \A i \in 1..n : Element(g, i - 1) = Element(f, i - 1)
    BY <1>2, <1>6 DEF Path
  <2>2. QED
    BY <2>1 DEF Path
<1>8. [m \in Names |-> Value(g.value, m)] = q.value
  <2>1. q.value = [m \in Names |-> Value(f.value, m)]
    BY DEF FromRequest
  <2>2. \A m \in Names : Value(g.value, m) = q.value[m]
    BY DEF ToValues, Value
  <2>3. QED
    BY <2>1, <2>2
<1>9. FromRequest(g) = [value |-> q.value, path |-> Path(f, n)]
  BY <1>5, <1>7, <1>8 DEF FromRequest
<1>10. q = [value |-> q.value, path |-> Path(f, n)]
  BY <1>1 DEF FromRequest
<1>11. QED
  BY <1>9, <1>10 DEF SendRequest

\* Unless the path is longer than a transaction may have it, /send builds what the
\* bridge would have built from the caller's form.
THEOREM SameOperation ==
  ASSUME NEW f, ~(0..5 \subseteq DOMAIN f.code)
  PROVE  SendOperation(f) = DirectOperation(f)
<1>1. PICK n \in 0..5 : EndsAt(f, n, 6)
  BY SomeEnd
<1>2. /\ SendRequest(f) = FromRequest(f)
      /\ (CHOOSE m \in 0..5 : EndsAt(f, m, 6)) = n /\ PathLength(f) = n
  BY <1>1, RoundTrip, OneEnd
<1>3. FromRequest(f).path = Path(f, n)
  BY <1>2 DEF FromRequest
<1>4. DirectOperation(f) = Operation(FromRequest(f), Path(f, n))
  BY <1>1, <1>2 DEF DirectOperation
<1>5. QED
  BY <1>2, <1>3, <1>4 DEF SendOperation

=============================================================================
