--------------------------- MODULE NotificationLog ---------------------------
(* What the payment listener promises the application behind callbacks.receive *)
(* (readme_bridge.md, Callbacks): payments are made known in ledger order, each *)
(* at least once, and progress, once made durable, is never taken back.         *)
(* Nothing is said here of streams, cursors, retries or processes.              *)
EXTENDS Naturals

CONSTANT MaxOps  \* bound: operations the receiving account ever sees

VARIABLES
  length,  \* operations of the account on the ledger
  due,     \* those of them the application is to be told of
  known,   \* those the application has accepted
  start,   \* the operation the listener began after
  done     \* the operation it is durably done up to; 0 before the first

vars == <<length, due, known, start, done>>

\* Everything due between the start and operation k has been accepted.
KnownUpTo(k) == \A j \in due : start < j /\ j <= k => j \in known

Init ==
  /\ length = 0 /\ due = {} /\ known = {}
  /\ start = 0 /\ done = 0

Arrive ==
  /\ length < MaxOps
  /\ length' = length + 1
  /\ due' \in {due, due \cup {length + 1}}
  /\ UNCHANGED <<known, start, done>>

\* Until something is durable, the listener may begin again at the present end.
Begin ==
  /\ done = 0
  /\ start' = length
  /\ UNCHANGED <<length, due, known, done>>

\* The application accepts an operation when it has accepted all before it. It
\* may be asked to accept one again.
Notify(k) ==
  /\ k \in 1..length
  /\ KnownUpTo(k - 1)
  /\ known' = known \cup {k}
  /\ UNCHANGED <<length, due, start, done>>

\* What the listener is done with, the application knows.
Advance(k) ==
  /\ done < k /\ k <= length
  /\ KnownUpTo(k)
  /\ done' = k
  /\ UNCHANGED <<length, due, known, start>>

Next ==
  \/ Arrive
  \/ Begin
  \/ \E k \in 1..MaxOps : Notify(k) \/ Advance(k)

Spec == Init /\ [][Next]_vars

=============================================================================
