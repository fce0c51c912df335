------------------------ MODULE PaymentListenerProofs ------------------------
(* Proofs about PaymentListener, for every number of operations and crashes,  *)
(* with or without a compliance server and whichever faults happen.           *)
EXTENDS PaymentListener, SequenceTheorems, TLAPS

Connected == pc \in Handling \cup {"scan"}

-----------------------------------------------------------------------------
(* The inductive invariant.                                                   *)

\* Row ids stay below the operation ids they are compared with: the table never
\* has more rows than the ledger has operations.
RowsBelowLedger ==
  /\ Len(rows) <= GetLastCursorValue
  /\ GetLastCursorValue <= Len(ledger)
  /\ \A i \in 1..Len(rows) : rows[i].op <= GetLastCursorValue

InLedger == accepted \cup late \subseteq 1..Len(ledger)

\* The stream is at or behind the newest row.
StreamBehindRows ==
  /\ pc = "connect" => cursor = GetLastCursorValue
  /\ Connected => GetLastCursorValue <= pos /\ pos <= Len(ledger)

\* What the position in the handler says of the operation in hand.
HandlerKnows ==
  /\ pc = "filter" => ~Eligible(pos)
  /\ pc \in {"memo", "compliance", "callback", "save"} => Eligible(pos)
  /\ pc = "compliance" => AsksCompliance(pos)
  /\ pc = "save" => pos \in accepted

\* Everything owed before the operation in hand has been accepted; between two
\* events, that operation too.
StreamBehindAccepted ==
  /\ Connected => \A k \in (origin + 1)..(pos - 1) : Owed(k) => k \in accepted
  /\ pc = "scan" => \A k \in (origin + 1)..pos : Owed(k) => k \in accepted

\* A request still under way was sent when everything before it was accepted.
LateBehindAccepted ==
  \A m \in late : \A k \in (origin + 1)..(m - 1) : Owed(k) => k \in accepted

\* What holds of the ledger, the table and the callback's server...
DataInv ==
  /\ RowsInLedgerOrder
  /\ RowsBelowLedger
  /\ InLedger
  /\ LateBehindAccepted
  /\ NoOvertaking
  /\ CursorBehindAccepted
  /\ SuccessIsAccepted

\* ... and of the goroutine between two of its steps.
StreamInv ==
  /\ StreamBehindRows
  /\ HandlerKnows
  /\ StreamBehindAccepted

IInv == TypeOK /\ DataInv /\ StreamInv

-----------------------------------------------------------------------------
(* The table.                                                                 *)

\* Without an INSERT the newest row stays what it was.
LEMMA CursorUnchanged ==
  ASSUME UNCHANGED rows
  PROVE  GetLastCursorValue' = GetLastCursorValue
BY DEF GetLastCursorValue, Nil

\* INSERT adds one row behind the others, and it becomes the cursor.
LEMMA InsertFacts ==
  ASSUME TypeOK, NEW k \in 1..MaxOps, NEW s \in Status, Insert(k, s)
  PROVE  /\ rows' \in Seq([op : 1..MaxOps, status : Status])
         /\ Len(rows') = Len(rows) + 1
         /\ rows'[Len(rows) + 1] = [op |-> k, status |-> s]
         /\ \A i \in 1..Len(rows) : rows'[i] = rows[i]
         /\ GetLastCursorValue' = k
         /\ k \notin Recorded
<1>1. /\ rows \in Seq([op : 1..MaxOps, status : Status])
      /\ [op |-> k, status |-> s] \in [op : 1..MaxOps, status : Status]
      /\ rows' = Append(rows, [op |-> k, status |-> s])
  BY DEF TypeOK, Insert
<1>2. rows' # <<>>
  BY <1>1
<1>3. QED
  BY <1>1, <1>2 DEF Insert, GetLastCursorValue

\* Rows are indexed by their ids, from 1 on, and hold operations.
LEMMA RowsType ==
  ASSUME TypeOK
  PROVE  /\ DOMAIN rows = 1..Len(rows) /\ Len(rows) \in Nat
         /\ \A i \in 1..Len(rows) : rows[i].op \in 1..MaxOps
<1>1. rows \in Seq([op : 1..MaxOps, status : Status])
  BY DEF TypeOK
<1>2. \A i \in 1..Len(rows) : rows[i] \in [op : 1..MaxOps, status : Status]
  BY <1>1, ElementOfSeq
<1>3. DOMAIN rows = 1..Len(rows) /\ Len(rows) \in Nat
  BY <1>1
<1>4. QED
  BY <1>2, <1>3

\* The cursor of a typed table is a position or nil.
LEMMA CursorType == TypeOK => GetLastCursorValue \in 0..MaxOps
<1> SUFFICES ASSUME TypeOK PROVE GetLastCursorValue \in 0..MaxOps
  OBVIOUS
<1>1. CASE rows = <<>>
  BY <1>1, BoundsAssumption DEF GetLastCursorValue, Nil
<1>2. CASE rows # <<>>
  <2>1. rows \in Seq([op : 1..MaxOps, status : Status])
    BY DEF TypeOK
  <2>2. Len(rows) \in 1..Len(rows)
    BY <1>2, <2>1
  <2>3. rows[Len(rows)] \in [op : 1..MaxOps, status : Status]
    BY <2>1, <2>2, ElementOfSeq
  <2>4. QED
    BY <1>2, <2>3, BoundsAssumption DEF GetLastCursorValue
<1>3. QED
  BY <1>1, <1>2

\* The handler has an operation in hand.
LEMMA InHand == TypeOK /\ pc \in Handling => pos \in 1..MaxOps
BY BoundsAssumption DEF TypeOK

-----------------------------------------------------------------------------
(* Type correctness.                                                          *)

\* So does the end of the process.
LEMMA DiesType ==
  ASSUME TypeOK, Dies, crashes' \in 0..MaxCrashes
  PROVE  TypeOK'
<1>1. late' \subseteq 1..MaxOps
  BY InHand DEF Dies, TypeOK, Handling
<1>2. QED
  BY <1>1, BoundsAssumption DEF Dies, TypeOK, PC, Handling, Nil

\* Every step keeps the types.
LEMMA TypeStep == TypeOK /\ [Next]_vars => TypeOK'
<1> USE BoundsAssumption, CrashAssumption, ArrivingAssumption
<1> SUFFICES ASSUME TypeOK, [Next]_vars PROVE TypeOK'
  OBVIOUS
<1>1. CASE OperationArrives
  <2>1. PICK c \in OpClass : ledger' = Append(ledger, c)
    BY <1>1 DEF OperationArrives
  <2>2. ledger' \in Seq(OpClass) /\ Len(ledger') = Len(ledger) + 1
    BY <2>1 DEF TypeOK
  <2>3. QED
    BY <1>1, <2>2 DEF OperationArrives, TypeOK
<1>2. CASE ReadCursor
  BY <1>2, CursorType DEF ReadCursor, TypeOK, PC, Handling, netVars
<1>3. CASE Connect
  BY <1>3 DEF Connect, TypeOK, PC, Handling, netVars
<1>4. CASE Deliver
  BY <1>4 DEF Deliver, TypeOK, PC, Handling, netVars
<1>5. CASE Filter
  <2>1. pos \in 1..MaxOps /\ FilterStatus(pos) \in Status
    BY <1>5, InHand DEF Filter, Handling, FilterStatus, Status
  <2>2. QED
    BY <1>5, <2>1, InsertFacts DEF Filter, TypeOK, PC, Handling, netVars
<1>6. CASE Save \/ SaveAckLost
  <2>1. pos \in 1..MaxOps /\ Insert(pos, "Success") /\ "Success" \in Status
    BY <1>6, InHand DEF Save, SaveAckLost, Handling, Status
  <2>2. rows' \in Seq([op : 1..MaxOps, status : Status])
    BY <2>1, InsertFacts
  <2>3. QED
    BY <1>6, <2>2 DEF Save, SaveAckLost, TypeOK, PC, Handling, netVars
<1>7. CASE Lookup
  BY <1>7 DEF Lookup, TypeOK, PC, Handling, netVars
<1>8. CASE CallbackAccepted \/ CallbackTimesOut \/ LateAccept
  <2>1. accepted' \subseteq 1..MaxOps /\ late' \subseteq 1..MaxOps
    BY <1>8, InHand DEF CallbackAccepted, CallbackTimesOut, LateAccept, TypeOK, Handling
  <2>2. QED
    BY <1>8, <2>1 DEF CallbackAccepted, CallbackTimesOut, LateAccept, TypeOK, PC, Handling
<1>9. CASE Crash
  BY <1>9, DiesType DEF Crash, TypeOK
<1>10. CASE Listen \/ ReadCursorFails \/ ConnectFails \/ StreamEnds \/ FilterNotSaved
  BY <1>10 DEF Listen, ReadCursorFails, ConnectFails, StreamEnds, FilterNotSaved,
     TypeOK, PC, Handling, netVars
<1>11. CASE LoadMemo \/ ComplianceReceive \/ ComplianceRejects \/ HandlerFails \/ HorizonHangs
  BY <1>11 DEF LoadMemo, ComplianceReceive, ComplianceRejects, HandlerFails, HorizonHangs,
     TypeOK, PC, Handling, netVars
<1>12. CASE UNCHANGED vars
  BY <1>12 DEF vars, TypeOK
<1>13. QED
  BY <1>1, <1>2, <1>3, <1>4, <1>5, <1>6, <1>7, <1>8, <1>9, <1>10, <1>11, <1>12
     DEF Next, Stream

\* Every variable of the listener keeps its type; rows only ever hold
\* operations of the ledger with one of the four statuses.
THEOREM TypeCorrect == Spec => []TypeOK
<1>1. Init => TypeOK
  BY BoundsAssumption, CrashAssumption DEF Init, TypeOK, Nil, PC, Handling
<1>2. QED
  BY <1>1, TypeStep, PTL DEF Spec

-----------------------------------------------------------------------------
(* Steps that touch neither the ledger, the table nor the callback's server.  *)

\* Steps that change no data keep what rows and acceptances say of the ledger.
LEMMA DataUnchanged ==
  ASSUME DataInv, UNCHANGED <<ledger, rows, accepted, late, origin>>
  PROVE  DataInv'
BY CursorUnchanged DEF DataInv, RowsInLedgerOrder, RowsBelowLedger, InLedger,
   LateBehindAccepted, NoOvertaking, CursorBehindAccepted, SuccessIsAccepted,
   Owed, Eligible, AsksCompliance

\* No operation id is a row id, so the lookup of a fresh event finds nothing.
LEMMA LookupFindsNothing ==
  ASSUME IInv, pc \in Handling
  PROVE  ~GetReceivedPaymentByID(OpId(pos))
<1>1. pos \in 1..MaxOps /\ rows \in Seq([op : 1..MaxOps, status : Status])
  BY InHand DEF IInv, TypeOK
<1>2. DOMAIN rows = 1..Len(rows) /\ Len(rows) \in Nat
  BY <1>1
<1>3. Len(rows) <= MaxOps
  BY <1>2, CursorType, BoundsAssumption DEF IInv, DataInv, RowsBelowLedger
<1>4. QED
  BY <1>1, <1>2, <1>3, BoundsAssumption DEF GetReceivedPaymentByID, OpId

\* The loop around the stream changes no data.
LEMMA LoopStep ==
  ASSUME IInv,
         Listen \/ ReadCursor \/ ReadCursorFails \/ ConnectFails \/ StreamEnds \/ HorizonHangs
  PROVE  StreamInv'
BY CursorUnchanged DEF Listen, ReadCursor, ReadCursorFails, ConnectFails, StreamEnds,
   HorizonHangs, netVars, IInv, StreamInv, StreamBehindRows, HandlerKnows, StreamBehindAccepted,
   Connected, Handling

\* The next event of the stream is the next operation of the ledger.
LEMMA DeliverStep ==
  ASSUME IInv, Deliver
  PROVE  StreamInv'
<1>1. /\ pc = "scan" /\ pc' = "lookup" /\ pos' = pos + 1 /\ pos < Len(ledger)
      /\ UNCHANGED <<ledger, rows, accepted, origin>>
  BY DEF Deliver, netVars
<1>2. pos \in Nat /\ Len(ledger) \in Nat /\ origin \in Nat /\ GetLastCursorValue \in Nat
  BY CursorType DEF IInv, TypeOK
<1>3. StreamBehindRows' /\ HandlerKnows'
  BY <1>1, <1>2, CursorUnchanged DEF IInv, StreamInv, StreamBehindRows, HandlerKnows,
     Connected, Handling
<1>4. StreamBehindAccepted'
  BY <1>1, <1>2 DEF IInv, StreamInv, StreamBehindAccepted, Connected, Handling,
     Owed, Eligible, AsksCompliance
<1>5. QED
  BY <1>3, <1>4 DEF StreamInv

\* The handler's own steps: it goes on to the next event only past operations
\* nobody is owed a callback for.
LEMMA HandlerStep ==
  ASSUME IInv,
         Lookup \/ FilterNotSaved \/ LoadMemo \/ ComplianceReceive
           \/ ComplianceRejects \/ HandlerFails
  PROVE  StreamInv'
<1>1. /\ pc \in Handling /\ pc' \in Handling \cup {"scan"}
      /\ UNCHANGED <<ledger, rows, accepted, late, origin, pos, cursor>>
  BY DEF Lookup, FilterNotSaved, LoadMemo, ComplianceReceive, ComplianceRejects,
     HandlerFails, netVars, Handling
<1>2. pos \in Nat /\ origin \in Nat
  BY DEF IInv, TypeOK
<1>3. StreamBehindRows'
  BY <1>1, CursorUnchanged DEF IInv, StreamInv, StreamBehindRows, Connected, Handling
<1>4. HandlerKnows'
  BY <1>1 DEF Lookup, FilterNotSaved, LoadMemo, ComplianceReceive, ComplianceRejects,
     HandlerFails, IInv, StreamInv, HandlerKnows, Eligible, AsksCompliance
<1>5. pc' = "scan" => ~Owed(pos)
  BY LookupFindsNothing, <1>1 DEF Lookup, FilterNotSaved, LoadMemo, ComplianceReceive,
     ComplianceRejects, HandlerFails, IInv, StreamInv, HandlerKnows, Owed
<1>6. StreamBehindAccepted'
  BY <1>1, <1>2, <1>5 DEF IInv, StreamInv, StreamBehindAccepted, Connected,
     Owed, Eligible, AsksCompliance
<1>7. QED
  BY <1>3, <1>4, <1>6 DEF StreamInv

-----------------------------------------------------------------------------
(* Steps that do.                                                             *)

\* A connection resumes at the newest row, whose payments have been accepted;
\* with an empty table it starts at the end of the ledger, owing nothing.
LEMMA ConnectStep ==
  ASSUME IInv, Connect
  PROVE  DataInv' /\ StreamInv'
<1> DEFINE last == GetLastCursorValue
<1>1. /\ pc = "connect" /\ pc' = "scan" /\ cursor = last
      /\ UNCHANGED <<ledger, rows, accepted, late>> /\ last' = last
  BY CursorUnchanged DEF Connect, netVars, IInv, StreamInv, StreamBehindRows
<1>2. /\ Len(ledger) \in Nat /\ origin \in Nat /\ last \in Nat /\ last <= Len(ledger)
      /\ Len(rows) \in Nat /\ Len(rows) <= last
  BY CursorType DEF IInv, TypeOK, DataInv, RowsBelowLedger
<1>3. CASE last # Nil
  <2>1. pos' = last /\ origin' = origin
    BY <1>1, <1>3 DEF Connect
  <2>2. DataInv'
    BY <1>1, <2>1, DataUnchanged DEF IInv
  <2>3. StreamInv'
    BY <1>1, <1>2, <2>1 DEF IInv, DataInv, CursorBehindAccepted, StreamInv,
       StreamBehindRows, HandlerKnows, StreamBehindAccepted, Connected, Handling,
       Owed, Eligible, AsksCompliance
  <2>4. QED
    BY <2>2, <2>3
<1>4. CASE last = Nil
  <2>1. pos' = Len(ledger) /\ origin' = Len(ledger)
    BY <1>1, <1>4 DEF Connect
  <2>2. /\ RowsInLedgerOrder' /\ RowsBelowLedger' /\ InLedger' /\ SuccessIsAccepted'
    BY <1>1 DEF IInv, DataInv, RowsInLedgerOrder, RowsBelowLedger, InLedger,
       SuccessIsAccepted, Eligible
  <2>3. LateBehindAccepted' /\ NoOvertaking' /\ CursorBehindAccepted'
    <3>1. \A m \in accepted \cup late : m \in Nat /\ m <= Len(ledger)
      BY <1>2 DEF IInv, DataInv, InLedger
    <3>2. QED
      BY <1>1, <1>2, <1>4, <2>1, <3>1
         DEF LateBehindAccepted, NoOvertaking, CursorBehindAccepted, Nil
  <2>4. StreamInv'
    BY <1>1, <1>2, <1>4, <2>1 DEF StreamInv, StreamBehindRows, HandlerKnows,
       StreamBehindAccepted, Connected, Handling
  <2>5. QED
    BY <2>2, <2>3, <2>4 DEF DataInv
<1>5. QED
  BY <1>3, <1>4

\* A new operation of the account leaves the others what they were.
LEMMA ArrivesStep ==
  ASSUME IInv, OperationArrives
  PROVE  DataInv' /\ StreamInv'
<1>1. PICK c \in OpClass : ledger' = Append(ledger, c)
  BY ArrivingAssumption DEF OperationArrives
<1>2. /\ Len(ledger) \in Nat /\ Len(ledger') = Len(ledger) + 1
      /\ \A k \in 1..Len(ledger) : ledger'[k] = ledger[k]
  BY <1>1 DEF IInv, TypeOK
<1>3. UNCHANGED <<rows, pc, pos, cursor, accepted, late, origin>>
  BY DEF OperationArrives
<1>4. /\ origin \in Nat /\ pos \in Nat /\ GetLastCursorValue \in Nat
      /\ GetLastCursorValue' = GetLastCursorValue /\ GetLastCursorValue <= Len(ledger)
      /\ \A i \in DOMAIN rows : rows[i].op \in 1..Len(ledger)
  <2>1. origin \in Nat /\ pos \in Nat
    BY DEF IInv, TypeOK
  <2>2. DOMAIN rows = 1..Len(rows) /\ \A i \in DOMAIN rows : rows[i].op \in 1..MaxOps
    BY RowsType DEF IInv
  <2>3. QED
    BY <1>2, <1>3, <2>1, <2>2, CursorType, CursorUnchanged DEF IInv, DataInv, RowsBelowLedger
<1>5. \A m \in accepted \cup late : m \in 1..Len(ledger)
  BY DEF IInv, DataInv, InLedger
<1>6. \A k \in 1..Len(ledger) : Owed(k)' = Owed(k) /\ Eligible(k)' = Eligible(k)
  BY <1>2 DEF Owed, Eligible, AsksCompliance
<1>7. DataInv'
  <2>1. RowsInLedgerOrder' /\ RowsBelowLedger' /\ InLedger'
    BY <1>2, <1>3, <1>4, <1>5 DEF IInv, DataInv, RowsInLedgerOrder, RowsBelowLedger, InLedger
  <2>2. NoOvertaking' /\ LateBehindAccepted'
    BY <1>2, <1>3, <1>4, <1>5, <1>6 DEF IInv, DataInv, NoOvertaking, LateBehindAccepted
  <2>3. CursorBehindAccepted'
    BY <1>2, <1>3, <1>4, <1>6 DEF IInv, DataInv, CursorBehindAccepted
  <2>4. SuccessIsAccepted'
    BY <1>3, <1>4, <1>6 DEF IInv, DataInv, SuccessIsAccepted
  <2>5. QED
    BY <2>1, <2>2, <2>3, <2>4 DEF DataInv
<1>8. StreamInv'
  <2>1. pc \in Handling => pos \in 1..Len(ledger)
    BY <1>4, InHand DEF IInv, StreamInv, StreamBehindRows, Connected
  <2>2. StreamBehindRows'
    BY <1>2, <1>3, <1>4 DEF IInv, StreamInv, StreamBehindRows, Connected
  <2>3. HandlerKnows'
    BY <1>2, <1>3, <2>1 DEF IInv, StreamInv, HandlerKnows, Handling, Eligible, AsksCompliance
  <2>4. StreamBehindAccepted'
    BY <1>2, <1>3, <1>4, <1>6
       DEF IInv, StreamInv, StreamBehindRows, StreamBehindAccepted, Connected
  <2>5. QED
    BY <2>2, <2>3, <2>4 DEF StreamInv
<1>9. QED
  BY <1>7, <1>8

\* A request reaches the callback's server, in time or late, only when all that
\* is owed before it has been accepted.
LEMMA CallbackStep ==
  ASSUME IInv, CallbackAccepted \/ CallbackTimesOut \/ LateAccept
  PROVE  DataInv' /\ StreamInv'
<1>1. /\ UNCHANGED <<ledger, rows, pos, cursor, origin>>
      /\ GetLastCursorValue' = GetLastCursorValue
      /\ accepted \subseteq accepted'
  BY CursorUnchanged DEF CallbackAccepted, CallbackTimesOut, LateAccept
<1>2. /\ pos \in Nat /\ origin \in Nat /\ Len(ledger) \in Nat /\ GetLastCursorValue \in Nat
      /\ accepted \cup late \subseteq 1..Len(ledger)
  BY CursorType DEF IInv, TypeOK, DataInv, InLedger
<1>3. pc = "callback" => /\ pos \in 1..Len(ledger)
                         /\ \A k \in (origin + 1)..(pos - 1) : Owed(k) => k \in accepted
  BY <1>2, InHand DEF IInv, StreamInv, StreamBehindRows, StreamBehindAccepted,
     Connected, Handling
<1>4. /\ \A m \in accepted' : m \in accepted \/ m \in late \/ (pc = "callback" /\ m = pos)
      /\ \A m \in late' : m \in late \/ (pc = "callback" /\ m = pos)
  BY DEF CallbackAccepted, CallbackTimesOut, LateAccept
<1>5. \A k : Owed(k)' = Owed(k) /\ Eligible(k)' = Eligible(k)
  BY <1>1 DEF Owed, Eligible, AsksCompliance
<1>6. InLedger' /\ RowsInLedgerOrder' /\ RowsBelowLedger'
  BY <1>1, <1>2, <1>3, <1>4
     DEF IInv, DataInv, InLedger, RowsInLedgerOrder, RowsBelowLedger
<1>7. LateBehindAccepted'
  BY <1>1, <1>2, <1>3, <1>4, <1>5 DEF IInv, DataInv, LateBehindAccepted
<1>8. NoOvertaking'
  BY <1>1, <1>2, <1>3, <1>4, <1>5 DEF IInv, DataInv, LateBehindAccepted, NoOvertaking
<1>9. CursorBehindAccepted' /\ SuccessIsAccepted'
  BY <1>1, <1>5 DEF IInv, DataInv, CursorBehindAccepted, SuccessIsAccepted
<1>10. StreamBehindRows'
  BY <1>1 DEF CallbackAccepted, CallbackTimesOut, LateAccept, IInv, StreamInv,
     StreamBehindRows, Connected, Handling
<1>11. HandlerKnows'
  BY <1>1 DEF CallbackAccepted, CallbackTimesOut, LateAccept, IInv, StreamInv,
     HandlerKnows, Handling, Eligible, AsksCompliance
<1>12. StreamBehindAccepted'
  BY <1>1, <1>5 DEF CallbackAccepted, CallbackTimesOut, LateAccept, IInv, StreamInv,
     StreamBehindAccepted, Connected, Handling
<1>13. QED
  BY <1>6, <1>7, <1>8, <1>9, <1>10, <1>11, <1>12 DEF DataInv, StreamInv

\* The handler records the operation in hand: behind the rows before it, and
\* only once it is not owed a callback any more.
LEMMA InsertStep ==
  ASSUME IInv, Filter \/ Save \/ SaveAckLost
  PROVE  DataInv' /\ StreamInv'
<1> DEFINE last == GetLastCursorValue
<1>1. /\ pc \in {"filter", "save"} /\ pc \in Handling /\ pc' \in {"scan", "lookup"}
      /\ UNCHANGED <<ledger, pos, cursor, accepted, late, origin>>
  BY DEF Filter, Save, SaveAckLost, netVars, Handling
<1>2. PICK s \in Status : Insert(pos, s) /\ (s = "Success" => pc = "save")
  BY DEF Filter, Save, SaveAckLost, FilterStatus, Status
<1>3. /\ pos \in 1..MaxOps /\ pos <= Len(ledger) /\ last <= pos /\ last \in Nat
      /\ origin \in Nat /\ Len(ledger) \in Nat
  BY <1>1, InHand, CursorType
     DEF IInv, TypeOK, StreamInv, StreamBehindRows, Connected
<1>4. /\ rows' \in Seq([op : 1..MaxOps, status : Status])
      /\ Len(rows') = Len(rows) + 1
      /\ rows'[Len(rows) + 1] = [op |-> pos, status |-> s]
      /\ \A i \in 1..Len(rows) : rows'[i] = rows[i]
      /\ last' = pos
      /\ pos \notin Recorded
  BY <1>2, <1>3, InsertFacts DEF IInv, TypeOK
<1>5. /\ DOMAIN rows = 1..Len(rows) /\ Len(rows) \in Nat
      /\ \A i \in 1..Len(rows) : rows[i].op \in 1..MaxOps
      /\ DOMAIN rows' = 1..(Len(rows) + 1)
  <2>1. DOMAIN rows' = 1..Len(rows')
    BY <1>4
  <2>2. QED
    BY <1>4, <2>1, RowsType DEF IInv
<1>6. \A k : Owed(k)' = Owed(k) /\ Eligible(k)' = Eligible(k)
  BY <1>1 DEF Owed, Eligible, AsksCompliance
<1>7. \A k \in (origin + 1)..pos : Owed(k) => k \in accepted
  <2>1. \A k \in (origin + 1)..(pos - 1) : Owed(k) => k \in accepted
    BY <1>1 DEF IInv, StreamInv, StreamBehindAccepted, Connected
  <2>2. Owed(pos) => pos \in accepted
    BY <1>1 DEF IInv, StreamInv, HandlerKnows, Owed
  <2>3. QED
    BY <1>3, <2>1, <2>2
<1>8. \A i \in 1..Len(rows) : rows[i].op < pos
  <2>1. \A i \in 1..Len(rows) : rows[i].op <= last
    BY DEF IInv, DataInv, RowsBelowLedger
  <2>2. \A i \in 1..Len(rows) : rows[i].op # pos
    BY <1>4, <1>5 DEF Recorded
  <2>3. QED
    BY <1>3, <1>5, <2>1, <2>2
<1>9. RowsInLedgerOrder'
  <2> SUFFICES ASSUME NEW i \in 1..(Len(rows) + 1), NEW j \in 1..(Len(rows) + 1), i < j
               PROVE  rows'[i].op < rows'[j].op
    BY <1>5 DEF RowsInLedgerOrder
  <2>1. i \in 1..Len(rows) /\ rows'[i] = rows[i]
    BY <1>4, <1>5
  <2>2. CASE j = Len(rows) + 1
    BY <1>4, <1>8, <2>1, <2>2
  <2>3. CASE j # Len(rows) + 1
    <3>1. j \in 1..Len(rows)
      BY <1>5, <2>3
    <3>2. rows'[j] = rows[j]
      BY <1>4, <3>1
    <3>3. QED
      BY <1>5, <2>1, <3>1, <3>2 DEF IInv, DataInv, RowsInLedgerOrder
  <2>4. QED
    BY <2>2, <2>3
<1>10. Len(rows) < pos
  <2>1. CASE rows = <<>>
    BY <1>3, <2>1
  <2>2. CASE rows # <<>>
    <3>1. rows \in Seq([op : 1..MaxOps, status : Status])
      BY DEF IInv, TypeOK
    <3>2. Len(rows) \in 1..Len(rows) /\ last = rows[Len(rows)].op
      BY <2>2, <3>1 DEF GetLastCursorValue
    <3>3. last < pos
      BY <1>8, <3>2
    <3>4. QED
      BY <1>3, <1>5, <3>3 DEF IInv, DataInv, RowsBelowLedger
  <2>3. QED
    BY <2>1, <2>2
<1>11. RowsBelowLedger'
  <2>1. \A i \in 1..(Len(rows) + 1) : rows'[i].op <= pos
    BY <1>3, <1>4, <1>5, <1>8
  <2>2. QED
    BY <1>1, <1>3, <1>4, <1>10, <2>1 DEF RowsBelowLedger
<1>12. InLedger' /\ LateBehindAccepted' /\ NoOvertaking'
  BY <1>1, <1>6 DEF IInv, DataInv, InLedger, LateBehindAccepted, NoOvertaking
<1>13. CursorBehindAccepted'
  BY <1>1, <1>4, <1>6, <1>7 DEF CursorBehindAccepted
<1>14. SuccessIsAccepted'
  <2>1. s = "Success" => pos \in accepted /\ Eligible(pos)
    BY <1>2 DEF IInv, StreamInv, HandlerKnows
  <2>2. QED
    BY <1>1, <1>4, <1>5, <1>6, <2>1 DEF IInv, DataInv, SuccessIsAccepted
<1>15. StreamInv'
  BY <1>1, <1>3, <1>4, <1>6, <1>7 DEF IInv, StreamInv, StreamBehindRows, HandlerKnows,
     StreamBehindAccepted, Connected, Handling
<1>16. QED
  BY <1>9, <1>11, <1>12, <1>13, <1>14, <1>15 DEF DataInv

\* The end of the process forgets the stream; a request it leaves behind was sent
\* in order.
LEMMA DiesStep ==
  ASSUME IInv, Dies
  PROVE  DataInv' /\ StreamInv'
<1>1. /\ pc' = "down" /\ UNCHANGED <<ledger, rows, accepted, origin>>
      /\ GetLastCursorValue' = GetLastCursorValue
  BY CursorUnchanged DEF Dies
<1>2. \A m \in late' : m \in late \/ (pc = "callback" /\ m = pos)
  BY DEF Dies
<1>3. pc = "callback" => /\ pos \in 1..Len(ledger)
                         /\ \A k \in (origin + 1)..(pos - 1) : Owed(k) => k \in accepted
  BY InHand DEF IInv, TypeOK, StreamInv, StreamBehindRows, StreamBehindAccepted,
     Connected, Handling
<1>4. \A k : Owed(k)' = Owed(k) /\ Eligible(k)' = Eligible(k)
  BY <1>1 DEF Owed, Eligible, AsksCompliance
<1>5. InLedger' /\ LateBehindAccepted'
  BY <1>1, <1>2, <1>3, <1>4 DEF IInv, DataInv, InLedger, LateBehindAccepted
<1>6. /\ RowsInLedgerOrder' /\ RowsBelowLedger' /\ NoOvertaking'
      /\ CursorBehindAccepted' /\ SuccessIsAccepted'
  BY <1>1, <1>4 DEF IInv, DataInv, RowsInLedgerOrder, RowsBelowLedger, NoOvertaking,
     CursorBehindAccepted, SuccessIsAccepted
<1>7. StreamInv'
  BY <1>1 DEF StreamInv, StreamBehindRows, HandlerKnows, StreamBehindAccepted,
     Connected, Handling
<1>8. QED
  BY <1>5, <1>6, <1>7 DEF DataInv

-----------------------------------------------------------------------------
(* The theorems.                                                              *)

\* The invariant holds before the process starts.
LEMMA IInvInit == Init => IInv
<1> SUFFICES ASSUME Init PROVE IInv
  OBVIOUS
<1>1. TypeOK
  BY BoundsAssumption, CrashAssumption DEF Init, TypeOK, Nil, PC, Handling
<1>2. rows = <<>> /\ ledger = <<>> /\ accepted = {} /\ late = {} /\ pc = "down"
  BY DEF Init
<1>3. GetLastCursorValue = 0 /\ Len(rows) = 0 /\ DOMAIN rows = {} /\ Len(ledger) = 0
  BY <1>2 DEF GetLastCursorValue, Nil
<1>4. DataInv
  BY <1>2, <1>3 DEF Init, DataInv, RowsInLedgerOrder, RowsBelowLedger, InLedger,
     LateBehindAccepted, NoOvertaking, CursorBehindAccepted, SuccessIsAccepted
<1>5. StreamInv
  BY <1>2 DEF StreamInv, StreamBehindRows, HandlerKnows, StreamBehindAccepted,
     Connected, Handling
<1>6. QED
  BY <1>1, <1>4, <1>5 DEF IInv

\* Every step keeps it.
LEMMA IInvStep == IInv /\ [Next]_vars => IInv'
<1> SUFFICES ASSUME IInv, [Next]_vars PROVE DataInv' /\ StreamInv'
  BY TypeStep DEF IInv
<1>1. CASE OperationArrives
  BY <1>1, ArrivesStep
<1>2. CASE Listen \/ ReadCursor \/ ReadCursorFails \/ ConnectFails \/ StreamEnds \/ HorizonHangs
  <2>1. UNCHANGED <<ledger, rows, accepted, late, origin>>
    BY <1>2 DEF Listen, ReadCursor, ReadCursorFails, ConnectFails, StreamEnds,
       HorizonHangs, netVars
  <2>2. QED
    BY <1>2, <2>1, LoopStep, DataUnchanged DEF IInv
<1>3. CASE Connect
  BY <1>3, ConnectStep
<1>4. CASE Deliver
  <2>1. UNCHANGED <<ledger, rows, accepted, late, origin>>
    BY <1>4 DEF Deliver, netVars
  <2>2. QED
    BY <1>4, <2>1, DeliverStep, DataUnchanged DEF IInv
<1>5. CASE Lookup \/ FilterNotSaved \/ LoadMemo \/ ComplianceReceive
             \/ ComplianceRejects \/ HandlerFails
  <2>1. UNCHANGED <<ledger, rows, accepted, late, origin>>
    BY <1>5 DEF Lookup, FilterNotSaved, LoadMemo, ComplianceReceive,
       ComplianceRejects, HandlerFails, netVars
  <2>2. QED
    BY <1>5, <2>1, HandlerStep, DataUnchanged DEF IInv
<1>6. CASE CallbackAccepted \/ CallbackTimesOut \/ LateAccept
  BY <1>6, CallbackStep
<1>7. CASE Filter \/ Save \/ SaveAckLost
  BY <1>7, InsertStep
<1>8. CASE Crash
  BY <1>8, DiesStep DEF Crash
<1>9. CASE UNCHANGED vars
  <2>1. DataInv'
    BY <1>9, DataUnchanged DEF IInv, vars
  <2>2. StreamInv'
    BY <1>9, CursorUnchanged DEF vars, IInv, StreamInv, StreamBehindRows, HandlerKnows,
       StreamBehindAccepted, Connected, Owed, Eligible, AsksCompliance
  <2>3. QED
    BY <2>1, <2>2
<1>10. QED
  BY <1>1, <1>2, <1>3, <1>4, <1>5, <1>6, <1>7, <1>8, <1>9 DEF Next, Stream

\* The inductive invariant holds throughout.
THEOREM Invariance == Spec => []IInv
BY IInvInit, IInvStep, PTL DEF Spec

\* The callback's server accepts payments in ledger order, across retries, late
\* requests, reconnections and restarts of the listener.
THEOREM InOrderDelivery == Spec => []NoOvertaking
<1>1. IInv => NoOvertaking
  BY DEF IInv, DataInv
<1>2. QED
  BY <1>1, Invariance, PTL

\* What a restarted listener resumes behind has been accepted: no payment that
\* needs no compliance server is lost to the cursor.
THEOREM CursorLosesNothing == Spec => []CursorBehindAccepted
<1>1. IInv => CursorBehindAccepted
  BY DEF IInv, DataInv
<1>2. QED
  BY <1>1, Invariance, PTL

\* A Success row is evidence of a callback answered 200.
THEOREM SuccessRowsAreAccepted == Spec => []SuccessIsAccepted
<1>1. IInv => SuccessIsAccepted
  BY DEF IInv, DataInv
<1>2. QED
  BY <1>1, Invariance, PTL

\* Rows are inserted in ledger order, so ORDER BY id finds the right cursor.
THEOREM RowsFollowLedger == Spec => []RowsInLedgerOrder
<1>1. IInv => RowsInLedgerOrder
  BY DEF IInv, DataInv
<1>2. QED
  BY <1>1, Invariance, PTL

\* With a row in the table the cursor is known, and no step goes behind it.
LEMMA ResumeStep ==
  ASSUME IInv, Next, rows # <<>>
  PROVE  origin' = origin /\ GetLastCursorValue' >= GetLastCursorValue
<1>1. GetLastCursorValue \in Nat /\ GetLastCursorValue # Nil
  <2>1. rows \in Seq([op : 1..MaxOps, status : Status]) /\ Len(rows) \in 1..Len(rows)
    BY DEF IInv, TypeOK
  <2>2. rows[Len(rows)] \in [op : 1..MaxOps, status : Status]
    BY <2>1, ElementOfSeq
  <2>3. QED
    BY <2>2 DEF GetLastCursorValue, Nil
<1>2. CASE Filter \/ Save \/ SaveAckLost
  <2>1. origin' = origin /\ pc \in Handling
    BY <1>2 DEF Filter, Save, SaveAckLost, netVars, Handling
  <2>2. PICK s \in Status : Insert(pos, s)
    BY <1>2 DEF Filter, Save, SaveAckLost, FilterStatus, Status
  <2>3. GetLastCursorValue' = pos
    BY <2>1, <2>2, InHand, InsertFacts DEF IInv
  <2>4. QED
    BY <1>1, <2>1, <2>3 DEF IInv, TypeOK, StreamInv, StreamBehindRows, Connected
<1>3. CASE Connect
  <2>1. cursor = GetLastCursorValue /\ UNCHANGED rows
    BY <1>3 DEF Connect, IInv, StreamInv, StreamBehindRows
  <2>2. QED
    BY <1>1, <1>3, <2>1, CursorUnchanged DEF Connect
<1>4. CASE ~(Filter \/ Save \/ SaveAckLost \/ Connect)
  <2>1. UNCHANGED <<rows, origin>>
    BY <1>4 DEF Next, Stream, OperationArrives, Listen, ReadCursor, ReadCursorFails,
       ConnectFails, Deliver, StreamEnds, Lookup, FilterNotSaved, LoadMemo,
       ComplianceReceive, ComplianceRejects, CallbackAccepted, CallbackTimesOut,
       LateAccept, HandlerFails, HorizonHangs, Crash, Dies, netVars
  <2>2. QED
    BY <1>1, <2>1, CursorUnchanged
<1>5. QED
  BY <1>2, <1>3, <1>4

\* A listener with a row never jumps to `now` again, and its cursor never goes
\* back.
THEOREM NeverSkipsAhead == Spec => ResumesWhereItStopped
<1>1. IInv /\ [Next]_vars =>
        [rows # <<>> => origin' = origin /\ GetLastCursorValue' >= GetLastCursorValue]_vars
  BY ResumeStep
<1>2. QED
  BY <1>1, Invariance, PTL DEF Spec, ResumesWhereItStopped

\* Without a compliance server the listener keeps the whole of what
\* readme_bridge.md says, of every payment: that payments are passed over has no
\* other cause than an answer of the compliance server.
THEOREM AllAcceptedWithoutCompliance ==
  ASSUME ~Compliance
  PROVE  Spec => []EveryPaymentAccepted
<1>1. CursorBehindAccepted => EveryPaymentAccepted
  BY ~Compliance DEF CursorBehindAccepted, EveryPaymentAccepted, Owed, AsksCompliance
<1>2. QED
  BY <1>1, CursorLosesNothing, PTL

-----------------------------------------------------------------------------
(* The listener implements NotificationLog. A step that changes neither the    *)
(* ledger, the table, the callback's server nor the origin is no step of it.   *)

Due == {k \in 1..Len(ledger) : Owed(k)}

\* A new operation is a new operation of the log, due or not.
LEMMA ArrivesImplements ==
  ASSUME IInv, OperationArrives
  PROVE  Log!Arrive
<1>1. PICK c \in OpClass : ledger' = Append(ledger, c)
  BY ArrivingAssumption DEF OperationArrives
<1>2. /\ Len(ledger) \in Nat /\ Len(ledger') = Len(ledger) + 1
      /\ \A k \in 1..Len(ledger) : ledger'[k] = ledger[k]
  BY <1>1 DEF IInv, TypeOK
<1>3. \A k \in 1..Len(ledger) : Owed(k)' <=> Owed(k)
  BY <1>2 DEF Owed, Eligible, AsksCompliance
<1>4. Due' \in {Due, Due \cup {Len(ledger) + 1}}
  <2>1. PICK n \in Nat : n = Len(ledger)
    BY <1>2
  <2>2. \A k : k \in Due' <=> k \in Due \/ (k = n + 1 /\ Owed(k)')
    BY <1>2, <1>3, <2>1 DEF Due
  <2>3. QED
    BY <2>1, <2>2
<1>5. UNCHANGED <<accepted, origin>> /\ GetLastCursorValue' = GetLastCursorValue
  BY CursorUnchanged DEF OperationArrives
<1>6. QED
  BY <1>2, <1>4, <1>5 DEF OperationArrives, Log!Arrive, Due

\* Connecting from `now` begins the log anew; from a cursor, nothing happens.
LEMMA ConnectImplements ==
  ASSUME IInv, Connect
  PROVE  Log!Begin \/ UNCHANGED Log!vars
<1>1. /\ UNCHANGED <<ledger, rows, accepted>> /\ cursor = GetLastCursorValue
      /\ GetLastCursorValue' = GetLastCursorValue
  BY CursorUnchanged DEF Connect, netVars, IInv, StreamInv, StreamBehindRows
<1>2. Due' = Due
  BY <1>1 DEF Due, Owed, Eligible, AsksCompliance
<1>3. CASE cursor = Nil
  BY <1>1, <1>2, <1>3 DEF Connect, Log!Begin, Due, Nil
<1>4. CASE cursor # Nil
  BY <1>1, <1>2, <1>4 DEF Connect, Log!vars, Due
<1>5. QED
  BY <1>3, <1>4

\* A request that is accepted, in time or late, notifies in order.
LEMMA AcceptImplements ==
  ASSUME IInv, CallbackAccepted \/ LateAccept
  PROVE  \E k \in 1..MaxOps : Log!Notify(k)
<1>1. /\ UNCHANGED <<ledger, rows, origin>> /\ Len(ledger) \in Nat /\ origin \in Nat
      /\ GetLastCursorValue' = GetLastCursorValue
  BY CursorUnchanged DEF CallbackAccepted, LateAccept, IInv, TypeOK
<1>2. Due' = Due
  BY <1>1 DEF Due, Owed, Eligible, AsksCompliance
<1>3. PICK k : /\ k \in late \/ (pc = "callback" /\ k = pos)
               /\ accepted' = accepted \cup {k}
  BY DEF CallbackAccepted, LateAccept
<1>4. k \in 1..MaxOps /\ k \in 1..Len(ledger)
  <2>1. CASE k \in late
    BY <2>1 DEF IInv, TypeOK, DataInv, InLedger
  <2>2. CASE pc = "callback" /\ k = pos
    <3>1. pos \in 1..MaxOps /\ pos <= Len(ledger)
      BY <2>2, InHand DEF IInv, StreamInv, StreamBehindRows, Connected, Handling
    <3>2. QED
      BY <1>1, <2>2, <3>1
  <2>3. QED
    BY <1>3, <2>1, <2>2
<1>5. \A j \in (origin + 1)..(k - 1) : Owed(j) => j \in accepted
  BY <1>3 DEF IInv, DataInv, LateBehindAccepted, StreamInv, StreamBehindAccepted,
     Connected, Handling
<1>6. \A j \in Due : origin < j /\ j <= k - 1 => j \in accepted
  BY <1>1, <1>4, <1>5 DEF Due
<1>7. Log!Notify(k)
  BY <1>1, <1>2, <1>3, <1>4, <1>6 DEF Log!Notify, Log!KnownUpTo, Due
<1>8. QED
  BY <1>4, <1>7

\* A row makes progress durable, up to the operation in hand.
LEMMA InsertImplements ==
  ASSUME IInv, DataInv', Filter \/ Save \/ SaveAckLost
  PROVE  \E k \in 1..MaxOps : Log!Advance(k)
<1>1. pc \in Handling /\ UNCHANGED <<ledger, accepted, origin>>
  BY DEF Filter, Save, SaveAckLost, netVars, Handling
<1>2. PICK s \in Status : Insert(pos, s)
  BY DEF Filter, Save, SaveAckLost, FilterStatus, Status
<1>3. /\ pos \in 1..MaxOps /\ pos <= Len(ledger) /\ Len(ledger) \in Nat /\ origin \in Nat
      /\ GetLastCursorValue <= pos /\ GetLastCursorValue \in Nat
  BY <1>1, InHand, CursorType DEF IInv, TypeOK, StreamInv, StreamBehindRows, Connected
<1>4. GetLastCursorValue' = pos /\ pos \notin Recorded
  BY <1>2, <1>3, InsertFacts DEF IInv
<1>5. GetLastCursorValue < pos
  <2>1. CASE rows = <<>>
    BY <1>3, <2>1 DEF GetLastCursorValue, Nil
  <2>2. CASE rows # <<>>
    <3>1. rows \in Seq([op : 1..MaxOps, status : Status])
      BY DEF IInv, TypeOK
    <3>2. Len(rows) \in DOMAIN rows
      BY <2>2, <3>1
    <3>3. GetLastCursorValue \in Recorded
      BY <2>2, <3>2 DEF GetLastCursorValue, Recorded
    <3>4. QED
      BY <1>3, <1>4, <3>3
  <2>3. QED
    BY <2>1, <2>2
<1>6. Due' = Due /\ \A k : Owed(k)' <=> Owed(k)
  BY <1>1 DEF Due, Owed, Eligible, AsksCompliance
<1>7. \A j \in (origin + 1)..pos : Owed(j) => j \in accepted
  BY <1>1, <1>4, <1>6 DEF DataInv, CursorBehindAccepted
<1>8. \A j \in Due : origin < j /\ j <= pos => j \in accepted
  BY <1>3, <1>7 DEF Due
<1>9. Log!Advance(pos)
  BY <1>1, <1>3, <1>4, <1>5, <1>6, <1>8 DEF Log!Advance, Log!KnownUpTo, Due
<1>10. QED
  BY <1>3, <1>9

\* The listener begins as the log does.
LEMMA InitImplements == Init => Log!Init
<1> SUFFICES ASSUME Init PROVE Log!Init
  OBVIOUS
<1>1. rows = <<>> /\ Len(ledger) = 0 /\ accepted = {} /\ origin = 0
  BY DEF Init
<1>2. Due = {} /\ GetLastCursorValue = 0
  BY <1>1 DEF Due, GetLastCursorValue, Nil
<1>3. QED
  BY <1>1, <1>2 DEF Log!Init, Due

\* A step that leaves these four alone is none of the log's.
LEMMA NoStepOfLog ==
  ASSUME UNCHANGED <<ledger, rows, accepted, origin>>
  PROVE  UNCHANGED Log!vars
<1>1. Due' = Due /\ GetLastCursorValue' = GetLastCursorValue
  BY CursorUnchanged DEF Due, Owed, Eligible, AsksCompliance
<1>2. QED
  BY <1>1 DEF Log!vars, Due

\* Every step of the listener is one of the log's, or none.
LEMMA StepImplements ==
  ASSUME IInv, IInv', [Next]_vars
  PROVE  [Log!Next]_(Log!vars)
<1>1. CASE OperationArrives
  BY <1>1, ArrivesImplements DEF Log!Next
<1>2. CASE Connect
  BY <1>2, ConnectImplements DEF Log!Next
<1>3. CASE CallbackAccepted \/ LateAccept
  BY <1>3, AcceptImplements DEF Log!Next
<1>4. CASE Filter \/ Save \/ SaveAckLost
  BY <1>4, InsertImplements DEF IInv, Log!Next
<1>5. CASE ~(OperationArrives \/ Connect \/ CallbackAccepted \/ LateAccept
             \/ Filter \/ Save \/ SaveAckLost)
  <2>1. UNCHANGED <<ledger, rows, accepted, origin>>
    BY <1>5 DEF Next, Stream, Listen, ReadCursor, ReadCursorFails, ConnectFails, Deliver,
       StreamEnds, Lookup, FilterNotSaved, LoadMemo, ComplianceReceive,
       ComplianceRejects, CallbackTimesOut, HandlerFails, HorizonHangs, Crash, Dies, netVars,
       vars
  <2>2. QED
    BY <2>1, NoStepOfLog
<1>6. QED
  BY <1>1, <1>2, <1>3, <1>4, <1>5

\* The listener keeps the promise of NotificationLog, for every ledger, every
\* fault and any number of crashes: notification in ledger order, at least once
\* for what it is durably done with, and no progress taken back.
THEOREM ListenerImplementsLog == Spec => ImplementsLog
BY InitImplements, StepImplements, Invariance, PTL DEF Spec, Log!Spec, ImplementsLog
=============================================================================
