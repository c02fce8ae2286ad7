---------------------------- MODULE InsertIdProofs ----------------------------
(***************************************************************************)
(* Proofs about the insert ids of the rows that module Extraction puts     *)
(* into the destination, for every chain and any number of attempts.  Each *)
(* row is of one of eight kinds, with ids of different forms; within a     *)
(* kind the id tells what the row says.                                    *)
(***************************************************************************)
EXTENDS ExtractionProofs

(***************************************************************************)
(* Rows                                                                    *)
(***************************************************************************)

IsRow(row) == row = [values |-> row.values, id |-> row.id]

LEMMA RowOperations ==
  ASSUME NEW row, IsRow(row), NEW id
  PROVE  /\ IsRow(WithId(row, id))
         /\ WithId(row, id).values = row.values
         /\ WithId(row, id).id = id
BY DEF IsRow, WithId

LEMMA NewRows ==
  ASSUME NEW values
  PROVE  /\ IsRow(NewRow(values))
         /\ NewRow(values).values = values
         /\ NewRow(values).id = NoId
BY DEF IsRow, NewRow

\* What a row says depends on its columns only.
LEMMA FactOfValues ==
  ASSUME NEW one, NEW other, one.values = other.values
  PROVE  Fact(one) = Fact(other)
BY DEF Fact

LEMMA FactOfSaved ==
  ASSUME NEW row
  PROVE  Fact(Save(row)) = Fact(row) /\ Save(row).id = GetID(row)
BY DEF Save, Fact

LEMMA FactOfWithId ==
  ASSUME NEW row, IsRow(row), NEW id
  PROVE  Fact(WithId(row, id)) = Fact(row)
BY RowOperations, FactOfValues

LEMMA FactIs ==
  ASSUME NEW row
  PROVE  /\ DOMAIN Fact(row) = DOMAIN row.values \ {"indexerTimestamp"}
         /\ \A column \in DOMAIN Fact(row) :
              Fact(row)[column] = row.values[column]
BY DEF Fact, Restrict

LEMMA ExtendIs ==
  ASSUME NEW row, NEW columns
  PROVE  /\ IsRow(Extend(row, columns)) /\ Extend(row, columns).id = NoId
         /\ DOMAIN Extend(row, columns).values
              = DOMAIN columns \cup DOMAIN row.values
         /\ \A column \in DOMAIN columns :
              Extend(row, columns).values[column] = columns[column]
         /\ \A column \in DOMAIN row.values \ DOMAIN columns :
              Extend(row, columns).values[column] = row.values[column]
<1> DEFINE values == [column \in DOMAIN columns \cup DOMAIN row.values |->
                        IF column \in DOMAIN columns THEN columns[column]
                                                     ELSE row.values[column]]
<1>1. Extend(row, columns) = NewRow(values)
  BY DEF Extend
<1>2. IsRow(NewRow(values)) /\ NewRow(values).id = NoId
      /\ NewRow(values).values = values
  BY NewRows
<1>3. QED
  BY <1>1, <1>2

LEMMA FactOfExtended ==
  ASSUME NEW row, NEW columns
  PROVE  Fact(Extend(row, columns))
           = [column \in (DOMAIN columns \ {"indexerTimestamp"})
                            \cup DOMAIN Fact(row) |->
                IF column \in DOMAIN columns THEN columns[column]
                                             ELSE Fact(row)[column]]
<1> DEFINE fact == Fact(Extend(row, columns))
           more == Extend(row, columns)
           S == (DOMAIN columns \ {"indexerTimestamp"}) \cup DOMAIN Fact(row)
<1>1. /\ DOMAIN more.values = DOMAIN columns \cup DOMAIN row.values
      /\ \A column \in DOMAIN columns :
           more.values[column] = columns[column]
      /\ \A column \in DOMAIN row.values \ DOMAIN columns :
           more.values[column] = row.values[column]
  BY ExtendIs
<1> HIDE DEF more
<1>2. fact = [column \in DOMAIN more.values \ {"indexerTimestamp"} |->
                more.values[column]]
  BY DEF more, Fact, Restrict
<1>3. DOMAIN Fact(row) = DOMAIN row.values \ {"indexerTimestamp"}
  BY FactIs
<1>4. DOMAIN more.values \ {"indexerTimestamp"} = S
  BY <1>1, <1>3
<1>5. ASSUME NEW column \in S
      PROVE  more.values[column] = IF column \in DOMAIN columns
                                   THEN columns[column]
                                   ELSE Fact(row)[column]
  <2>1. CASE column \in DOMAIN columns
    BY <1>1, <2>1
  <2>2. CASE column \notin DOMAIN columns
    <3>1. column \in DOMAIN Fact(row)
      BY <2>2
    <3>2. Fact(row)[column] = row.values[column]
      BY <3>1, FactIs
    <3>3. column \in DOMAIN row.values \ DOMAIN columns
      BY <1>3, <2>2, <3>1
    <3>4. QED
      BY <1>1, <2>2, <3>2, <3>3
  <2>3. QED
    BY <2>1, <2>2
<1> HIDE DEF S, fact
<1>6. fact = [column \in S |-> IF column \in DOMAIN columns
                               THEN columns[column]
                               ELSE Fact(row)[column]]
  BY <1>2, <1>4, <1>5
<1>7. QED
  BY <1>6 DEF S, fact

\* Rows that say the same still do with the same columns added.
LEMMA FactOfExtend ==
  ASSUME NEW one, NEW other, Fact(one) = Fact(other), NEW columns
  PROVE  Fact(Extend(one, columns)) = Fact(Extend(other, columns))
<1> DEFINE with(fact) == [column \in (DOMAIN columns \ {"indexerTimestamp"})
                                       \cup DOMAIN fact |->
                            IF column \in DOMAIN columns THEN columns[column]
                                                         ELSE fact[column]]
<1>1. \A row : Fact(Extend(row, columns)) = with(Fact(row))
  BY FactOfExtended
<1> HIDE DEF with
<1>2. QED
  BY <1>1

LEMMA FactOfViewCall ==
  ASSUME NEW one, NEW other, Fact(one) = Fact(other), NEW method, NEW columns
  PROVE  Fact(ViewCall(one, method, columns))
           = Fact(ViewCall(other, method, columns))
BY FactOfExtend, FactOfWithId, ExtendIs DEF ViewCall

LEMMA FactOfContract ==
  ASSUME NEW one, NEW other, Fact(one) = Fact(other), NEW contract, NEW columns
  PROVE  Fact(Contract(one, contract, columns))
           = Fact(Contract(other, contract, columns))
BY FactOfExtend, FactOfWithId, ExtendIs DEF Contract

LEMMA ViewCallIsRow ==
  ASSUME NEW row, NEW method, NEW columns
  PROVE  IsRow(ViewCall(row, method, columns))
BY RowOperations, ExtendIs DEF ViewCall

LEMMA ContractIsRow ==
  ASSUME NEW row, NEW contract, NEW columns
  PROVE  IsRow(Contract(row, contract, columns))
BY RowOperations, ExtendIs DEF Contract

LEMMA FactOfAppendID ==
  ASSUME NEW row, IsRow(row), NEW part
  PROVE  Fact(AppendID(row, part)) = Fact(row)
BY FactOfWithId DEF AppendID

-----------------------------------------------------------------------------
(***************************************************************************)
(* Ids                                                                     *)
(***************************************************************************)

Md5(values) == [md5 |-> values]

LEMMA Parts ==
  ASSUME NEW x, NEW y
  PROVE  /\ Text(x) = Text(y) => x = y
         /\ Number(x) = Number(y) => x = y
         /\ Md5(x) = Md5(y) => x = y
         /\ Text(x) # Number(y) /\ Text(x) # Md5(y) /\ Number(x) # Md5(y)
BY DEF Text, Number, Md5

\* Ids that are put together part by part.
LEMMA Appended ==
  ASSUME NEW a, NEW b, NEW c, NEW id, id = Append(Append(<<a>>, b), c)
  PROVE  Len(id) = 3 /\ id[1] = a /\ id[2] = b /\ id[3] = c
OBVIOUS

\* The id of a row of which one is given, and of one that is not.
LEMMA IdGiven == ASSUME NEW row, NEW id, IsRow(row), id # NoId
                 PROVE  GetID(WithId(row, id)) = id
BY RowOperations DEF GetID

LEMMA IdHashed == ASSUME NEW row, NEW columns
                  PROVE  GetID(Extend(row, columns))
                           = <<Md5(Extend(row, columns).values)>>
BY ExtendIs DEF GetID, Md5
-----------------------------------------------------------------------------
(***************************************************************************)
(* The rows of scripts                                                     *)
(***************************************************************************)

AllRows(script) == RowsAt(script, DOMAIN script)

RowsIn(threads) == UNION {AllRows(t.script) : t \in threads}

IsScript(script) == \E S : script \in Seq(S)

LEMMA RowOfScript ==
  ASSUME NEW script, NEW row
  PROVE  row \in AllRows(script) <=>
           \E i \in DOMAIN script : row \in script[i].rows
BY DEF AllRows, RowsAt

LEMMA OneCallRows ==
  ASSUME NEW call
  PROVE  IsScript(<<call>>) /\ AllRows(<<call>>) = call.rows
<1>1. <<call>> \in Seq({call})
  OBVIOUS
<1>2. DOMAIN <<call>> = {1} /\ <<call>>[1] = call
  OBVIOUS
<1>3. QED
  BY <1>1, <1>2, RowOfScript DEF IsScript

LEMMA Widen ==
  ASSUME NEW S, NEW T, NEW seq \in Seq(S)
  PROVE  seq \in Seq(S \cup T)
OBVIOUS

LEMMA Concatenation ==
  ASSUME NEW S, NEW s \in Seq(S), NEW t \in Seq(S), NEW u, u = s \o t
  PROVE  /\ u \in Seq(S) /\ Len(u) = Len(s) + Len(t)
         /\ \A i \in 1 .. Len(s) : u[i] = s[i]
         /\ \A i \in 1 .. Len(t) : u[Len(s) + i] = t[i]
OBVIOUS

\* The rows of two scripts, one after the other.
LEMMA RowsInSequence ==
  ASSUME NEW one, NEW other, IsScript(one), IsScript(other)
  PROVE  /\ IsScript(one \o other)
         /\ AllRows(one \o other) = AllRows(one) \cup AllRows(other)
<1>1. PICK S : one \in Seq(S)
  BY DEF IsScript
<1>2. PICK T : other \in Seq(T)
  BY DEF IsScript
<1> DEFINE U == S \cup T
           both == one \o other
<1>3. one \in Seq(U) /\ other \in Seq(T \cup S)
  BY <1>1, <1>2, Widen
<1>4. T \cup S = U
  OBVIOUS
<1>5. one \in Seq(U) /\ other \in Seq(U) /\ both = one \o other
  BY <1>3, <1>4
<1> HIDE DEF U, both
<1>6. /\ both \in Seq(U) /\ Len(both) = Len(one) + Len(other)
      /\ \A i \in 1 .. Len(one) : both[i] = one[i]
      /\ \A i \in 1 .. Len(other) : both[Len(one) + i] = other[i]
  BY <1>5, Concatenation
<1>7. /\ DOMAIN one = 1 .. Len(one) /\ Len(one) \in Nat
      /\ DOMAIN other = 1 .. Len(other) /\ Len(other) \in Nat
      /\ DOMAIN both = 1 .. Len(both)
  BY <1>5, <1>6
<1> HIDE <1>5
<1>8. \A row : row \in AllRows(both) <=>
        row \in AllRows(one) \/ row \in AllRows(other)
  <2> TAKE row
  <2>1. ASSUME NEW i \in DOMAIN both, row \in both[i].rows
        PROVE  row \in AllRows(one) \/ row \in AllRows(other)
    <3>1. CASE i <= Len(one)
      BY <1>6, <1>7, <2>1, <3>1, RowOfScript
    <3>2. CASE ~(i <= Len(one))
      <4> DEFINE j == i - Len(one)
      <4>1. j \in 1 .. Len(other) /\ i = Len(one) + j
        BY <1>6, <1>7, <3>2
      <4> HIDE DEF j
      <4>2. both[i] = other[j]
        BY <1>6, <4>1
      <4>3. QED
        BY <1>7, <2>1, <4>1, <4>2, RowOfScript
    <3>3. QED
      BY <3>1, <3>2
  <2>2. ASSUME NEW i \in DOMAIN one, row \in one[i].rows
        PROVE  row \in AllRows(both)
    <3>1. i \in DOMAIN both /\ both[i] = one[i]
      BY <1>6, <1>7
    <3>2. QED
      BY <2>2, <3>1, RowOfScript
  <2>3. ASSUME NEW i \in DOMAIN other, row \in other[i].rows
        PROVE  row \in AllRows(both)
    <3> DEFINE j == Len(one) + i
    <3>1. j \in DOMAIN both /\ both[j] = other[i]
      BY <1>6, <1>7
    <3> HIDE DEF j
    <3>2. QED
      BY <2>3, <3>1, RowOfScript
  <2>4. QED
    BY <2>1, <2>2, <2>3, RowOfScript
<1>9. IsScript(both)
  BY <1>6 DEF IsScript
<1>10. QED
  BY <1>8, <1>9 DEF both

LEMMA MappedScript ==
  ASSUME NEW T, NEW seq \in Seq(T), NEW script,
         script = [i \in DOMAIN seq |-> script[i]]
  PROVE  IsScript(script)
<1>1. \A i \in DOMAIN seq : script[i] \in {script[j] : j \in DOMAIN seq}
  OBVIOUS
<1> DEFINE S == {script[j] : j \in DOMAIN seq}
<1> HIDE DEF S
<1>2. \A i \in DOMAIN seq : script[i] \in S
  BY <1>1 DEF S
<1>3. script \in Seq(S)
  BY <1>2, MappedSequence
<1>4. QED
  BY <1>3 DEF IsScript

\* Runs of view calls.
ViewsOf(row, methods) ==
  {ViewCall(row, methods[i], <<>>) : i \in DOMAIN methods}

LEMMA ViewRows ==
  ASSUME NEW row, NEW T, NEW methods \in Seq(T)
  PROVE  /\ IsScript(Views(row, methods))
         /\ AllRows(Views(row, methods)) = ViewsOf(row, methods)
<1> DEFINE script == Views(row, methods)
<1>1. /\ script = [i \in DOMAIN methods |-> script[i]]
      /\ DOMAIN script = DOMAIN methods
  BY DEF Views
<1>2. \A i \in DOMAIN methods :
        script[i].rows = {ViewCall(row, methods[i], <<>>)}
  BY DEF Views, Call
<1> HIDE DEF script
<1>3. IsScript(script)
  BY <1>1, MappedScript
<1>4. AllRows(script) = ViewsOf(row, methods)
  BY <1>1, <1>2, RowOfScript DEF ViewsOf
<1>5. QED
  BY <1>3, <1>4 DEF script
-----------------------------------------------------------------------------
(***************************************************************************)
(* The kinds of rows, given the row of their block or transaction          *)
(***************************************************************************)

TxRow(row, block, i) ==
  Extend(row, [txHash |-> Chain[block].txs[i].hash, txIndex |-> i - 1])

TransactionRow(row, block, i) ==
  WithId(Extend(TxRow(row, block, i), [type |-> "Transaction"]),
         <<Text(Chain[block].txs[i].hash)>>)

EventRow(row, hash, index) ==
  WithId(Extend(row, [type |-> "Event", logTxIndex |-> index]),
         <<Text(hash), Text("event"), Number(index)>>)

TransferRow(row, hash, value, index) ==
  WithId(Extend(row, [type |-> "Transfer", value |-> value]),
         <<Text(hash), Text("internalTransfer"), Number(index)>>)

OracleRow(row, token) ==
  AppendID(Contract(row, "SortedOracles", [stableToken |-> token]),
           Text(token))

OracleMethods ==
  {"IsOldestReportExpired", "NumRates", "MedianRate", "MedianTimestamp"}

OracleView(row, token, method) ==
  ViewCall(OracleRow(row, token), method, <<>>)

ReportRow(row, token, method, index) ==
  AppendID(ViewCall(OracleRow(row, token), method, [index |-> index]),
           Number(index))

BucketsRow(row, token) ==
  ViewCall(Contract(row, TokenID[token], <<>>), "getBuyAndSellBuckets", <<>>)

ContractView(row, contract, method) ==
  ViewCall(Extend(row, [contract |-> contract]), method, <<>>)

\* The rows of a transaction, of the epoch logs, of the reports on a token and
\* of the views of the other contracts.
IsTxEvent(row, block, i, r) ==
  \E j \in DOMAIN Chain[block].txs[i].logs :
    /\ Chain[block].txs[i].logs[j]
    /\ r = EventRow(TxRow(row, block, i), Chain[block].txs[i].hash, j - 1)

IsTransfer(row, block, i, r) ==
  /\ DebugEnabled
  /\ \E j \in DOMAIN Chain[block].txs[i].transfers :
       r = TransferRow(TxRow(row, block, i), Chain[block].txs[i].hash,
                       Chain[block].txs[i].transfers[j], j - 1)

IsEpochLog(row, block, r) ==
  \E j \in DOMAIN Chain[block].epochLogs :
    /\ Chain[block].epochLogs[j].known
    /\ r = EventRow(row, Chain[block].hash, Chain[block].epochLogs[j].index)

IsOracleView(row, token, r) ==
  \E method \in OracleMethods : r = OracleView(row, token, method)

IsReport(row, token, count, r) ==
  \E method \in {"GetRates", "GetTimestamps"}, i \in 1 .. count :
    r = ReportRow(row, token, method, i - 1)

IsContractView(row, r) ==
  \E contract, method :
    /\ contract # "SortedOracles" /\ method # "getBuyAndSellBuckets"
    /\ r = ContractView(row, contract, method)

LEMMA TxType ==
  ASSUME NEW block \in Blocks, NEW i \in DOMAIN Chain[block].txs
  PROVE  /\ Chain[block].txs[i].logs \in Seq(BOOLEAN)
         /\ Chain[block].txs[i].transfers \in Seq(Nat)
<1>1. Chain[block].txs[i] \in
        [hash : STRING, logs : Seq(BOOLEAN), transfers : Seq(Nat)]
  BY ProcessorsAssumption, ElementOf
<1>2. QED
  BY <1>1

LEMMA EventRows ==
  ASSUME NEW row, NEW hash, NEW index, NEW known, NEW r
  PROVE  r \in Event(row, hash, index, known).rows <=>
           known /\ r = EventRow(row, hash, index)
BY DEF Event, Call, EventRow

LEMMA TransactionRows ==
  ASSUME NEW block \in Blocks, NEW i \in DOMAIN Chain[block].txs, NEW row, NEW r
  PROVE  r \in AllRows(Transaction(row, block, i)) <=>
           \/ r = TransactionRow(row, block, i)
           \/ IsTxEvent(row, block, i, r)
           \/ IsTransfer(row, block, i, r)
<1> DEFINE tx == Chain[block].txs[i]
           txRow == TxRow(row, block, i)
           receipt == Call({TransactionRow(row, block, i)}, "fail")
           events ==
             [j \in DOMAIN tx.logs |-> Event(txRow, tx.hash, j - 1, tx.logs[j])]
           trace == Transfers(txRow, tx.hash, tx.transfers)
           traces == IF DebugEnabled THEN <<trace>> ELSE <<>>
           head == <<receipt>> \o events
<1>1. tx.logs \in Seq(BOOLEAN)
  BY TxType
<1>2. IsScript(<<receipt>>)
      /\ AllRows(<<receipt>>) = {TransactionRow(row, block, i)}
  BY OneCallRows DEF Call
<1>3. /\ IsScript(events)
      /\ r \in AllRows(events) <=> IsTxEvent(row, block, i, r)
  <2>1. /\ events = [j \in DOMAIN tx.logs |-> events[j]]
        /\ DOMAIN events = DOMAIN tx.logs
    OBVIOUS
  <2>2. \A j \in DOMAIN tx.logs :
          r \in events[j].rows <=>
            tx.logs[j] /\ r = EventRow(txRow, tx.hash, j - 1)
    BY EventRows
  <2> HIDE DEF events
  <2>3. IsScript(events)
    BY <1>1, <2>1, MappedScript
  <2>4. QED
    BY <2>1, <2>2, <2>3, RowOfScript DEF IsTxEvent
<1>4. /\ IsScript(traces)
      /\ r \in AllRows(traces) <=> IsTransfer(row, block, i, r)
  <2>1. r \in trace.rows <=>
          \E j \in DOMAIN tx.transfers :
            r = TransferRow(txRow, tx.hash, tx.transfers[j], j - 1)
    BY DEF Transfers, Call, TransferRow
  <2>2. CASE DebugEnabled
    <3> HIDE DEF trace
    <3>1. traces = <<trace>>
      BY <2>2
    <3>2. IsScript(<<trace>>) /\ AllRows(<<trace>>) = trace.rows
      BY OneCallRows
    <3>3. QED
      BY <2>1, <2>2, <3>1, <3>2 DEF IsTransfer
  <2>3. CASE ~DebugEnabled
    <3>1. traces = <<>>
      BY <2>3
    <3>2. <<>> \in Seq({}) /\ DOMAIN <<>> = {}
      OBVIOUS
    <3>3. r \notin AllRows(<<>>)
      BY <3>2, RowOfScript
    <3>4. QED
      BY <2>3, <3>1, <3>2, <3>3 DEF IsTransfer, IsScript
  <2>4. QED
    BY <2>2, <2>3
<1>5. Transaction(row, block, i) = head \o traces
  BY DEF Transaction, TransactionRow, TxRow
<1> HIDE DEF receipt, events, traces
<1>6. /\ IsScript(head)
      /\ AllRows(head) = AllRows(<<receipt>>) \cup AllRows(events)
  BY <1>2, <1>3, RowsInSequence
<1> HIDE DEF head
<1>7. AllRows(head \o traces) = AllRows(head) \cup AllRows(traces)
  BY <1>4, <1>6, RowsInSequence
<1>8. QED
  BY <1>2, <1>3, <1>4, <1>5, <1>6, <1>7

LEMMA EpochLogRows ==
  ASSUME NEW block \in Blocks, NEW row, NEW r
  PROVE  r \in RowsIn(EpochLogs(block, row)) <=> IsEpochLog(row, block, r)
<1> DEFINE logs == Chain[block].epochLogs
           filter == Call({}, "fail")
           events == [i \in DOMAIN logs |->
                        Event(row, Chain[block].hash, logs[i].index,
                              logs[i].known)]
           script == <<filter>> \o events
<1>1. logs \in Seq([index : Nat, known : BOOLEAN])
  BY ProcessorsAssumption
<1>2. IsScript(<<filter>>) /\ AllRows(<<filter>>) = {}
  BY OneCallRows DEF Call
<1>3. IsScript(events) /\ (r \in AllRows(events) <=> IsEpochLog(row, block, r))
  <2>1. /\ events = [i \in DOMAIN logs |-> events[i]]
        /\ DOMAIN events = DOMAIN logs
    OBVIOUS
  <2>2. \A i \in DOMAIN logs :
          r \in events[i].rows <=>
            logs[i].known /\ r = EventRow(row, Chain[block].hash, logs[i].index)
    BY EventRows
  <2> HIDE DEF events
  <2>3. IsScript(events)
    BY <1>1, <2>1, MappedScript
  <2>4. QED
    BY <2>1, <2>2, <2>3, RowOfScript DEF IsEpochLog
<1>4. EpochLogs(block, row) = {Thread("epochLogs", 0, script)}
  BY DEF EpochLogs
<1> HIDE DEF filter, events
<1>5. AllRows(script) = AllRows(<<filter>>) \cup AllRows(events)
  BY <1>2, <1>3, RowsInSequence
<1> HIDE DEF script
<1>6. RowsIn(EpochLogs(block, row)) = AllRows(script)
  BY <1>4 DEF RowsIn, Thread
<1>7. QED
  BY <1>2, <1>3, <1>5, <1>6

LEMMA OracleRows ==
  ASSUME NEW row, NEW token, NEW count, NEW r
  PROVE  r \in AllRows(SortedOraclesOf(row, token, count)) <=>
           \/ IsOracleView(row, token, r)
           \/ IsReport(row, token, count, r)
           \/ r = BucketsRow(row, token)
<1> DEFINE oracleRow == OracleRow(row, token)
           heads == <<"IsOldestReportExpired", "NumRates", "MedianRate",
                      "MedianTimestamp">>
           first == Views(oracleRow, heads)
           rates == OracleReports(oracleRow, "GetRates", count)
           times == OracleReports(oracleRow, "GetTimestamps", count)
           reports == <<rates, times>>
           tails == <<"getBuyAndSellBuckets">>
           last == Views(Contract(row, TokenID[token], <<>>), tails)
           head == first \o reports
<1>1. SortedOraclesOf(row, token, count) = head \o last
  BY DEF SortedOraclesOf, OracleRow
<1>2. IsScript(first) /\ (r \in AllRows(first) <=> IsOracleView(row, token, r))
  <2>1. heads \in Seq(OracleMethods) /\ DOMAIN heads = 1 .. 4
    BY DEF OracleMethods
  <2>2. /\ heads[1] = "IsOldestReportExpired" /\ heads[2] = "NumRates"
        /\ heads[3] = "MedianRate" /\ heads[4] = "MedianTimestamp"
    OBVIOUS
  <2> HIDE DEF heads
  <2>3. IsScript(first) /\ AllRows(first) = ViewsOf(oracleRow, heads)
    BY <2>1, ViewRows
  <2>4. r \in ViewsOf(oracleRow, heads) <=>
          \E i \in 1 .. 4 : r = OracleView(row, token, heads[i])
    BY <2>1 DEF ViewsOf, OracleView
  <2>5. (\E i \in 1 .. 4 : r = OracleView(row, token, heads[i])) <=>
          \E method \in OracleMethods : r = OracleView(row, token, method)
    BY <2>2 DEF OracleMethods
  <2>6. QED
    BY <2>3, <2>4, <2>5 DEF IsOracleView
<1>3. IsScript(reports)
      /\ (r \in AllRows(reports) <=> IsReport(row, token, count, r))
  <2>1. \A method : r \in OracleReports(oracleRow, method, count).rows <=>
          \E i \in 1 .. count : r = ReportRow(row, token, method, i - 1)
    BY DEF OracleReports, Call, ReportRow
  <2>2. r \in rates.rows \/ r \in times.rows <=> IsReport(row, token, count, r)
    BY <2>1 DEF IsReport
  <2> HIDE DEF rates, times
  <2>3. /\ reports \in Seq({rates, times}) /\ DOMAIN reports = 1 .. 2
        /\ reports[1] = rates /\ reports[2] = times
    OBVIOUS
  <2> HIDE DEF reports
  <2>4. r \in AllRows(reports) <=> r \in rates.rows \/ r \in times.rows
    BY <2>3, RowOfScript
  <2>5. QED
    BY <2>2, <2>3, <2>4 DEF IsScript
<1>4. IsScript(last) /\ (r \in AllRows(last) <=> r = BucketsRow(row, token))
  <2>1. /\ tails \in Seq({"getBuyAndSellBuckets"}) /\ DOMAIN tails = {1}
        /\ tails[1] = "getBuyAndSellBuckets"
    OBVIOUS
  <2> HIDE DEF tails
  <2>2. /\ IsScript(last)
        /\ AllRows(last)
             = ViewsOf(Contract(row, TokenID[token], <<>>), tails)
    BY <2>1, ViewRows
  <2>3. QED
    BY <2>1, <2>2 DEF ViewsOf, BucketsRow
<1> HIDE DEF first, reports, last
<1>5. IsScript(head) /\ AllRows(head) = AllRows(first) \cup AllRows(reports)
  BY <1>2, <1>3, RowsInSequence
<1> HIDE DEF head
<1>6. AllRows(head \o last) = AllRows(head) \cup AllRows(last)
  BY <1>4, <1>5, RowsInSequence
<1>7. QED
  BY <1>1, <1>2, <1>3, <1>4, <1>5, <1>6

\* The factories that extend the row of the block by a contract, and no more.
OnlyViews(row, threads) == \A r \in RowsIn(threads) : IsContractView(row, r)

LEMMA ContractViewRows ==
  ASSUME NEW row, NEW contract, contract # "SortedOracles", NEW T,
         "getBuyAndSellBuckets" \notin T, NEW methods \in Seq(T)
  PROVE  \A r \in AllRows(ContractViews(row, contract, methods)) :
           IsContractView(row, r)
<1> TAKE r \in AllRows(ContractViews(row, contract, methods))
<1>1. r \in ViewsOf(Extend(row, [contract |-> contract]), methods)
  BY ViewRows DEF ContractViews
<1>2. PICK i \in DOMAIN methods : r = ContractView(row, contract, methods[i])
  BY <1>1 DEF ViewsOf, ContractView
<1>3. methods[i] \in T
  BY ElementOf
<1>4. QED
  BY <1>2, <1>3 DEF IsContractView

LEMMA ScriptOfThread ==
  ASSUME NEW processor, NEW part, NEW script
  PROVE  Thread(processor, part, script).script = script
BY DEF Thread

LEMMA RowInThreads ==
  ASSUME NEW threads, NEW r
  PROVE  r \in RowsIn(threads) <=> \E t \in threads : r \in AllRows(t.script)
BY DEF RowsIn

\* What an error of a call leads to does not change the rows.
OtherError(script, n) == [script EXCEPT ![n].onError = "stop"]

LEMMA OtherErrorRows ==
  ASSUME NEW row, NEW contract, NEW methods, NEW n
  PROVE  AllRows(OtherError(ContractViews(row, contract, methods), n))
           = AllRows(ContractViews(row, contract, methods))
<1> DEFINE script == ContractViews(row, contract, methods)
           other == OtherError(script, n)
<1>1. \A i \in DOMAIN script :
        script[i] = [rows |-> script[i].rows, onError |-> script[i].onError]
  BY DEF ContractViews, Views, Call
<1>2. script = [i \in DOMAIN script |-> script[i]]
  BY DEF ContractViews, Views
<1> HIDE DEF script
<1>3. /\ DOMAIN other = DOMAIN script
      /\ \A i \in DOMAIN script : other[i].rows = script[i].rows
  BY <1>1, <1>2 DEF OtherError
<1> HIDE DEF other
<1>4. \A r : r \in AllRows(other) <=> r \in AllRows(script)
  BY <1>3, RowOfScript
<1>5. AllRows(other) = AllRows(script)
  BY <1>4
<1>6. QED
  BY <1>5 DEF other, script

LEMMA CoreViews ==
  ASSUME NEW block, NEW row, NEW contract, NEW script,
         \A r \in AllRows(script) : IsContractView(row, r)
  PROVE  OnlyViews(row, CoreContract(block, contract, script))
BY DEF CoreContract, Thread, OnlyViews, RowsIn

LEMMA ContractRows ==
  ASSUME NEW block, NEW row
  PROVE  /\ OnlyViews(row, Election(block, row))
         /\ OnlyViews(row, LockedGold(block, row))
         /\ OnlyViews(row, GoldToken(block, row))
         /\ OnlyViews(row, Reserve(block, row))
         /\ OnlyViews(row, EpochRewards(block, row))
<1>1. OnlyViews(row, Election(block, row))
  <2> DEFINE methods == <<"getActiveVotes", "getTotalVotes",
                          "getElectableValidators">>
             T == {"getActiveVotes", "getTotalVotes", "getElectableValidators"}
  <2>1. methods \in Seq(T) /\ "getBuyAndSellBuckets" \notin T
    OBVIOUS
  <2> HIDE DEF methods, T
  <2>2. QED
    BY <2>1, ContractViewRows, CoreViews DEF Election, methods
<1>2. OnlyViews(row, LockedGold(block, row))
  <2> DEFINE methods == <<"getNonvotingLockedGold", "getTotalLockedGold">>
             T == {"getNonvotingLockedGold", "getTotalLockedGold"}
  <2>1. methods \in Seq(T) /\ "getBuyAndSellBuckets" \notin T
    OBVIOUS
  <2> HIDE DEF methods, T
  <2>2. QED
    BY <2>1, ContractViewRows, CoreViews DEF LockedGold, methods
<1>3. OnlyViews(row, GoldToken(block, row))
  <2> DEFINE methods == <<"totalSupply">>
             T == {"totalSupply"}
  <2>1. methods \in Seq(T) /\ "getBuyAndSellBuckets" \notin T
    OBVIOUS
  <2> HIDE DEF methods, T
  <2>2. QED
    BY <2>1, ContractViewRows, CoreViews DEF GoldToken, methods
<1>4. OnlyViews(row, Reserve(block, row))
  <2> DEFINE methods ==
               <<"getReserveRatio", "getReserveGoldBalance",
                 "getOtherReserveAddressesGoldBalance", "getUnfrozenBalance",
                 "getFrozenReserveGoldBalance",
                 "getUnfrozenReserveGoldBalance">>
             T == {"getReserveRatio", "getReserveGoldBalance",
                   "getOtherReserveAddressesGoldBalance", "getUnfrozenBalance",
                   "getFrozenReserveGoldBalance",
                   "getUnfrozenReserveGoldBalance"}
  <2>1. methods \in Seq(T) /\ "getBuyAndSellBuckets" \notin T
    OBVIOUS
  <2> HIDE DEF methods, T
  <2> DEFINE script == ContractViews(row, "Reserve", methods)
             other == OtherError(script, 1)
  <2>2. \A r \in AllRows(script) : IsContractView(row, r)
    BY <2>1, ContractViewRows
  <2>3. AllRows(other) = AllRows(script)
    BY OtherErrorRows
  <2>4. Reserve(block, row) = CoreContract(block, "Reserve", other)
    BY DEF Reserve, OtherError, methods
  <2> HIDE DEF other, script
  <2>5. QED
    BY <2>2, <2>3, <2>4, CoreViews
<1>5. OnlyViews(row, EpochRewards(block, row))
  <2> DEFINE methods ==
               <<"getTargetTotalSupply", "getTargetVoterRewards",
                 "getRewardsMultiplier", "getRewardsMultiplierParameteres",
                 "getTargetVotingYieldParameteres",
                 "getTargetVotingGoldFraction", "getVotingGoldFraction",
                 "calculateTargetEpochRewards">>
             T == {"getTargetTotalSupply", "getTargetVoterRewards",
                   "getRewardsMultiplier", "getRewardsMultiplierParameteres",
                   "getTargetVotingYieldParameteres",
                   "getTargetVotingGoldFraction", "getVotingGoldFraction",
                   "calculateTargetEpochRewards"}
  <2>1. methods \in Seq(T) /\ "getBuyAndSellBuckets" \notin T
    OBVIOUS
  <2> HIDE DEF methods, T
  <2> DEFINE script == ContractViews(row, "EpochRewards", methods)
             other == OtherError(script, 8)
  <2>2. \A r \in AllRows(script) : IsContractView(row, r)
    BY <2>1, ContractViewRows
  <2>3. AllRows(other) = AllRows(script)
    BY OtherErrorRows
  <2>4. EpochRewards(block, row) = CoreContract(block, "EpochRewards", other)
    BY DEF EpochRewards, OtherError, methods
  <2> HIDE DEF other, script
  <2>5. QED
    BY <2>2, <2>3, <2>4, CoreViews
<1>6. QED
  BY <1>1, <1>2, <1>3, <1>4, <1>5

LEMMA TokenRows ==
  ASSUME NEW block \in Blocks, NEW row
  PROVE  /\ OnlyViews(row, Exchange(block, row))
         /\ OnlyViews(row, StableToken(block, row))
<1>1. \A token \in Chain[block].tokens \cup Chain[block].exchanges :
        TokenID[token] # "SortedOracles" /\ ExchangeID[token] # "SortedOracles"
  BY ProcessorsAssumption
<1>2. OnlyViews(row, Exchange(block, row))
  <2> DEFINE methods == <<"reserveFraction", "goldBucket", "stableBucket">>
             T == {"reserveFraction", "goldBucket", "stableBucket"}
  <2>1. methods \in Seq(T) /\ "getBuyAndSellBuckets" \notin T
    OBVIOUS
  <2> HIDE DEF methods, T
  <2>2. \A token \in Chain[block].exchanges :
          \A r \in AllRows(ContractViews(row, ExchangeID[token], methods)) :
            IsContractView(row, r)
    BY <1>1, <2>1, ContractViewRows
  <2>3. \A t \in Exchange(block, row) :
          \E token \in Chain[block].exchanges :
            t.script = ContractViews(row, ExchangeID[token], methods)
    BY DEF Exchange, Thread, methods
  <2>4. QED
    BY <2>2, <2>3 DEF OnlyViews, RowsIn
<1>3. OnlyViews(row, StableToken(block, row))
  <2> DEFINE methods == <<"totalSupply", "getInflationParameters">>
             T == {"totalSupply", "getInflationParameters"}
  <2>1. methods \in Seq(T) /\ "getBuyAndSellBuckets" \notin T
    OBVIOUS
  <2> HIDE DEF methods, T
  <2>2. \A token \in Chain[block].tokens :
          \A r \in AllRows(ContractViews(row, TokenID[token], methods)) :
            IsContractView(row, r)
    BY <1>1, <2>1, ContractViewRows
  <2>3. \A t \in StableToken(block, row) :
          \E token \in Chain[block].tokens :
            t.script = ContractViews(row, TokenID[token], methods)
    BY DEF StableToken, Thread, methods
  <2>4. QED
    BY <2>2, <2>3 DEF OnlyViews, RowsIn
<1>4. QED
  BY <1>2, <1>3

\* The rows of the transactions of a block, and those on its tokens.
IsOfTransaction(row, block, r) ==
  /\ Chain[block].readable
  /\ \E i \in DOMAIN Chain[block].txs :
       \/ r = TransactionRow(row, block, i)
       \/ IsTxEvent(row, block, i, r)
       \/ IsTransfer(row, block, i, r)

IsOfOracles(row, block, r) ==
  /\ "SortedOracles" \in Chain[block].deployed
  /\ \E token \in Chain[block].tokens \cap Chain[block].exchanges :
       \/ IsOracleView(row, token, r)
       \/ IsReport(row, token, Chain[block].reports[token], r)
       \/ r = BucketsRow(row, token)

LEMMA ChaindataRows ==
  ASSUME NEW block \in Blocks, NEW row, NEW r
  PROVE  /\ r \in RowsIn(Chaindata(block, row)) =>
              r = Extend(row, [type |-> "Block"])
              \/ IsOfTransaction(row, block, r)
         /\ IsOfTransaction(row, block, r) =>
              r \in RowsIn(Chaindata(block, row))
<1> DEFINE one == <<Call({Extend(row, [type |-> "Block"])}, "never")>>
           txs == DOMAIN Chain[block].txs
           script(i) == Transaction(row, block, i)
<1>1. AllRows(one) = {Extend(row, [type |-> "Block"])}
  BY OneCallRows DEF Call
<1>2. \A i \in txs : r \in AllRows(script(i)) <=>
        \/ r = TransactionRow(row, block, i)
        \/ IsTxEvent(row, block, i, r)
        \/ IsTransfer(row, block, i, r)
  BY TransactionRows
<1>3. \A t : t \in Chaindata(block, row) <=>
        /\ Chain[block].readable
        /\ \/ t = Thread("block", 0, one)
           \/ \E i \in txs : t = Thread("tx", i, script(i))
  BY DEF Chaindata
<1> HIDE DEF one, script
<1>4. r \in RowsIn(Chaindata(block, row)) <=>
        /\ Chain[block].readable
        /\ r \in AllRows(one) \/ \E i \in txs : r \in AllRows(script(i))
  BY <1>3, RowInThreads, ScriptOfThread
<1>5. QED
  BY <1>1, <1>2, <1>4 DEF IsOfTransaction

LEMMA SortedOraclesRows ==
  ASSUME NEW block, NEW row, NEW r
  PROVE  r \in RowsIn(SortedOracles(block, row)) <=> IsOfOracles(row, block, r)
<1> DEFINE script(token) ==
             SortedOraclesOf(row, token, Chain[block].reports[token])
           tokens == Chain[block].tokens \cap Chain[block].exchanges
<1>1. \A t : t \in SortedOracles(block, row) <=>
        /\ "SortedOracles" \in Chain[block].deployed
        /\ \E token \in tokens :
             t = Thread("sortedOracles", token, script(token))
  BY DEF SortedOracles
<1>2. \A token : r \in AllRows(script(token)) <=>
        \/ IsOracleView(row, token, r)
        \/ IsReport(row, token, Chain[block].reports[token], r)
        \/ r = BucketsRow(row, token)
  BY OracleRows
<1> HIDE DEF script
<1>3. r \in RowsIn(SortedOracles(block, row)) <=>
        /\ "SortedOracles" \in Chain[block].deployed
        /\ \E token \in tokens : r \in AllRows(script(token))
  BY <1>1, RowInThreads, ScriptOfThread
<1>4. QED
  BY <1>2, <1>3 DEF IsOfOracles

\* The rows with an id of their own, of a block with the given row.
Collects(factory, block) ==
  factory \in Factories /\ ShouldCollect(factory, block)

IsOwnRow(row, block, r) ==
  \/ Collects("chaindata", block) /\ IsOfTransaction(row, block, r)
  \/ Collects("epochLogs", block) /\ IsEpochLog(row, block, r)
  \/ Collects("sortedOracles", block) /\ IsOfOracles(row, block, r)

LEMMA RowsOfBlock ==
  ASSUME NEW block \in Blocks, NEW second \in Seconds, NEW r,
         NEW row, row = BlockRow(block, second)
  PROVE  /\ r \in RowsOf(block, second) =>
              \/ IsOwnRow(row, block, r)
              \/ r = Extend(row, [type |-> "Block"])
              \/ IsContractView(row, r)
         /\ IsOwnRow(row, block, r) => r \in RowsOf(block, second)
<1>1. RowsOf(block, second) = RowsIn(Threads(block, second))
  BY DEF RowsOf, RowsIn, AllRows, AllThreads
<1>2. r \in RowsIn(Threads(block, second)) <=>
        \/ Collects("chaindata", block) /\ r \in RowsIn(Chaindata(block, row))
        \/ Collects("exchange", block) /\ r \in RowsIn(Exchange(block, row))
        \/ Collects("election", block) /\ r \in RowsIn(Election(block, row))
        \/ Collects("epochRewards", block)
           /\ r \in RowsIn(EpochRewards(block, row))
        \/ Collects("lockedGold", block) /\ r \in RowsIn(LockedGold(block, row))
        \/ Collects("reserve", block) /\ r \in RowsIn(Reserve(block, row))
        \/ Collects("sortedOracles", block)
           /\ r \in RowsIn(SortedOracles(block, row))
        \/ Collects("epochLogs", block) /\ r \in RowsIn(EpochLogs(block, row))
        \/ Collects("goldToken", block) /\ r \in RowsIn(GoldToken(block, row))
        \/ Collects("stableToken", block)
           /\ r \in RowsIn(StableToken(block, row))
  BY DEF Threads, Collects, RowsIn
<1>3. QED
  BY <1>1, <1>2, ChaindataRows, EpochLogRows, SortedOraclesRows, ContractRows,
     TokenRows
  DEF OnlyViews, IsOwnRow
-----------------------------------------------------------------------------
(***************************************************************************)
(* The ids of the rows                                                     *)
(***************************************************************************)

IsId(id) == \E S : id \in Seq(S)

LEMMA LongerId ==
  ASSUME NEW id, IsId(id), NEW part
  PROVE  IsId(Append(id, part)) /\ Append(id, part) # NoId
<1>1. PICK S : id \in Seq(S)
  BY DEF IsId
<1> DEFINE T == S \cup {part}
<1>2. id \in Seq(T) /\ part \in T
  BY <1>1, Widen
<1> HIDE DEF T
<1>3. Append(id, part) \in Seq(T) /\ Len(Append(id, part)) # 0
  BY <1>2
<1>4. QED
  BY <1>3 DEF IsId, NoId

LEMMA FirstId ==
  ASSUME NEW part
  PROVE  IsId(<<part>>) /\ <<part>> # NoId
<1>1. <<part>> \in Seq({part}) /\ Len(<<part>>) = 1
  OBVIOUS
<1>2. QED
  BY <1>1 DEF IsId, NoId

LEMMA IdOfViewCall ==
  ASSUME NEW row, IsId(GetID(row)), NEW method, NEW columns
  PROVE  /\ IsRow(ViewCall(row, method, columns))
         /\ GetID(ViewCall(row, method, columns))
              = Append(GetID(row), Text(method))
<1> DEFINE call == [method |-> method, type |-> "ViewCall"]
           more == Extend(Extend(row, call), columns)
           id == Append(GetID(row), Text(method))
<1>1. ViewCall(row, method, columns) = WithId(more, id)
  BY DEF ViewCall
<1>2. IsRow(more)
  BY ExtendIs
<1> HIDE DEF more
<1>3. id # NoId
  BY LongerId
<1> HIDE DEF id
<1>4. IsRow(WithId(more, id)) /\ GetID(WithId(more, id)) = id
  BY <1>2, <1>3, IdGiven, RowOperations
<1>5. QED
  BY <1>1, <1>4 DEF id

LEMMA IdOfContract ==
  ASSUME NEW row, IsId(GetID(row)), NEW contract, NEW columns
  PROVE  /\ IsRow(Contract(row, contract, columns))
         /\ GetID(Contract(row, contract, columns))
              = Append(GetID(row), Text(contract))
<1> DEFINE more == Extend(Extend(row, [contract |-> contract]), columns)
           id == Append(GetID(row), Text(contract))
<1>1. Contract(row, contract, columns) = WithId(more, id)
  BY DEF Contract
<1>2. IsRow(more)
  BY ExtendIs
<1> HIDE DEF more
<1>3. id # NoId
  BY LongerId
<1> HIDE DEF id
<1>4. IsRow(WithId(more, id)) /\ GetID(WithId(more, id)) = id
  BY <1>2, <1>3, IdGiven, RowOperations
<1>5. QED
  BY <1>1, <1>4 DEF id

LEMMA IdOfAppendID ==
  ASSUME NEW row, IsRow(row), IsId(GetID(row)), NEW part
  PROVE  /\ IsRow(AppendID(row, part))
         /\ GetID(AppendID(row, part)) = Append(GetID(row), part)
BY LongerId, IdGiven, RowOperations DEF AppendID

\* What identifies a block, and the row that all its rows extend.
BlockPart(block) == IF Chain[block].readable
                    THEN Number(block)
                    ELSE Md5([blockNumber |-> block])

LEMMA BlockParts ==
  ASSUME NEW one, NEW other
  PROVE  /\ BlockPart(one) = BlockPart(other) => one = other
         /\ \A t : BlockPart(one) # Text(t)
<1>1. [blockNumber |-> one] = [blockNumber |-> other] => one = other
  <2>1. [blockNumber |-> one].blockNumber = one
        /\ [blockNumber |-> other].blockNumber = other
    OBVIOUS
  <2>2. QED
    BY <2>1
<1>2. QED
  BY <1>1, Parts DEF BlockPart

LEMMA FactOfNumber ==
  ASSUME NEW row,
         DOMAIN row.values \ {"indexerTimestamp"} = {"blockNumber"}
  PROVE  /\ DOMAIN Fact(row) = {"blockNumber"}
         /\ Fact(row)["blockNumber"] = row.values["blockNumber"]
BY FactIs

LEMMA BlockRowIs ==
  ASSUME NEW block, NEW second, NEW row, row = BlockRow(block, second)
  PROVE  /\ IsRow(row) /\ GetID(row) = <<BlockPart(block)>>
         /\ DOMAIN Fact(row) = {"blockNumber"}
         /\ Fact(row)["blockNumber"] = block
         /\ "blockNumber" \in DOMAIN row.values
         /\ row.values["blockNumber"] = block
<1> DEFINE timed == [indexerTimestamp |-> second, blockNumber |-> block]
           plain == [blockNumber |-> block]
<1>1. /\ DOMAIN timed = {"indexerTimestamp", "blockNumber"}
      /\ timed["blockNumber"] = block
      /\ DOMAIN plain = {"blockNumber"} /\ plain["blockNumber"] = block
  OBVIOUS
<1>2. CASE Chain[block].readable
  <2> HIDE DEF timed
  <2>1. row = WithId(NewRow(timed), <<Number(block)>>)
    BY <1>2 DEF BlockRow, timed
  <2>2. IsRow(row) /\ row.values = timed /\ GetID(row) = <<Number(block)>>
    BY <2>1, NewRows, RowOperations, FirstId, IdGiven
  <2>3. DOMAIN Fact(row) = {"blockNumber"} /\ Fact(row)["blockNumber"] = block
    BY <1>1, <2>2, FactOfNumber
  <2>4. QED
    BY <1>1, <1>2, <2>2, <2>3 DEF BlockPart
<1>3. CASE ~Chain[block].readable
  <2> HIDE DEF plain
  <2>1. row = NewRow(plain)
    BY <1>3 DEF BlockRow, plain
  <2>2. IsRow(row) /\ row.values = plain /\ row.id = NoId
    BY <2>1, NewRows
  <2>3. GetID(row) = <<Md5(plain)>>
    BY <2>2 DEF GetID, Md5
  <2>4. DOMAIN Fact(row) = {"blockNumber"} /\ Fact(row)["blockNumber"] = block
    BY <1>1, <2>2, FactOfNumber
  <2>5. QED
    BY <1>1, <1>3, <2>2, <2>3, <2>4 DEF BlockPart, plain
<1>4. QED
  BY <1>2, <1>3

\* Whenever a block is loaded, its row says the same.
LEMMA BlockRowFact ==
  ASSUME NEW block, NEW one, NEW other
  PROVE  Fact(BlockRow(block, one)) = Fact(BlockRow(block, other))
<1> DEFINE f == Fact(BlockRow(block, one))
           g == Fact(BlockRow(block, other))
<1>1. /\ DOMAIN f = {"blockNumber"} /\ f["blockNumber"] = block
      /\ DOMAIN g = {"blockNumber"} /\ g["blockNumber"] = block
  BY BlockRowIs
<1>2. f = [column \in DOMAIN f |-> f[column]]
      /\ g = [column \in DOMAIN g |-> g[column]]
  BY DEF Fact, Restrict
<1> HIDE DEF f, g
<1>3. f = g
  BY <1>1, <1>2
<1>4. QED
  BY <1>3 DEF f, g

\* The ids of the kinds of rows.
LEMMA IdOfTransaction ==
  ASSUME NEW row, NEW block, NEW i
  PROVE  GetID(TransactionRow(row, block, i))
           = <<Text(Chain[block].txs[i].hash)>>
<1> DEFINE more == Extend(TxRow(row, block, i), [type |-> "Transaction"])
           id == <<Text(Chain[block].txs[i].hash)>>
<1>1. IsRow(more) /\ id # NoId
  BY ExtendIs, FirstId
<1>2. TransactionRow(row, block, i) = WithId(more, id)
  BY DEF TransactionRow
<1> HIDE DEF more
<1>3. GetID(WithId(more, id)) = id
  BY <1>1, IdGiven
<1>4. QED
  BY <1>2, <1>3

LEMMA ThreeParts ==
  ASSUME NEW a, NEW b, NEW c
  PROVE  <<a, b, c>> # NoId
<1>1. Len(<<a, b, c>>) = 3
  OBVIOUS
<1>2. QED
  BY <1>1 DEF NoId

LEMMA IdOfEvent ==
  ASSUME NEW row, NEW hash, NEW index
  PROVE  GetID(EventRow(row, hash, index))
           = <<Text(hash), Text("event"), Number(index)>>
<1> DEFINE more == Extend(row, [type |-> "Event", logTxIndex |-> index])
           id == <<Text(hash), Text("event"), Number(index)>>
<1>1. IsRow(more) /\ id # NoId
  BY ExtendIs, ThreeParts
<1>2. EventRow(row, hash, index) = WithId(more, id)
  BY DEF EventRow
<1> HIDE DEF more
<1>3. GetID(WithId(more, id)) = id
  BY <1>1, IdGiven
<1>4. QED
  BY <1>2, <1>3

LEMMA IdOfTransfer ==
  ASSUME NEW row, NEW hash, NEW value, NEW index
  PROVE  GetID(TransferRow(row, hash, value, index))
           = <<Text(hash), Text("internalTransfer"), Number(index)>>
<1> DEFINE more == Extend(row, [type |-> "Transfer", value |-> value])
           id == <<Text(hash), Text("internalTransfer"), Number(index)>>
<1>1. IsRow(more) /\ id # NoId
  BY ExtendIs, ThreeParts
<1>2. TransferRow(row, hash, value, index) = WithId(more, id)
  BY DEF TransferRow
<1> HIDE DEF more
<1>3. GetID(WithId(more, id)) = id
  BY <1>1, IdGiven
<1>4. QED
  BY <1>2, <1>3

OracleId(part, token) ==
  Append(Append(<<part>>, Text("SortedOracles")), Text(token))

LEMMA IdOfOracles ==
  ASSUME NEW row, NEW part, GetID(row) = <<part>>, NEW token
  PROVE  /\ IsRow(OracleRow(row, token))
         /\ GetID(OracleRow(row, token)) = OracleId(part, token)
         /\ IsId(OracleId(part, token))
<1> DEFINE contract == Contract(row, "SortedOracles", [stableToken |-> token])
           id == Append(<<part>>, Text("SortedOracles"))
<1>1. IsId(<<part>>)
  BY FirstId
<1>2. IsRow(contract) /\ GetID(contract) = id
  BY <1>1, IdOfContract
<1>3. IsId(id)
  BY <1>1, LongerId
<1>4. OracleRow(row, token) = AppendID(contract, Text(token))
      /\ OracleId(part, token) = Append(id, Text(token))
  BY DEF OracleRow, OracleId
<1> HIDE DEF contract, id
<1>5. QED
  BY <1>2, <1>3, <1>4, IdOfAppendID, LongerId

LEMMA IdOfOracleView ==
  ASSUME NEW row, NEW part, GetID(row) = <<part>>, NEW token, NEW method
  PROVE  GetID(OracleView(row, token, method))
           = Append(OracleId(part, token), Text(method))
BY IdOfOracles, IdOfViewCall DEF OracleView

ReportId(part, token, method, index) ==
  Append(Append(OracleId(part, token), Text(method)), Number(index))

LEMMA IdOfReport ==
  ASSUME NEW row, NEW part, GetID(row) = <<part>>, NEW token, NEW method,
         NEW index
  PROVE  GetID(ReportRow(row, token, method, index))
           = ReportId(part, token, method, index)
<1> DEFINE view ==
             ViewCall(OracleRow(row, token), method, [index |-> index])
           id == Append(OracleId(part, token), Text(method))
<1>1. IsRow(view) /\ GetID(view) = id
  BY IdOfOracles, IdOfViewCall
<1>2. IsId(id)
  BY IdOfOracles, LongerId
<1>3. ReportRow(row, token, method, index) = AppendID(view, Number(index))
  BY DEF ReportRow
<1> HIDE DEF view, id
<1>4. GetID(AppendID(view, Number(index))) = Append(id, Number(index))
  BY <1>1, <1>2, IdOfAppendID
<1>5. QED
  BY <1>3, <1>4 DEF id, ReportId

LEMMA IdOfBuckets ==
  ASSUME NEW row, NEW part, GetID(row) = <<part>>, NEW token
  PROVE  GetID(BucketsRow(row, token))
           = Append(Append(<<part>>, Text(TokenID[token])),
                    Text("getBuyAndSellBuckets"))
<1> DEFINE contract == Contract(row, TokenID[token], <<>>)
           id == Append(<<part>>, Text(TokenID[token]))
<1>1. IsId(<<part>>)
  BY FirstId
<1>2. GetID(contract) = id
  BY <1>1, IdOfContract
<1>3. IsId(id)
  BY <1>1, LongerId
<1>4. BucketsRow(row, token) = ViewCall(contract, "getBuyAndSellBuckets", <<>>)
  BY DEF BucketsRow
<1> HIDE DEF contract, id
<1>5. GetID(ViewCall(contract, "getBuyAndSellBuckets", <<>>))
        = Append(id, Text("getBuyAndSellBuckets"))
  BY <1>2, <1>3, IdOfViewCall
<1>6. QED
  BY <1>4, <1>5 DEF id

LEMMA IdOfContractView ==
  ASSUME NEW row, NEW contract, NEW method
  PROVE  GetID(ContractView(row, contract, method))
           = Append(<<Md5(Extend(row, [contract |-> contract]).values)>>,
                    Text(method))
<1> DEFINE more == Extend(row, [contract |-> contract])
           id == <<Md5(more.values)>>
<1>1. GetID(more) = id
  BY IdHashed
<1>2. IsId(id)
  BY FirstId
<1>3. ContractView(row, contract, method) = ViewCall(more, method, <<>>)
  BY DEF ContractView
<1> HIDE DEF more, id
<1>4. GetID(ViewCall(more, method, <<>>)) = Append(id, Text(method))
  BY <1>1, <1>2, IdOfViewCall
<1>5. QED
  BY <1>3, <1>4 DEF id, more

\* What the kinds of rows say depends on what the row of the block says.
LEMMA FactsOfKinds ==
  ASSUME NEW one, NEW other, Fact(one) = Fact(other)
  PROVE  /\ \A block, i :
              /\ Fact(TxRow(one, block, i)) = Fact(TxRow(other, block, i))
              /\ Fact(TransactionRow(one, block, i))
                   = Fact(TransactionRow(other, block, i))
         /\ \A hash, index : Fact(EventRow(one, hash, index))
                               = Fact(EventRow(other, hash, index))
         /\ \A hash, value, index :
              Fact(TransferRow(one, hash, value, index))
                = Fact(TransferRow(other, hash, value, index))
         /\ \A token, method : Fact(OracleView(one, token, method))
                                 = Fact(OracleView(other, token, method))
         /\ \A token, method, index :
              Fact(ReportRow(one, token, method, index))
                = Fact(ReportRow(other, token, method, index))
         /\ \A token : Fact(BucketsRow(one, token))
                         = Fact(BucketsRow(other, token))
<1>1. ASSUME NEW block, NEW i
      PROVE  /\ Fact(TxRow(one, block, i)) = Fact(TxRow(other, block, i))
             /\ Fact(TransactionRow(one, block, i))
                  = Fact(TransactionRow(other, block, i))
  <2>1. Fact(TxRow(one, block, i)) = Fact(TxRow(other, block, i))
    BY FactOfExtend DEF TxRow
  <2>2. QED
    BY <2>1, FactOfExtend, FactOfWithId, ExtendIs DEF TransactionRow
<1>2. \A hash, index : Fact(EventRow(one, hash, index))
                         = Fact(EventRow(other, hash, index))
  BY FactOfExtend, FactOfWithId, ExtendIs DEF EventRow
<1>3. \A hash, value, index : Fact(TransferRow(one, hash, value, index))
                                = Fact(TransferRow(other, hash, value, index))
  BY FactOfExtend, FactOfWithId, ExtendIs DEF TransferRow
<1>4. \A token : Fact(OracleRow(one, token)) = Fact(OracleRow(other, token))
  BY FactOfContract, FactOfAppendID, ContractIsRow DEF OracleRow
<1>5. \A token, method : Fact(OracleView(one, token, method))
                           = Fact(OracleView(other, token, method))
  BY <1>4, FactOfViewCall DEF OracleView
<1>6. \A token, method, index : Fact(ReportRow(one, token, method, index))
                                  = Fact(ReportRow(other, token, method, index))
  BY <1>4, FactOfViewCall, FactOfAppendID, ViewCallIsRow DEF ReportRow
<1>7. \A token : Fact(BucketsRow(one, token)) = Fact(BucketsRow(other, token))
  BY FactOfContract, FactOfViewCall DEF BucketsRow
<1>8. QED
  BY <1>1, <1>2, <1>3, <1>5, <1>6, <1>7
-----------------------------------------------------------------------------
(***************************************************************************)
(* Rows that come back                                                     *)
(***************************************************************************)

\* What says the same as r and has its id.
Again(r, again) == GetID(again) = GetID(r) /\ Fact(again) = Fact(r)

\* A row of one's own comes back from another row of the same block.
LEMMA OwnRowsComeBack ==
  ASSUME NEW block, NEW part, NEW one, NEW other, Fact(one) = Fact(other),
         GetID(one) = <<part>>, GetID(other) = <<part>>,
         NEW r, IsOwnRow(one, block, r)
  PROVE  \E again : IsOwnRow(other, block, again) /\ Again(r, again)
<1>1. ASSUME NEW i \in DOMAIN Chain[block].txs,
             r = TransactionRow(one, block, i)
      PROVE  Again(r, TransactionRow(other, block, i))
  BY <1>1, IdOfTransaction, FactsOfKinds DEF Again
<1>2. ASSUME NEW i \in DOMAIN Chain[block].txs, IsTxEvent(one, block, i, r)
      PROVE  \E again : IsTxEvent(other, block, i, again) /\ Again(r, again)
  <2> DEFINE hash == Chain[block].txs[i].hash
  <2>1. PICK j \in DOMAIN Chain[block].txs[i].logs :
          /\ Chain[block].txs[i].logs[j]
          /\ r = EventRow(TxRow(one, block, i), hash, j - 1)
    BY <1>2 DEF IsTxEvent
  <2> DEFINE again == EventRow(TxRow(other, block, i), hash, j - 1)
  <2>2. Fact(TxRow(one, block, i)) = Fact(TxRow(other, block, i))
    BY FactsOfKinds
  <2>3. Again(r, again)
    BY <2>1, <2>2, IdOfEvent, FactsOfKinds DEF Again
  <2>4. IsTxEvent(other, block, i, again)
    BY <2>1 DEF IsTxEvent
  <2>5. QED
    BY <2>3, <2>4
<1>3. ASSUME NEW i \in DOMAIN Chain[block].txs, IsTransfer(one, block, i, r)
      PROVE  \E again : IsTransfer(other, block, i, again) /\ Again(r, again)
  <2> DEFINE hash == Chain[block].txs[i].hash
             transfers == Chain[block].txs[i].transfers
  <2>1. PICK j \in DOMAIN transfers :
          r = TransferRow(TxRow(one, block, i), hash, transfers[j], j - 1)
    BY <1>3 DEF IsTransfer
  <2> DEFINE again ==
               TransferRow(TxRow(other, block, i), hash, transfers[j], j - 1)
  <2>2. Fact(TxRow(one, block, i)) = Fact(TxRow(other, block, i))
    BY FactsOfKinds
  <2>3. Again(r, again)
    BY <2>1, <2>2, IdOfTransfer, FactsOfKinds DEF Again
  <2>4. IsTransfer(other, block, i, again)
    BY <1>3, <2>1 DEF IsTransfer
  <2>5. QED
    BY <2>3, <2>4
<1>4. ASSUME IsEpochLog(one, block, r)
      PROVE  \E again : IsEpochLog(other, block, again) /\ Again(r, again)
  <2> DEFINE hash == Chain[block].hash
             logs == Chain[block].epochLogs
  <2>1. PICK j \in DOMAIN logs :
          logs[j].known /\ r = EventRow(one, hash, logs[j].index)
    BY <1>4 DEF IsEpochLog
  <2> DEFINE again == EventRow(other, hash, logs[j].index)
  <2>2. Again(r, again)
    BY <2>1, IdOfEvent, FactsOfKinds DEF Again
  <2>3. IsEpochLog(other, block, again)
    BY <2>1 DEF IsEpochLog
  <2>4. QED
    BY <2>2, <2>3
<1>5. ASSUME NEW token, IsOracleView(one, token, r)
      PROVE  \E again : IsOracleView(other, token, again) /\ Again(r, again)
  <2>1. PICK method \in OracleMethods : r = OracleView(one, token, method)
    BY <1>5 DEF IsOracleView
  <2>2. Again(r, OracleView(other, token, method))
    BY <2>1, IdOfOracleView, FactsOfKinds DEF Again
  <2>3. QED
    BY <2>2 DEF IsOracleView
<1>6. ASSUME NEW token, NEW count, IsReport(one, token, count, r)
      PROVE  \E again : IsReport(other, token, count, again) /\ Again(r, again)
  <2>1. PICK method \in {"GetRates", "GetTimestamps"}, i \in 1 .. count :
          r = ReportRow(one, token, method, i - 1)
    BY <1>6 DEF IsReport
  <2> DEFINE again == ReportRow(other, token, method, i - 1)
  <2>2. GetID(again) = GetID(r)
    BY <2>1, IdOfReport
  <2>3. Fact(again) = Fact(r)
    BY <2>1, FactsOfKinds
  <2>4. IsReport(other, token, count, again)
    BY DEF IsReport
  <2>5. QED
    BY <2>2, <2>3, <2>4 DEF Again
<1>7. ASSUME NEW token, r = BucketsRow(one, token)
      PROVE  Again(r, BucketsRow(other, token))
  BY <1>7, IdOfBuckets, FactsOfKinds DEF Again
<1>8. ASSUME IsOfTransaction(one, block, r)
      PROVE  \E again : IsOfTransaction(other, block, again) /\ Again(r, again)
  BY <1>1, <1>2, <1>3, <1>8 DEF IsOfTransaction
<1>9. ASSUME IsOfOracles(one, block, r)
      PROVE  \E again : IsOfOracles(other, block, again) /\ Again(r, again)
  BY <1>5, <1>6, <1>7, <1>9 DEF IsOfOracles
<1>10. QED
  BY <1>4, <1>8, <1>9 DEF IsOwnRow

\* A row keeps the number of its block.
OfBlock(row, block) ==
  "blockNumber" \in DOMAIN row.values /\ row.values["blockNumber"] = block

LEMMA ExtendOfBlock ==
  ASSUME NEW row, NEW block, OfBlock(row, block), NEW columns,
         "blockNumber" \notin DOMAIN columns
  PROVE  OfBlock(Extend(row, columns), block)
BY ExtendIs DEF OfBlock

LEMMA WithIdOfBlock ==
  ASSUME NEW row, NEW block, OfBlock(row, block), IsRow(row), NEW id
  PROVE  OfBlock(WithId(row, id), block)
BY RowOperations DEF OfBlock

LEMMA ViewCallOfBlock ==
  ASSUME NEW row, NEW block, OfBlock(row, block), NEW method, NEW columns,
         "blockNumber" \notin DOMAIN columns
  PROVE  OfBlock(ViewCall(row, method, columns), block)
<1> DEFINE first == [method |-> method, type |-> "ViewCall"]
<1>1. DOMAIN first = {"method", "type"}
  OBVIOUS
<1> HIDE DEF first
<1>2. OfBlock(Extend(Extend(row, first), columns), block)
  BY <1>1, ExtendOfBlock
<1>3. QED
  BY <1>2, WithIdOfBlock, ExtendIs DEF ViewCall, first

LEMMA ContractOfBlock ==
  ASSUME NEW row, NEW block, OfBlock(row, block), NEW contract, NEW columns,
         "blockNumber" \notin DOMAIN columns
  PROVE  OfBlock(Contract(row, contract, columns), block)
<1> DEFINE first == [contract |-> contract]
<1>1. DOMAIN first = {"contract"}
  OBVIOUS
<1> HIDE DEF first
<1>2. OfBlock(Extend(Extend(row, first), columns), block)
  BY <1>1, ExtendOfBlock
<1>3. QED
  BY <1>2, WithIdOfBlock, ExtendIs DEF Contract, first

LEMMA OwnRowsOfBlock ==
  ASSUME NEW block, NEW row, OfBlock(row, block), NEW r, IsOwnRow(row, block, r)
  PROVE  OfBlock(r, block)
<1>1. \A i : OfBlock(TxRow(row, block, i), block)
  BY ExtendOfBlock DEF TxRow
<1>2. \A i : OfBlock(TransactionRow(row, block, i), block)
  BY <1>1, ExtendOfBlock, WithIdOfBlock, ExtendIs DEF TransactionRow
<1>3. ASSUME NEW more, OfBlock(more, block), NEW hash, NEW index
      PROVE  /\ OfBlock(EventRow(more, hash, index), block)
             /\ \A value : OfBlock(TransferRow(more, hash, value, index), block)
  BY <1>3, ExtendOfBlock, WithIdOfBlock, ExtendIs DEF EventRow, TransferRow
<1>4. \A token : OfBlock(OracleRow(row, token), block)
  BY ContractOfBlock, WithIdOfBlock, ContractIsRow DEF OracleRow, AppendID
<1>5. "blockNumber" \notin DOMAIN <<>>
  OBVIOUS
<1>6. \A token, method : OfBlock(OracleView(row, token, method), block)
  BY <1>4, <1>5, ViewCallOfBlock DEF OracleView
<1>7. \A token, method, index :
        OfBlock(ReportRow(row, token, method, index), block)
  BY <1>4, ViewCallOfBlock, WithIdOfBlock, ViewCallIsRow
  DEF ReportRow, AppendID
<1>8. \A token : OfBlock(BucketsRow(row, token), block)
  BY <1>5, ContractOfBlock, ViewCallOfBlock DEF BucketsRow
<1>9. QED
  BY <1>1, <1>2, <1>3, <1>6, <1>7, <1>8
  DEF IsOwnRow, IsOfTransaction, IsTxEvent, IsTransfer, IsEpochLog,
      IsOfOracles, IsOracleView, IsReport

\* The other rows have no id of their own.
LEMMA OthersNotOwn ==
  ASSUME NEW block, NEW second, NEW row, row = BlockRow(block, second), NEW r,
         r = Extend(row, [type |-> "Block"]) \/ IsContractView(row, r)
  PROVE  ~HasOwnId(r)
<1>1. DOMAIN row.values \subseteq {"blockNumber", "indexerTimestamp"}
  <2>1. DOMAIN Fact(row) = {"blockNumber"}
    BY BlockRowIs
  <2>2. DOMAIN Fact(row) = DOMAIN row.values \ {"indexerTimestamp"}
    BY FactIs
  <2>3. QED
    BY <2>1, <2>2
<1>2. CASE r = Extend(row, [type |-> "Block"])
  <2>1. DOMAIN r.values \subseteq {"blockNumber", "indexerTimestamp", "type"}
        /\ r.values.type = "Block"
    BY <1>1, <1>2, ExtendIs
  <2>2. QED
    BY <2>1 DEF HasOwnId
<1>3. CASE IsContractView(row, r)
  <2>1. PICK contract, method :
          /\ contract # "SortedOracles" /\ method # "getBuyAndSellBuckets"
          /\ r = ContractView(row, contract, method)
    BY <1>3 DEF IsContractView
  <2> DEFINE first == Extend(row, [contract |-> contract])
             columns == [method |-> method, type |-> "ViewCall"]
             next == Extend(first, columns)
             last == Extend(next, <<>>)
  <2>2. /\ "contract" \in DOMAIN first.values
        /\ first.values["contract"] = contract
    BY ExtendIs
  <2>3. /\ DOMAIN columns = {"method", "type"}
        /\ columns["method"] = method /\ columns["type"] = "ViewCall"
        /\ DOMAIN <<>> = {}
    OBVIOUS
  <2>4. r.values = last.values
    BY <2>1, RowOperations, ExtendIs DEF ContractView, ViewCall
  <2> HIDE DEF first, columns
  <2>5. /\ {"contract", "method", "type"} \subseteq DOMAIN next.values
        /\ next.values["contract"] = contract
        /\ next.values["method"] = method
        /\ next.values["type"] = "ViewCall"
    BY <2>2, <2>3, ExtendIs
  <2> HIDE DEF next
  <2>6. /\ r.values["contract"] = contract
        /\ r.values["method"] = method
        /\ r.values["type"] = "ViewCall"
    BY <2>3, <2>4, <2>5, ExtendIs
  <2>7. QED
    BY <2>1, <2>6 DEF HasOwnId
<1>4. QED
  BY <1>2, <1>3
-----------------------------------------------------------------------------
(***************************************************************************)
(* The table                                                               *)
(***************************************************************************)

\* Every row in the destination is one of a block that was loaded some time.
FromBlocks ==
  \A row \in table :
    \E block \in Blocks, second \in Seconds :
      \E r \in RowsOf(block, second) : row = Save(r)

TableInv == TypeOK /\ FromBlocks

LEMMA SentOfBlock ==
  ASSUME TypeOK, NEW a \in Attempts
  PROVE  \E block \in Blocks, second \in Seconds :
           SentRows(a) \subseteq RowsOf(block, second)
<1> DEFINE block == loaded[a].block
           second == loaded[a].second
           threads == AllThreads[block][second]
<1>1. block \in Blocks /\ second \in Seconds
  BY DEF TypeOK
<1>2. ASSUME NEW t \in threads
      PROVE  RowsAt(t.script, Sends(a, t))
               \subseteq RowsAt(t.script, DOMAIN t.script)
  BY DEF RowsAt, Sends
<1>3. SentRows(a) \subseteq RowsOf(block, second)
  <2>1. ThreadsOf(a) = threads
    BY DEF ThreadsOf
  <2> HIDE DEF threads
  <2>2. RowsOf(block, second)
          = UNION {RowsAt(t.script, DOMAIN t.script) : t \in threads}
    BY DEF RowsOf, threads
  <2>3. SentRows(a)
          = UNION {RowsAt(t.script, Sends(a, t)) : t \in threads}
    BY <2>1 DEF SentRows
  <2>4. QED
    BY <1>2, <2>2, <2>3
<1>4. QED
  BY <1>1, <1>3

LEMMA TableGrows ==
  ASSUME TypeOK, FromBlocks, NEW a \in Attempts,
         NEW some \in SUBSET Saved(SentRows(a)), table' = table \cup some
  PROVE  FromBlocks'
<1>1. PICK block \in Blocks, second \in Seconds :
        SentRows(a) \subseteq RowsOf(block, second)
  BY SentOfBlock
<1>2. \A row \in some : \E r \in RowsOf(block, second) : row = Save(r)
  BY <1>1 DEF Saved
<1>3. QED
  BY <1>2 DEF FromBlocks

LEMMA NextTableInv == IInv /\ TableInv /\ [Next]_vars => TableInv'
<1> SUFFICES ASSUME IInv, TableInv, [Next]_vars
             PROVE  TableInv'
  OBVIOUS
<1>1. TypeOK'
  BY NextIInv DEF IInv
<1>2. CASE table' = table
  BY <1>1, <1>2 DEF TableInv, FromBlocks
<1>3. ASSUME NEW a \in Attempts, RunSucceeds(a)
      PROVE  FromBlocks'
  BY <1>3, TableGrows DEF TableInv, RunSucceeds
<1>4. ASSUME NEW a \in Attempts, RunFails(a)
      PROVE  FromBlocks'
  BY <1>4, TableGrows DEF TableInv, RunFails
<1>5. table' = table \/ \E a \in Attempts : RunSucceeds(a) \/ RunFails(a)
  BY DEF Next, vars, Tick, LoadBlock, FailCall, MarkBlock
<1>6. QED
  BY <1>1, <1>2, <1>3, <1>4, <1>5 DEF TableInv

LEMMA TableFromBlocks == Spec => []TableInv
<1>1. Init => TableInv
  <2>1. Init => TypeOK
    BY InitIInv DEF IInv
  <2>2. QED
    BY <2>1 DEF Init, TableInv, FromBlocks
<1>2. QED
  BY <1>1, InitIInv, NextIInv, NextTableInv, PTL DEF Spec

LEMMA OwnRowsStable == TableInv => OwnIdsStable
<1> SUFFICES ASSUME TableInv, NEW row \in table, HasOwnId(row),
                    NEW second \in Seconds
             PROVE  \E again \in Saved(RowsOf(row.values.blockNumber, second)) :
                      again.id = row.id /\ Fact(again) = Fact(row)
  BY DEF OwnIdsStable
<1>1. PICK block \in Blocks, first \in Seconds :
        \E r \in RowsOf(block, first) : row = Save(r)
  BY DEF TableInv, FromBlocks
<1>2. PICK r \in RowsOf(block, first) : row = Save(r)
  BY <1>1
<1>3. row.values = r.values /\ row.id = GetID(r) /\ Fact(row) = Fact(r)
  BY <1>2, FactOfSaved DEF Save
<1> DEFINE one == BlockRow(block, first)
           other == BlockRow(block, second)
<1>4. HasOwnId(r)
  BY <1>3 DEF HasOwnId
<1>5. IsOwnRow(one, block, r)
  BY <1>4, RowsOfBlock, OthersNotOwn
<1>6. /\ GetID(one) = <<BlockPart(block)>>
      /\ GetID(other) = <<BlockPart(block)>>
      /\ OfBlock(one, block)
  BY BlockRowIs DEF OfBlock
<1>7. Fact(one) = Fact(other)
  BY BlockRowFact
<1>8. PICK again : IsOwnRow(other, block, again) /\ Again(r, again)
  BY <1>5, <1>6, <1>7, OwnRowsComeBack
<1>9. again \in RowsOf(block, second)
  BY <1>8, RowsOfBlock
<1>10. row.values.blockNumber = block
  BY <1>3, <1>5, <1>6, OwnRowsOfBlock DEF OfBlock
<1>11. Save(again).id = row.id /\ Fact(Save(again)) = Fact(row)
  BY <1>3, <1>8, FactOfSaved DEF Again
<1>12. QED
  BY <1>9, <1>10, <1>11 DEF Saved

\* A row with an id of its own comes back under that id, and says the same,
\* whenever its block is processed again (getID, AppendID, Contract, ViewCall
\* and WithID of row.go, as the processors use them).
THEOREM AlwaysOwnIdsStable == Spec => []OwnIdsStable
BY TableFromBlocks, OwnRowsStable, PTL
-----------------------------------------------------------------------------
(***************************************************************************)
(* Ids tell rows apart                                                     *)
(***************************************************************************)

\* Ids that are put together part by part.
LEMMA TwoParts ==
  ASSUME NEW a, NEW b
  PROVE  /\ Len(Append(<<a>>, b)) = 2
         /\ Append(<<a>>, b)[1] = a /\ Append(<<a>>, b)[2] = b
OBVIOUS

LEMMA OracleParts ==
  ASSUME NEW part, NEW token, NEW method, NEW id,
         id = Append(OracleId(part, token), Text(method))
  PROVE  /\ Len(id) = 4 /\ id[1] = part
         /\ id[3] = Text(token) /\ id[4] = Text(method)
<1> DEFINE b == Text("SortedOracles")
           c == Text(token)
           d == Text(method)
<1>1. id = Append(Append(Append(<<part>>, b), c), d)
  BY DEF OracleId
<1> HIDE DEF b, c, d
<1>2. Len(id) = 4 /\ id[1] = part /\ id[3] = c /\ id[4] = d
  BY <1>1
<1>3. QED
  BY <1>2 DEF c, d

LEMMA ReportParts ==
  ASSUME NEW part, NEW token, NEW method, NEW index, NEW id,
         id = ReportId(part, token, method, index)
  PROVE  /\ Len(id) = 5 /\ id[1] = part /\ id[3] = Text(token)
         /\ id[4] = Text(method) /\ id[5] = Number(index)
<1> DEFINE b == Text("SortedOracles")
           c == Text(token)
           d == Text(method)
           e == Number(index)
<1>1. id = Append(Append(Append(Append(<<part>>, b), c), d), e)
  BY DEF OracleId, ReportId
<1> HIDE DEF b, c, d, e
<1>2. Len(id) = 5 /\ id[1] = part /\ id[3] = c /\ id[4] = d /\ id[5] = e
  BY <1>1
<1>3. QED
  BY <1>2 DEF c, d, e

\* The forms of ids, of which no id has two.
IsText(part) == \E t : part = Text(t)

FormOfBlock(id) == Len(id) = 1 /\ ~IsText(id[1])
FormOfTransaction(id) == Len(id) = 1 /\ IsText(id[1])
FormOfContractView(id) == Len(id) = 2
FormOfEvent(id) == Len(id) = 3 /\ IsText(id[1]) /\ id[2] = Text("event")
FormOfTransfer(id) ==
  Len(id) = 3 /\ IsText(id[1]) /\ id[2] = Text("internalTransfer")
FormOfBuckets(id) == Len(id) = 3 /\ ~IsText(id[1])
FormOfOracleView(id) == Len(id) = 4
FormOfReport(id) == Len(id) = 5

LEMMA OneForm ==
  ASSUME NEW id
  PROVE  /\ FormOfBlock(id) =>
              /\ ~FormOfTransaction(id) /\ ~FormOfContractView(id)
              /\ ~FormOfEvent(id) /\ ~FormOfTransfer(id)
              /\ ~FormOfBuckets(id) /\ ~FormOfOracleView(id)
              /\ ~FormOfReport(id)
         /\ FormOfTransaction(id) =>
              /\ ~FormOfContractView(id)
              /\ ~FormOfEvent(id) /\ ~FormOfTransfer(id)
              /\ ~FormOfBuckets(id) /\ ~FormOfOracleView(id)
              /\ ~FormOfReport(id)
         /\ FormOfContractView(id) =>
              /\ ~FormOfEvent(id) /\ ~FormOfTransfer(id)
              /\ ~FormOfBuckets(id) /\ ~FormOfOracleView(id)
              /\ ~FormOfReport(id)
         /\ FormOfEvent(id) =>
              /\ ~FormOfTransfer(id) /\ ~FormOfBuckets(id)
              /\ ~FormOfOracleView(id) /\ ~FormOfReport(id)
         /\ FormOfTransfer(id) =>
              ~FormOfBuckets(id) /\ ~FormOfOracleView(id) /\ ~FormOfReport(id)
         /\ FormOfBuckets(id) => ~FormOfOracleView(id) /\ ~FormOfReport(id)
         /\ FormOfOracleView(id) => ~FormOfReport(id)
<1>1. Text("event") # Text("internalTransfer")
  BY Parts
<1>2. QED
  BY <1>1
  DEF FormOfBlock, FormOfTransaction, FormOfContractView, FormOfEvent,
      FormOfTransfer, FormOfBuckets, FormOfOracleView, FormOfReport

\* The kinds of rows, those of a block with the given row.
IsBlock(row, r) == r = Extend(row, [type |-> "Block"])

IsTransaction(row, block, r) ==
  \E i \in DOMAIN Chain[block].txs : r = TransactionRow(row, block, i)

IsEvent(row, block, r) ==
  \/ \E i \in DOMAIN Chain[block].txs : IsTxEvent(row, block, i, r)
  \/ IsEpochLog(row, block, r)

IsTransferOf(row, block, r) ==
  \E i \in DOMAIN Chain[block].txs : IsTransfer(row, block, i, r)

IsBuckets(row, r) == \E token : r = BucketsRow(row, token)

IsView(row, r) == \E token, method : r = OracleView(row, token, method)

IsReportOf(row, r) ==
  \E token, method, index : r = ReportRow(row, token, method, index)

LEMMA KindOfRow ==
  ASSUME NEW block \in Blocks, NEW second \in Seconds, NEW row,
         row = BlockRow(block, second), NEW r \in RowsOf(block, second)
  PROVE  \/ IsBlock(row, r) \/ IsTransaction(row, block, r)
         \/ IsContractView(row, r) \/ IsEvent(row, block, r)
         \/ IsTransferOf(row, block, r) \/ IsBuckets(row, r)
         \/ IsView(row, r) \/ IsReportOf(row, r)
<1>1. \/ IsOwnRow(row, block, r)
      \/ IsBlock(row, r)
      \/ IsContractView(row, r)
  BY RowsOfBlock DEF IsBlock
<1>2. IsOfTransaction(row, block, r) =>
        \/ IsTransaction(row, block, r) \/ IsEvent(row, block, r)
        \/ IsTransferOf(row, block, r)
  BY DEF IsOfTransaction, IsTransaction, IsEvent, IsTransferOf
<1>3. \A token, count : IsReport(row, token, count, r) => IsReportOf(row, r)
  BY DEF IsReport, IsReportOf
<1>4. IsOfOracles(row, block, r) =>
        IsBuckets(row, r) \/ IsView(row, r) \/ IsReportOf(row, r)
  BY <1>3 DEF IsOfOracles, IsOracleView, IsView, IsBuckets
<1>5. QED
  BY <1>1, <1>2, <1>4 DEF IsOwnRow, IsEvent

LEMMA ThreePartsOf ==
  ASSUME NEW a, NEW b, NEW c
  PROVE  /\ Len(<<a, b, c>>) = 3 /\ <<a, b, c>>[1] = a
         /\ <<a, b, c>>[2] = b /\ <<a, b, c>>[3] = c
OBVIOUS

LEMMA OnePart ==
  ASSUME NEW a
  PROVE  Len(<<a>>) = 1 /\ <<a>>[1] = a
OBVIOUS

\* An event has a hash and an index, and they give its id.
LEMMA EventOf ==
  ASSUME NEW row, NEW block, NEW r, IsEvent(row, block, r)
  PROVE  \E hash, index :
           GetID(r) = <<Text(hash), Text("event"), Number(index)>>
BY IdOfEvent DEF IsEvent, IsTxEvent, IsEpochLog

LEMMA TransferOf ==
  ASSUME NEW row, NEW block, NEW r, IsTransferOf(row, block, r)
  PROVE  \E hash, index :
           GetID(r) = <<Text(hash), Text("internalTransfer"), Number(index)>>
BY IdOfTransfer DEF IsTransferOf, IsTransfer

LEMMA FormOfRow ==
  ASSUME NEW row, NEW block, NEW r, GetID(row) = <<BlockPart(block)>>
  PROVE  /\ IsBlock(row, r) => FormOfBlock(GetID(r))
         /\ IsTransaction(row, block, r) => FormOfTransaction(GetID(r))
         /\ IsContractView(row, r) => FormOfContractView(GetID(r))
         /\ IsEvent(row, block, r) => FormOfEvent(GetID(r))
         /\ IsTransferOf(row, block, r) => FormOfTransfer(GetID(r))
         /\ IsBuckets(row, r) => FormOfBuckets(GetID(r))
         /\ IsView(row, r) => FormOfOracleView(GetID(r))
         /\ IsReportOf(row, r) => FormOfReport(GetID(r))
<1> DEFINE part == BlockPart(block)
<1>1. ~IsText(part) /\ \A v : ~IsText(Md5(v))
  BY BlockParts, Parts DEF IsText
<1>2. \A t : IsText(Text(t))
  BY DEF IsText
<1> HIDE DEF part
<1>3. ASSUME IsBlock(row, r) PROVE FormOfBlock(GetID(r))
  <2>1. GetID(r) = <<Md5(r.values)>>
    BY <1>3, IdHashed DEF IsBlock
  <2>2. QED
    BY <1>1, <2>1, OnePart DEF FormOfBlock
<1>4. ASSUME IsTransaction(row, block, r) PROVE FormOfTransaction(GetID(r))
  <2>1. PICK t : GetID(r) = <<Text(t)>>
    BY <1>4, IdOfTransaction DEF IsTransaction
  <2>2. QED
    BY <1>2, <2>1, OnePart DEF FormOfTransaction
<1>5. ASSUME IsContractView(row, r) PROVE FormOfContractView(GetID(r))
  <2>1. PICK a, b : GetID(r) = Append(<<a>>, b)
    BY <1>5, IdOfContractView DEF IsContractView
  <2>2. QED
    BY <2>1, TwoParts DEF FormOfContractView
<1>6. ASSUME IsEvent(row, block, r) PROVE FormOfEvent(GetID(r))
  <2>1. PICK hash, index :
          GetID(r) = <<Text(hash), Text("event"), Number(index)>>
    BY <1>6, EventOf
  <2>2. QED
    BY <1>2, <2>1, ThreePartsOf DEF FormOfEvent
<1>7. ASSUME IsTransferOf(row, block, r) PROVE FormOfTransfer(GetID(r))
  <2>1. PICK hash, index :
          GetID(r) = <<Text(hash), Text("internalTransfer"), Number(index)>>
    BY <1>7, TransferOf
  <2>2. QED
    BY <1>2, <2>1, ThreePartsOf DEF FormOfTransfer
<1>8. ASSUME IsBuckets(row, r) PROVE FormOfBuckets(GetID(r))
  <2>1. PICK b, c : GetID(r) = Append(Append(<<part>>, b), c)
    BY <1>8, IdOfBuckets DEF IsBuckets, part
  <2>2. Len(GetID(r)) = 3 /\ GetID(r)[1] = part
    BY <2>1, Appended
  <2>3. QED
    BY <1>1, <2>2 DEF FormOfBuckets
<1>9. ASSUME IsView(row, r) PROVE FormOfOracleView(GetID(r))
  <2>1. PICK token, method :
          GetID(r) = Append(OracleId(part, token), Text(method))
    BY <1>9, IdOfOracleView DEF IsView, part
  <2>2. QED
    BY <2>1, OracleParts DEF FormOfOracleView
<1>10. ASSUME IsReportOf(row, r) PROVE FormOfReport(GetID(r))
  <2>1. PICK token, method, index :
          GetID(r) = ReportId(part, token, method, index)
    BY <1>10, IdOfReport DEF IsReportOf, part
  <2>2. QED
    BY <2>1, ReportParts DEF FormOfReport
<1>11. QED
  BY <1>3, <1>4, <1>5, <1>6, <1>7, <1>8, <1>9, <1>10

\* Rows r and s of blocks b and c, with the rows of these blocks.
SameSaid(b, c, row, other) == b = c => Fact(row) = Fact(other)

\* Equal ids have equal parts.
LEMMA SamePart ==
  ASSUME NEW a, NEW b, <<a>> = <<b>>
  PROVE  a = b
BY OnePart

LEMMA SameTwoParts ==
  ASSUME NEW a, NEW b, NEW x, NEW y, Append(<<a>>, b) = Append(<<x>>, y)
  PROVE  a = x /\ b = y
BY TwoParts

LEMMA SameParts ==
  ASSUME NEW a, NEW b, NEW c, NEW x, NEW y, NEW z, <<a, b, c>> = <<x, y, z>>
  PROVE  a = x /\ b = y /\ c = z
BY ThreePartsOf

LEMMA SameBlockRow ==
  ASSUME NEW row, NEW other, NEW r, NEW s, IsBlock(row, r), IsBlock(other, s),
         GetID(r) = GetID(s)
  PROVE  Fact(r) = Fact(s)
<1>1. GetID(r) = <<Md5(r.values)>> /\ GetID(s) = <<Md5(s.values)>>
  BY IdHashed DEF IsBlock
<1>2. <<Md5(r.values)>> = <<Md5(s.values)>>
  BY <1>1
<1>3. Md5(r.values) = Md5(s.values)
  BY <1>2, SamePart
<1>4. QED
  BY <1>3, Parts, FactOfValues

LEMMA SameContractView ==
  ASSUME NEW row, NEW other, NEW r, NEW s, IsContractView(row, r),
         IsContractView(other, s), GetID(r) = GetID(s)
  PROVE  Fact(r) = Fact(s)
<1>1. PICK contract, method : r = ContractView(row, contract, method)
  BY DEF IsContractView
<1>2. PICK contract2, method2 : s = ContractView(other, contract2, method2)
  BY DEF IsContractView
<1> DEFINE one == Extend(row, [contract |-> contract])
           two == Extend(other, [contract |-> contract2])
<1>3. GetID(r) = Append(<<Md5(one.values)>>, Text(method))
  BY <1>1, IdOfContractView
<1>4. GetID(s) = Append(<<Md5(two.values)>>, Text(method2))
  BY <1>2, IdOfContractView
<1>5. r = ViewCall(one, method, <<>>) /\ s = ViewCall(two, method2, <<>>)
  BY <1>1, <1>2 DEF ContractView
<1> HIDE DEF one, two
<1>6. Md5(one.values) = Md5(two.values) /\ Text(method) = Text(method2)
  <2>1. Append(<<Md5(one.values)>>, Text(method))
          = Append(<<Md5(two.values)>>, Text(method2))
    BY <1>3, <1>4
  <2>2. QED
    BY <2>1, SameTwoParts
<1>7. one.values = two.values /\ method = method2
  BY <1>6, Parts
<1>8. Fact(one) = Fact(two)
  BY <1>7, FactOfValues
<1>9. QED
  BY <1>5, <1>7, <1>8, FactOfViewCall

LEMMA SameTransaction ==
  ASSUME NEW b \in Blocks, NEW c \in Blocks, NEW row, NEW other,
         SameSaid(b, c, row, other),
         NEW r, NEW s, IsTransaction(row, b, r), IsTransaction(other, c, s),
         GetID(r) = GetID(s)
  PROVE  Fact(r) = Fact(s)
<1>1. PICK i \in DOMAIN Chain[b].txs : r = TransactionRow(row, b, i)
  BY DEF IsTransaction
<1>2. PICK j \in DOMAIN Chain[c].txs : s = TransactionRow(other, c, j)
  BY DEF IsTransaction
<1>3. Text(Chain[b].txs[i].hash) = Text(Chain[c].txs[j].hash)
  BY <1>1, <1>2, IdOfTransaction, OnePart
<1>4. Chain[b].txs[i].hash = Chain[c].txs[j].hash
  BY <1>3, Parts
<1>5. b = c /\ i = j
  BY <1>4, HashesAssumption
<1>6. QED
  BY <1>1, <1>2, <1>5, FactsOfKinds DEF SameSaid

LEMMA SameEvent ==
  ASSUME NEW b \in Blocks, NEW c \in Blocks, NEW row, NEW other,
         SameSaid(b, c, row, other),
         NEW r, NEW s, IsEvent(row, b, r), IsEvent(other, c, s),
         GetID(r) = GetID(s)
  PROVE  Fact(r) = Fact(s)
<1>1. ASSUME NEW u, NEW v, NEW g, NEW h, NEW m, NEW n,
             r = EventRow(u, g, m), s = EventRow(v, h, n)
      PROVE  g = h /\ m = n
  <2>1. Text(g) = Text(h) /\ Number(m) = Number(n)
    BY <1>1, IdOfEvent, SameParts
  <2>2. QED
    BY <2>1, Parts
<1>2. ASSUME NEW i \in DOMAIN Chain[b].txs, IsTxEvent(row, b, i, r),
             NEW j \in DOMAIN Chain[c].txs, IsTxEvent(other, c, j, s)
      PROVE  Fact(r) = Fact(s)
  <2> DEFINE u == TxRow(row, b, i)
             v == TxRow(other, c, j)
             g == Chain[b].txs[i].hash
             h == Chain[c].txs[j].hash
  <2>1. PICK m, n : r = EventRow(u, g, m) /\ s = EventRow(v, h, n)
    BY <1>2 DEF IsTxEvent
  <2>2. g = h /\ m = n
    BY <1>1, <2>1
  <2>3. b = c /\ i = j
    BY <2>2, HashesAssumption
  <2>4. Fact(u) = Fact(v)
    BY <2>3, FactsOfKinds DEF SameSaid
  <2>5. QED
    BY <2>1, <2>2, <2>4, FactsOfKinds
<1>3. ASSUME IsEpochLog(row, b, r), IsEpochLog(other, c, s)
      PROVE  Fact(r) = Fact(s)
  <2>1. PICK m, n : /\ r = EventRow(row, Chain[b].hash, m)
                    /\ s = EventRow(other, Chain[c].hash, n)
    BY <1>3 DEF IsEpochLog
  <2>2. Chain[b].hash = Chain[c].hash /\ m = n
    BY <1>1, <2>1
  <2>3. b = c
    BY <2>2, HashesAssumption
  <2>4. QED
    BY <2>1, <2>2, <2>3, FactsOfKinds DEF SameSaid
<1>4. ASSUME NEW i \in DOMAIN Chain[b].txs, IsTxEvent(row, b, i, r),
             IsEpochLog(other, c, s)
      PROVE  FALSE
  <2>1. PICK m, n : /\ r = EventRow(TxRow(row, b, i), Chain[b].txs[i].hash, m)
                    /\ s = EventRow(other, Chain[c].hash, n)
    BY <1>4 DEF IsTxEvent, IsEpochLog
  <2>2. Chain[b].txs[i].hash = Chain[c].hash
    BY <1>1, <2>1
  <2>3. QED
    BY <2>2, HashesAssumption
<1>5. ASSUME IsEpochLog(row, b, r),
             NEW j \in DOMAIN Chain[c].txs, IsTxEvent(other, c, j, s)
      PROVE  FALSE
  <2>1. PICK m, n : /\ r = EventRow(row, Chain[b].hash, m)
                    /\ s = EventRow(TxRow(other, c, j), Chain[c].txs[j].hash, n)
    BY <1>5 DEF IsTxEvent, IsEpochLog
  <2>2. Chain[b].hash = Chain[c].txs[j].hash
    BY <1>1, <2>1
  <2>3. QED
    BY <2>2, HashesAssumption
<1>6. QED
  BY <1>2, <1>3, <1>4, <1>5 DEF IsEvent

LEMMA SameTransfer ==
  ASSUME NEW b \in Blocks, NEW c \in Blocks, NEW row, NEW other,
         SameSaid(b, c, row, other),
         NEW r, NEW s, IsTransferOf(row, b, r), IsTransferOf(other, c, s),
         GetID(r) = GetID(s)
  PROVE  Fact(r) = Fact(s)
<1>1. PICK i \in DOMAIN Chain[b].txs : IsTransfer(row, b, i, r)
  BY DEF IsTransferOf
<1>2. PICK j \in DOMAIN Chain[c].txs : IsTransfer(other, c, j, s)
  BY DEF IsTransferOf
<1> DEFINE u == TxRow(row, b, i)
           v == TxRow(other, c, j)
           g == Chain[b].txs[i].hash
           h == Chain[c].txs[j].hash
           values == Chain[b].txs[i].transfers
           values2 == Chain[c].txs[j].transfers
<1>3. PICK m \in DOMAIN values : r = TransferRow(u, g, values[m], m - 1)
  BY <1>1 DEF IsTransfer
<1>4. PICK n \in DOMAIN values2 : s = TransferRow(v, h, values2[n], n - 1)
  BY <1>2 DEF IsTransfer
<1>5. Text(g) = Text(h) /\ Number(m - 1) = Number(n - 1)
  BY <1>3, <1>4, IdOfTransfer, SameParts
<1>6. g = h /\ m - 1 = n - 1
  BY <1>5, Parts
<1>7. b = c /\ i = j
  BY <1>6, HashesAssumption
<1>8. m \in Nat /\ n \in Nat
  <2>1. values \in Seq(Nat) /\ values2 \in Seq(Nat)
    BY TxType
  <2> HIDE DEF values, values2
  <2>2. QED
    BY <2>1
<1>9. m = n
  BY <1>6, <1>8
<1>10. Fact(u) = Fact(v)
  BY <1>7, FactsOfKinds DEF SameSaid
<1>11. QED
  BY <1>3, <1>4, <1>6, <1>7, <1>9, <1>10, FactsOfKinds

LEMMA SameBuckets ==
  ASSUME NEW b, NEW c, NEW row, NEW other, SameSaid(b, c, row, other),
         GetID(row) = <<BlockPart(b)>>, GetID(other) = <<BlockPart(c)>>,
         NEW r, NEW s, IsBuckets(row, r), IsBuckets(other, s),
         GetID(r) = GetID(s)
  PROVE  Fact(r) = Fact(s)
<1>1. PICK token : r = BucketsRow(row, token)
  BY DEF IsBuckets
<1>2. PICK token2 : s = BucketsRow(other, token2)
  BY DEF IsBuckets
<1> DEFINE m == Text("getBuyAndSellBuckets")
           t == Text(TokenID[token])
           t2 == Text(TokenID[token2])
           id == GetID(r)
<1>3. id = Append(Append(<<BlockPart(b)>>, t), m)
  BY <1>1, IdOfBuckets
<1>4. id = Append(Append(<<BlockPart(c)>>, t2), m)
  BY <1>2, IdOfBuckets
<1> HIDE DEF id, m, t, t2
<1>5. id[1] = BlockPart(b) /\ id[2] = t
  BY <1>3, Appended
<1>6. id[1] = BlockPart(c) /\ id[2] = t2
  BY <1>4, Appended
<1>7. b = c /\ TokenID[token] = TokenID[token2]
  BY <1>5, <1>6, BlockParts, Parts DEF t, t2
<1>8. Fact(BucketsRow(row, token)) = Fact(BucketsRow(other, token))
  BY <1>7, FactsOfKinds DEF SameSaid
<1>9. BucketsRow(other, token) = BucketsRow(other, token2)
  BY <1>7 DEF BucketsRow
<1>10. QED
  BY <1>1, <1>2, <1>8, <1>9

LEMMA SameView ==
  ASSUME NEW b, NEW c, NEW row, NEW other, SameSaid(b, c, row, other),
         GetID(row) = <<BlockPart(b)>>, GetID(other) = <<BlockPart(c)>>,
         NEW r, NEW s, IsView(row, r), IsView(other, s),
         GetID(r) = GetID(s)
  PROVE  Fact(r) = Fact(s)
<1>1. PICK token, method : r = OracleView(row, token, method)
  BY DEF IsView
<1>2. PICK token2, method2 : s = OracleView(other, token2, method2)
  BY DEF IsView
<1> DEFINE id == GetID(r)
<1>3. id = Append(OracleId(BlockPart(b), token), Text(method))
  BY <1>1, IdOfOracleView
<1>4. id = Append(OracleId(BlockPart(c), token2), Text(method2))
  BY <1>2, IdOfOracleView
<1> HIDE DEF id
<1>5. id[1] = BlockPart(b) /\ id[3] = Text(token) /\ id[4] = Text(method)
  BY <1>3, OracleParts
<1>6. id[1] = BlockPart(c) /\ id[3] = Text(token2) /\ id[4] = Text(method2)
  BY <1>4, OracleParts
<1>7. b = c /\ token = token2 /\ method = method2
  BY <1>5, <1>6, BlockParts, Parts
<1>8. QED
  BY <1>1, <1>2, <1>7, FactsOfKinds DEF SameSaid

LEMMA SameReport ==
  ASSUME NEW b, NEW c, NEW row, NEW other, SameSaid(b, c, row, other),
         GetID(row) = <<BlockPart(b)>>, GetID(other) = <<BlockPart(c)>>,
         NEW r, NEW s, IsReportOf(row, r), IsReportOf(other, s),
         GetID(r) = GetID(s)
  PROVE  Fact(r) = Fact(s)
<1>1. PICK token, method, index : r = ReportRow(row, token, method, index)
  BY DEF IsReportOf
<1>2. PICK token2, method2, index2 :
        s = ReportRow(other, token2, method2, index2)
  BY DEF IsReportOf
<1> DEFINE id == GetID(r)
<1>3. id = ReportId(BlockPart(b), token, method, index)
  BY <1>1, IdOfReport
<1>4. id = ReportId(BlockPart(c), token2, method2, index2)
  BY <1>2, IdOfReport
<1> HIDE DEF id
<1>5. /\ id[1] = BlockPart(b) /\ id[3] = Text(token)
      /\ id[4] = Text(method) /\ id[5] = Number(index)
  BY <1>3, ReportParts
<1>6. /\ id[1] = BlockPart(c) /\ id[3] = Text(token2)
      /\ id[4] = Text(method2) /\ id[5] = Number(index2)
  BY <1>4, ReportParts
<1>7. b = c /\ token = token2 /\ method = method2 /\ index = index2
  BY <1>5, <1>6, BlockParts, Parts
<1>8. QED
  BY <1>1, <1>2, <1>7, FactsOfKinds DEF SameSaid

LEMMA SameIdSameFact ==
  ASSUME NEW b \in Blocks, NEW c \in Blocks,
         NEW first \in Seconds, NEW second \in Seconds,
         NEW r \in RowsOf(b, first), NEW s \in RowsOf(c, second),
         GetID(r) = GetID(s)
  PROVE  Fact(r) = Fact(s)
<1> DEFINE row == BlockRow(b, first)
           other == BlockRow(c, second)
           id == GetID(r)
<1>1. GetID(row) = <<BlockPart(b)>> /\ GetID(other) = <<BlockPart(c)>>
  BY BlockRowIs
<1>2. SameSaid(b, c, row, other)
  BY BlockRowFact DEF SameSaid
<1>3. \/ IsBlock(row, r) \/ IsTransaction(row, b, r)
      \/ IsContractView(row, r) \/ IsEvent(row, b, r)
      \/ IsTransferOf(row, b, r) \/ IsBuckets(row, r)
      \/ IsView(row, r) \/ IsReportOf(row, r)
  BY KindOfRow
<1>4. \/ IsBlock(other, s) \/ IsTransaction(other, c, s)
      \/ IsContractView(other, s) \/ IsEvent(other, c, s)
      \/ IsTransferOf(other, c, s) \/ IsBuckets(other, s)
      \/ IsView(other, s) \/ IsReportOf(other, s)
  BY KindOfRow
<1> HIDE DEF row, other
<1>5. /\ IsBlock(row, r) => FormOfBlock(id)
      /\ IsTransaction(row, b, r) => FormOfTransaction(id)
      /\ IsContractView(row, r) => FormOfContractView(id)
      /\ IsEvent(row, b, r) => FormOfEvent(id)
      /\ IsTransferOf(row, b, r) => FormOfTransfer(id)
      /\ IsBuckets(row, r) => FormOfBuckets(id)
      /\ IsView(row, r) => FormOfOracleView(id)
      /\ IsReportOf(row, r) => FormOfReport(id)
  BY <1>1, FormOfRow
<1>6. /\ IsBlock(other, s) => FormOfBlock(id)
      /\ IsTransaction(other, c, s) => FormOfTransaction(id)
      /\ IsContractView(other, s) => FormOfContractView(id)
      /\ IsEvent(other, c, s) => FormOfEvent(id)
      /\ IsTransferOf(other, c, s) => FormOfTransfer(id)
      /\ IsBuckets(other, s) => FormOfBuckets(id)
      /\ IsView(other, s) => FormOfOracleView(id)
      /\ IsReportOf(other, s) => FormOfReport(id)
  BY <1>1, FormOfRow
<1> HIDE DEF id
<1>7. \/ IsBlock(row, r) /\ IsBlock(other, s)
      \/ IsTransaction(row, b, r) /\ IsTransaction(other, c, s)
      \/ IsContractView(row, r) /\ IsContractView(other, s)
      \/ IsEvent(row, b, r) /\ IsEvent(other, c, s)
      \/ IsTransferOf(row, b, r) /\ IsTransferOf(other, c, s)
      \/ IsBuckets(row, r) /\ IsBuckets(other, s)
      \/ IsView(row, r) /\ IsView(other, s)
      \/ IsReportOf(row, r) /\ IsReportOf(other, s)
  BY <1>3, <1>4, <1>5, <1>6, OneForm
<1>8. QED
  BY <1>1, <1>2, <1>7, SameBlockRow, SameTransaction, SameContractView,
     SameEvent, SameTransfer, SameBuckets, SameView, SameReport

\* Rows that say different things never share an insert id, across processors,
\* tokens, transactions, epoch logs, blocks and attempts (getID, AppendID and
\* WithID of row.go, as the processors use them).
THEOREM AlwaysIdsIdentify == Spec => []IdsIdentify
<1>1. TableInv => IdsIdentify
  BY SameIdSameFact, FactOfSaved DEF TableInv, FromBlocks, IdsIdentify
<1>2. QED
  BY <1>1, TableFromBlocks, PTL
===============================================================================
