--------------------------------- MODULE Rows ---------------------------------
(***************************************************************************)
(* The rows of the destination and their insert ids (indexer/row.go).  A   *)
(* row is a function from column names to values, with an id or without.   *)
(* An id is the sequence of the parts the code joins with dots: a number,  *)
(* a text, or the md5 of the values of a row; different parts are taken to *)
(* give different ids, as they do for hashes, addresses and method names.  *)
(* Columns that no id and no property tells apart (the results of calls,   *)
(* gas, the raw event) are left out.                                       *)
(***************************************************************************)
EXTENDS Sequences

\* Row.ID is nil.
NoId == <<>>

Number(n) == [number |-> n]
Text(t) == [text |-> t]

NewRow(values) == [values |-> values, id |-> NoId]

\* Row.Extend: the later value of a column wins, and the id is not copied.
Extend(row, columns) ==
  NewRow([column \in DOMAIN columns \cup DOMAIN row.values |->
            IF column \in DOMAIN columns THEN columns[column]
                                         ELSE row.values[column]])

WithId(row, id) == [row EXCEPT !.id = id]

\* Row.getID: a row without an id is known by the md5 of its JSON.
GetID(row) == IF row.id # NoId THEN row.id ELSE <<[md5 |-> row.values]>>

\* Mutant: the suffix is dropped.
KeepID(row, part) == WithId(row, GetID(row))

\* Row.AppendID
AppendID(row, part) == WithId(row, Append(GetID(row), part))

\* Row.ViewCall and Row.Contract: the new id starts with the one of row.
ViewCall(row, method, columns) ==
  WithId(Extend(Extend(row, [method |-> method, type |-> "ViewCall"]), columns),
         Append(GetID(row), Text(method)))

\* Mutant: the id of the row is left to its hash.
ContractWithoutId(row, contract, columns) ==
  Extend(Extend(row, [contract |-> contract]), columns)

Contract(row, contract, columns) ==
  WithId(Extend(Extend(row, [contract |-> contract]), columns),
         Append(GetID(row), Text(contract)))

\* Mutant: a row without an id is saved without one.
SaveWithoutId(row) == row

\* Row.Save, what the destination is given: the values and an insert id.
Save(row) == [values |-> row.values, id |-> GetID(row)]
===============================================================================
