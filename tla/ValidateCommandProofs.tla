------------------------ MODULE ValidateCommandProofs ------------------------
(***************************************************************************)
(* What the commands print does not depend on the order the catalog lists  *)
(* its objects in, the report says of every table what the rules do, and   *)
(* the documents agree on what they say of the foreign keys.               *)
(***************************************************************************)
EXTENDS ValidateCommand, ValidationProofs

-----------------------------------------------------------------------------
(* The databases and their arrangements. *)

\* The lists of a Database.
LEMMA DatabaseLists ==
    ASSUME NEW d \in Databases
    PROVE  /\ d \in AnyDatabase /\ d.tables \in Seq(AnyTable) /\ d.views \in Seq(AnyView)
           /\ \A i \in DOMAIN d.tables :
                /\ d.tables[i] \in AnyTable
                /\ d.tables[i].columns \in Seq(AnyColumn)
                /\ d.tables[i].indexes \in Seq(AnyIndex)
                /\ d.tables[i].foreign_keys \in Seq(AnyKey)
                /\ \A k \in DOMAIN d.tables[i].columns : d.tables[i].columns[k] \in AnyColumn
                /\ \A k \in DOMAIN d.tables[i].foreign_keys :
                    d.tables[i].foreign_keys[k] \in AnyKey
           /\ \A i \in DOMAIN d.views : d.views[i] \in AnyView
<1>1. d \in AnyDatabase
  BY DatabasesAreDistinguished
<1>2. d.tables \in Seq(AnyTable) /\ d.views \in Seq(AnyView)
  <2> HIDE DEF AnyTable, AnyView
  <2> QED
    BY <1>1 DEF AnyDatabase
<1>3. /\ \A i \in DOMAIN d.tables : d.tables[i] \in AnyTable
      /\ \A i \in DOMAIN d.views : d.views[i] \in AnyView
  BY <1>2
<1>4. ASSUME NEW i \in DOMAIN d.tables
      PROVE  /\ d.tables[i].columns \in Seq(AnyColumn)
             /\ d.tables[i].indexes \in Seq(AnyIndex)
             /\ d.tables[i].foreign_keys \in Seq(AnyKey)
  BY <1>3, <1>4 DEF AnyTable
<1>5. ASSUME NEW i \in DOMAIN d.tables
      PROVE  /\ \A k \in DOMAIN d.tables[i].columns : d.tables[i].columns[k] \in AnyColumn
             /\ \A k \in DOMAIN d.tables[i].foreign_keys : d.tables[i].foreign_keys[k] \in AnyKey
  BY <1>4, <1>5
<1> QED
  BY <1>1, <1>2, <1>3, <1>4, <1>5

\* What the rules read of a Database is there.
LEMMA DatabasesAreProper ==
    ASSUME NEW d \in Databases
    PROVE  Proper(d)
<1>1. /\ IsList(d.tables) /\ IsList(d.views)
  BY DatabaseLists, ListIs
<1>2. ASSUME NEW i \in DOMAIN d.tables
      PROVE  /\ IsList(d.tables[i].columns) /\ IsList(d.tables[i].indexes)
             /\ IsList(d.tables[i].foreign_keys)
             /\ \A k \in DOMAIN d.tables[i].foreign_keys :
                    IsList(d.tables[i].foreign_keys[k].referenced)
             /\ d.tables[i].without_rowid \in BOOLEAN /\ d.tables[i].strict \in BOOLEAN
  <2>1. IsList(d.tables[i].columns) /\ IsList(d.tables[i].indexes) /\ IsList(d.tables[i].foreign_keys)
    BY <1>2, DatabaseLists, ListIs
  <2>2. ASSUME NEW k \in DOMAIN d.tables[i].foreign_keys
        PROVE  IsList(d.tables[i].foreign_keys[k].referenced)
    <3>1. d.tables[i].foreign_keys[k] \in AnyKey
      BY <1>2, <2>2, DatabaseLists
    <3>2. d.tables[i].foreign_keys[k].referenced \in Seq(STRING)
      BY <3>1 DEF AnyKey
    <3> QED
      BY <3>2, ListIs
  <2>3. d.tables[i] \in AnyTable
    BY <1>2, DatabaseLists
  <2>4. d.tables[i].without_rowid \in BOOLEAN /\ d.tables[i].strict \in BOOLEAN
    BY <2>3 DEF AnyTable
  <2> QED
    BY <2>1, <2>2, <2>4
<1>3. ASSUME NEW i \in DOMAIN d.views PROVE IsList(d.views[i].columns)
  <2>1. d.views[i] \in AnyView
    BY <1>3, DatabaseLists
  <2>2. d.views[i].columns \in Seq(AnyColumn)
    BY <2>1 DEF AnyView
  <2> QED
    BY <2>2, ListIs
<1>4. DistinctIds(d)
  BY DatabasesAreDistinguished DEF Distinguished, DistinctIds
<1> QED
  BY <1>1, <1>2, <1>3, <1>4 DEF Proper, Readable

\* A list in the reverse order.
LEMMA ReverseAlike ==
    ASSUME NEW q, IsList(q)
    PROVE  IsList(Reverse(q)) /\ Alike(q, Reverse(q))
<1> DEFINE n == Len(q)
           r == Reverse(q)
           h == [i \in 1 .. n |-> (n - i) + 1]
<1>1. n \in Nat /\ DOMAIN q = 1 .. n /\ \A i \in 1 .. n : q[i] \in ToSet(q)
  BY ListIs
<1>2. r = [i \in 1 .. n |-> q[(n - i) + 1]]
  BY DEF Reverse
<1> HIDE DEF n, r
<1>3. \A i \in 1 .. n : (n - i) + 1 \in 1 .. n /\ (n - ((n - i) + 1)) + 1 = i
  BY <1>1
<1>4. IsList(r)
  <2>1. r \in [1 .. n -> ToSet(q)]
    BY <1>1, <1>2, <1>3
  <2>2. r \in Seq(ToSet(q))
    BY <1>1, <2>1
  <2> QED
    BY <2>2, ListIs
<1>5. DOMAIN r = 1 .. n /\ h \in [1 .. n -> 1 .. n] /\ \A i \in 1 .. n : h[i] = (n - i) + 1
  BY <1>2, <1>3
<1> HIDE DEF h
<1>6. Reorders(h, q, r)
  <2>1. ASSUME NEW i \in 1 .. n, NEW j \in 1 .. n, h[i] = h[j] PROVE i = j
    BY <1>1, <1>5, <2>1
  <2>2. ASSUME NEW k \in 1 .. n PROVE \E i \in 1 .. n : h[i] = k
    BY <1>3, <1>5, <2>2
  <2> QED
    BY <1>1, <1>5, <2>1, <2>2 DEF Reorders
<1>7. ASSUME NEW i \in 1 .. n PROVE r[h[i]] = q[i]
  BY <1>2, <1>3, <1>5, <1>7
<1> QED
  BY <1>1, <1>4, <1>6, <1>7 DEF Alike, r

\* Tables in another order, with their columns and keys in another, are a
\* rearranged Database.
LEMMA Rearranging ==
    ASSUME NEW d \in Databases, NEW e, NEW h,
           e.database = d.database, e.engine = d.engine, e.engine_version = d.engine_version,
           e.views = d.views, IsList(e.tables), Reorders(h, d.tables, e.tables),
           \A i \in DOMAIN d.tables :
                /\ SameTable(d.tables[i], e.tables[h[i]])
                /\ IsList(e.tables[h[i]].columns) /\ IsList(e.tables[h[i]].foreign_keys)
    PROVE  Rearranged(h, d, e)
<1>1. Proper(d)
  BY DatabasesAreProper
<1>2. \A k \in DOMAIN e.tables : \E i \in DOMAIN d.tables : h[i] = k
  BY DEF Reorders
<1>3. ASSUME NEW i \in DOMAIN d.tables
      PROVE  /\ IsList(e.tables[h[i]].indexes)
             /\ \A k \in DOMAIN e.tables[h[i]].foreign_keys :
                    IsList(e.tables[h[i]].foreign_keys[k].referenced)
             /\ e.tables[h[i]].without_rowid \in BOOLEAN /\ e.tables[h[i]].strict \in BOOLEAN
             /\ Id(e.tables[h[i]]) = Id(d.tables[i])
  <2> DEFINE t == d.tables[i]
             u == e.tables[h[i]]
  <2>1. /\ IsList(t.indexes) /\ t.without_rowid \in BOOLEAN /\ t.strict \in BOOLEAN
        /\ \A k \in DOMAIN t.foreign_keys : IsList(t.foreign_keys[k].referenced)
    BY <1>1, <1>3 DEF Proper, Readable
  <2>2. SameTable(t, u)
    BY <1>3
  <2> HIDE DEF t, u
  <2>3. ToSet(t.foreign_keys) = ToSet(u.foreign_keys)
    BY <2>2, AlikeMembers DEF SameTable
  <2>4. \A k \in DOMAIN u.foreign_keys : IsList(u.foreign_keys[k].referenced)
    BY <2>1, <2>3 DEF ToSet
  <2>5. /\ IsList(u.indexes) /\ u.without_rowid \in BOOLEAN /\ u.strict \in BOOLEAN
        /\ Id(u) = Id(t)
    BY <2>1, <2>2 DEF SameTable, Id
  <2> QED
    BY <2>4, <2>5 DEF t, u
<1>4. DistinctIds(e)
  <2>1. ASSUME NEW k \in DOMAIN e.tables, NEW l \in DOMAIN e.tables,
               Id(e.tables[k]) = Id(e.tables[l])
        PROVE  k = l
    <3>1. PICK i \in DOMAIN d.tables : h[i] = k
      BY <1>2
    <3>2. PICK j \in DOMAIN d.tables : h[j] = l
      BY <1>2
    <3>3. Id(d.tables[i]) = Id(d.tables[j])
      BY <1>3, <2>1, <3>1, <3>2
    <3>4. i = j
      BY <1>1, <3>3 DEF Proper, DistinctIds
    <3> QED
      BY <3>1, <3>2, <3>4
  <2> QED
    BY <2>1 DEF DistinctIds
<1>5. IsList(e.views) /\ \A i \in DOMAIN e.views : IsList(e.views[i].columns)
  BY <1>1 DEF Proper, Readable
<1>6. Readable(e)
  <2>1. ASSUME NEW k \in DOMAIN e.tables
        PROVE  /\ IsList(e.tables[k].columns) /\ IsList(e.tables[k].indexes)
               /\ IsList(e.tables[k].foreign_keys)
               /\ \A l \in DOMAIN e.tables[k].foreign_keys :
                    IsList(e.tables[k].foreign_keys[l].referenced)
    BY <1>2, <1>3, <2>1
  <2> QED
    BY <1>5, <2>1 DEF Readable
<1>7. \A k \in DOMAIN e.tables :
        e.tables[k].without_rowid \in BOOLEAN /\ e.tables[k].strict \in BOOLEAN
  BY <1>2, <1>3
<1> QED
  BY <1>1, <1>4, <1>6, <1>7 DEF Rearranged, Proper

\* Two tables exchanged.
LEMMA ExchangedTables ==
    ASSUME NEW d \in Databases, NEW i \in DOMAIN d.tables, NEW j \in DOMAIN d.tables
    PROVE  \E h : Rearranged(h, d,
                [d EXCEPT !.tables = [d.tables EXCEPT ![i] = d.tables[j], ![j] = d.tables[i]]])
<1> DEFINE q == [d.tables EXCEPT ![i] = d.tables[j], ![j] = d.tables[i]]
           e == [d EXCEPT !.tables = q]
           h == [k \in DOMAIN d.tables |-> IF k = i THEN j ELSE IF k = j THEN i ELSE k]
<1>1. d.tables \in Seq(AnyTable) /\ d \in AnyDatabase
  BY DatabaseLists
<1>2. q \in Seq(AnyTable) /\ DOMAIN q = DOMAIN d.tables
  BY <1>1
<1>3. \A k \in DOMAIN d.tables : q[h[k]] = d.tables[k]
  BY <1>1
<1>4. Reorders(h, d.tables, q)
  <2>1. \A k \in DOMAIN d.tables : h[k] \in DOMAIN d.tables /\ h[h[k]] = k
    OBVIOUS
  <2>2. h \in [DOMAIN d.tables -> DOMAIN q]
    BY <1>2, <2>1
  <2> HIDE DEF h
  <2> QED
    BY <1>2, <2>1, <2>2 DEF Reorders
<1>5. /\ e.database = d.database /\ e.engine = d.engine /\ e.engine_version = d.engine_version
      /\ e.views = d.views /\ e.tables = q
  <2> HIDE DEF q
  <2> QED
    BY <1>1 DEF AnyDatabase
<1>6. ASSUME NEW k \in DOMAIN d.tables
      PROVE  /\ SameTable(d.tables[k], q[h[k]])
             /\ IsList(q[h[k]].columns) /\ IsList(q[h[k]].foreign_keys)
  <2>1. SameTable(d.tables[k], d.tables[k])
    BY AlikeItself DEF SameTable
  <2>2. IsList(d.tables[k].columns) /\ IsList(d.tables[k].foreign_keys)
    BY <1>6, DatabaseLists, ListIs
  <2> QED
    BY <1>3, <1>6, <2>1, <2>2
<1>7. IsList(q)
  BY <1>2, ListIs
<1> HIDE DEF q, h
<1>8. Rearranged(h, d, e)
  <2> HIDE DEF e
  <2> QED
    BY <1>4, <1>5, <1>6, <1>7, Rearranging
<1> QED
  BY <1>8 DEF q

\* The same tables with their columns or their keys in another order.
LEMMA TablesInTheirPlaces ==
    ASSUME NEW d \in Databases, NEW q, q = [i \in DOMAIN d.tables |-> q[i]],
           \A i \in DOMAIN d.tables :
                /\ SameTable(d.tables[i], q[i])
                /\ IsList(q[i].columns) /\ IsList(q[i].foreign_keys)
    PROVE  \E h : Rearranged(h, d, [d EXCEPT !.tables = q])
<1> DEFINE e == [d EXCEPT !.tables = q]
           h == [i \in DOMAIN d.tables |-> i]
<1>1. d.tables \in Seq(AnyTable) /\ d \in AnyDatabase
  BY DatabaseLists
<1>2. /\ e.database = d.database /\ e.engine = d.engine /\ e.engine_version = d.engine_version
      /\ e.views = d.views /\ e.tables = q
  BY <1>1 DEF AnyDatabase
<1>3. IsList(q) /\ DOMAIN q = DOMAIN d.tables
  <2>1. DOMAIN q = DOMAIN d.tables
    OBVIOUS
  <2>2. q \in [1 .. Len(d.tables) -> {q[i] : i \in DOMAIN d.tables}]
    BY <1>1, <2>1
  <2>3. q \in Seq({q[i] : i \in DOMAIN d.tables})
    BY <1>1, <2>2
  <2> QED
    BY <2>1, <2>3, ListIs
<1>4. Reorders(h, d.tables, q) /\ \A i \in DOMAIN d.tables : h[i] = i
  BY <1>3 DEF Reorders
<1> HIDE DEF e, h
<1>5. Rearranged(h, d, e)
  BY <1>2, <1>3, <1>4, Rearranging
<1> QED
  BY <1>5 DEF e

\* Every arrangement is the Database rearranged.
LEMMA ArrangementsAreRearranged ==
    ASSUME NEW d \in Databases, NEW e \in Arrangements(d)
    PROVE  \E h : Rearranged(h, d, e)
<1>1. CASE \E i, j \in DOMAIN d.tables :
        e = [d EXCEPT !.tables = [d.tables EXCEPT ![i] = d.tables[j], ![j] = d.tables[i]]]
  BY <1>1, ExchangedTables
<1>2. d \in AnyDatabase
  BY DatabaseLists
<1>3. ASSUME NEW i \in DOMAIN d.tables
      PROVE  /\ d.tables[i] \in AnyTable
             /\ IsList(d.tables[i].columns) /\ IsList(d.tables[i].foreign_keys)
             /\ IsList(Reverse(d.tables[i].columns)) /\ IsList(Reverse(d.tables[i].foreign_keys))
             /\ Alike(d.tables[i].columns, Reverse(d.tables[i].columns))
             /\ Alike(d.tables[i].foreign_keys, Reverse(d.tables[i].foreign_keys))
  <2>1. d.tables[i] \in AnyTable /\ IsList(d.tables[i].columns) /\ IsList(d.tables[i].foreign_keys)
    BY <1>3, DatabaseLists, ListIs
  <2> QED
    BY <2>1, ReverseAlike
<1>4. CASE e = [d EXCEPT !.tables =
                    [i \in DOMAIN d.tables |-> [d.tables[i] EXCEPT !.foreign_keys = Reverse(@)]]]
  <2> DEFINE q == [i \in DOMAIN d.tables |->
                    [d.tables[i] EXCEPT !.foreign_keys = Reverse(d.tables[i].foreign_keys)]]
  <2>1. e = [d EXCEPT !.tables = q]
    BY <1>4
  <2>2. ASSUME NEW i \in DOMAIN d.tables
        PROVE  /\ SameTable(d.tables[i], q[i])
               /\ IsList(q[i].columns) /\ IsList(q[i].foreign_keys)
    <3> DEFINE t == d.tables[i]
               k == Reverse(t.foreign_keys)
               u == [t EXCEPT !.foreign_keys = k]
    <3>1. t \in AnyTable /\ IsList(t.columns) /\ IsList(k) /\ Alike(t.foreign_keys, k)
      BY <1>3, <2>2
    <3> HIDE DEF t, k
    <3>2. /\ u.schema = t.schema /\ u.name = t.name /\ u.indexes = t.indexes
          /\ u.without_rowid = t.without_rowid /\ u.strict = t.strict /\ u.columns = t.columns
          /\ u.foreign_keys = k
      BY <3>1 DEF AnyTable
    <3> HIDE DEF u
    <3>3. SameTable(t, u) /\ IsList(u.columns) /\ IsList(u.foreign_keys)
      BY <3>1, <3>2, AlikeItself DEF SameTable
    <3>4. q[i] = u
      BY <2>2 DEF u, t, k
    <3> QED
      BY <3>3, <3>4 DEF t
  <2>3. q = [i \in DOMAIN d.tables |-> q[i]]
    OBVIOUS
  <2> HIDE DEF q
  <2> QED
    BY <2>1, <2>2, <2>3, TablesInTheirPlaces
<1>5. CASE e = [d EXCEPT !.tables =
                    [i \in DOMAIN d.tables |-> [d.tables[i] EXCEPT !.columns = Reverse(@)]]]
  <2> DEFINE q == [i \in DOMAIN d.tables |->
                    [d.tables[i] EXCEPT !.columns = Reverse(d.tables[i].columns)]]
  <2>1. e = [d EXCEPT !.tables = q]
    BY <1>5
  <2>2. ASSUME NEW i \in DOMAIN d.tables
        PROVE  /\ SameTable(d.tables[i], q[i])
               /\ IsList(q[i].columns) /\ IsList(q[i].foreign_keys)
    <3> DEFINE t == d.tables[i]
               c == Reverse(t.columns)
               u == [t EXCEPT !.columns = c]
    <3>1. t \in AnyTable /\ IsList(t.foreign_keys) /\ IsList(c) /\ Alike(t.columns, c)
      BY <1>3, <2>2
    <3> HIDE DEF t, c
    <3>2. /\ u.schema = t.schema /\ u.name = t.name /\ u.indexes = t.indexes
          /\ u.without_rowid = t.without_rowid /\ u.strict = t.strict
          /\ u.foreign_keys = t.foreign_keys /\ u.columns = c
      BY <3>1 DEF AnyTable
    <3> HIDE DEF u
    <3>3. SameTable(t, u) /\ IsList(u.columns) /\ IsList(u.foreign_keys)
      BY <3>1, <3>2, AlikeItself DEF SameTable
    <3>4. q[i] = u
      BY <2>2 DEF u, t, c
    <3> QED
      BY <3>3, <3>4 DEF t
  <2>3. q = [i \in DOMAIN d.tables |-> q[i]]
    OBVIOUS
  <2> HIDE DEF q
  <2> QED
    BY <2>1, <2>2, <2>3, TablesInTheirPlaces
<1> QED
  BY <1>1, <1>4, <1>5 DEF Arrangements

-----------------------------------------------------------------------------
(* The command. *)

\* The report that is out is that of the database, with its exit code.
Reported ==
    pc = "done" =>
        /\ report = validate(database)
        /\ exit = IF validate(database).summary.finding_count > 0 THEN 5 ELSE 0

CommandInv == database \in Databases /\ pc \in {"idle", "done", "documented"} /\ Reported

\* The invariant of the command.
THEOREM CommandHolds == Spec => []CommandInv
<1>1. Init => CommandInv
  BY DEF Init, CommandInv, Reported
<1>2. CommandInv /\ [Next]_vars => CommandInv'
  <2> SUFFICES ASSUME CommandInv, [Next]_vars PROVE CommandInv'
    OBVIOUS
  <2> USE DEF CommandInv
  <2>1. CASE Validate
    <3>1. PICK e \in Arrangements(database) : report' = validate(e)
      BY <2>1 DEF Validate
    <3>2. validate(database) = validate(e)
      BY <3>1, ArrangementsAreRearranged, SameReport
    <3>3. /\ database' = database /\ pc' = "done"
          /\ exit' = IF report'.summary.finding_count > 0 THEN 5 ELSE 0
      BY <2>1 DEF Validate
    <3>4. validate(database)' = validate(database)
      BY <3>3
    <3> QED
      BY <3>1, <3>2, <3>3, <3>4 DEF Reported
  <2>2. CASE Document
    BY <2>2 DEF Document, Reported
  <2>3. CASE Again
    BY <2>3 DEF Again, Reported
  <2>4. CASE UNCHANGED vars
    BY <2>4 DEF vars, Reported
  <2> QED
    BY <2>1, <2>2, <2>3, <2>4 DEF Next
<1> QED
  BY <1>1, <1>2, PTL DEF Spec

\* The report is a function of the schema, whichever way the tables, the columns
\* and the keys came, the hash maps were walked and Tarjan's search went
\* (validation.rs:49-99).
THEOREM ReportsAreDeterministic == Spec => []ReportIsDeterministic
<1>1. CommandInv => ReportIsDeterministic
  BY DEF CommandInv, Reported, ReportIsDeterministic
<1> QED
  BY <1>1, CommandHolds, PTL

-----------------------------------------------------------------------------
(* The report of the rules. *)

\* A table is found with invalid metadata where its schema, its name or the name
\* of a column is empty, or the position of one is zero.
LEMMA FoundInvalid ==
    ASSUME NEW d \in Databases, NEW t \in ToSet(d.tables)
    PROVE  FoundOf(invalid_metadata(d), t) <=>
            \/ "" \in {t.schema, t.name} \cup ColumnNames(t)
            \/ \E c \in ToSet(t.columns) : c.ordinal_position = 0
<1> DEFINE Bad == \/ t.schema = "" \/ t.name = ""
                  \/ \E k \in DOMAIN t.columns : InvalidColumn(t.columns[k])
<1>1. PICK i \in DOMAIN d.tables : t = d.tables[i]
  BY DEF ToSet
<1>2. Proper(d) /\ Distinguished(d)
  BY DatabasesAreProper, DatabasesAreDistinguished
<1>3. \A x : x \in ToSet(invalid_metadata(d)) <=>
        \/ (d.database = "" \/ d.engine_version = "") /\ x = Unnamed(NoTable, <<>>)
        \/ \E j \in DOMAIN d.tables : InvalidIn(d.tables[j], x)
        \/ \E j \in DOMAIN d.views : InvalidIn(d.views[j], x)
  BY <1>2, InvalidMetadata DEF Proper
<1>4. \A o, columns : /\ Unnamed(o, columns).schema = o.schema
                      /\ Unnamed(o, columns).table = o.name
  BY FindingFields DEF Unnamed
<1>5. \A o, x : InvalidIn(o, x) => x.schema = o.schema /\ x.table = o.name
  BY <1>4 DEF InvalidIn
<1>6. ASSUME FoundOf(invalid_metadata(d), t) PROVE Bad
  <2>1. PICK f \in ToSet(invalid_metadata(d)) : <<f.schema, f.table>> = Id(t)
    BY <1>6 DEF FoundOf
  <2>2. f.schema = t.schema /\ f.table = t.name
    BY <2>1 DEF Id
  <2>3. CASE f = Unnamed(NoTable, <<>>)
    BY <1>4, <2>2, <2>3 DEF NoTable
  <2>4. CASE \E j \in DOMAIN d.tables : InvalidIn(d.tables[j], f)
    <3>1. PICK j \in DOMAIN d.tables : InvalidIn(d.tables[j], f)
      BY <2>4
    <3>2. Id(d.tables[j]) = Id(d.tables[i])
      BY <1>1, <1>5, <2>2, <3>1 DEF Id
    <3>3. InvalidIn(t, f)
      BY <1>1, <1>2, <3>1, <3>2 DEF Distinguished
    <3> QED
      BY <3>3 DEF InvalidIn
  <2>5. ASSUME NEW j \in DOMAIN d.views, InvalidIn(d.views[j], f) PROVE FALSE
    <3>1. Id(d.tables[i]) = Id(d.views[j])
      BY <1>1, <1>5, <2>2, <2>5 DEF Id
    <3> QED
      BY <1>2, <3>1 DEF Distinguished
  <2> QED
    BY <1>3, <2>1, <2>3, <2>4, <2>5
<1>7. ASSUME Bad PROVE FoundOf(invalid_metadata(d), t)
  <2>1. PICK x : InvalidIn(t, x)
    BY <1>7 DEF InvalidIn
  <2>2. x \in ToSet(invalid_metadata(d))
    BY <1>1, <1>3, <2>1
  <2>3. <<x.schema, x.table>> = Id(t)
    BY <1>5, <2>1 DEF Id
  <2> QED
    BY <2>2, <2>3 DEF FoundOf
<1>8. Bad <=> \/ "" \in {t.schema, t.name} \cup ColumnNames(t)
              \/ \E c \in ToSet(t.columns) : c.ordinal_position = 0
  BY DEF InvalidColumn, ColumnNames, ToSet
<1> QED
  BY <1>6, <1>7, <1>8

\* A table is reported under a rule exactly when the rule's documentation
\* describes it, and the exit code is 0 exactly when there is no finding
\* (validation.rs:101-297).
THEOREM ReportsMatchTheRules == Spec => []ReportMatchesRules
<1>1. ASSUME CommandInv, pc = "done"
      PROVE  /\ \A rule \in TableRules : \A t \in Tables :
                    Describes(rule, t) <=> \E f \in Found(rule) : <<f.schema, f.table>> = Id(t)
             /\ exit = 0 <=> DOMAIN report.findings = {}
  <2>1. database \in Databases /\ Proper(database) /\ report = validate(database)
        /\ exit = IF validate(database).summary.finding_count > 0 THEN 5 ELSE 0
    BY <1>1, DatabasesAreProper DEF CommandInv, Reported
  <2>2. DOMAIN report.findings = ToSet(Findings(database))
    BY <2>1, Reports
  <2>3. exit = 0 <=> DOMAIN report.findings = {}
    BY <2>1, Reports
  <2>4. ASSUME NEW rule \in TableRules, NEW t \in Tables
        PROVE  Describes(rule, t) <=> \E f \in Found(rule) : <<f.schema, f.table>> = Id(t)
    <3> DEFINE S == ToSet(Findings(database))
               Of(q) == FoundOf(q, t)
    <3>1. (\E f \in Found(rule) : <<f.schema, f.table>> = Id(t)) <=>
            \E f \in S : f.rule = rule /\ <<f.schema, f.table>> = Id(t)
      BY <2>2 DEF Found
    <3>2. /\ \A f : f \in S <=>
                \/ f \in ToSet(missing_primary_keys(database))
                \/ f \in ToSet(broken_foreign_keys(database))
                \/ f \in ToSet(duplicate_indexes(database))
                \/ f \in ToSet(circular_references(database))
                \/ f \in ToSet(invalid_metadata(database))
                \/ f \in ToSet(sqlite_without_rowid_missing_primary_key(database))
                \/ f \in ToSet(sqlite_strict_missing_default_on_not_null(database))
      BY <2>1, AllFindings
    <3>3. t \in ToSet(database.tables)
      BY DEF Tables
    <3>4. CASE rule = "MissingPrimaryKey"
      <4>1. {f \in S : f.rule = rule} = ToSet(missing_primary_keys(database))
        BY <2>1, <3>2, <3>4, RuleNames
      <4>2. Describes(rule, t) <=> ~ \E c \in ToSet(t.columns) : c.primary_key
        BY <3>4 DEF Describes
      <4> QED
        BY <2>1, <3>1, <3>3, <4>1, <4>2, FoundWithoutKey DEF FoundOf
    <3>5. CASE rule = "BrokenForeignKey"
      <4>1. {f \in S : f.rule = rule} = ToSet(broken_foreign_keys(database))
        BY <2>1, <3>2, <3>5, RuleNames
      <4>2. Describes(rule, t) <=> \E fk \in ToSet(t.foreign_keys) :
                ~ \E u \in ToSet(database.tables) :
                    /\ Id(u) = fk.table
                    /\ Len(fk.columns) = Len(fk.referenced)
                    /\ ToSet(fk.referenced) \subseteq ColumnNames(u)
        BY <3>5 DEF Describes, Tables
      <4>3. Describes(rule, t) <=> \E fk \in ToSet(t.foreign_keys) : Broken(database, fk)
        BY <2>1, <4>2, BrokenIs
      <4> QED
        BY <2>1, <3>1, <3>3, <4>1, <4>3, FoundBroken DEF FoundOf
    <3>6. CASE rule = "DuplicateIndex"
      <4>1. {f \in S : f.rule = rule} = ToSet(duplicate_indexes(database))
        BY <2>1, <3>2, <3>6, RuleNames
      <4>2. Describes(rule, t) <=> \E i, j \in DOMAIN t.indexes :
                /\ i # j
                /\ t.indexes[i].columns = t.indexes[j].columns
                /\ t.indexes[i].unique = t.indexes[j].unique
        BY <3>6 DEF Describes
      <4> QED
        BY <2>1, <3>1, <3>3, <4>1, <4>2, FoundDuplicate DEF FoundOf
    <3>7. CASE rule = "InvalidMetadata"
      <4>1. {f \in S : f.rule = rule} = ToSet(invalid_metadata(database))
        BY <2>1, <3>2, <3>7, RuleNames
      <4>2. Describes(rule, t) <=>
                \/ "" \in {t.schema, t.name} \cup ColumnNames(t)
                \/ \E c \in ToSet(t.columns) : c.ordinal_position = 0
        BY <3>7 DEF Describes
      <4> QED
        BY <2>1, <3>1, <3>3, <4>1, <4>2, FoundInvalid DEF FoundOf
    <3>8. CASE rule = "SqliteWithoutRowidMissingPrimaryKey"
      <4>1. {f \in S : f.rule = rule} = ToSet(sqlite_without_rowid_missing_primary_key(database))
        BY <2>1, <3>2, <3>8, RuleNames
      <4>2. Describes(rule, t) <=>
                /\ database.engine = "sqlite" /\ t.without_rowid
                /\ ~ \E c \in ToSet(t.columns) : c.primary_key
        BY <3>8 DEF Describes
      <4> QED
        BY <2>1, <3>1, <3>3, <4>1, <4>2, FoundWithoutRowid DEF FoundOf
    <3>9. CASE rule = "SqliteStrictMissingDefaultOnNotNull"
      <4>1. {f \in S : f.rule = rule} = ToSet(sqlite_strict_missing_default_on_not_null(database))
        BY <2>1, <3>2, <3>9, RuleNames
      <4>2. Describes(rule, t) <=>
                /\ database.engine = "sqlite" /\ t.strict
                /\ \E c \in ToSet(t.columns) : NeedsDefault(c)
        BY <3>9 DEF Describes, NeedsDefault
      <4> QED
        BY <2>1, <3>1, <3>3, <4>1, <4>2, FoundStrict DEF FoundOf
    <3> QED
      BY <3>4, <3>5, <3>6, <3>7, <3>8, <3>9 DEF TableRules
  <2> QED
    BY <2>3, <2>4
<1>2. CommandInv => ReportMatchesRules
  BY <1>1 DEF ReportMatchesRules
<1> QED
  BY <1>2, CommandHolds, PTL

-----------------------------------------------------------------------------
(* Cycles. *)

\* The graph of the database.
Keyed == Adjacency(database)
IdAt(i) == Id(database.tables[i])

\* The tables a table references are those its node has edges to.
LEMMA EdgesAre ==
    ASSUME Proper(database)
    PROVE  /\ IsGraph(Keyed) /\ Nodes(Keyed) = DOMAIN database.tables
           /\ TableIds = {IdAt(i) : i \in Nodes(Keyed)}
           /\ \A i, j \in Nodes(Keyed) : IdAt(i) = IdAt(j) => i = j
           /\ \A i \in Nodes(Keyed) :
                /\ Successors(Keyed, i) \subseteq Nodes(Keyed)
                /\ Edges(IdAt(i)) = {IdAt(j) : j \in Successors(Keyed, i)}
<1>1. Readable(database) /\ DistinctIds(database)
  BY DEF Proper
<1>2. IsGraph(Keyed) /\ Nodes(Keyed) = DOMAIN database.tables
  BY <1>1, GraphOfTables DEF Keyed
<1>3. ToSet(database.tables) = {database.tables[i] : i \in DOMAIN database.tables}
  BY DEF ToSet
<1>4. TableIds = {IdAt(i) : i \in Nodes(Keyed)}
  BY <1>2, <1>3 DEF TableIds, Tables, IdAt
<1>5. \A i, j \in Nodes(Keyed) : IdAt(i) = IdAt(j) => i = j
  BY <1>1, <1>2 DEF DistinctIds, IdAt
<1>6. ASSUME NEW i \in Nodes(Keyed)
      PROVE  /\ Successors(Keyed, i) \subseteq Nodes(Keyed)
             /\ Edges(IdAt(i)) = {IdAt(j) : j \in Successors(Keyed, i)}
  <2> DEFINE t == database.tables[i]
  <2>1. \A x : x \in Successors(Keyed, i) <=>
            /\ x \in Nodes(Keyed)
            /\ \E k \in DOMAIN t.foreign_keys :
                Lookup(database.tables, t.foreign_keys[k].table) = x
    BY <1>1, <1>2, <1>6, GraphOfTables DEF Keyed
  <2>2. \A x \in Nodes(Keyed) : \A id :
            Lookup(database.tables, id) = x <=> IdAt(x) = id
    BY <1>1, <1>2, LookupFinds DEF IdAt
  <2>3. {u \in Tables : Id(u) = IdAt(i)} = {t}
    BY <1>2, <1>3, <1>5, <1>6 DEF Tables, IdAt
  <2>4. Edges(IdAt(i)) = References(t)
    BY <2>3 DEF Edges
  <2> HIDE DEF t
  <2>5. \A x : x \in Successors(Keyed, i) <=>
            /\ x \in Nodes(Keyed)
            /\ \E fk \in ToSet(t.foreign_keys) : IdAt(x) = fk.table
    BY <2>1, <2>2 DEF ToSet
  <2>6. References(t) = {IdAt(j) : j \in Successors(Keyed, i)}
    BY <1>4, <2>5 DEF References
  <2> QED
    BY <2>4, <2>5, <2>6
<1> QED
  BY <1>2, <1>4, <1>5, <1>6

\* Foreign keys lead from one table to another where the nodes' edges do.
LEMMA LeadsIs ==
    ASSUME Proper(database), NEW i \in Nodes(Keyed), NEW j \in Nodes(Keyed)
    PROVE  Leads(IdAt(i), IdAt(j)) <=> LeadsTo(Keyed, i, j)
<1>1. ASSUME Leads(IdAt(i), IdAt(j)) PROVE LeadsTo(Keyed, i, j)
  <2> DEFINE R == {x \in Nodes(Keyed) : \E k \in Successors(Keyed, i) : Reaches(Keyed, k, x)}
             S == {IdAt(x) : x \in R}
  <2>1. S \in SUBSET TableIds
    BY EdgesAre
  <2>2. Edges(IdAt(i)) \subseteq S
    BY EdgesAre, Paths
  <2>3. ASSUME NEW c \in S PROVE Edges(c) \subseteq S
    <3>1. PICK x \in R : c = IdAt(x)
      BY <2>3
    <3>2. \A y \in Successors(Keyed, x) : y \in R
      <4>1. PICK k \in Successors(Keyed, i) : Reaches(Keyed, k, x)
        BY <3>1
      <4>2. ASSUME NEW y \in Successors(Keyed, x) PROVE y \in Nodes(Keyed) /\ Reaches(Keyed, k, y)
        BY <3>1, <4>1, <4>2, EdgesAre, Paths
      <4> QED
        BY <4>1, <4>2
    <3>3. Edges(c) = {IdAt(y) : y \in Successors(Keyed, x)}
      BY <3>1, EdgesAre
    <3> QED
      BY <3>2, <3>3
  <2>4. IdAt(j) \in S
    <3> HIDE DEF S
    <3> QED
      BY <1>1, <2>1, <2>2, <2>3 DEF Leads
  <2>5. j \in R
    BY <2>4, EdgesAre
  <2> QED
    BY <2>5 DEF LeadsTo
<1>2. ASSUME LeadsTo(Keyed, i, j) PROVE Leads(IdAt(i), IdAt(j))
  <2>1. PICK k \in Successors(Keyed, i) : Reaches(Keyed, k, j)
    BY <1>2 DEF LeadsTo
  <2>2. SUFFICES ASSUME NEW S \in SUBSET TableIds, Edges(IdAt(i)) \subseteq S,
                        \A c \in S : Edges(c) \subseteq S
                 PROVE  IdAt(j) \in S
    BY DEF Leads
  <2> DEFINE R == {x \in Nodes(Keyed) : IdAt(x) \in S}
  <2>3. k \in R
    BY <2>1, <2>2, EdgesAre
  <2>4. Closed(Keyed, R)
    <3>1. ASSUME NEW x \in R PROVE Successors(Keyed, x) \subseteq R
      <4>1. Edges(IdAt(x)) \subseteq S
        BY <2>2, <3>1
      <4> QED
        BY <3>1, <4>1, EdgesAre
    <3> QED
      BY <3>1 DEF Closed
  <2>5. j \in R
    BY <2>1, <2>3, <2>4 DEF Reaches
  <2> QED
    BY <2>5
<1> QED
  BY <1>1, <1>2

\* The tables that lead to each other are those of a component whose nodes do.
LEMMA CyclesAre ==
    ASSUME Proper(database)
    PROVE  Cycles = {{IdAt(j) : j \in Component(Keyed, i)} :
                        i \in {k \in Nodes(Keyed) : LeadsTo(Keyed, k, k)}}
<1> DEFINE Mutual(a) == {b \in TableIds : Leads(a, b) /\ Leads(b, a)}
<1>1. IsGraph(Keyed) /\ TableIds = {IdAt(i) : i \in Nodes(Keyed)}
  BY EdgesAre
<1>2. ASSUME NEW i \in Nodes(Keyed)
      PROVE  Mutual(IdAt(i)) = IF LeadsTo(Keyed, i, i)
                               THEN {IdAt(j) : j \in Component(Keyed, i)} ELSE {}
  <2>1. Mutual(IdAt(i)) =
            {IdAt(j) : j \in {k \in Nodes(Keyed) : LeadsTo(Keyed, i, k) /\ LeadsTo(Keyed, k, i)}}
    BY <1>1, <1>2, LeadsIs
  <2>2. \A x, y : LeadsTo(Keyed, x, y) => Reaches(Keyed, x, y)
    BY Paths DEF LeadsTo
  <2>3. \A x, y, z : LeadsTo(Keyed, x, y) /\ Reaches(Keyed, y, z) => LeadsTo(Keyed, x, z)
    BY Paths DEF LeadsTo
  <2>4. CASE LeadsTo(Keyed, i, i)
    <3>1. ASSUME NEW k \in Nodes(Keyed)
          PROVE  k \in Component(Keyed, i) <=> LeadsTo(Keyed, i, k) /\ LeadsTo(Keyed, k, i)
      <4>1. k \in Component(Keyed, i) => LeadsTo(Keyed, i, k) /\ LeadsTo(Keyed, k, i)
        BY <1>1, <2>3, <2>4, <3>1, FirstStep DEF Component
      <4> QED
        BY <2>2, <4>1 DEF Component
    <3>2. Component(Keyed, i) \subseteq Nodes(Keyed)
      BY DEF Component
    <3> QED
      BY <2>1, <2>4, <3>1, <3>2
  <2>5. CASE ~LeadsTo(Keyed, i, i)
    BY <2>1, <2>2, <2>3, <2>5
  <2> QED
    BY <2>4, <2>5
<1>3. ASSUME NEW i \in Nodes(Keyed) PROVE {IdAt(j) : j \in Component(Keyed, i)} # {}
  BY <1>3, Paths DEF Component
<1>4. Cycles = {Mutual(IdAt(i)) : i \in Nodes(Keyed)} \ {{}}
  BY <1>1 DEF Cycles
<1> HIDE DEF Mutual
<1> QED
  BY <1>2, <1>3, <1>4

\* There is one circular finding for each set of tables that lead to each other
\* over foreign keys, and it names them all (validation.rs:239-297).
THEOREM CyclesAreAllReported == Spec => []CyclesAreReported
<1>1. ASSUME CommandInv, pc = "done"
      PROVE  {f.tables : f \in Found("CircularReference")} =
                {{IF database.engine = "sqlserver" THEN a ELSE <<a[2]>> : a \in cycle} :
                    cycle \in Cycles}
  <2>1. Proper(database) /\ report = validate(database)
    BY <1>1, DatabasesAreProper DEF CommandInv, Reported
  <2>2. Found("CircularReference") = ToSet(circular_references(database))
    BY <2>1, Reports, AllFindings, RuleNames DEF Found
  <2> DEFINE I == {k \in Nodes(Keyed) : LeadsTo(Keyed, k, k)}
             Called(S) == {IF database.engine = "sqlserver" THEN a ELSE <<a[2]>> : a \in S}
  <2>3. Found("CircularReference") = {Circle(database, Component(Keyed, i)) : i \in I}
    BY <2>1, <2>2, CircularReferences, EdgesAre DEF Proper, Keyed
  <2>4. ASSUME NEW nodes
        PROVE  Circle(database, nodes).tables = Called({IdAt(j) : j \in nodes})
    <3>1. Circle(database, nodes).tables = {NamedTable(database, j) : j \in nodes}
      BY DEF Circle, Finding
    <3>2. \A j : NamedTable(database, j) =
                IF database.engine = "sqlserver" THEN IdAt(j) ELSE <<IdAt(j)[2]>>
      BY DEF NamedTable, IdAt, Id
    <3> QED
      BY <3>1, <3>2
  <2>5. Cycles = {{IdAt(j) : j \in Component(Keyed, i)} : i \in I}
    BY <2>1, CyclesAre
  <2> HIDE DEF I, Called
  <2>6. {f.tables : f \in Found("CircularReference")} = {Called(c) : c \in Cycles}
    <3> DEFINE C(i) == {IdAt(j) : j \in Component(Keyed, i)}
               F(i) == Circle(database, Component(Keyed, i))
    <3>1. \A i : F(i).tables = Called(C(i))
      BY <2>4
    <3>2. Found("CircularReference") = {F(i) : i \in I} /\ Cycles = {C(i) : i \in I}
      BY <2>3, <2>5
    <3> HIDE DEF C, F
    <3> QED
      BY <3>1, <3>2
  <2> QED
    BY <2>6 DEF Called
<1>2. CommandInv => CyclesAreReported
  BY <1>1 DEF CyclesAreReported
<1> QED
  BY <1>2, CommandHolds, PTL

-----------------------------------------------------------------------------
(* Sorting. *)

\* sort_by, with the pairs of which the first comes before the second.
Before(s, R, i) ==
    {j \in DOMAIN s : <<s[j], s[i]>> \in R \/ (<<s[i], s[j]>> \notin R /\ j < i)}
PlaceOf(s, R) == [i \in DOMAIN s |-> 1 + Cardinality(Before(s, R, i))]
SortedBy(s, R) == [k \in DOMAIN s |-> s[CHOOSE i \in DOMAIN s : PlaceOf(s, R)[i] = k]]

\* No two items of the list are at one place in the order.
Orders(s, R) ==
    /\ \A i \in DOMAIN s : <<s[i], s[i]>> \notin R
    /\ \A i, j \in DOMAIN s : i # j => <<s[i], s[j]>> \in R \/ <<s[j], s[i]>> \in R
    /\ \A i, j, k \in DOMAIN s :
        <<s[i], s[j]>> \in R /\ <<s[j], s[k]>> \in R => <<s[i], s[k]>> \in R

\* There are n positions in a list of n items.
LEMMA LengthOf ==
    ASSUME NEW n \in Nat
    PROVE  IsFiniteSet(1 .. n) /\ Cardinality(1 .. n) = n
<1>1. 1 \in Int /\ n \in Int
  OBVIOUS
<1>2. IsFiniteSet(1 .. n) /\ Cardinality(1 .. n) = IF 1 > n THEN 0 ELSE n - 1 + 1
  BY <1>1, FS_Interval
<1> QED
  BY <1>2

\* Then each place is that of one item.
LEMMA PlacesAreTaken ==
    ASSUME NEW s, IsList(s), NEW R, Orders(s, R)
    PROVE  /\ \A i \in DOMAIN s : Before(s, R, i) = {j \in DOMAIN s : <<s[j], s[i]>> \in R}
           /\ \A i \in DOMAIN s : PlaceOf(s, R)[i] = 1 + Cardinality(Before(s, R, i))
           /\ \A i, j \in DOMAIN s : PlaceOf(s, R)[i] = PlaceOf(s, R)[j] => i = j
           /\ \A k \in DOMAIN s : \E i \in DOMAIN s : PlaceOf(s, R)[i] = k
<1> DEFINE n == Len(s)
           P == PlaceOf(s, R)
           B(i) == Before(s, R, i)
<1>1. n \in Nat /\ DOMAIN s = 1 .. n
  BY ListIs
<1>2. IsFiniteSet(DOMAIN s) /\ Cardinality(1 .. n) = n
  BY <1>1, LengthOf
<1>3. ASSUME NEW i \in DOMAIN s PROVE B(i) = {j \in DOMAIN s : <<s[j], s[i]>> \in R}
  BY <1>1, <1>3 DEF Before, Orders
<1>4. \A i \in DOMAIN s : P[i] = 1 + Cardinality(B(i))
  BY DEF PlaceOf
<1>5. ASSUME NEW i \in DOMAIN s
      PROVE  IsFiniteSet(B(i)) /\ Cardinality(B(i)) \in Nat /\ Cardinality(B(i)) < n
  <2>1. B(i) \subseteq DOMAIN s /\ i \notin B(i)
    BY <1>3, <1>5 DEF Orders
  <2>2. IsFiniteSet(B(i)) /\ Cardinality(B(i)) <= n
        /\ (Cardinality(B(i)) = n => B(i) = DOMAIN s)
    BY <1>1, <1>2, <2>1, FS_Subset
  <2>3. Cardinality(B(i)) \in Nat
    BY <2>2, FS_CardinalityType
  <2> QED
    BY <1>1, <1>5, <2>1, <2>2, <2>3
<1>6. ASSUME NEW i \in DOMAIN s, NEW j \in DOMAIN s, <<s[i], s[j]>> \in R
      PROVE  Cardinality(B(i)) < Cardinality(B(j))
  <2>1. B(i) \subseteq B(j)
    BY <1>3, <1>6 DEF Orders
  <2>2. i \in B(j) /\ i \notin B(i)
    BY <1>3, <1>6 DEF Orders
  <2> HIDE DEF B
  <2>3. Cardinality(B(i)) <= Cardinality(B(j)) /\ Cardinality(B(i)) # Cardinality(B(j))
    BY <1>5, <2>1, <2>2, FS_Subset
  <2> QED
    BY <1>5, <2>3
<1>7. ASSUME NEW i \in DOMAIN s, NEW j \in DOMAIN s, P[i] = P[j] PROVE i = j
  <2>1. SUFFICES ASSUME i # j PROVE FALSE
    OBVIOUS
  <2>2. <<s[i], s[j]>> \in R \/ <<s[j], s[i]>> \in R
    BY <2>1 DEF Orders
  <2> HIDE DEF B, P
  <2>3. Cardinality(B(i)) = Cardinality(B(j))
    BY <1>4, <1>5, <1>7
  <2>4. Cardinality(B(i)) \in Nat
    BY <1>5
  <2> QED
    BY <1>6, <2>2, <2>3, <2>4
<1>8. P \in Injection(1 .. n, 1 .. n)
  <2>1. P \in [1 .. n -> 1 .. n]
    <3>1. P = [i \in 1 .. n |-> P[i]]
      BY <1>1 DEF PlaceOf
    <3>2. ASSUME NEW i \in 1 .. n PROVE P[i] \in 1 .. n
      <4> HIDE DEF B, P
      <4> QED
        BY <1>1, <1>4, <1>5, <3>2
    <3> HIDE DEF P
    <3> QED
      BY <3>1, <3>2
  <2> HIDE DEF P
  <2> QED
    BY <1>1, <1>7, <2>1 DEF Injection, IsInjective
<1>9. P \in Surjection(1 .. n, 1 .. n)
  <2> HIDE DEF P
  <2> QED
    BY <1>1, <1>2, <1>8, FS_Injection
<1>10. \A k \in DOMAIN s : \E i \in DOMAIN s : P[i] = k
  <2> HIDE DEF P
  <2> QED
    BY <1>1, <1>9 DEF Surjection
<1> QED
  BY <1>3, <1>4, <1>7, <1>10

\* And the order the items come in is not told from what the sort returns.
LEMMA SortForgets ==
    ASSUME NEW p, NEW q, IsList(p), IsList(q), Alike(p, q), NEW R, Orders(p, R)
    PROVE  SortedBy(p, R) = SortedBy(q, R)
<1>1. PICK h : Reorders(h, p, q) /\ \A i \in DOMAIN p : q[h[i]] = p[i]
  BY DEF Alike
<1>2. Orders(q, R)
  <2>1. \A k \in DOMAIN q : \E i \in DOMAIN p : h[i] = k /\ q[k] = p[i]
    BY <1>1 DEF Reorders
  <2>2. ASSUME NEW k \in DOMAIN q PROVE <<q[k], q[k]>> \notin R
    BY <2>1, <2>2 DEF Orders
  <2>3. ASSUME NEW k \in DOMAIN q, NEW l \in DOMAIN q, k # l
        PROVE  <<q[k], q[l]>> \in R \/ <<q[l], q[k]>> \in R
    <3>1. PICK i \in DOMAIN p : h[i] = k /\ q[k] = p[i]
      BY <2>1
    <3>2. PICK j \in DOMAIN p : h[j] = l /\ q[l] = p[j]
      BY <2>1
    <3> QED
      BY <2>3, <3>1, <3>2 DEF Orders
  <2>4. ASSUME NEW k \in DOMAIN q, NEW l \in DOMAIN q, NEW m \in DOMAIN q,
               <<q[k], q[l]>> \in R, <<q[l], q[m]>> \in R
        PROVE  <<q[k], q[m]>> \in R
    <3>1. PICK i \in DOMAIN p : q[k] = p[i]
      BY <2>1
    <3>2. PICK j \in DOMAIN p : q[l] = p[j]
      BY <2>1
    <3>3. PICK r \in DOMAIN p : q[m] = p[r]
      BY <2>1
    <3> QED
      BY <2>4, <3>1, <3>2, <3>3 DEF Orders
  <2> QED
    BY <2>2, <2>3, <2>4 DEF Orders
<1>3. DOMAIN p = DOMAIN q
  <2>1. IsFiniteSet(DOMAIN p) /\ IsFiniteSet(DOMAIN q)
    BY FinitelyLong
  <2> DEFINE K == ToSet(p)
  <2>2. ToSet(q) = K
    BY AlikeMembers
  <2>3. {i \in DOMAIN p : p[i] \in K} = DOMAIN p /\ {i \in DOMAIN q : q[i] \in K} = DOMAIN q
    BY <2>2 DEF ToSet
  <2>4. Cardinality(DOMAIN p) = Cardinality(DOMAIN q)
    <3> HIDE DEF K
    <3> QED
      BY <2>1, <2>3, AlikeCount
  <2>5. /\ Len(p) \in Nat /\ DOMAIN p = 1 .. Len(p) /\ Cardinality(1 .. Len(p)) = Len(p)
        /\ Len(q) \in Nat /\ DOMAIN q = 1 .. Len(q) /\ Cardinality(1 .. Len(q)) = Len(q)
    BY LengthOf, ListIs
  <2> QED
    BY <2>4, <2>5
<1>4. ASSUME NEW i \in DOMAIN p PROVE PlaceOf(q, R)[h[i]] = PlaceOf(p, R)[i]
  <2> DEFINE K == {x \in ToSet(p) : <<x, p[i]>> \in R}
  <2>1. h[i] \in DOMAIN q /\ q[h[i]] = p[i]
    BY <1>1, <1>4 DEF Reorders
  <2>2. ToSet(q) = ToSet(p)
    BY AlikeMembers
  <2>3. Before(p, R, i) = {j \in DOMAIN p : p[j] \in K}
    <3>1. Before(p, R, i) = {j \in DOMAIN p : <<p[j], p[i]>> \in R}
      BY <1>4, PlacesAreTaken
    <3> QED
      BY <3>1 DEF ToSet
  <2>4. Before(q, R, h[i]) = {j \in DOMAIN q : q[j] \in K}
    <3>1. Before(q, R, h[i]) = {j \in DOMAIN q : <<q[j], q[h[i]]>> \in R}
      BY <1>2, <2>1, PlacesAreTaken
    <3> QED
      BY <2>1, <2>2, <3>1 DEF ToSet
  <2> HIDE DEF K
  <2>5. Cardinality(Before(p, R, i)) = Cardinality(Before(q, R, h[i]))
    <3>1. IsFiniteSet(DOMAIN p)
      BY FinitelyLong
    <3> QED
      BY <2>3, <2>4, <3>1, AlikeCount
  <2> QED
    BY <1>2, <1>4, <2>1, <2>5, PlacesAreTaken
<1>5. ASSUME NEW k \in DOMAIN p
      PROVE  p[CHOOSE i \in DOMAIN p : PlaceOf(p, R)[i] = k]
                = q[CHOOSE i \in DOMAIN q : PlaceOf(q, R)[i] = k]
  <2> DEFINE I == CHOOSE i \in DOMAIN p : PlaceOf(p, R)[i] = k
             J == CHOOSE i \in DOMAIN q : PlaceOf(q, R)[i] = k
  <2>1. I \in DOMAIN p /\ PlaceOf(p, R)[I] = k
    BY <1>5, PlacesAreTaken
  <2>2. J \in DOMAIN q /\ PlaceOf(q, R)[J] = k
    BY <1>2, <1>3, <1>5, PlacesAreTaken
  <2>3. h[I] \in DOMAIN q /\ PlaceOf(q, R)[h[I]] = k /\ q[h[I]] = p[I]
    BY <1>1, <1>4, <2>1 DEF Reorders
  <2> HIDE DEF I, J
  <2>4. h[I] = J
    BY <1>2, <2>2, <2>3, PlacesAreTaken
  <2> QED
    BY <2>3, <2>4 DEF I, J
<1> QED
  BY <1>3, <1>5 DEF SortedBy

\* And it has what the list has, as often.
LEMMA SortKeeps ==
    ASSUME NEW s, IsList(s), NEW R, Orders(s, R)
    PROVE  IsList(SortedBy(s, R)) /\ Alike(s, SortedBy(s, R))
<1> DEFINE r == SortedBy(s, R)
           h == PlaceOf(s, R)
           at(k) == CHOOSE i \in DOMAIN s : h[i] = k
<1>1. /\ \A i, j \in DOMAIN s : h[i] = h[j] => i = j
      /\ \A k \in DOMAIN s : at(k) \in DOMAIN s /\ h[at(k)] = k
      /\ \A i \in DOMAIN s : h[i] = 1 + Cardinality(Before(s, R, i))
  BY PlacesAreTaken
<1>2. r = [k \in DOMAIN s |-> s[at(k)]] /\ DOMAIN r = DOMAIN s
  BY DEF SortedBy
<1>3. h = [i \in DOMAIN s |-> h[i]]
  BY DEF PlaceOf
<1> HIDE DEF r, h
<1>4. ASSUME NEW i \in DOMAIN s PROVE h[i] \in DOMAIN s
  <2> DEFINE n == Len(s)
  <2>1. n \in Nat /\ DOMAIN s = 1 .. n
    BY ListIs
  <2>2. IsFiniteSet(DOMAIN s) /\ Cardinality(DOMAIN s) = n
    BY <2>1, LengthOf
  <2> DEFINE B == Before(s, R, i)
  <2>3. B \subseteq DOMAIN s /\ i \notin B
    <3>1. B = {j \in DOMAIN s : <<s[j], s[i]>> \in R}
      BY PlacesAreTaken
    <3> QED
      BY <3>1 DEF Orders
  <2>4. IsFiniteSet(B) /\ Cardinality(B) <= n /\ (Cardinality(B) = n => B = DOMAIN s)
    BY <2>2, <2>3, FS_Subset
  <2>5. Cardinality(B) \in Nat
    BY <2>4, FS_CardinalityType
  <2>6. h[i] = 1 + Cardinality(B)
    BY <1>1
  <2> HIDE DEF B, n
  <2> QED
    BY <2>1, <2>3, <2>4, <2>5, <2>6
<1>5. ASSUME NEW i \in DOMAIN s PROVE r[h[i]] = s[i]
  <2>1. at(h[i]) = i
    BY <1>1, <1>4
  <2> QED
    BY <1>2, <1>4, <2>1
<1>6. h \in [DOMAIN s -> DOMAIN r]
  BY <1>2, <1>3, <1>4
<1>7. Alike(s, r)
  BY <1>1, <1>2, <1>5, <1>6 DEF Alike, Reorders
<1>8. IsList(r)
  <2>1. Len(s) \in Nat /\ DOMAIN s = 1 .. Len(s) /\ \A i \in DOMAIN s : s[i] \in ToSet(s)
    BY ListIs
  <2>2. r \in [1 .. Len(s) -> ToSet(s)]
    BY <1>1, <1>2, <2>1
  <2>3. r \in Seq(ToSet(s))
    BY <2>1, <2>2
  <2> QED
    BY <2>3, ListIs
<1> QED
  BY <1>7, <1>8 DEF r

\* The orders of names, of positions and of Ids.
NameOrder(s) == {x \in ToSet(s) \X ToSet(s) : Rank[x[1].name] < Rank[x[2].name]}
OrdinalOrder(s) == {x \in ToSet(s) \X ToSet(s) : x[1].ordinal_position < x[2].ordinal_position}
IdOrder(s) == {x \in ToSet(s) \X ToSet(s) : Precedes(Id(x[1]), Id(x[2]))}

\* Each of the three sorts is the sort by a set of pairs: here by name,
LEMMA SortsByName == ASSUME NEW s PROVE ByName(s) = SortedBy(s, NameOrder(s))
<1> DEFINE R == NameOrder(s)
<1>1. \A i, j \in DOMAIN s : <<s[i], s[j]>> \in R <=> Rank[s[i].name] < Rank[s[j].name]
  BY DEF NameOrder, ToSet
<1> HIDE DEF R
<1>2. PlaceOf(s, R) = [i \in DOMAIN s |-> 1 + Cardinality({j \in DOMAIN s :
            Rank[s[j].name] < Rank[s[i].name]
            \/ (~(Rank[s[i].name] < Rank[s[j].name]) /\ j < i)})]
  <2>1. ASSUME NEW i \in DOMAIN s
        PROVE  Before(s, R, i) = {j \in DOMAIN s :
                    Rank[s[j].name] < Rank[s[i].name]
                    \/ (~(Rank[s[i].name] < Rank[s[j].name]) /\ j < i)}
    BY <1>1, <2>1 DEF Before
  <2> QED
    BY <2>1 DEF PlaceOf
<1> QED
  BY <1>2 DEF ByName, sort_by, SortedBy, R

\* by position,
LEMMA SortsByOrdinal == ASSUME NEW s PROVE ByOrdinal(s) = SortedBy(s, OrdinalOrder(s))
<1> DEFINE R == OrdinalOrder(s)
<1>1. \A i, j \in DOMAIN s :
        <<s[i], s[j]>> \in R <=> s[i].ordinal_position < s[j].ordinal_position
  BY DEF OrdinalOrder, ToSet
<1> HIDE DEF R
<1>2. PlaceOf(s, R) = [i \in DOMAIN s |-> 1 + Cardinality({j \in DOMAIN s :
            s[j].ordinal_position < s[i].ordinal_position
            \/ (~(s[i].ordinal_position < s[j].ordinal_position) /\ j < i)})]
  <2>1. ASSUME NEW i \in DOMAIN s
        PROVE  Before(s, R, i) = {j \in DOMAIN s :
                    s[j].ordinal_position < s[i].ordinal_position
                    \/ (~(s[i].ordinal_position < s[j].ordinal_position) /\ j < i)}
    BY <1>1, <2>1 DEF Before
  <2> QED
    BY <2>1 DEF PlaceOf
<1> QED
  BY <1>2 DEF ByOrdinal, sort_by, SortedBy, R

\* and by schema and name.
LEMMA SortsById == ASSUME NEW s PROVE ById(s) = SortedBy(s, IdOrder(s))
<1> DEFINE R == IdOrder(s)
<1>1. \A i, j \in DOMAIN s : <<s[i], s[j]>> \in R <=> Precedes(Id(s[i]), Id(s[j]))
  BY DEF IdOrder, ToSet
<1> HIDE DEF R
<1>2. PlaceOf(s, R) = [i \in DOMAIN s |-> 1 + Cardinality({j \in DOMAIN s :
            Precedes(Id(s[j]), Id(s[i])) \/ (~Precedes(Id(s[i]), Id(s[j])) /\ j < i)})]
  <2>1. ASSUME NEW i \in DOMAIN s
        PROVE  Before(s, R, i) = {j \in DOMAIN s :
                    Precedes(Id(s[j]), Id(s[i])) \/ (~Precedes(Id(s[i]), Id(s[j])) /\ j < i)}
    BY <1>1, <2>1 DEF Before
  <2> QED
    BY <2>1 DEF PlaceOf
<1> QED
  BY <1>2 DEF ById, sort_by, SortedBy, R

\* Items that are told apart by their names are sorted whichever way they come,
LEMMA NamesForget ==
    ASSUME NEW p, NEW q, IsList(p), IsList(q), Alike(p, q),
           \A i \in DOMAIN p : p[i].name \in DOMAIN Rank,
           \A i, j \in DOMAIN p : p[i].name = p[j].name => i = j
    PROVE  ByName(p) = ByName(q) /\ IsList(ByName(p)) /\ Alike(p, ByName(p))
<1>1. NameOrder(p) = NameOrder(q)
  BY AlikeMembers DEF NameOrder
<1>2. \A i, j \in DOMAIN p :
        <<p[i], p[j]>> \in NameOrder(p) <=> Rank[p[i].name] < Rank[p[j].name]
  BY DEF NameOrder, ToSet
<1>3. \A i \in DOMAIN p : Rank[p[i].name] \in Nat
  BY RankIsAnOrder
<1>4. \A i, j \in DOMAIN p : Rank[p[i].name] = Rank[p[j].name] => i = j
  BY RankIsAnOrder
<1>5. Orders(p, NameOrder(p))
  <2>1. \A x, y \in Nat : x < y \/ y < x \/ x = y
    OBVIOUS
  <2>2. \A i, j \in DOMAIN p :
            i # j => Rank[p[i].name] < Rank[p[j].name] \/ Rank[p[j].name] < Rank[p[i].name]
    BY <1>3, <1>4, <2>1
  <2>3. \A i \in DOMAIN p : ~(Rank[p[i].name] < Rank[p[i].name])
    BY <1>3
  <2>4. \A i, j, k \in DOMAIN p :
            Rank[p[i].name] < Rank[p[j].name] /\ Rank[p[j].name] < Rank[p[k].name]
                => Rank[p[i].name] < Rank[p[k].name]
    <3>1. \A x, y, z \in Nat : x < y /\ y < z => x < z
      OBVIOUS
    <3> QED
      BY <1>3, <3>1
  <2> QED
    BY <1>2, <2>2, <2>3, <2>4 DEF Orders
<1> QED
  BY <1>1, <1>5, SortForgets, SortKeeps, SortsByName

\* and so are those by their positions,
LEMMA OrdinalsForget ==
    ASSUME NEW p, NEW q, IsList(p), IsList(q), Alike(p, q),
           \A i \in DOMAIN p : p[i].ordinal_position \in Nat,
           \A i, j \in DOMAIN p : p[i].ordinal_position = p[j].ordinal_position => i = j
    PROVE  ByOrdinal(p) = ByOrdinal(q) /\ IsList(ByOrdinal(p)) /\ Alike(p, ByOrdinal(p))
<1>1. OrdinalOrder(p) = OrdinalOrder(q)
  BY AlikeMembers DEF OrdinalOrder
<1>2. \A i, j \in DOMAIN p :
        <<p[i], p[j]>> \in OrdinalOrder(p) <=> p[i].ordinal_position < p[j].ordinal_position
  BY DEF OrdinalOrder, ToSet
<1>3. Orders(p, OrdinalOrder(p))
  <2>1. \A x, y \in Nat : x < y \/ y < x \/ x = y
    OBVIOUS
  <2>2. \A i, j \in DOMAIN p : i # j =>
            p[i].ordinal_position < p[j].ordinal_position
            \/ p[j].ordinal_position < p[i].ordinal_position
    BY <2>1
  <2>3. \A i \in DOMAIN p : ~(p[i].ordinal_position < p[i].ordinal_position)
    OBVIOUS
  <2>4. \A i, j, k \in DOMAIN p :
            p[i].ordinal_position < p[j].ordinal_position
            /\ p[j].ordinal_position < p[k].ordinal_position
                => p[i].ordinal_position < p[k].ordinal_position
    <3>1. \A x, y, z \in Nat : x < y /\ y < z => x < z
      OBVIOUS
    <3> QED
      BY <3>1
  <2> QED
    BY <1>2, <2>2, <2>3, <2>4 DEF Orders
<1> QED
  BY <1>1, <1>3, SortForgets, SortKeeps, SortsByOrdinal

\* and by their Ids.
LEMMA IdsForget ==
    ASSUME NEW p, NEW q, IsList(p), IsList(q), Alike(p, q),
           \A i \in DOMAIN p : p[i].schema \in DOMAIN Rank /\ p[i].name \in DOMAIN Rank,
           \A i, j \in DOMAIN p : Id(p[i]) = Id(p[j]) => i = j
    PROVE  ById(p) = ById(q) /\ IsList(ById(p)) /\ Alike(p, ById(p))
<1>1. IdOrder(p) = IdOrder(q)
  BY AlikeMembers DEF IdOrder
<1> DEFINE S(i) == Rank[p[i].schema]
           N(i) == Rank[p[i].name]
<1>2. \A i \in DOMAIN p : S(i) \in Nat /\ N(i) \in Nat
  BY RankIsAnOrder
<1>3. \A i, j \in DOMAIN p : S(i) = S(j) <=> p[i].schema = p[j].schema
  BY RankIsAnOrder
<1>4. \A i, j \in DOMAIN p : N(i) = N(j) <=> p[i].name = p[j].name
  BY RankIsAnOrder
<1>5. \A i, j \in DOMAIN p : S(i) = S(j) /\ N(i) = N(j) => i = j
  BY <1>3, <1>4 DEF Id
<1>6. ASSUME NEW i \in DOMAIN p, NEW j \in DOMAIN p
      PROVE  <<p[i], p[j]>> \in IdOrder(p) <=> S(i) < S(j) \/ (S(i) = S(j) /\ N(i) < N(j))
  <2>1. <<p[i], p[j]>> \in IdOrder(p) <=> Precedes(Id(p[i]), Id(p[j]))
    BY DEF IdOrder, ToSet
  <2>2. /\ DOMAIN Id(p[i]) = {1, 2}
        /\ Id(p[i])[1] = p[i].schema /\ Id(p[i])[2] = p[i].name
        /\ Id(p[j])[1] = p[j].schema /\ Id(p[j])[2] = p[j].name
    BY DEF Id
  <2>3. Precedes(Id(p[i]), Id(p[j])) <=>
            \/ S(i) < S(j) /\ \A k \in 1 .. 0 : Id(p[i])[k] = Id(p[j])[k]
            \/ N(i) < N(j) /\ \A k \in 1 .. 1 : Id(p[i])[k] = Id(p[j])[k]
    BY <2>2 DEF Precedes
  <2>4. 1 .. 0 = {} /\ 1 .. 1 = {1}
    OBVIOUS
  <2>5. Precedes(Id(p[i]), Id(p[j])) <=> S(i) < S(j) \/ (N(i) < N(j) /\ p[i].schema = p[j].schema)
    BY <2>2, <2>3, <2>4
  <2> HIDE DEF S, N
  <2> QED
    BY <1>3, <2>1, <2>5
<1> HIDE DEF S, N
<1>7. Orders(p, IdOrder(p))
  <2>1. \A i \in DOMAIN p : <<p[i], p[i]>> \notin IdOrder(p)
    BY <1>2, <1>6
  <2>2. \A i, j \in DOMAIN p :
            i # j => <<p[i], p[j]>> \in IdOrder(p) \/ <<p[j], p[i]>> \in IdOrder(p)
    <3>1. ASSUME NEW i \in DOMAIN p, NEW j \in DOMAIN p, i # j
          PROVE  <<p[i], p[j]>> \in IdOrder(p) \/ <<p[j], p[i]>> \in IdOrder(p)
      <4>1. S(i) \in Nat /\ N(i) \in Nat /\ S(j) \in Nat /\ N(j) \in Nat
        BY <1>2
      <4>2. ~(S(i) = S(j) /\ N(i) = N(j))
        BY <1>5, <3>1
      <4> QED
        BY <1>6, <4>1, <4>2
    <3> QED
      BY <3>1
  <2>3. \A i, j, k \in DOMAIN p :
            <<p[i], p[j]>> \in IdOrder(p) /\ <<p[j], p[k]>> \in IdOrder(p)
                => <<p[i], p[k]>> \in IdOrder(p)
    <3>1. ASSUME NEW i \in DOMAIN p, NEW j \in DOMAIN p, NEW k \in DOMAIN p,
                 <<p[i], p[j]>> \in IdOrder(p), <<p[j], p[k]>> \in IdOrder(p)
          PROVE  <<p[i], p[k]>> \in IdOrder(p)
      <4>1. /\ S(i) \in Nat /\ N(i) \in Nat /\ S(j) \in Nat /\ N(j) \in Nat
            /\ S(k) \in Nat /\ N(k) \in Nat
        BY <1>2
      <4>2. /\ S(i) < S(j) \/ (S(i) = S(j) /\ N(i) < N(j))
            /\ S(j) < S(k) \/ (S(j) = S(k) /\ N(j) < N(k))
        BY <1>6, <3>1
      <4> QED
        BY <1>6, <4>1, <4>2
    <3> QED
      BY <3>1
  <2> QED
    BY <2>1, <2>2, <2>3 DEF Orders
<1> QED
  BY <1>1, <1>7, SortForgets, SortKeeps, SortsById

\* An arrangement is of the same types.
LEMMA ArrangementsAreTyped ==
    ASSUME NEW d \in Databases, NEW e \in Arrangements(d)
    PROVE  e.tables \in Seq(AnyTable) /\ e = [d EXCEPT !.tables = e.tables]
<1>1. d \in AnyDatabase /\ d.tables \in Seq(AnyTable)
  BY DatabaseLists
<1>2. \A q : [d EXCEPT !.tables = q].tables = q
  BY <1>1 DEF AnyDatabase
<1>3. ASSUME NEW i \in DOMAIN d.tables, NEW j \in DOMAIN d.tables
      PROVE  [d.tables EXCEPT ![i] = d.tables[j], ![j] = d.tables[i]] \in Seq(AnyTable)
  BY <1>1
<1>4. ASSUME NEW S, NEW q \in Seq(S) PROVE Reverse(q) \in Seq(S)
  <2>1. Reverse(q) = [i \in 1 .. Len(q) |-> q[(Len(q) - i) + 1]]
    BY DEF Reverse
  <2>2. \A i \in 1 .. Len(q) : q[(Len(q) - i) + 1] \in S
    OBVIOUS
  <2> QED
    BY <2>1, <2>2
<1>5. ASSUME NEW q, q = [i \in DOMAIN d.tables |-> q[i]],
             \A i \in DOMAIN d.tables : q[i] \in AnyTable
      PROVE  q \in Seq(AnyTable)
  <2>1. Len(d.tables) \in Nat /\ DOMAIN d.tables = 1 .. Len(d.tables)
    BY <1>1
  <2>2. q = [i \in 1 .. Len(d.tables) |-> q[i]]
    BY <1>5, <2>1
  <2>3. q \in [1 .. Len(d.tables) -> AnyTable]
    BY <1>5, <2>1, <2>2
  <2> QED
    BY <2>1, <2>3
<1>6. ASSUME NEW t \in AnyTable
      PROVE  /\ [t EXCEPT !.foreign_keys = Reverse(@)] \in AnyTable
             /\ [t EXCEPT !.columns = Reverse(@)] \in AnyTable
  <2>1. Reverse(t.foreign_keys) \in Seq(AnyKey) /\ Reverse(t.columns) \in Seq(AnyColumn)
    <3>1. t.foreign_keys \in Seq(AnyKey) /\ t.columns \in Seq(AnyColumn)
      BY <1>6 DEF AnyTable
    <3> QED
      BY <1>4, <3>1
  <2> HIDE DEF AnyKey, AnyColumn
  <2> QED
    BY <1>6, <2>1 DEF AnyTable
<1>7. \A i \in DOMAIN d.tables : d.tables[i] \in AnyTable
  BY DatabaseLists
<1>8. CASE \E i, j \in DOMAIN d.tables :
        e = [d EXCEPT !.tables = [d.tables EXCEPT ![i] = d.tables[j], ![j] = d.tables[i]]]
  BY <1>2, <1>3, <1>8
<1>9. CASE e = [d EXCEPT !.tables =
            [i \in DOMAIN d.tables |-> [d.tables[i] EXCEPT !.foreign_keys = Reverse(@)]]]
  <2> DEFINE q == [i \in DOMAIN d.tables |-> [d.tables[i] EXCEPT !.foreign_keys = Reverse(@)]]
  <2>1. q \in Seq(AnyTable)
    <3>1. \A i \in DOMAIN d.tables : q[i] \in AnyTable
      BY <1>6, <1>7
    <3>2. q = [i \in DOMAIN d.tables |-> q[i]]
      OBVIOUS
    <3> HIDE DEF q
    <3> QED
      BY <1>5, <3>1, <3>2
  <2>2. e = [d EXCEPT !.tables = q]
    BY <1>9
  <2> HIDE DEF q
  <2> QED
    BY <1>2, <2>1, <2>2
<1>10. CASE e = [d EXCEPT !.tables =
            [i \in DOMAIN d.tables |-> [d.tables[i] EXCEPT !.columns = Reverse(@)]]]
  <2> DEFINE q == [i \in DOMAIN d.tables |-> [d.tables[i] EXCEPT !.columns = Reverse(@)]]
  <2>1. q \in Seq(AnyTable)
    <3>1. \A i \in DOMAIN d.tables : q[i] \in AnyTable
      BY <1>6, <1>7
    <3>2. q = [i \in DOMAIN d.tables |-> q[i]]
      OBVIOUS
    <3> HIDE DEF q
    <3> QED
      BY <1>5, <3>1, <3>2
  <2>2. e = [d EXCEPT !.tables = q]
    BY <1>10
  <2> HIDE DEF q
  <2> QED
    BY <1>2, <2>1, <2>2
<1> QED
  BY <1>8, <1>9, <1>10 DEF Arrangements

\* A table with its lists sorted.
LEMMA SortedFields ==
    ASSUME NEW v \in AnyTable
    PROVE  SortedTable(v) =
              [schema |-> v.schema, name |-> v.name, columns |-> ByOrdinal(v.columns),
               indexes |-> ByName(v.indexes), foreign_keys |-> ByName(v.foreign_keys),
               without_rowid |-> v.without_rowid, strict |-> v.strict]
<1> DEFINE c == ByOrdinal(v.columns)
           x == ByName(v.indexes)
           k == ByName(v.foreign_keys)
<1>1. SortedTable(v) = [v EXCEPT !.columns = c, !.indexes = x, !.foreign_keys = k]
  BY DEF SortedTable
<1> HIDE DEF c, x, k
<1>2. v = [schema |-> v.schema, name |-> v.name, columns |-> v.columns,
           indexes |-> v.indexes, foreign_keys |-> v.foreign_keys,
           without_rowid |-> v.without_rowid, strict |-> v.strict]
  BY DEF AnyTable
<1>3. [v EXCEPT !.columns = c, !.indexes = x, !.foreign_keys = k] =
          [schema |-> v.schema, name |-> v.name, columns |-> c, indexes |-> x,
           foreign_keys |-> k, without_rowid |-> v.without_rowid, strict |-> v.strict]
  <2> DEFINE w == [v EXCEPT !.columns = c, !.indexes = x, !.foreign_keys = k]
             Fields == {"schema", "name", "columns", "indexes", "foreign_keys",
                        "without_rowid", "strict"}
  <2>1. DOMAIN v = Fields
    BY <1>2
  <2>2. w = [f \in Fields |-> w[f]]
    BY <2>1
  <2>3. /\ w.schema = v.schema /\ w.name = v.name /\ w.columns = c /\ w.indexes = x
        /\ w.foreign_keys = k /\ w.without_rowid = v.without_rowid /\ w.strict = v.strict
    BY <2>1
  <2> HIDE DEF w
  <2>4. w = [schema |-> w.schema, name |-> w.name, columns |-> w.columns, indexes |-> w.indexes,
             foreign_keys |-> w.foreign_keys, without_rowid |-> w.without_rowid,
             strict |-> w.strict]
    BY <2>2
  <2> QED
    BY <2>3, <2>4 DEF w
<1> QED
  BY <1>1, <1>3 DEF c, x, k

\* A table is sorted to the same whichever way its columns and keys come.
LEMMA SameTableSorted ==
    ASSUME NEW d \in Databases, NEW i \in DOMAIN d.tables, NEW u \in AnyTable,
           SameTable(d.tables[i], u)
    PROVE  SortedTable(d.tables[i]) = SortedTable(u)
<1> DEFINE t == d.tables[i]
<1>1. t \in AnyTable /\ t \in ToSet(d.tables)
  BY DatabaseLists DEF ToSet
<1>2. Distinguished(d) /\ Ranked(d)
  BY DatabasesAreDistinguished
<1>3. ByOrdinal(t.columns) = ByOrdinal(u.columns)
  <2>1. /\ IsList(t.columns) /\ IsList(u.columns) /\ Alike(t.columns, u.columns)
    <3>1. t.columns \in Seq(AnyColumn) /\ u.columns \in Seq(AnyColumn)
      BY <1>1 DEF AnyTable
    <3> QED
      BY <3>1, ListIs DEF SameTable
  <2>2. \A k \in DOMAIN t.columns : t.columns[k].ordinal_position \in Nat
    <3>1. \A c \in AnyColumn : c.ordinal_position \in Nat
      BY DEF AnyColumn
    <3> QED
      BY <3>1, DatabaseLists
  <2>3. \A k, l \in DOMAIN t.columns :
            t.columns[k].ordinal_position = t.columns[l].ordinal_position => k = l
    BY <1>1, <1>2 DEF Distinguished
  <2> QED
    BY <2>1, <2>2, <2>3, OrdinalsForget
<1>4. ByName(t.foreign_keys) = ByName(u.foreign_keys)
  <2>1. /\ IsList(t.foreign_keys) /\ IsList(u.foreign_keys)
        /\ Alike(t.foreign_keys, u.foreign_keys)
    <3>1. t.foreign_keys \in Seq(AnyKey) /\ u.foreign_keys \in Seq(AnyKey)
      BY <1>1 DEF AnyTable
    <3> QED
      BY <3>1, ListIs DEF SameTable
  <2>2. \A k \in DOMAIN t.foreign_keys : t.foreign_keys[k].name \in DOMAIN Rank
    BY <1>1, <1>2 DEF Ranked, ToSet
  <2>3. \A k, l \in DOMAIN t.foreign_keys :
            t.foreign_keys[k].name = t.foreign_keys[l].name => k = l
    BY <1>1, <1>2 DEF Distinguished
  <2> QED
    BY <2>1, <2>2, <2>3, NamesForget
<1>5. /\ t.schema = u.schema /\ t.name = u.name /\ t.indexes = u.indexes
      /\ t.without_rowid = u.without_rowid /\ t.strict = u.strict
  BY DEF SameTable
<1> HIDE DEF t
<1> QED
  BY <1>1, <1>3, <1>4, <1>5, SortedFields DEF t

\* What is sorted has the name it had.
LEMMA SortedTableIs ==
    ASSUME NEW t \in AnyTable
    PROVE  /\ SortedTable(t).schema = t.schema /\ SortedTable(t).name = t.name
           /\ Id(SortedTable(t)) = Id(t)
<1>1. SortedTable(t).schema = t.schema /\ SortedTable(t).name = t.name
  BY DEF SortedTable, AnyTable
<1> QED
  BY <1>1 DEF Id

\* A Database is sorted to the same whichever way it is arranged.
LEMMA SameSorted ==
    ASSUME NEW d \in Databases, NEW e \in Arrangements(d)
    PROVE  sort(e) = sort(d)
<1>1. PICK h : Rearranged(h, d, e)
  BY ArrangementsAreRearranged
<1>2. e.tables \in Seq(AnyTable) /\ e = [d EXCEPT !.tables = e.tables] /\ e.views = d.views
  BY <1>1, ArrangementsAreTyped DEF Rearranged
<1> DEFINE p == [i \in DOMAIN d.tables |-> SortedTable(d.tables[i])]
           q == [i \in DOMAIN e.tables |-> SortedTable(e.tables[i])]
<1>3. /\ h \in [DOMAIN d.tables -> DOMAIN e.tables] /\ Reorders(h, d.tables, e.tables)
      /\ \A i \in DOMAIN d.tables : SameTable(d.tables[i], e.tables[h[i]])
  BY <1>1 DEF Rearranged, Reorders
<1>4. \A i \in DOMAIN e.tables : e.tables[i] \in AnyTable
  BY <1>2
<1>5. \A i \in DOMAIN d.tables : SortedTable(d.tables[i]) = SortedTable(e.tables[h[i]])
  BY <1>3, <1>4, SameTableSorted
<1>6. Alike(p, q)
  <2>1. Reorders(h, p, q)
    BY <1>3 DEF Reorders
  <2>2. \A i \in DOMAIN p : q[h[i]] = p[i]
    BY <1>3, <1>5
  <2> QED
    BY <2>1, <2>2 DEF Alike
<1>7. ASSUME NEW r, NEW s \in Seq(AnyTable), r = [i \in DOMAIN s |-> r[i]] PROVE IsList(r)
  <2>1. r \in [1 .. Len(s) -> {r[i] : i \in DOMAIN s}]
    BY <1>7
  <2>2. r \in Seq({r[i] : i \in DOMAIN s})
    BY <1>7, <2>1
  <2> QED
    BY <2>2, ListIs
<1>8. IsList(p) /\ IsList(q)
  <2>1. d.tables \in Seq(AnyTable) /\ e.tables \in Seq(AnyTable)
    BY <1>2, DatabaseLists
  <2>2. p = [i \in DOMAIN d.tables |-> p[i]] /\ q = [i \in DOMAIN e.tables |-> q[i]]
    OBVIOUS
  <2> HIDE DEF p, q
  <2> QED
    BY <1>7, <2>1, <2>2
<1>9. \A i \in DOMAIN d.tables : /\ d.tables[i] \in AnyTable
                                 /\ d.tables[i].schema \in DOMAIN Rank
                                 /\ d.tables[i].name \in DOMAIN Rank
  <2>1. ASSUME NEW i \in DOMAIN d.tables
        PROVE  d.tables[i].schema \in DOMAIN Rank /\ d.tables[i].name \in DOMAIN Rank
    <3>1. d.tables[i] \in ToSet(d.tables)
      BY DEF ToSet
    <3> QED
      BY <3>1, DatabasesAreDistinguished DEF Ranked
  <2> QED
    BY <2>1, DatabaseLists
<1>10. \A i \in DOMAIN p : p[i].schema \in DOMAIN Rank /\ p[i].name \in DOMAIN Rank
  BY <1>9, SortedTableIs
<1>11. \A i, j \in DOMAIN p : Id(p[i]) = Id(p[j]) => i = j
  <2>1. \A i \in DOMAIN p : Id(p[i]) = Id(d.tables[i])
    BY <1>9, SortedTableIs
  <2>2. DistinctIds(d)
    BY DatabasesAreProper DEF Proper
  <2> QED
    BY <2>1, <2>2 DEF DistinctIds
<1>12. ById(p) = ById(q)
  <2> HIDE DEF p, q
  <2> QED
    BY <1>6, <1>8, <1>10, <1>11, IdsForget
<1>13. ASSUME NEW o
       PROVE  sort(o) = [o EXCEPT !.tables = ById([i \in DOMAIN o.tables |-> SortedTable(o.tables[i])]),
                                  !.views = ById([i \in DOMAIN o.views |-> SortedView(o.views[i])])]
  BY DEF sort
<1> DEFINE v == ById([i \in DOMAIN d.views |-> SortedView(d.views[i])])
<1>14. sort(d) = [d EXCEPT !.tables = ById(p), !.views = v]
  BY <1>13
<1>15. sort(e) = [e EXCEPT !.tables = ById(q), !.views = v]
  BY <1>2, <1>13
<1>16. d \in AnyDatabase
  BY DatabaseLists
<1> HIDE DEF p, q, v
<1> QED
  BY <1>2, <1>12, <1>14, <1>15, <1>16 DEF AnyDatabase

\* The documents say the same in the same order whichever way the catalog listed
\* the tables, the columns and the keys (model.rs:391-424).
THEOREM DocumentsAreSorted == Spec => []DocumentsIgnoreOrder
<1>1. Init => DocumentsIgnoreOrder
  BY DEF Init, DocumentsIgnoreOrder
<1>2. CommandInv /\ DocumentsIgnoreOrder /\ [Next]_vars => DocumentsIgnoreOrder'
  <2> SUFFICES ASSUME CommandInv, DocumentsIgnoreOrder, [Next]_vars PROVE DocumentsIgnoreOrder'
    OBVIOUS
  <2> USE DEF DocumentsIgnoreOrder
  <2>1. CASE Validate
    BY <2>1 DEF Validate
  <2>2. CASE Document
    <3>1. PICK e \in Arrangements(database) : documents' = Documented(sort(e))
      BY <2>2 DEF Document
    <3>2. sort(e) = sort(database)
      BY <3>1, SameSorted DEF CommandInv
    <3>3. database' = database
      BY <2>2 DEF Document
    <3> QED
      BY <3>1, <3>2, <3>3
  <2>3. CASE Again
    BY <2>3 DEF Again
  <2>4. CASE UNCHANGED vars
    BY <2>4 DEF vars
  <2> QED
    BY <2>1, <2>2, <2>3, <2>4 DEF Next
<1> QED
  BY <1>1, <1>2, CommandHolds, PTL DEF Spec

-----------------------------------------------------------------------------
(* Lists put together, and what is counted along them. *)

-----------------------------------------------------------------------------
(* Lists and sums. *)

\* Lists may be put together in any grouping.
LEMMA Together ==
    ASSUME NEW S, NEW p \in Seq(S), NEW q \in Seq(S), NEW r \in Seq(S)
    PROVE  /\ p \o q \in Seq(S) /\ (p \o q) \o r = p \o (q \o r)
           /\ <<>> \in Seq(S) /\ p \o <<>> = p /\ <<>> \o p = p
           /\ Len(p \o q) = Len(p) + Len(q) /\ Len(p) \in Nat /\ Len(q) \in Nat
<1>1. Len(p) \in Nat /\ Len(q) \in Nat /\ Len(r) \in Nat
  OBVIOUS
<1>2. p \o q \in Seq(S) /\ Len(p \o q) = Len(p) + Len(q)
  OBVIOUS
<1>3. (p \o q) \o r = p \o (q \o r)
  OBVIOUS
<1>4. <<>> \in Seq(S) /\ p \o <<>> = p /\ <<>> \o p = p
  OBVIOUS
<1> QED
  BY <1>1, <1>2, <1>3, <1>4

\* The lists of two lists, put together, are those of the one and of the other.
LEMMA FlattenedTogether ==
    ASSUME NEW S, NEW p \in Seq(Seq(S)), NEW q \in Seq(Seq(S))
    PROVE  /\ FlattenSeq(p \o q) = FlattenSeq(p) \o FlattenSeq(q)
           /\ FlattenSeq(p) \in Seq(S) /\ FlattenSeq(q) \in Seq(S)
<1> DEFINE n == Len(p)
           m == Len(q)
           r == p \o q
<1>1. /\ n \in Nat /\ m \in Nat /\ r \in Seq(Seq(S)) /\ Len(r) = n + m
      /\ \A i \in 1 .. n : r[i] = p[i]
      /\ \A j \in 1 .. m : r[n + j] = q[j] /\ q[j] \in Seq(S)
  OBVIOUS
<1> HIDE DEF n, m, r
<1>2. PICK f \in [0 .. n -> Seq(S)] :
        /\ f[0] = <<>> /\ \A i \in 1 .. n : f[i] = f[i - 1] \o p[i]
        /\ FlattenSeq(p) = f[n]
  BY FlattenedInTurn DEF n
<1>3. PICK g \in [0 .. m -> Seq(S)] :
        /\ g[0] = <<>> /\ \A j \in 1 .. m : g[j] = g[j - 1] \o q[j]
        /\ FlattenSeq(q) = g[m]
  BY FlattenedInTurn DEF m
<1>4. PICK h \in [0 .. n + m -> Seq(S)] :
        /\ h[0] = <<>> /\ \A i \in 1 .. n + m : h[i] = h[i - 1] \o r[i]
        /\ FlattenSeq(r) = h[n + m]
  <2>1. PICK h \in [0 .. Len(r) -> Seq(S)] :
          /\ h[0] = <<>> /\ \A i \in 1 .. Len(r) : h[i] = h[i - 1] \o r[i]
          /\ FlattenSeq(r) = h[Len(r)]
    BY <1>1, FlattenedInTurn
  <2> QED
    BY <1>1, <2>1
<1>5. h[n] = f[n]
  <2> DEFINE Z == {i \in 0 .. n : h[i] = f[i]}
  <2>1. 0 \in Z
    BY <1>1, <1>2, <1>4
  <2>2. ASSUME NEW i \in 1 .. n, i - 1 \in Z PROVE i \in Z
    <3>1. i \in 1 .. n + m /\ i \in 0 .. n
      BY <1>1
    <3> QED
      BY <1>1, <1>2, <1>4, <2>2, <3>1
  <2> HIDE DEF Z
  <2>3. \A i \in 0 .. n : i \in Z
    BY <1>1, <2>1, <2>2, FromTheStart
  <2>4. n \in 0 .. n
    BY <1>1
  <2> QED
    BY <2>3, <2>4 DEF Z
<1>6. h[n + m] = f[n] \o g[m]
  <2>1. n \in 0 .. n /\ f[n] \in Seq(S)
    BY <1>1
  <2> DEFINE Z == {j \in 0 .. m : h[n + j] = f[n] \o g[j]}
  <2>2. 0 \in Z
    BY <1>1, <1>3, <1>5, <2>1
  <2>3. ASSUME NEW j \in 1 .. m, j - 1 \in Z PROVE j \in Z
    <3>1. n + j \in 1 .. n + m /\ (n + j) - 1 = n + (j - 1) /\ j - 1 \in 0 .. m /\ j \in 0 .. m
      BY <1>1
    <3>2. h[n + j] = h[n + (j - 1)] \o q[j]
      BY <1>1, <1>4, <3>1
    <3>3. h[n + (j - 1)] = f[n] \o g[j - 1] /\ g[j - 1] \in Seq(S) /\ q[j] \in Seq(S)
      BY <1>1, <2>3, <3>1
    <3>4. (f[n] \o g[j - 1]) \o q[j] = f[n] \o (g[j - 1] \o q[j])
      <4> DEFINE a == f[n]
                 b == g[j - 1]
                 c == q[j]
      <4>1. a \in Seq(S) /\ b \in Seq(S) /\ c \in Seq(S)
        BY <2>1, <3>3
      <4> HIDE DEF a, b, c
      <4>2. (a \o b) \o c = a \o (b \o c)
        BY SMTT(30), <4>1, Together
      <4> QED
        BY <4>2 DEF a, b, c
    <3> QED
      BY <1>3, <3>1, <3>2, <3>3, <3>4
  <2> HIDE DEF Z
  <2>4. \A j \in 0 .. m : j \in Z
    BY <1>1, <2>2, <2>3, FromTheStart
  <2>5. m \in 0 .. m
    BY <1>1
  <2> QED
    BY <2>4, <2>5 DEF Z
<1>7. n \in 0 .. n /\ m \in 0 .. m
  BY <1>1
<1> QED
  BY <1>2, <1>3, <1>4, <1>5, <1>6, <1>7 DEF r

\* What g makes of each item of s.
Pushed(s, g) == FlattenSeq([a \in DOMAIN s |-> g[s[a]]])

\* A list of what g makes of its items.
LEMMA EachOf ==
    ASSUME NEW S, NEW T, NEW s \in Seq(S), NEW g \in [S -> Seq(T)]
    PROVE  /\ [a \in DOMAIN s |-> g[s[a]]] \in Seq(Seq(T))
           /\ Len([a \in DOMAIN s |-> g[s[a]]]) = Len(s)
           /\ DOMAIN s = 1 .. Len(s) /\ Len(s) \in Nat /\ \A a \in DOMAIN s : s[a] \in S
           /\ Pushed(s, g) \in Seq(T)
<1>1. DOMAIN s = 1 .. Len(s) /\ Len(s) \in Nat /\ \A a \in DOMAIN s : s[a] \in S
  OBVIOUS
<1> DEFINE F == [a \in DOMAIN s |-> g[s[a]]]
<1>2. F \in [1 .. Len(s) -> Seq(T)]
  BY <1>1
<1>3. F \in Seq(Seq(T)) /\ Len(F) = Len(s)
  <2> DEFINE n == Len(s)
             U == Seq(T)
  <2>1. n \in Nat /\ F \in [1 .. n -> U]
    BY <1>1, <1>2
  <2> HIDE DEF F, n, U
  <2>2. F \in Seq(U) /\ Len(F) = n
    BY <2>1
  <2> QED
    BY <2>2 DEF n, U
<1>4. FlattenSeq(F) \in Seq(T)
  <2> HIDE DEF F
  <2> QED
    BY <1>3, FlattenedTogether
<1> QED
  BY <1>1, <1>3, <1>4 DEF Pushed

\* Along two lists, one after the other, what g makes of both.
LEMMA PushedTogether ==
    ASSUME NEW S, NEW T, NEW p \in Seq(S), NEW q \in Seq(S), NEW g \in [S -> Seq(T)]
    PROVE  Pushed(p \o q, g) = Pushed(p, g) \o Pushed(q, g)
<1> DEFINE P == [a \in DOMAIN p |-> g[p[a]]]
           Q == [a \in DOMAIN q |-> g[q[a]]]
           R == [a \in DOMAIN (p \o q) |-> g[(p \o q)[a]]]
<1>1. /\ Len(p) \in Nat /\ Len(q) \in Nat
      /\ p \o q \in Seq(S) /\ DOMAIN (p \o q) = 1 .. Len(p) + Len(q)
      /\ \A a \in 1 .. Len(p) : (p \o q)[a] = p[a]
      /\ \A a \in 1 .. Len(q) : (p \o q)[Len(p) + a] = q[a]
  OBVIOUS
<1>2. /\ P \in Seq(Seq(T)) /\ Len(P) = Len(p) /\ DOMAIN p = 1 .. Len(p)
      /\ Q \in Seq(Seq(T)) /\ Len(Q) = Len(q) /\ DOMAIN q = 1 .. Len(q)
  <2>1. P \in Seq(Seq(T)) /\ Len(P) = Len(p) /\ DOMAIN p = 1 .. Len(p)
    BY SMTT(30), EachOf
  <2>2. Q \in Seq(Seq(T)) /\ Len(Q) = Len(q) /\ DOMAIN q = 1 .. Len(q)
    BY EachOf
  <2> QED
    BY <2>1, <2>2
<1>3. R \in Seq(Seq(T)) /\ Len(R) = Len(p) + Len(q)
  <2>1. R \in Seq(Seq(T)) /\ Len(R) = Len(p \o q)
    BY <1>1, EachOf
  <2> QED
    BY <1>1, <2>1
<1>4. /\ \A a \in 1 .. Len(p) : R[a] = P[a]
      /\ \A a \in 1 .. Len(q) : R[Len(p) + a] = Q[a]
  <2>1. ASSUME NEW a \in 1 .. Len(p) PROVE R[a] = P[a]
    <3>1. a \in DOMAIN (p \o q) /\ a \in DOMAIN p
      BY <1>1, <1>2
    <3> QED
      BY <1>1, <3>1
  <2>2. ASSUME NEW a \in 1 .. Len(q) PROVE R[Len(p) + a] = Q[a]
    <3>1. Len(p) + a \in DOMAIN (p \o q) /\ a \in DOMAIN q
      BY <1>1, <1>2
    <3> QED
      BY <1>1, <3>1
  <2> QED
    BY <2>1, <2>2
<1> HIDE DEF P, Q, R
<1>5. R = P \o Q
  <2>1. /\ P \o Q \in Seq(Seq(T)) /\ Len(P \o Q) = Len(p) + Len(q)
        /\ \A a \in 1 .. Len(p) : (P \o Q)[a] = P[a]
        /\ \A a \in 1 .. Len(q) : (P \o Q)[Len(p) + a] = Q[a]
    <3> DEFINE U == Seq(T)
    <3>1. P \in Seq(U) /\ Q \in Seq(U)
      BY <1>2
    <3> HIDE DEF U
    <3>2. /\ P \o Q \in Seq(U) /\ Len(P \o Q) = Len(P) + Len(Q)
          /\ \A a \in 1 .. Len(P) : (P \o Q)[a] = P[a]
          /\ \A a \in 1 .. Len(Q) : (P \o Q)[Len(P) + a] = Q[a]
      BY <3>1
    <3> QED
      BY <1>2, <3>2 DEF U
  <2>2. \A a \in 1 .. Len(p) + Len(q) :
            a \in 1 .. Len(p) \/ (a - Len(p) \in 1 .. Len(q) /\ Len(p) + (a - Len(p)) = a)
    BY <1>1
  <2>3. \A a \in 1 .. Len(p) + Len(q) : R[a] = (P \o Q)[a]
    <3> DEFINE X == P \o Q
    <3>1. /\ \A a \in 1 .. Len(p) : X[a] = R[a]
          /\ \A a \in 1 .. Len(q) : X[Len(p) + a] = R[Len(p) + a]
      BY <1>4, <2>1
    <3> HIDE DEF X
    <3>2. \A a \in 1 .. Len(p) + Len(q) : R[a] = X[a]
      <4> SUFFICES ASSUME NEW a \in 1 .. Len(p) + Len(q) PROVE R[a] = X[a]
        OBVIOUS
      <4>1. CASE a \in 1 .. Len(p)
        BY <3>1, <4>1
      <4>2. CASE a - Len(p) \in 1 .. Len(q) /\ Len(p) + (a - Len(p)) = a
        <5> DEFINE b == a - Len(p)
        <5>1. b \in 1 .. Len(q) /\ Len(p) + b = a
          BY <4>2
        <5> HIDE DEF b
        <5>2. X[Len(p) + b] = R[Len(p) + b]
          BY <3>1, <5>1
        <5> QED
          BY <5>1, <5>2
      <4> QED
        BY <2>2, <4>1, <4>2
    <3> QED
      BY <3>2 DEF X
  <2> DEFINE U == Seq(T)
             V == P \o Q
             n == Len(p) + Len(q)
  <2>4. n \in Nat /\ R \in Seq(U) /\ V \in Seq(U) /\ Len(R) = n /\ Len(V) = n
        /\ \A a \in 1 .. n : R[a] = V[a]
    BY <1>1, <1>3, <2>1, <2>3
  <2> HIDE DEF U, V, n
  <2>5. R = V
    BY <2>4
  <2> QED
    BY <2>5 DEF V
<1> QED
  BY <1>2, <1>5, FlattenedTogether DEF Pushed, P, Q, R

\* What is pushed along lists put together is what is pushed along each of them.
Pushes(g, S, T) == g \in [S -> Seq(T)]
ListsIn(F, S) == F \in Seq(Seq(S))

\* In particular along lists of lists: in one go or list by list.
LEMMA PushedTwice ==
    ASSUME NEW S, NEW T, NEW F, ListsIn(F, S), NEW g, Pushes(g, S, T),
           NEW G, ListsIn(G, T), Len(G) = Len(F), \A i \in DOMAIN F : G[i] = Pushed(F[i], g)
    PROVE  Pushed(FlattenSeq(F), g) = FlattenSeq(G)
<1>0. F \in Seq(Seq(S)) /\ g \in [S -> Seq(T)] /\ G \in Seq(Seq(T))
  BY DEF ListsIn, Pushes
<1> DEFINE n == Len(F)
<1>1. n \in Nat /\ DOMAIN F = 1 .. n /\ \A i \in 1 .. n : F[i] \in Seq(S)
  BY <1>0
<1>2. Len(G) = n
  OBVIOUS
<1>3. PICK f \in [0 .. n -> Seq(S)] :
        /\ f[0] = <<>> /\ \A i \in 1 .. n : f[i] = f[i - 1] \o F[i]
        /\ FlattenSeq(F) = f[n]
  BY <1>0, FlattenedInTurn
<1>4. PICK h \in [0 .. n -> Seq(T)] :
        /\ h[0] = <<>> /\ \A i \in 1 .. n : h[i] = h[i - 1] \o G[i]
        /\ FlattenSeq(G) = h[n]
  <2> HIDE DEF n
  <2>1. PICK h \in [0 .. Len(G) -> Seq(T)] :
          /\ h[0] = <<>> /\ \A i \in 1 .. Len(G) : h[i] = h[i - 1] \o G[i]
          /\ FlattenSeq(G) = h[Len(G)]
    BY <1>0, <1>2, FlattenedInTurn
  <2> QED
    BY <1>2, <2>1
<1>5. \A i \in 1 .. n : G[i] = Pushed(F[i], g)
  BY <1>1
<1> HIDE DEF n
<1> DEFINE Z == {i \in 0 .. n : Pushed(f[i], g) = h[i]}
<1>6. 0 \in Z
  <2>1. Pushed(<<>>, g) = FlattenSeq(<<>>)
    <3>1. [a \in DOMAIN <<>> |-> g[<<>>[a]]] = <<>>
      OBVIOUS
    <3> QED
      BY <3>1 DEF Pushed
  <2>2. FlattenSeq(<<>>) = <<>>
    BY DEF FlattenSeq
  <2> QED
    BY <1>1, <1>3, <1>4, <2>1, <2>2
<1>7. ASSUME NEW i \in 1 .. n, i - 1 \in Z PROVE i \in Z
  <2>1. i - 1 \in 0 .. n /\ i \in 0 .. n /\ F[i] \in Seq(S)
    BY <1>1
  <2>2. f[i - 1] \in Seq(S) /\ f[i] = f[i - 1] \o F[i]
    BY <1>3, <2>1
  <2>3. Pushed(f[i - 1] \o F[i], g) = Pushed(f[i - 1], g) \o Pushed(F[i], g)
    BY SMTT(30), <1>0, <2>1, <2>2, PushedTogether
  <2> QED
    BY <1>4, <1>5, <1>7, <2>1, <2>2, <2>3
<1> HIDE DEF Z
<1>8. \A i \in 0 .. n : i \in Z
  BY <1>1, <1>6, <1>7, FromTheStart
<1>9. n \in Z
  BY <1>1, <1>8
<1> QED
  BY <1>3, <1>4, <1>9 DEF Z

\* Nothing is pushed, or each item.
LEMMA PushedPlainly ==
    ASSUME NEW S, NEW s \in Seq(S), NEW g \in [S -> Seq(S)]
    PROVE  /\ (\A a \in DOMAIN s : g[s[a]] = <<>>) => Pushed(s, g) = <<>>
           /\ (\A a \in DOMAIN s : g[s[a]] = <<s[a]>>) => Pushed(s, g) = s
<1> DEFINE n == Len(s)
           F == [a \in DOMAIN s |-> g[s[a]]]
<1>1. /\ n \in Nat /\ DOMAIN s = 1 .. n /\ F \in Seq(Seq(S)) /\ Len(F) = n
      /\ \A a \in DOMAIN s : s[a] \in S
  <2>1. F \in Seq(Seq(S)) /\ Len(F) = Len(s)
    BY EachOf
  <2>2. DOMAIN s = 1 .. Len(s) /\ Len(s) \in Nat /\ \A a \in DOMAIN s : s[a] \in S
    OBVIOUS
  <2> QED
    BY <2>1, <2>2
<1>2. \A a \in 1 .. n : F[a] = g[s[a]]
  BY <1>1
<1> HIDE DEF n, F
<1>3. PICK f \in [0 .. n -> Seq(S)] :
        /\ f[0] = <<>> /\ \A a \in 1 .. n : f[a] = f[a - 1] \o F[a]
        /\ FlattenSeq(F) = f[n]
  <2>1. PICK f \in [0 .. Len(F) -> Seq(S)] :
          /\ f[0] = <<>> /\ \A a \in 1 .. Len(F) : f[a] = f[a - 1] \o F[a]
          /\ FlattenSeq(F) = f[Len(F)]
    BY <1>1, FlattenedInTurn
  <2> QED
    BY <1>1, <2>1
<1>4. Pushed(s, g) = f[n]
  BY <1>3 DEF Pushed, F
<1>5. ASSUME \A a \in DOMAIN s : g[s[a]] = <<>> PROVE f[n] = <<>>
  <2> DEFINE Z == {a \in 0 .. n : f[a] = <<>>}
  <2>1. 0 \in Z
    BY <1>1, <1>3
  <2>2. ASSUME NEW a \in 1 .. n, a - 1 \in Z PROVE a \in Z
    <3>1. a \in DOMAIN s /\ a \in 0 .. n
      BY <1>1
    <3>2. F[a] = <<>>
      BY <1>2, <1>5, <3>1
    <3>3. f[a - 1] = <<>> /\ f[a] = f[a - 1] \o F[a]
      BY <1>3, <2>2
    <3>4. f[a] = <<>> \o <<>>
      BY <3>2, <3>3
    <3> QED
      BY <3>1, <3>4
  <2> HIDE DEF Z
  <2>3. \A a \in 0 .. n : a \in Z
    BY <1>1, <2>1, <2>2, FromTheStart
  <2>4. n \in Z
    BY <1>1, <2>3
  <2> QED
    BY <2>4 DEF Z
<1>6. ASSUME \A a \in DOMAIN s : g[s[a]] = <<s[a]>> PROVE f[n] = s
  <2> DEFINE Z == {a \in 0 .. n : Len(f[a]) = a /\ \A b \in 1 .. a : f[a][b] = s[b]}
  <2>1. 0 \in Z
    BY <1>1, <1>3
  <2>2. ASSUME NEW a \in 1 .. n, a - 1 \in Z PROVE a \in Z
    <3> DEFINE e == f[a - 1]
    <3>1. a - 1 \in 0 .. n /\ a \in 0 .. n
      BY <1>1
    <3>2. /\ e \in Seq(S) /\ Len(e) = a - 1 /\ \A b \in 1 .. a - 1 : e[b] = s[b]
          /\ f[a] = e \o <<s[a]>> /\ s[a] \in S
      BY <1>1, <1>2, <1>3, <1>6, <2>2, <3>1
    <3> HIDE DEF e
    <3>3. /\ Len(e \o <<s[a]>>) = Len(e) + 1 /\ (e \o <<s[a]>>)[Len(e) + 1] = s[a]
          /\ \A b \in 1 .. Len(e) : (e \o <<s[a]>>)[b] = e[b]
      <4> DEFINE x == s[a]
                 y == <<x>>
      <4>1. e \in Seq(S) /\ y \in Seq(S)
        BY <3>2
      <4>0. Len(y) = 1 /\ y[1] = x
        OBVIOUS
      <4> HIDE DEF x, y
      <4>2. /\ Len(e \o y) = Len(e) + Len(y)
            /\ \A b \in 1 .. Len(y) : (e \o y)[Len(e) + b] = y[b]
            /\ \A b \in 1 .. Len(e) : (e \o y)[b] = e[b]
        BY <4>1
      <4>3. 1 \in 1 .. Len(y)
        BY <4>0
      <4> QED
        BY <4>0, <4>2, <4>3 DEF x, y
    <3>4. \A b \in 1 .. a : b \in 1 .. a - 1 \/ b = a
      BY <1>1
    <3>5. (a - 1) + 1 = a
      BY <1>1
    <3> QED
      BY <3>1, <3>2, <3>3, <3>4, <3>5
  <2> HIDE DEF Z
  <2>3. \A a \in 0 .. n : a \in Z
    BY <1>1, <2>1, <2>2, FromTheStart
  <2>4. n \in Z /\ n \in 0 .. n
    BY <1>1, <2>3
  <2>5. f[n] \in Seq(S) /\ Len(f[n]) = n /\ \A b \in 1 .. n : f[n][b] = s[b]
    BY <2>4 DEF Z
  <2> DEFINE e == f[n]
  <2>6. e \in Seq(S) /\ Len(e) = n /\ \A b \in 1 .. n : e[b] = s[b]
    BY <2>5
  <2> HIDE DEF e
  <2>7. e = s
    BY <1>1, <2>6 DEF n
  <2> QED
    BY <2>7 DEF e
<1> QED
  BY <1>4, <1>5, <1>6

-----------------------------------------------------------------------------
(* Sums. *)

\* The sum of numbers, one after the other.
LEMMA SumInTurn ==
    ASSUME NEW c \in Seq(Nat)
    PROVE  \E t \in [0 .. Len(c) -> Nat] :
            /\ t[0] = 0 /\ \A i \in 1 .. Len(c) : t[i] = t[i - 1] + c[i]
            /\ sum(c) = t[Len(c)]
<1> DEFINE n == Len(c)
           Body(f) == [i \in 0 .. n |-> IF i = 0 THEN 0 ELSE f[i - 1] + c[i]]
           total == CHOOSE f : f = Body(f)
           step == [i \in 1 .. n |-> [x \in Nat |-> x + c[i]]]
<1>1. n \in Nat /\ \A i \in 1 .. n : c[i] \in Nat
  OBVIOUS
<1>2. sum(c) = total[n]
  BY DEF sum
<1>3. PICK t \in [0 .. n -> Nat] : t[0] = 0 /\ \A i \in 1 .. n : t[i] = step[i][t[i - 1]]
  <2>1. step \in [1 .. n -> [Nat -> Nat]]
    <3>1. \A i \in 1 .. n : [x \in Nat |-> x + c[i]] \in [Nat -> Nat]
      BY <1>1
    <3> QED
      BY <3>1
  <2> DEFINE start == 0
  <2>2. start \in Nat
    OBVIOUS
  <2> HIDE DEF n, step, start
  <2>3. HasSolution(n, Nat, start, step)
    BY <1>1, <2>1, <2>2, DefinedFromTheStart
  <2> QED
    BY <2>3 DEF HasSolution, start
<1>4. \A i \in 1 .. n : t[i] = t[i - 1] + c[i]
  <2> SUFFICES ASSUME NEW i \in 1 .. n PROVE t[i] = t[i - 1] + c[i]
    OBVIOUS
  <2>1. t[i - 1] \in Nat
    <3>1. i - 1 \in 0 .. n
      BY <1>1
    <3> HIDE DEF n
    <3> QED
      BY <3>1
  <2>2. \A x \in Nat : step[i][x] = x + c[i]
    OBVIOUS
  <2> HIDE DEF step, n
  <2> QED
    BY <1>3, <2>1, <2>2
<1>5. t = Body(t)
  <2>1. \A i \in 0 .. n : t[i] = IF i = 0 THEN 0 ELSE t[i - 1] + c[i]
    <3>1. \A i \in 0 .. n : i # 0 => i \in 1 .. n
      BY <1>1
    <3> HIDE DEF n
    <3> QED
      BY <1>3, <1>4, <3>1
  <2>2. t = [i \in 0 .. n |-> t[i]]
    OBVIOUS
  <2> HIDE DEF n
  <2> QED
    BY <2>1, <2>2
<1>6. total = Body(total)
  <2> HIDE DEF Body
  <2> QED
    BY <1>5
<1> HIDE DEF total
<1>7. \A i \in 0 .. n : total[i] = IF i = 0 THEN 0 ELSE total[i - 1] + c[i]
  BY <1>6
<1> HIDE DEF n, Body
<1> DEFINE Z == {i \in 0 .. n : total[i] = t[i]}
<1>8. 0 \in Z
  BY <1>1, <1>3, <1>7
<1>9. ASSUME NEW i \in 1 .. n, i - 1 \in Z PROVE i \in Z
  <2>1. i \in 0 .. n /\ i # 0
    BY <1>1
  <2> QED
    BY <1>4, <1>7, <1>9, <2>1
<1> HIDE DEF Z
<1>10. \A i \in 0 .. n : i \in Z
  BY <1>1, <1>8, <1>9, FromTheStart
<1>11. total[n] = t[n]
  BY <1>1, <1>10 DEF Z
<1> QED
  BY <1>2, <1>3, <1>4, <1>11 DEF n

\* The length of lists put together is the sum of their lengths.
LEMMA FlattenedLength ==
    ASSUME NEW S, NEW lists \in Seq(Seq(S))
    PROVE  Len(FlattenSeq(lists)) = sum([i \in DOMAIN lists |-> Len(lists[i])])
<1> DEFINE n == Len(lists)
           c == [i \in DOMAIN lists |-> Len(lists[i])]
<1>1. n \in Nat /\ DOMAIN lists = 1 .. n /\ \A i \in 1 .. n : lists[i] \in Seq(S) /\ Len(lists[i]) \in Nat
  OBVIOUS
<1>2. c \in Seq(Nat) /\ Len(c) = n /\ \A i \in 1 .. n : c[i] = Len(lists[i])
  <2>1. c \in [1 .. n -> Nat] /\ \A i \in 1 .. n : c[i] = Len(lists[i])
    BY <1>1
  <2> HIDE DEF c, n
  <2> QED
    BY <1>1, <2>1
<1>3. PICK f \in [0 .. n -> Seq(S)] :
        /\ f[0] = <<>> /\ \A i \in 1 .. n : f[i] = f[i - 1] \o lists[i]
        /\ FlattenSeq(lists) = f[n]
  BY FlattenedInTurn
<1> HIDE DEF n, c
<1>4. PICK t \in [0 .. n -> Nat] :
        /\ t[0] = 0 /\ \A i \in 1 .. n : t[i] = t[i - 1] + c[i]
        /\ sum(c) = t[n]
  <2>1. PICK t \in [0 .. Len(c) -> Nat] :
          /\ t[0] = 0 /\ \A i \in 1 .. Len(c) : t[i] = t[i - 1] + c[i]
          /\ sum(c) = t[Len(c)]
    BY <1>2, SumInTurn
  <2> QED
    BY <1>2, <2>1
<1> DEFINE Z == {i \in 0 .. n : Len(f[i]) = t[i]}
<1>5. 0 \in Z
  BY <1>1, <1>3, <1>4
<1>6. ASSUME NEW i \in 1 .. n, i - 1 \in Z PROVE i \in Z
  <2>1. i - 1 \in 0 .. n /\ i \in 0 .. n
    BY <1>1
  <2>2. f[i - 1] \in Seq(S) /\ lists[i] \in Seq(S)
    BY <1>1, <2>1
  <2>3. Len(f[i - 1] \o lists[i]) = Len(f[i - 1]) + Len(lists[i])
    BY <2>2
  <2> QED
    BY <1>2, <1>3, <1>4, <1>6, <2>1, <2>3
<1> HIDE DEF Z
<1>7. \A i \in 0 .. n : i \in Z
  BY <1>1, <1>5, <1>6, FromTheStart
<1>8. Len(f[n]) = t[n]
  BY <1>1, <1>7 DEF Z
<1> QED
  BY <1>3, <1>4, <1>8 DEF c

\* As many as are picked, where one is pushed for each of them.
LEMMA PushedCount ==
    ASSUME NEW S, NEW T, NEW s \in Seq(S), NEW g, Pushes(g, S, T),
           NEW A \in SUBSET DOMAIN s,
           \A a \in DOMAIN s : Len(g[s[a]]) = IF a \in A THEN 1 ELSE 0
    PROVE  Len(Pushed(s, g)) = Cardinality(A) /\ Cardinality(A) \in Nat
<1>0. g \in [S -> Seq(T)]
  BY DEF Pushes
<1> DEFINE n == Len(s)
           F == [a \in DOMAIN s |-> g[s[a]]]
           To(k) == {a \in A : a \in 1 .. k}
<1>1. /\ n \in Nat /\ DOMAIN s = 1 .. n /\ F \in Seq(Seq(T)) /\ Len(F) = n
      /\ \A a \in DOMAIN s : s[a] \in S
  <2>1. F \in Seq(Seq(T)) /\ Len(F) = Len(s)
    BY <1>0, EachOf
  <2>2. DOMAIN s = 1 .. Len(s) /\ Len(s) \in Nat /\ \A a \in DOMAIN s : s[a] \in S
    OBVIOUS
  <2> QED
    BY <2>1, <2>2
<1>2. \A a \in 1 .. n : F[a] = g[s[a]] /\ F[a] \in Seq(T)
  BY <1>0, <1>1
<1> HIDE DEF n, F
<1>3. PICK f \in [0 .. n -> Seq(T)] :
        /\ f[0] = <<>> /\ \A a \in 1 .. n : f[a] = f[a - 1] \o F[a]
        /\ FlattenSeq(F) = f[n]
  <2>1. PICK f \in [0 .. Len(F) -> Seq(T)] :
          /\ f[0] = <<>> /\ \A a \in 1 .. Len(F) : f[a] = f[a - 1] \o F[a]
          /\ FlattenSeq(F) = f[Len(F)]
    BY <1>1, FlattenedInTurn
  <2> QED
    BY <1>1, <2>1
<1>4. Pushed(s, g) = f[n]
  BY <1>3 DEF Pushed, F
<1>5. \A k \in 0 .. n : IsFiniteSet(To(k)) /\ Cardinality(To(k)) \in Nat
  <2> SUFFICES ASSUME NEW k \in 0 .. n PROVE IsFiniteSet(To(k)) /\ Cardinality(To(k)) \in Nat
    OBVIOUS
  <2>1. k \in Nat /\ To(k) \subseteq 1 .. k
    BY <1>1
  <2>2. IsFiniteSet(1 .. k)
    BY <2>1, LengthOf
  <2> HIDE DEF To
  <2> QED
    BY <2>1, <2>2, FS_Subset, FS_CardinalityType
<1> DEFINE Z == {k \in 0 .. n : Len(f[k]) = Cardinality(To(k))}
<1>6. 0 \in Z
  <2>1. To(0) = {}
    OBVIOUS
  <2>2. Cardinality({}) = 0
    BY FS_EmptySet
  <2>3. 0 \in 0 .. n /\ Len(f[0]) = 0
    BY <1>1, <1>3
  <2> HIDE DEF To
  <2> QED
    BY <2>1, <2>2, <2>3
<1>7. ASSUME NEW k \in 1 .. n, k - 1 \in Z PROVE k \in Z
  <2>1. k - 1 \in 0 .. n /\ k \in 0 .. n /\ k \in DOMAIN s
    BY <1>1
  <2>2. f[k - 1] \in Seq(T) /\ F[k] \in Seq(T) /\ f[k] = f[k - 1] \o F[k]
    BY <1>2, <1>3, <2>1
  <2>3. Len(f[k]) = Len(f[k - 1]) + Len(F[k])
    BY <2>2
  <2>4. Len(F[k]) = IF k \in A THEN 1 ELSE 0
    BY <1>2, <2>1
  <2>5. \A a : a \in 1 .. k <=> a = k \/ a \in 1 .. k - 1
    BY <1>1
  <2>6. k \notin 1 .. k - 1
    BY <1>1
  <2>7. CASE k \in A
    <3>1. To(k) = To(k - 1) \cup {k} /\ k \notin To(k - 1)
      BY <2>5, <2>6, <2>7
    <3> HIDE DEF To
    <3>2. Cardinality(To(k)) = Cardinality(To(k - 1)) + 1
      BY <1>5, <2>1, <3>1, FS_AddElement
    <3> QED
      BY <1>7, <2>1, <2>3, <2>4, <2>7, <3>2
  <2>8. CASE k \notin A
    <3>1. To(k) = To(k - 1)
      BY <2>5, <2>8
    <3> HIDE DEF To
    <3>2. Len(f[k - 1]) \in Nat
      BY <2>2
    <3> QED
      BY <1>7, <2>1, <2>3, <2>4, <2>8, <3>1, <3>2
  <2> QED
    BY <2>7, <2>8
<1> HIDE DEF Z
<1>8. \A k \in 0 .. n : k \in Z
  BY <1>1, <1>6, <1>7, FromTheStart
<1>9. Len(f[n]) = Cardinality(To(n)) /\ Cardinality(To(n)) \in Nat
  BY <1>1, <1>5, <1>8 DEF Z
<1>10. To(n) = A
  BY <1>1
<1> QED
  BY <1>4, <1>9, <1>10

\* What is counted once at one of n places is counted by all of them together.
LEMMA CountedOnce ==
    ASSUME NEW n \in Nat, NEW N, IsFiniteSet(N), NEW m \in [N -> 1 .. n], NEW c \in Seq(Nat),
           Len(c) = n, \A i \in 1 .. n : c[i] = Cardinality({a \in N : m[a] = i})
    PROVE  sum(c) = Cardinality(N)
<1> DEFINE At(i) == {a \in N : m[a] = i}
           To(i) == {a \in N : m[a] \in 1 .. i}
<1>1. PICK t \in [0 .. n -> Nat] :
        /\ t[0] = 0 /\ \A i \in 1 .. n : t[i] = t[i - 1] + c[i]
        /\ sum(c) = t[n]
  <2>1. PICK t \in [0 .. Len(c) -> Nat] :
          /\ t[0] = 0 /\ \A i \in 1 .. Len(c) : t[i] = t[i - 1] + c[i]
          /\ sum(c) = t[Len(c)]
    BY SumInTurn
  <2> QED
    BY <2>1
<1>2. ASSUME NEW i
      PROVE  /\ IsFiniteSet(At(i)) /\ Cardinality(At(i)) \in Nat
             /\ IsFiniteSet(To(i)) /\ Cardinality(To(i)) \in Nat
  <2>1. At(i) \subseteq N /\ To(i) \subseteq N
    OBVIOUS
  <2> HIDE DEF At, To
  <2> QED
    BY <2>1, FS_Subset, FS_CardinalityType
<1> DEFINE Z == {i \in 0 .. n : t[i] = Cardinality(To(i))}
<1>3. 0 \in Z
  <2>1. To(0) = {}
    OBVIOUS
  <2>2. Cardinality({}) = 0
    BY FS_EmptySet
  <2>3. Cardinality(To(0)) = 0
    BY <2>1, <2>2, Zenon
  <2> HIDE DEF To
  <2> QED
    BY <1>1, <2>3
<1>4. ASSUME NEW i \in 1 .. n, i - 1 \in Z PROVE i \in Z
  <2>1. To(i) = To(i - 1) \cup At(i) /\ To(i - 1) \cap At(i) = {}
    <3>1. /\ \A x : x \in 1 .. i <=> x = i \/ x \in 1 .. i - 1
          /\ i \notin 1 .. i - 1
      OBVIOUS
    <3> QED
      BY <3>1
  <2>2. c[i] = Cardinality(At(i))
    OBVIOUS
  <2> HIDE DEF At, To
  <2>3. Cardinality(To(i - 1) \cup At(i)) =
            Cardinality(To(i - 1)) + Cardinality(At(i)) - Cardinality(To(i - 1) \cap At(i))
    BY <1>2, FS_Union
  <2>4. Cardinality({}) = 0
    BY FS_EmptySet
  <2>5. Cardinality(To(i)) = Cardinality(To(i - 1)) + Cardinality(At(i))
    <3>1. Cardinality(To(i)) = Cardinality(To(i - 1)) + Cardinality(At(i)) - Cardinality({})
      BY <2>1, <2>3, Zenon
    <3>2. Cardinality(To(i - 1)) \in Nat /\ Cardinality(At(i)) \in Nat
      BY <1>2
    <3> QED
      BY <2>4, <3>1, <3>2
  <2>6. i \in 0 .. n /\ i - 1 \in 0 .. n
    OBVIOUS
  <2> QED
    BY <1>1, <1>4, <2>2, <2>5, <2>6
<1> HIDE DEF Z
<1>5. \A i \in 0 .. n : i \in Z
  BY <1>3, <1>4, FromTheStart
<1>6. t[n] = Cardinality(To(n))
  BY <1>5 DEF Z
<1>7. To(n) = N
  OBVIOUS
<1> QED
  BY <1>1, <1>6, <1>7

-----------------------------------------------------------------------------
(* The Database the documents are made of. *)

-----------------------------------------------------------------------------
(* The sorted Database. *)

\* A table has the columns and the keys it had, in order.
LEMMA SortedTableKeeps ==
    ASSUME NEW d \in Databases, NEW i \in DOMAIN d.tables, NEW t, t = d.tables[i],
           NEW u, u = SortedTable(t)
    PROVE  /\ u.schema = t.schema /\ u.name = t.name /\ Id(u) = Id(t)
           /\ IsList(u.columns) /\ IsList(t.columns) /\ Alike(t.columns, u.columns)
           /\ IsList(u.foreign_keys) /\ IsList(t.foreign_keys)
           /\ Alike(t.foreign_keys, u.foreign_keys)
<1>1. t \in AnyTable /\ t \in ToSet(d.tables)
  BY DatabaseLists DEF ToSet
<1>2. Distinguished(d) /\ Ranked(d)
  BY DatabasesAreDistinguished
<1>3. /\ IsList(t.columns) /\ IsList(ByOrdinal(t.columns))
      /\ Alike(t.columns, ByOrdinal(t.columns))
  <2>1. IsList(t.columns)
    BY DatabaseLists, ListIs
  <2>2. \A k \in DOMAIN t.columns : t.columns[k].ordinal_position \in Nat
    <3>1. \A c \in AnyColumn : c.ordinal_position \in Nat
      BY DEF AnyColumn
    <3> QED
      BY <3>1, DatabaseLists
  <2>3. \A k, l \in DOMAIN t.columns :
            t.columns[k].ordinal_position = t.columns[l].ordinal_position => k = l
    BY <1>1, <1>2 DEF Distinguished
  <2> QED
    BY <2>1, <2>2, <2>3, AlikeItself, OrdinalsForget
<1>4. /\ IsList(t.foreign_keys) /\ IsList(ByName(t.foreign_keys))
      /\ Alike(t.foreign_keys, ByName(t.foreign_keys))
  <2>1. IsList(t.foreign_keys)
    BY DatabaseLists, ListIs
  <2>2. \A k \in DOMAIN t.foreign_keys : t.foreign_keys[k].name \in DOMAIN Rank
    BY <1>1, <1>2 DEF Ranked, ToSet
  <2>3. \A k, l \in DOMAIN t.foreign_keys :
            t.foreign_keys[k].name = t.foreign_keys[l].name => k = l
    BY <1>1, <1>2 DEF Distinguished
  <2> QED
    BY <2>1, <2>2, <2>3, AlikeItself, NamesForget
<1>5. /\ u.schema = t.schema /\ u.name = t.name /\ u.columns = ByOrdinal(t.columns)
      /\ u.foreign_keys = ByName(t.foreign_keys)
  BY <1>1, SortedFields
<1> QED
  BY <1>3, <1>4, <1>5 DEF Id

\* The tables of d, sorted, are those of e, and h is where they are.
SortedTo(h, d, e) ==
    /\ e.engine = d.engine
    /\ IsList(d.tables) /\ IsList(e.tables) /\ Reorders(h, d.tables, e.tables)
    /\ \A i \in DOMAIN d.tables : e.tables[h[i]] = SortedTable(d.tables[i])
    /\ \A i, j \in DOMAIN e.tables : Id(e.tables[i]) = Id(e.tables[j]) => i = j

\* A Database is sorted like that by sort().
LEMMA SortedDatabase ==
    ASSUME NEW d \in Databases
    PROVE  \E h : SortedTo(h, d, sort(d))
<1> DEFINE p == [i \in DOMAIN d.tables |-> SortedTable(d.tables[i])]
           e == sort(d)
<1>1. /\ d \in AnyDatabase /\ d.tables \in Seq(AnyTable) /\ IsList(d.tables)
      /\ DOMAIN d.tables = 1 .. Len(d.tables) /\ Len(d.tables) \in Nat
  BY DatabaseLists, ListIs
<1>2. e.engine = d.engine /\ e.tables = ById(p)
  <2> DEFINE t == ById(p)
             v == ById([i \in DOMAIN d.views |-> SortedView(d.views[i])])
  <2>1. e = [d EXCEPT !.tables = t, !.views = v]
    BY DEF sort
  <2> HIDE DEF t, v, e
  <2> QED
    BY <1>1, <2>1 DEF AnyDatabase, t
<1>3. IsList(p)
  <2>1. p \in [1 .. Len(d.tables) -> {p[i] : i \in DOMAIN d.tables}]
    BY <1>1
  <2>2. p \in Seq({p[i] : i \in DOMAIN d.tables})
    <3> HIDE DEF p
    <3> QED
      BY <1>1, <2>1
  <2> QED
    BY <2>2, ListIs
<1>4. ASSUME NEW i \in DOMAIN p
      PROVE  /\ p[i].schema \in DOMAIN Rank /\ p[i].name \in DOMAIN Rank
             /\ Id(p[i]) = Id(d.tables[i]) /\ i \in DOMAIN d.tables
  <2>1. d.tables[i] \in ToSet(d.tables) /\ i \in DOMAIN d.tables
    BY DEF ToSet
  <2>2. d.tables[i].schema \in DOMAIN Rank /\ d.tables[i].name \in DOMAIN Rank
    BY <2>1, DatabasesAreDistinguished DEF Ranked
  <2>3. p[i] = SortedTable(d.tables[i])
    BY <2>1
  <2> HIDE DEF p
  <2>4. p[i].schema = d.tables[i].schema /\ p[i].name = d.tables[i].name /\ Id(p[i]) = Id(d.tables[i])
    BY <2>1, <2>3, SortedTableKeeps
  <2> QED
    BY <2>1, <2>2, <2>4
<1>5. \A i, j \in DOMAIN p : Id(p[i]) = Id(p[j]) => i = j
  <2>1. DistinctIds(d)
    BY DatabasesAreProper DEF Proper
  <2> HIDE DEF p
  <2> QED
    BY <1>4, <2>1 DEF DistinctIds
<1>6. DOMAIN p = DOMAIN d.tables /\ \A i \in DOMAIN d.tables : p[i] = SortedTable(d.tables[i])
  OBVIOUS
<1> HIDE DEF p, e
<1>7. IsList(e.tables) /\ Alike(p, e.tables)
  BY <1>2, <1>3, <1>4, <1>5, AlikeItself, IdsForget
<1>8. PICK h : Reorders(h, p, e.tables) /\ \A i \in DOMAIN p : e.tables[h[i]] = p[i]
  BY <1>7 DEF Alike
<1>9. Reorders(h, d.tables, e.tables)
  BY <1>6, <1>8 DEF Reorders
<1>10. \A i, j \in DOMAIN e.tables : Id(e.tables[i]) = Id(e.tables[j]) => i = j
  <2>1. ASSUME NEW i \in DOMAIN e.tables, NEW j \in DOMAIN e.tables, Id(e.tables[i]) = Id(e.tables[j])
        PROVE  i = j
    <3>1. PICK k \in DOMAIN p : h[k] = i
      BY <1>8 DEF Reorders
    <3>2. PICK l \in DOMAIN p : h[l] = j
      BY <1>8 DEF Reorders
    <3> QED
      BY <1>5, <1>8, <2>1, <3>1, <3>2
  <2> QED
    BY <2>1
<1> QED
  BY <1>1, <1>2, <1>6, <1>7, <1>8, <1>9, <1>10 DEF SortedTo, e

\* What is told apart in a table, in either order.
Orderly(t) ==
    /\ t.columns \in Seq(AnyColumn) /\ t.foreign_keys \in Seq(AnyKey)
    /\ t.schema \in STRING \cap DOMAIN Rank /\ t.name \in STRING \cap DOMAIN Rank
    /\ \A i \in DOMAIN t.foreign_keys :
        /\ t.foreign_keys[i] \in AnyKey
        /\ {t.foreign_keys[i].name, t.foreign_keys[i].table[1], t.foreign_keys[i].table[2]}
                \subseteq DOMAIN Rank
        /\ t.foreign_keys[i].columns # <<>>
    /\ \A i, j \in DOMAIN t.foreign_keys : t.foreign_keys[i].name = t.foreign_keys[j].name => i = j
    /\ \A i, j \in DOMAIN t.columns : t.columns[i].name = t.columns[j].name => i = j

\* Two items of the one list are two items of the other.
LEMMA AlikeItems ==
    ASSUME NEW p, NEW q, Alike(p, q), NEW i \in DOMAIN q, NEW j \in DOMAIN q
    PROVE  \E k, l \in DOMAIN p : q[i] = p[k] /\ q[j] = p[l] /\ (k = l => i = j)
<1>1. PICK h : Reorders(h, p, q) /\ \A k \in DOMAIN p : q[h[k]] = p[k]
  BY DEF Alike
<1>2. PICK k \in DOMAIN p : h[k] = i
  BY <1>1 DEF Reorders
<1>3. PICK l \in DOMAIN p : h[l] = j
  BY <1>1 DEF Reorders
<1> QED
  BY <1>1, <1>2, <1>3

\* A table of a Database is, and still is when it is sorted.
LEMMA TablesAreOrderly ==
    ASSUME NEW d \in Databases, NEW i \in DOMAIN d.tables
    PROVE  Orderly(d.tables[i]) /\ Orderly(SortedTable(d.tables[i]))
<1> DEFINE t == d.tables[i]
           u == SortedTable(t)
<1>1. /\ t \in AnyTable /\ t \in ToSet(d.tables)
      /\ t.columns \in Seq(AnyColumn) /\ t.foreign_keys \in Seq(AnyKey)
      /\ \A k \in DOMAIN t.foreign_keys : t.foreign_keys[k] \in AnyKey
  BY DatabaseLists DEF ToSet
<1>2. t.schema \in STRING /\ t.name \in STRING
  <2> HIDE DEF t
  <2> QED
    BY <1>1 DEF AnyTable
<1> HIDE DEF t
<1>3. Distinguished(d) /\ Ranked(d)
  BY DatabasesAreDistinguished
<1>4. /\ t.schema \in DOMAIN Rank /\ t.name \in DOMAIN Rank
      /\ \A fk \in ToSet(t.foreign_keys) : {fk.name, fk.table[1], fk.table[2]} \subseteq DOMAIN Rank
  BY <1>1, <1>3 DEF Ranked
<1>5. /\ \A k \in DOMAIN t.foreign_keys : t.foreign_keys[k].columns # <<>>
      /\ \A k, l \in DOMAIN t.foreign_keys : t.foreign_keys[k].name = t.foreign_keys[l].name => k = l
      /\ \A k, l \in DOMAIN t.columns : t.columns[k].name = t.columns[l].name => k = l
  BY <1>1, <1>3 DEF Distinguished
<1>6. \A k \in DOMAIN t.foreign_keys : t.foreign_keys[k] \in ToSet(t.foreign_keys)
  BY DEF ToSet
<1>7. Orderly(t)
  BY <1>1, <1>2, <1>4, <1>5, <1>6 DEF Orderly
<1>8. /\ u.schema = t.schema /\ u.name = t.name
      /\ IsList(u.columns) /\ Alike(t.columns, u.columns)
      /\ IsList(u.foreign_keys) /\ Alike(t.foreign_keys, u.foreign_keys)
  BY SortedTableKeeps DEF t
<1> HIDE DEF u
<1>9. u.columns \in Seq(AnyColumn) /\ u.foreign_keys \in Seq(AnyKey)
  <2>1. ToSet(u.columns) = ToSet(t.columns) /\ ToSet(u.foreign_keys) = ToSet(t.foreign_keys)
    BY <1>8, AlikeMembers
  <2>2. ToSet(t.columns) \subseteq AnyColumn /\ ToSet(t.foreign_keys) \subseteq AnyKey
    <3> HIDE DEF AnyColumn, AnyKey
    <3> QED
      BY <1>1 DEF ToSet
  <2> QED
    BY <1>8, <2>1, <2>2, ListIs
<1>10. ASSUME NEW k \in DOMAIN u.foreign_keys
       PROVE  \E l \in DOMAIN t.foreign_keys : u.foreign_keys[k] = t.foreign_keys[l]
  BY <1>8, AlikeItems
<1>11. \A k, l \in DOMAIN u.foreign_keys : u.foreign_keys[k].name = u.foreign_keys[l].name => k = l
  <2> SUFFICES ASSUME NEW k \in DOMAIN u.foreign_keys, NEW l \in DOMAIN u.foreign_keys,
                      u.foreign_keys[k].name = u.foreign_keys[l].name
               PROVE  k = l
    OBVIOUS
  <2>1. PICK a \in DOMAIN t.foreign_keys, b \in DOMAIN t.foreign_keys :
            /\ u.foreign_keys[k] = t.foreign_keys[a] /\ u.foreign_keys[l] = t.foreign_keys[b]
            /\ a = b => k = l
    BY <1>8, AlikeItems
  <2> QED
    BY <1>5, <2>1
<1>12. \A k, l \in DOMAIN u.columns : u.columns[k].name = u.columns[l].name => k = l
  <2> SUFFICES ASSUME NEW k \in DOMAIN u.columns, NEW l \in DOMAIN u.columns,
                      u.columns[k].name = u.columns[l].name
               PROVE  k = l
    OBVIOUS
  <2>1. PICK a \in DOMAIN t.columns, b \in DOMAIN t.columns :
            /\ u.columns[k] = t.columns[a] /\ u.columns[l] = t.columns[b]
            /\ a = b => k = l
    BY <1>8, AlikeItems
  <2> QED
    BY <1>5, <2>1
<1>13. \A k \in DOMAIN u.foreign_keys :
        /\ u.foreign_keys[k] \in AnyKey
        /\ {u.foreign_keys[k].name, u.foreign_keys[k].table[1], u.foreign_keys[k].table[2]}
                \subseteq DOMAIN Rank
        /\ u.foreign_keys[k].columns # <<>>
  <2> HIDE DEF AnyKey
  <2> QED
    BY <1>1, <1>4, <1>5, <1>6, <1>10
<1>14. Orderly(u)
  BY <1>2, <1>4, <1>8, <1>9, <1>11, <1>12, <1>13 DEF Orderly
<1> QED
  BY <1>7, <1>14 DEF t, u

\* A Database before and after the sort.
LEMMA SortedTables ==
    ASSUME NEW d \in Databases, NEW e, NEW h, SortedTo(h, d, e)
    PROVE  /\ IsList(e.tables) /\ e.engine = d.engine
           /\ Len(e.tables) \in Nat /\ DOMAIN e.tables = 1 .. Len(e.tables)
           /\ \A i \in DOMAIN d.tables :
                /\ h[i] \in DOMAIN e.tables /\ e.tables[h[i]] = SortedTable(d.tables[i])
                /\ Orderly(d.tables[i]) /\ Id(e.tables[h[i]]) = Id(d.tables[i])
           /\ \A k \in DOMAIN e.tables : Orderly(e.tables[k]) /\ \E i \in DOMAIN d.tables : h[i] = k
           /\ \A k, l \in DOMAIN e.tables : Id(e.tables[k]) = Id(e.tables[l]) => k = l
<1>1. /\ IsList(e.tables) /\ e.engine = d.engine /\ Reorders(h, d.tables, e.tables)
      /\ \A i \in DOMAIN d.tables : e.tables[h[i]] = SortedTable(d.tables[i])
      /\ \A k, l \in DOMAIN e.tables : Id(e.tables[k]) = Id(e.tables[l]) => k = l
  BY DEF SortedTo
<1>2. /\ \A i \in DOMAIN d.tables : h[i] \in DOMAIN e.tables
      /\ \A k \in DOMAIN e.tables : \E i \in DOMAIN d.tables : h[i] = k
  BY <1>1 DEF Reorders
<1>3. \A i \in DOMAIN d.tables : Orderly(d.tables[i]) /\ Orderly(SortedTable(d.tables[i]))
  BY TablesAreOrderly
<1>4. \A i \in DOMAIN d.tables : Id(SortedTable(d.tables[i])) = Id(d.tables[i])
  BY SortedTableKeeps
<1>5. Len(e.tables) \in Nat /\ DOMAIN e.tables = 1 .. Len(e.tables)
  BY <1>1, ListIs
<1>6. \A k \in DOMAIN e.tables : Orderly(e.tables[k])
  BY <1>1, <1>2, <1>3
<1> QED
  BY <1>1, <1>2, <1>3, <1>4, <1>5, <1>6

-----------------------------------------------------------------------------
(* The relationships and the counts of the keys. *)

\* The keys of a table as relationships, those of all tables in turn, and what
\* the relationships are sorted by.
RelationOf(t, fk) ==
    [from |-> Id(t), from_columns |-> fk.columns,
     to |-> fk.table, to_columns |-> fk.referenced, constraint |-> fk.name]
RelationsOf(t) == [i \in DOMAIN t.foreign_keys |-> RelationOf(t, t.foreign_keys[i])]
Listed(d) == FlattenSeq([k \in DOMAIN d.tables |-> RelationsOf(d.tables[k])])
Ends(r) == r.from \o r.to \o <<r.constraint>>
EndOrder(s) == {x \in ToSet(s) \X ToSet(s) : Precedes(Ends(x[1]), Ends(x[2]))}

\* relationships() sorts them by it.
LEMMA SortsRelationships ==
    ASSUME NEW d
    PROVE  relationships(d) = SortedBy(Listed(d), EndOrder(Listed(d)))
<1> DEFINE s == Listed(d)
           R == EndOrder(s)
<1>0. relationships(d) = sort_by(s, LAMBDA a, b : Precedes(Ends(a), Ends(b)))
  BY DEF relationships, ForEach, RelationsOf, RelationOf, Listed, Ends
<1> HIDE DEF s
<1>1. \A i, j \in DOMAIN s : <<s[i], s[j]>> \in R <=> Precedes(Ends(s[i]), Ends(s[j]))
  BY DEF EndOrder, ToSet
<1> HIDE DEF R
<1>2. PlaceOf(s, R) = [i \in DOMAIN s |-> 1 + Cardinality({j \in DOMAIN s :
            Precedes(Ends(s[j]), Ends(s[i])) \/ (~Precedes(Ends(s[i]), Ends(s[j])) /\ j < i)})]
  <2>1. ASSUME NEW i \in DOMAIN s
        PROVE  Before(s, R, i) = {j \in DOMAIN s :
                    Precedes(Ends(s[j]), Ends(s[i])) \/ (~Precedes(Ends(s[i]), Ends(s[j])) /\ j < i)}
    BY <1>1, <2>1 DEF Before
  <2> QED
    BY <2>1 DEF PlaceOf
<1>3. relationships(d) = SortedBy(s, R)
  BY <1>0, <1>2 DEF sort_by, SortedBy
<1> QED
  BY <1>3 DEF R, s

\* Five names in a row.
LEMMA FiveNames ==
    ASSUME NEW p, NEW q, DOMAIN p = 1 .. 5
    PROVE  Precedes(p, q) <=>
            \/ Rank[p[1]] < Rank[q[1]]
            \/ Rank[p[2]] < Rank[q[2]] /\ p[1] = q[1]
            \/ Rank[p[3]] < Rank[q[3]] /\ p[1] = q[1] /\ p[2] = q[2]
            \/ Rank[p[4]] < Rank[q[4]] /\ p[1] = q[1] /\ p[2] = q[2] /\ p[3] = q[3]
            \/ Rank[p[5]] < Rank[q[5]] /\ p[1] = q[1] /\ p[2] = q[2] /\ p[3] = q[3] /\ p[4] = q[4]
<1>1. DOMAIN p = {1, 2, 3, 4, 5}
  OBVIOUS
<1>2. /\ 1 .. (1 - 1) = {} /\ 1 .. (2 - 1) = {1} /\ 1 .. (3 - 1) = {1, 2}
      /\ 1 .. (4 - 1) = {1, 2, 3} /\ 1 .. (5 - 1) = {1, 2, 3, 4}
  OBVIOUS
<1> DEFINE T(i) == Rank[p[i]] < Rank[q[i]] /\ \A j \in 1 .. (i - 1) : p[j] = q[j]
<1>3. Precedes(p, q) <=> T(1) \/ T(2) \/ T(3) \/ T(4) \/ T(5)
  BY <1>1 DEF Precedes
<1>4. /\ T(1) <=> Rank[p[1]] < Rank[q[1]]
      /\ T(2) <=> Rank[p[2]] < Rank[q[2]] /\ p[1] = q[1]
      /\ T(3) <=> Rank[p[3]] < Rank[q[3]] /\ p[1] = q[1] /\ p[2] = q[2]
      /\ T(4) <=> Rank[p[4]] < Rank[q[4]] /\ p[1] = q[1] /\ p[2] = q[2] /\ p[3] = q[3]
      /\ T(5) <=> Rank[p[5]] < Rank[q[5]] /\ p[1] = q[1] /\ p[2] = q[2] /\ p[3] = q[3] /\ p[4] = q[4]
  BY <1>2
<1> HIDE DEF T
<1> QED
  BY <1>3, <1>4

\* The ends of a relationship are names, and are ranked.
LEMMA EndsAre ==
    ASSUME NEW t, Orderly(t), NEW i \in DOMAIN t.foreign_keys,
           NEW r, r = RelationOf(t, t.foreign_keys[i])
    PROVE  /\ DOMAIN Ends(r) = 1 .. 5
           /\ Ends(r)[1] = t.schema /\ Ends(r)[2] = t.name
           /\ Ends(r)[3] = t.foreign_keys[i].table[1] /\ Ends(r)[4] = t.foreign_keys[i].table[2]
           /\ Ends(r)[5] = t.foreign_keys[i].name
           /\ \A j \in 1 .. 5 : Ends(r)[j] \in DOMAIN Rank
<1> DEFINE fk == t.foreign_keys[i]
           a == t.schema
           b == t.name
           c == fk.table[1]
           d == fk.table[2]
           e == fk.name
<1>1. fk \in AnyKey /\ {e, c, d} \subseteq DOMAIN Rank /\ a \in DOMAIN Rank /\ b \in DOMAIN Rank
  BY DEF Orderly
<1>2. fk.table \in STRING \X STRING
  <2> HIDE DEF fk
  <2> QED
    BY <1>1 DEF AnyKey
<1>3. r.from = <<a, b>> /\ r.to = fk.table /\ r.constraint = e
  BY DEF RelationOf, Id
<1>4. r.to = <<c, d>>
  <2> HIDE DEF fk
  <2> QED
    BY <1>2, <1>3
<1> HIDE DEF a, b, c, d, e
<1>5. Ends(r) = <<a, b>> \o <<c, d>> \o <<e>>
  BY <1>3, <1>4 DEF Ends
<1>6. LET p == <<a, b>> \o <<c, d>> \o <<e>>
      IN  DOMAIN p = 1 .. 5 /\ p[1] = a /\ p[2] = b /\ p[3] = c /\ p[4] = d /\ p[5] = e
  <2> DEFINE S == {a, b, c, d, e}
             x == <<a, b>>
             y == <<c, d>>
             z == <<e>>
  <2>1. /\ x \in Seq(S) /\ y \in Seq(S) /\ z \in Seq(S)
        /\ Len(x) = 2 /\ Len(y) = 2 /\ Len(z) = 1
        /\ x[1] = a /\ x[2] = b /\ y[1] = c /\ y[2] = d /\ z[1] = e
    OBVIOUS
  <2> HIDE DEF S, x, y, z
  <2>2. IsList(x) /\ IsList(y) /\ IsList(z)
    BY <2>1, ListIs
  <2> DEFINE w == x \o y
  <2>3. /\ IsList(w) /\ DOMAIN w = 1 .. 2 + 2 /\ Len(w) = 2 + 2
        /\ \A k \in 1 .. 2 : w[k] = x[k] /\ w[2 + k] = y[k]
    <3>1. /\ IsList(w) /\ DOMAIN w = 1 .. Len(x) + Len(y) /\ Len(w) = Len(x) + Len(y)
          /\ \A k \in 1 .. Len(x) : w[k] = x[k]
          /\ \A k \in 1 .. Len(y) : w[Len(x) + k] = y[k]
      BY <2>2, Places
    <3> HIDE DEF w
    <3> QED
      BY <2>1, <3>1
  <2>4. IsList(w) /\ Len(w) = 4 /\ w[1] = a /\ w[2] = b /\ w[3] = c /\ w[4] = d
    BY <2>1, <2>3
  <2> HIDE DEF w
  <2> DEFINE v == w \o z
  <2>5. /\ DOMAIN v = 1 .. 4 + 1
        /\ \A k \in 1 .. 4 : v[k] = w[k]
        /\ \A k \in 1 .. 1 : v[4 + k] = z[k]
    <3>0. IsList(w) /\ IsList(z)
      BY <2>2, <2>4
    <3>1. /\ DOMAIN v = 1 .. Len(w) + Len(z)
          /\ \A k \in 1 .. Len(w) : v[k] = w[k]
          /\ \A k \in 1 .. Len(z) : v[Len(w) + k] = z[k]
      BY <3>0, Places
    <3> HIDE DEF v
    <3> QED
      BY <2>1, <2>4, <3>1
  <2> HIDE DEF v
  <2>6. /\ DOMAIN v = 1 .. 5 /\ v[1] = a /\ v[2] = b /\ v[3] = c /\ v[4] = d /\ v[5] = e
    BY <2>1, <2>4, <2>5
  <2> QED
    BY <2>6 DEF v, w, x, y, z
<1>7. /\ DOMAIN Ends(r) = 1 .. 5
      /\ Ends(r)[1] = a /\ Ends(r)[2] = b /\ Ends(r)[3] = c /\ Ends(r)[4] = d /\ Ends(r)[5] = e
  BY <1>5, <1>6
<1>8. \A j \in 1 .. 5 : j = 1 \/ j = 2 \/ j = 3 \/ j = 4 \/ j = 5
  OBVIOUS
<1>9. \A j \in 1 .. 5 : Ends(r)[j] \in DOMAIN Rank
  <2> HIDE DEF fk
  <2> QED
    BY <1>1, <1>7, <1>8
<1> QED
  BY <1>7, <1>9 DEF a, b, c, d, e

\* What is alike is as long, and is the same when it is sorted.
LEMMA AlikeSorted ==
    ASSUME NEW p, NEW q, IsList(p), IsList(q), Alike(p, q)
    PROVE  Len(p) = Len(q) /\ Sorted(p) = Sorted(q)
<1>1. Len(p) \in Nat /\ Len(q) \in Nat /\ DOMAIN p = 1 .. Len(p) /\ DOMAIN q = 1 .. Len(q)
  BY ListIs
<1>2. ToSet(p) = ToSet(q)
  BY AlikeMembers
<1>3. IsFiniteSet(DOMAIN p)
  BY FinitelyLong
<1>4. Len(p) = Len(q)
  <2>1. Cardinality({i \in DOMAIN p : p[i] \in ToSet(p)}) = Cardinality({i \in DOMAIN q : q[i] \in ToSet(p)})
    BY <1>3, AlikeCount
  <2>2. /\ {i \in DOMAIN p : p[i] \in ToSet(p)} = DOMAIN p
        /\ {i \in DOMAIN q : q[i] \in ToSet(p)} = DOMAIN q
    BY <1>2 DEF ToSet
  <2>3. Cardinality(1 .. Len(p)) = Cardinality(1 .. Len(q))
    BY <1>1, <2>1, <2>2
  <2>4. Cardinality(1 .. Len(p)) = Len(p) /\ Cardinality(1 .. Len(q)) = Len(q)
    BY <1>1, LengthOf
  <2> QED
    BY <2>3, <2>4
<1>5. Sorted(p) = Sorted(q)
  <2>1. ASSUME NEW f
        PROVE  Cardinality({i \in DOMAIN p : p[i] = f}) = Cardinality({i \in DOMAIN q : q[i] = f})
    <3> DEFINE K == {f}
    <3>1. /\ {i \in DOMAIN p : p[i] \in K} = {i \in DOMAIN p : p[i] = f}
          /\ {i \in DOMAIN q : q[i] \in K} = {i \in DOMAIN q : q[i] = f}
      OBVIOUS
    <3> HIDE DEF K
    <3>2. Cardinality({i \in DOMAIN p : p[i] \in K}) = Cardinality({i \in DOMAIN q : q[i] \in K})
      BY <1>3, AlikeCount
    <3> QED
      BY <3>1, <3>2
  <2> QED
    BY <1>2, <2>1 DEF Sorted
<1> QED
  BY <1>4, <1>5

\* The relationships of the tables, before they are sorted.
LEMMA ListedIs ==
    ASSUME NEW d, IsList(d.tables), \A k \in DOMAIN d.tables : Orderly(d.tables[k]),
           NEW F, F = [k \in DOMAIN d.tables |-> RelationsOf(d.tables[k])]
    PROVE  /\ Lists(F) /\ DOMAIN F = DOMAIN d.tables /\ Listed(d) = FlattenSeq(F)
           /\ IsList(Listed(d)) /\ Alike(Entry(F, Len(F)), Listed(d))
           /\ \A k \in DOMAIN F :
                /\ Len(F[k]) = Len(d.tables[k].foreign_keys)
                /\ DOMAIN F[k] = DOMAIN d.tables[k].foreign_keys
                /\ \A l \in DOMAIN F[k] : F[k][l] = RelationOf(d.tables[k], d.tables[k].foreign_keys[l])
<1>1. ASSUME NEW k \in DOMAIN d.tables
      PROVE  /\ IsList(RelationsOf(d.tables[k]))
             /\ Len(RelationsOf(d.tables[k])) = Len(d.tables[k].foreign_keys)
             /\ DOMAIN RelationsOf(d.tables[k]) = DOMAIN d.tables[k].foreign_keys
  <2> DEFINE t == d.tables[k]
             n == Len(t.foreign_keys)
             q == RelationsOf(t)
  <2>1. n \in Nat /\ DOMAIN t.foreign_keys = 1 .. n
    <3>1. t.foreign_keys \in Seq(AnyKey)
      BY DEF Orderly
    <3> HIDE DEF t, AnyKey
    <3> QED
      BY <3>1
  <2>2. DOMAIN q = 1 .. n /\ q = [i \in 1 .. n |-> q[i]]
    BY <2>1 DEF RelationsOf
  <2>3. \A i \in 1 .. n : q[i] \in ToSet(q)
    BY <2>2 DEF ToSet
  <2> HIDE DEF q, n
  <2>4. q \in [1 .. n -> ToSet(q)]
    BY <2>2, <2>3
  <2>5. q \in Seq(ToSet(q)) /\ Len(q) = n
    BY <2>1, <2>4
  <2> QED
    BY <2>1, <2>2, <2>5 DEF IsList, q, n
<1>2. DOMAIN F = DOMAIN d.tables /\ \A k \in DOMAIN F : F[k] = RelationsOf(d.tables[k])
  OBVIOUS
<1>3. F = [k \in DOMAIN d.tables |-> F[k]] /\ \A k \in DOMAIN d.tables : IsList(F[k])
  BY <1>1, <1>2
<1>4. Listed(d) = FlattenSeq(F)
  BY DEF Listed
<1>5. Lists(F)
  BY <1>3, PushedForEach
<1>6. IsList(FlattenSeq(F)) /\ Alike(Entry(F, Len(F)), FlattenSeq(F))
  BY <1>5, FlattenedList
<1>7. \A k \in DOMAIN F : \A l \in DOMAIN F[k] :
        F[k][l] = RelationOf(d.tables[k], d.tables[k].foreign_keys[l])
  BY <1>2 DEF RelationsOf
<1> QED
  BY <1>1, <1>2, <1>4, <1>5, <1>6, <1>7

\* Two relationships never lead the same way under one name,
LEMMA ListedApart ==
    ASSUME NEW d, IsList(d.tables), \A k \in DOMAIN d.tables : Orderly(d.tables[k]),
           \A k, l \in DOMAIN d.tables : Id(d.tables[k]) = Id(d.tables[l]) => k = l,
           NEW i \in DOMAIN Listed(d), NEW j \in DOMAIN Listed(d)
    PROVE  /\ DOMAIN Ends(Listed(d)[i]) = 1 .. 5
           /\ \A a \in 1 .. 5 : Ends(Listed(d)[i])[a] \in DOMAIN Rank
           /\ (\A a \in 1 .. 5 : Ends(Listed(d)[i])[a] = Ends(Listed(d)[j])[a]) => i = j
<1> DEFINE F == [k \in DOMAIN d.tables |-> RelationsOf(d.tables[k])]
           E == Entry(F, Len(F))
           L == Listed(d)
<1>1. /\ Lists(F) /\ DOMAIN F = DOMAIN d.tables /\ IsList(L) /\ Alike(E, L)
      /\ \A k \in DOMAIN F :
            /\ DOMAIN F[k] = DOMAIN d.tables[k].foreign_keys
            /\ \A l \in DOMAIN F[k] : F[k][l] = RelationOf(d.tables[k], d.tables[k].foreign_keys[l])
  BY ListedIs
<1>2. DOMAIN F = 1 .. Len(F)
  BY <1>1, ListIs DEF Lists
<1> HIDE DEF F, L
<1>3. PICK v \in DOMAIN E, w \in DOMAIN E : L[i] = E[v] /\ L[j] = E[w] /\ (v = w => i = j)
  BY <1>1, AlikeItems DEF L
<1>4. /\ v[1] \in DOMAIN F /\ v[2] \in DOMAIN F[v[1]] /\ E[v] = F[v[1]][v[2]]
      /\ w[1] \in DOMAIN F /\ w[2] \in DOMAIN F[w[1]] /\ E[w] = F[w[1]][w[2]]
      /\ v = <<v[1], v[2]>> /\ w = <<w[1], w[2]>>
  BY <1>2 DEF Entry, EntriesTo
<1> DEFINE t == d.tables[v[1]]
           u == d.tables[w[1]]
<1>5. /\ v[1] \in DOMAIN d.tables /\ w[1] \in DOMAIN d.tables /\ Orderly(t) /\ Orderly(u)
      /\ v[2] \in DOMAIN t.foreign_keys /\ w[2] \in DOMAIN u.foreign_keys
      /\ L[i] = RelationOf(t, t.foreign_keys[v[2]]) /\ L[j] = RelationOf(u, u.foreign_keys[w[2]])
  BY <1>1, <1>3, <1>4
<1>6. /\ DOMAIN Ends(L[i]) = 1 .. 5 /\ \A a \in 1 .. 5 : Ends(L[i])[a] \in DOMAIN Rank
      /\ Ends(L[i])[1] = t.schema /\ Ends(L[i])[2] = t.name
      /\ Ends(L[i])[5] = t.foreign_keys[v[2]].name
  <2> HIDE DEF t
  <2> QED
    BY <1>5, EndsAre
<1>7. /\ Ends(L[j])[1] = u.schema /\ Ends(L[j])[2] = u.name
      /\ Ends(L[j])[5] = u.foreign_keys[w[2]].name
  <2> HIDE DEF u
  <2> QED
    BY <1>5, EndsAre
<1>8. ASSUME \A a \in 1 .. 5 : Ends(L[i])[a] = Ends(L[j])[a]
      PROVE  i = j
  <2>1. 1 \in 1 .. 5 /\ 2 \in 1 .. 5 /\ 5 \in 1 .. 5
    OBVIOUS
  <2>2. t.schema = u.schema /\ t.name = u.name
    BY <1>6, <1>7, <1>8, <2>1
  <2>3. v[1] = w[1]
    <3>1. Id(t) = Id(u)
      BY <2>2 DEF Id
    <3> QED
      BY <1>5, <3>1
  <2>4. v[2] = w[2]
    <3>1. t.foreign_keys[v[2]].name = t.foreign_keys[w[2]].name
      BY <1>6, <1>7, <1>8, <2>1, <2>3
    <3>2. v[2] \in DOMAIN t.foreign_keys /\ w[2] \in DOMAIN t.foreign_keys
      BY <1>5, <2>3
    <3> QED
      BY <1>5, <3>1, <3>2 DEF Orderly
  <2> QED
    BY <1>3, <1>4, <2>3, <2>4
<1> QED
  BY <1>6, <1>8 DEF L

\* so that they are sorted, and are those of the tables.
LEMMA RelationshipsAreListed ==
    ASSUME NEW d, IsList(d.tables), \A k \in DOMAIN d.tables : Orderly(d.tables[k]),
           \A k, l \in DOMAIN d.tables : Id(d.tables[k]) = Id(d.tables[l]) => k = l
    PROVE  /\ IsList(Listed(d)) /\ IsList(relationships(d)) /\ Alike(Listed(d), relationships(d))
<1> DEFINE s == Listed(d)
           R == EndOrder(s)
           N(i, a) == Rank[Ends(s[i])[a]]
<1>1. IsList(s)
  BY ListedIs
<1>2. ASSUME NEW i \in DOMAIN s, NEW j \in DOMAIN s
      PROVE  /\ DOMAIN Ends(s[i]) = 1 .. 5
             /\ \A a \in 1 .. 5 : Ends(s[i])[a] \in DOMAIN Rank
             /\ (\A a \in 1 .. 5 : Ends(s[i])[a] = Ends(s[j])[a]) => i = j
  BY ListedApart
<1>3. \A i, j \in DOMAIN s : <<s[i], s[j]>> \in R <=> Precedes(Ends(s[i]), Ends(s[j]))
  BY DEF EndOrder, ToSet
<1> HIDE DEF s, R
<1>4. \A i \in DOMAIN s, a \in 1 .. 5 : N(i, a) \in Nat
  BY <1>2, RankIsAnOrder
<1>5. ASSUME NEW i \in DOMAIN s, NEW j \in DOMAIN s, NEW a \in 1 .. 5
      PROVE  N(i, a) = N(j, a) <=> Ends(s[i])[a] = Ends(s[j])[a]
  <2>1. Ends(s[i])[a] \in DOMAIN Rank /\ Ends(s[j])[a] \in DOMAIN Rank
    BY <1>2
  <2> QED
    BY <2>1, RankIsAnOrder
<1>6. 1 \in 1 .. 5 /\ 2 \in 1 .. 5 /\ 3 \in 1 .. 5 /\ 4 \in 1 .. 5 /\ 5 \in 1 .. 5
  OBVIOUS
<1>7. \A i, j \in DOMAIN s : <<s[i], s[j]>> \in R <=>
            \/ N(i, 1) < N(j, 1)
            \/ N(i, 2) < N(j, 2) /\ N(i, 1) = N(j, 1)
            \/ N(i, 3) < N(j, 3) /\ N(i, 1) = N(j, 1) /\ N(i, 2) = N(j, 2)
            \/ N(i, 4) < N(j, 4) /\ N(i, 1) = N(j, 1) /\ N(i, 2) = N(j, 2) /\ N(i, 3) = N(j, 3)
            \/ /\ N(i, 5) < N(j, 5) /\ N(i, 1) = N(j, 1) /\ N(i, 2) = N(j, 2)
               /\ N(i, 3) = N(j, 3) /\ N(i, 4) = N(j, 4)
  <2> SUFFICES ASSUME NEW i \in DOMAIN s, NEW j \in DOMAIN s
               PROVE  <<s[i], s[j]>> \in R <=>
            \/ N(i, 1) < N(j, 1)
            \/ N(i, 2) < N(j, 2) /\ N(i, 1) = N(j, 1)
            \/ N(i, 3) < N(j, 3) /\ N(i, 1) = N(j, 1) /\ N(i, 2) = N(j, 2)
            \/ N(i, 4) < N(j, 4) /\ N(i, 1) = N(j, 1) /\ N(i, 2) = N(j, 2) /\ N(i, 3) = N(j, 3)
            \/ /\ N(i, 5) < N(j, 5) /\ N(i, 1) = N(j, 1) /\ N(i, 2) = N(j, 2)
               /\ N(i, 3) = N(j, 3) /\ N(i, 4) = N(j, 4)
    OBVIOUS
  <2> DEFINE p == Ends(s[i])
             q == Ends(s[j])
  <2>1. DOMAIN p = 1 .. 5
    BY <1>2
  <2>2. Precedes(p, q) <=>
            \/ Rank[p[1]] < Rank[q[1]]
            \/ Rank[p[2]] < Rank[q[2]] /\ p[1] = q[1]
            \/ Rank[p[3]] < Rank[q[3]] /\ p[1] = q[1] /\ p[2] = q[2]
            \/ Rank[p[4]] < Rank[q[4]] /\ p[1] = q[1] /\ p[2] = q[2] /\ p[3] = q[3]
            \/ Rank[p[5]] < Rank[q[5]] /\ p[1] = q[1] /\ p[2] = q[2] /\ p[3] = q[3] /\ p[4] = q[4]
    <3> HIDE DEF p, q
    <3> QED
      BY <2>1, FiveNames
  <2>3. /\ N(i, 1) = N(j, 1) <=> p[1] = q[1]
        /\ N(i, 2) = N(j, 2) <=> p[2] = q[2]
        /\ N(i, 3) = N(j, 3) <=> p[3] = q[3]
        /\ N(i, 4) = N(j, 4) <=> p[4] = q[4]
    BY <1>5, <1>6
  <2> QED
    BY <1>3, <2>2, <2>3
<1>8. \A i, j \in DOMAIN s : N(i, 1) = N(j, 1) /\ N(i, 2) = N(j, 2) /\ N(i, 3) = N(j, 3)
                                /\ N(i, 4) = N(j, 4) /\ N(i, 5) = N(j, 5) => i = j
  <2> SUFFICES ASSUME NEW i \in DOMAIN s, NEW j \in DOMAIN s,
                      N(i, 1) = N(j, 1), N(i, 2) = N(j, 2), N(i, 3) = N(j, 3),
                      N(i, 4) = N(j, 4), N(i, 5) = N(j, 5)
               PROVE  i = j
    OBVIOUS
  <2>1. \A a \in 1 .. 5 : a = 1 \/ a = 2 \/ a = 3 \/ a = 4 \/ a = 5
    OBVIOUS
  <2>2. \A a \in 1 .. 5 : N(i, a) = N(j, a)
    BY <2>1
  <2> QED
    BY <1>2, <1>5, <2>2
<1>9. \A i \in DOMAIN s : N(i, 1) \in Nat /\ N(i, 2) \in Nat /\ N(i, 3) \in Nat
                          /\ N(i, 4) \in Nat /\ N(i, 5) \in Nat
  BY <1>4, <1>6
<1> HIDE DEF N
<1>10. Orders(s, R)
  <2>1. ASSUME NEW i \in DOMAIN s PROVE <<s[i], s[i]>> \notin R
    BY <1>7, <1>9
  <2>2. ASSUME NEW i \in DOMAIN s, NEW j \in DOMAIN s, i # j
        PROVE  <<s[i], s[j]>> \in R \/ <<s[j], s[i]>> \in R
    BY <1>7, <1>8, <1>9, <2>2
  <2>3. ASSUME NEW i \in DOMAIN s, NEW j \in DOMAIN s, NEW k \in DOMAIN s,
               <<s[i], s[j]>> \in R, <<s[j], s[k]>> \in R
        PROVE  <<s[i], s[k]>> \in R
    BY <1>7, <1>9, <2>3
  <2> QED
    BY <2>1, <2>2, <2>3 DEF Orders
<1>11. relationships(d) = SortedBy(s, R)
  BY SortsRelationships DEF s, R
<1>12. IsList(SortedBy(s, R)) /\ Alike(s, SortedBy(s, R))
  BY <1>1, <1>10, SortKeeps
<1> QED
  BY <1>1, <1>11, <1>12 DEF s

\* Lists of what is in S.
LEMMA ListsAre ==
    ASSUME NEW F, Lists(F), NEW S, \A i \in DOMAIN F : ToSet(F[i]) \subseteq S
    PROVE  F \in Seq(Seq(S)) /\ Len(F) \in Nat /\ DOMAIN F = 1 .. Len(F)
<1>1. /\ IsList(F) /\ Len(F) \in Nat /\ DOMAIN F = 1 .. Len(F)
      /\ \A i \in DOMAIN F : F[i] \in Seq(S)
  BY ListIs DEF Lists
<1> DEFINE U == Seq(S)
<1>2. ToSet(F) \subseteq U
  BY <1>1 DEF ToSet
<1> HIDE DEF U
<1>3. F \in Seq(U)
  BY <1>1, <1>2, ListIs
<1> QED
  BY <1>1, <1>3 DEF U

\* A list with an item for each of those of another.
LEMMA OfEach ==
    ASSUME NEW q, IsList(q), NEW p, p = [i \in DOMAIN q |-> p[i]]
    PROVE  IsList(p) /\ Len(p) = Len(q) /\ DOMAIN p = DOMAIN q
<1>1. Len(q) \in Nat /\ DOMAIN q = 1 .. Len(q)
  BY ListIs
<1>2. \A i \in DOMAIN p : p[i] \in ToSet(p)
  BY DEF ToSet
<1>3. p \in [1 .. Len(q) -> ToSet(p)]
  BY <1>1, <1>2
<1>4. p \in Seq(ToSet(p)) /\ Len(p) = Len(q)
  BY <1>1, <1>3
<1> QED
  BY <1>4 DEF IsList

\* The documents of a Database.
LEMMA DocumentedFields ==
    ASSUME NEW d
    PROVE  /\ Documented(d).schema = d
           /\ Documented(d).analysis = analyze(d)
           /\ Documented(d).ai = generate(d, analyze(d))
           /\ Documented(d).relationships = relationships(d)
           /\ Documented(d).metadata = Metadata(d)
           /\ Documented(d).markdown = render_markdown(d, analyze(d), generate(d, analyze(d)))
           /\ Documented(d).graph = render_mermaid(d)
           /\ Documented(d).statistics = Statistics(d)
BY DEF Documented

\* How many keys the tables have.
KeyCount(d) == sum([k \in DOMAIN d.tables |-> Len(d.tables[k].foreign_keys)])

\* All counts of the keys are that.
LEMMA CountsAre ==
    ASSUME NEW d, NEW h, database \in Databases, SortedTo(h, database, d), documents = Documented(d)
    PROVE  /\ CountsAgree /\ documents.statistics.foreign_keys = KeyCount(d)
           /\ Len(Listed(d)) = KeyCount(d)
<1>1. /\ IsList(d.tables) /\ \A k \in DOMAIN d.tables : Orderly(d.tables[k])
      /\ \A k, l \in DOMAIN d.tables : Id(d.tables[k]) = Id(d.tables[l]) => k = l
  BY SortedTables
<1> DEFINE F == [k \in DOMAIN d.tables |-> RelationsOf(d.tables[k])]
<1>2. Len(Listed(d)) = KeyCount(d)
  <2>1. /\ Lists(F) /\ DOMAIN F = DOMAIN d.tables /\ Listed(d) = FlattenSeq(F)
        /\ \A k \in DOMAIN F : Len(F[k]) = Len(d.tables[k].foreign_keys)
    BY <1>1, ListedIs
  <2> HIDE DEF F
  <2> DEFINE S == UNION {ToSet(F[k]) : k \in DOMAIN F}
  <2>2. \A k \in DOMAIN F : ToSet(F[k]) \subseteq S
    OBVIOUS
  <2> HIDE DEF S
  <2>3. F \in Seq(Seq(S))
    BY <2>1, <2>2, ListsAre
  <2>4. Len(FlattenSeq(F)) = sum([k \in DOMAIN F |-> Len(F[k])])
    BY <2>3, FlattenedLength
  <2>5. [k \in DOMAIN F |-> Len(F[k])] = [k \in DOMAIN d.tables |-> Len(d.tables[k].foreign_keys)]
    BY <2>1
  <2> QED
    BY <2>1, <2>4, <2>5 DEF KeyCount
<1>3. Len(relationships(d)) = KeyCount(d) /\ IsList(relationships(d))
  <2>1. IsList(Listed(d)) /\ IsList(relationships(d)) /\ Alike(Listed(d), relationships(d))
    BY <1>1, RelationshipsAreListed
  <2>2. Len(Listed(d)) = Len(relationships(d))
    BY <2>1, AlikeSorted
  <2> QED
    BY <1>2, <2>1, <2>2
<1>4. /\ documents.statistics.foreign_keys = KeyCount(d)
      /\ documents.metadata.foreign_key_count = KeyCount(d)
  <2>1. documents.statistics = Statistics(d) /\ documents.metadata = Metadata(d)
    BY DocumentedFields
  <2>2. Statistics(d).foreign_keys = KeyCount(d) /\ Metadata(d).foreign_key_count = KeyCount(d)
    BY DEF Statistics, Metadata, Total, KeyCount
  <2> QED
    BY <2>1, <2>2
<1>5. documents.relationships = relationships(d)
  BY DocumentedFields
<1>6. Len(documents.graph.edges) = KeyCount(d)
  <2> DEFINE q == relationships(d)
             p == render_mermaid(d).edges
  <2>1. p = [i \in DOMAIN q |-> p[i]]
    BY DEF render_mermaid
  <2>2. IsList(q)
    BY <1>3
  <2> HIDE DEF p, q
  <2>3. Len(p) = Len(q)
    BY <2>1, <2>2, OfEach
  <2>4. documents.graph = render_mermaid(d)
    BY DocumentedFields
  <2> QED
    BY <1>3, <2>3, <2>4 DEF p, q
<1> DEFINE M == render_markdown(d, analyze(d), generate(d, analyze(d)))
<1>7. documents.markdown = M
  BY DocumentedFields
<1>8. M.foreign_keys = KeyCount(d)
  BY <1>3 DEF render_markdown
<1>9. Total(M.tables, LAMBDA t : Len(t.foreign_keys)) = KeyCount(d)
  <2>1. ASSUME NEW k \in DOMAIN d.tables
        PROVE  Len(M.tables[k].foreign_keys) = Len(d.tables[k].foreign_keys)
    <3> DEFINE q == d.tables[k].foreign_keys
               p == M.tables[k].foreign_keys
    <3>1. p = [i \in DOMAIN q |-> [q[i] EXCEPT !.table = display_name(d, @)]]
      BY DEF render_markdown, render_table_markdown
    <3>2. IsList(q)
      <4>1. q \in Seq(AnyKey)
        BY <1>1 DEF Orderly
      <4> HIDE DEF q
      <4> QED
        BY <4>1, ListIs
    <3> HIDE DEF p, q
    <3>3. p = [i \in DOMAIN q |-> p[i]]
      BY <3>1
    <3>4. Len(p) = Len(q)
      BY <3>2, <3>3, OfEach
    <3> QED
      BY <3>4 DEF p, q
  <2>2. DOMAIN M.tables = DOMAIN d.tables
    BY DEF render_markdown
  <2> HIDE DEF M
  <2>3. [k \in DOMAIN M.tables |-> Len(M.tables[k].foreign_keys)]
            = [k \in DOMAIN d.tables |-> Len(d.tables[k].foreign_keys)]
    BY <2>1, <2>2
  <2> QED
    BY <2>3 DEF Total, KeyCount
<1> HIDE DEF M
<1>10. CountsAgree
  BY <1>3, <1>4, <1>5, <1>6, <1>7, <1>8, <1>9 DEF CountsAgree
<1> QED
  BY <1>2, <1>4, <1>10

-----------------------------------------------------------------------------
(* The notes. *)

\* A list of one item and the empty list.
LEMMA OneItem == ASSUME NEW S, NEW x \in S PROVE <<x>> \in Seq(S) /\ <<>> \in Seq(S)
  OBVIOUS

\* The items of a list are in its set.
LEMMA ItemsOf == ASSUME NEW S, NEW x \in Seq(S) PROVE \A i \in DOMAIN x : x[i] \in S
  OBVIOUS

\* What f makes of four lists, one after the other.
Along(p, q, r, s, f, all) == all = Pushed(p, f) \o Pushed(q, f) \o Pushed(r, f) \o Pushed(s, f)

\* It makes that of the four put together.
LEMMA PushedAlong ==
    ASSUME NEW S, NEW T, NEW p \in Seq(S), NEW q \in Seq(S), NEW r \in Seq(S), NEW s \in Seq(S),
           NEW z, z = p \o q \o r \o s, NEW f \in [S -> Seq(T)]
    PROVE  z \in Seq(S) /\ Along(p, q, r, s, f, Pushed(z, f))
<1> DEFINE x == p \o q
           y == x \o r
<1>1. x \in Seq(S)
  BY Together
<1>2. Pushed(x, f) = Pushed(p, f) \o Pushed(q, f)
  BY PushedTogether
<1> HIDE DEF x
<1>3. y \in Seq(S)
  BY <1>1, Together
<1>4. Pushed(y, f) = Pushed(x, f) \o Pushed(r, f)
  BY <1>1, PushedTogether
<1> HIDE DEF y
<1>5. y \o s \in Seq(S)
  BY <1>3, Together
<1>6. Pushed(y \o s, f) = Pushed(y, f) \o Pushed(s, f)
  BY <1>3, PushedTogether
<1>7. z = y \o s
  BY DEF x, y
<1> QED
  BY <1>2, <1>4, <1>5, <1>6, <1>7 DEF Along

\* The notes of one kind are pushed along the four parts of the notes.
LEMMA SaidAlong ==
    ASSUME NEW N, NEW p \in Seq(N), NEW q \in Seq(N), NEW r \in Seq(N), NEW s \in Seq(N),
           NEW z, z = p \o q \o r \o s, NEW context, context.notes = z, NEW kind,
           NEW f \in [N -> Seq(N)], \A n \in N : f[n] = If(n.kind = kind, n)
    PROVE  Along(p, q, r, s, f, Saying(context, kind))
<1>1. z \in Seq(N) /\ Along(p, q, r, s, f, Pushed(z, f))
  BY PushedAlong
<1>2. \A i \in DOMAIN z : z[i] \in N
  BY <1>1, ItemsOf
<1>3. [i \in DOMAIN z |-> If(z[i].kind = kind, z[i])] = [i \in DOMAIN z |-> f[z[i]]]
  BY <1>2
<1>4. Saying(context, kind) = Pushed(z, f)
  BY <1>3 DEF Saying, ForEach, Pushed
<1> QED
  BY <1>1, <1>4

\* The notes are these four lists, one after the other.
Parted(context, p, q, r, s) == context.notes = p \o q \o r \o s

\* What one kind of notes says, where each part of the notes is of one kind.
LEMMA SaidOf ==
    ASSUME NEW context, NEW p, NEW q, NEW r, NEW s, IsList(p), IsList(q), IsList(r), IsList(s),
           Parted(context, p, q, r, s),
           \A i \in DOMAIN p : p[i].kind = "References",
           \A i \in DOMAIN q : q[i].kind = "Referenced by",
           \A i \in DOMAIN r : r[i].kind = "Start queries from",
           \A i \in DOMAIN s : s[i].kind = "Join from"
    PROVE  Saying(context, "References") = p /\ Saying(context, "Referenced by") = q
<1> DEFINE N == ToSet(p) \cup ToSet(q) \cup ToSet(r) \cup ToSet(s)
           g(kind) == [n \in N |-> If(n.kind = kind, n)]
<1>1. p \in Seq(N) /\ q \in Seq(N) /\ r \in Seq(N) /\ s \in Seq(N)
  <2>1. ToSet(p) \subseteq N /\ ToSet(q) \subseteq N /\ ToSet(r) \subseteq N /\ ToSet(s) \subseteq N
    OBVIOUS
  <2> HIDE DEF N
  <2> QED
    BY <2>1, ListIs
<1> HIDE DEF N
<1>2. ASSUME NEW kind PROVE g(kind) \in [N -> Seq(N)]
  <2>1. \A n \in N : <<n>> \in Seq(N) /\ <<>> \in Seq(N)
    BY OneItem
  <2>2. \A n \in N : If(n.kind = kind, n) \in Seq(N)
    BY <2>1 DEF If
  <2> DEFINE U == Seq(N)
  <2>3. \A n \in N : If(n.kind = kind, n) \in U
    BY <2>2
  <2> HIDE DEF U
  <2>4. g(kind) \in [N -> U]
    BY <2>3
  <2> QED
    BY <2>4 DEF U
<1>3. ASSUME NEW kind, NEW x \in Seq(N), \A i \in DOMAIN x : x[i].kind # kind
      PROVE  Pushed(x, g(kind)) = <<>>
  <2>1. \A i \in DOMAIN x : x[i] \in N
    BY ItemsOf
  <2>2. \A i \in DOMAIN x : g(kind)[x[i]] = <<>>
    BY <1>3, <2>1 DEF If
  <2> DEFINE f == g(kind)
  <2>3. f \in [N -> Seq(N)] /\ \A i \in DOMAIN x : f[x[i]] = <<>>
    BY <1>2, <2>2
  <2> HIDE DEF f
  <2>4. Pushed(x, f) = <<>>
    BY <2>3, PushedPlainly
  <2> QED
    BY <2>4 DEF f
<1>4. ASSUME NEW kind, NEW x \in Seq(N), \A i \in DOMAIN x : x[i].kind = kind
      PROVE  Pushed(x, g(kind)) = x
  <2>1. \A i \in DOMAIN x : x[i] \in N
    BY ItemsOf
  <2>2. \A i \in DOMAIN x : g(kind)[x[i]] = <<x[i]>>
    BY <1>4, <2>1 DEF If
  <2> DEFINE f == g(kind)
  <2>3. f \in [N -> Seq(N)] /\ \A i \in DOMAIN x : f[x[i]] = <<x[i]>>
    BY <1>2, <2>2
  <2> HIDE DEF f
  <2>4. Pushed(x, f) = x
    BY <2>3, PushedPlainly
  <2> QED
    BY <2>4 DEF f
<1>5. p \o <<>> = p /\ <<>> \o q = q /\ q \o <<>> = q
  BY <1>1, Together
<1>6. ASSUME NEW kind
      PROVE  Saying(context, kind) =
                Pushed(p, g(kind)) \o Pushed(q, g(kind)) \o Pushed(r, g(kind)) \o Pushed(s, g(kind))
  <2> DEFINE f == g(kind)
  <2>1. f \in [N -> Seq(N)] /\ \A n \in N : f[n] = If(n.kind = kind, n)
    BY <1>2
  <2> HIDE DEF f
  <2>2. Saying(context, kind) = Pushed(p, f) \o Pushed(q, f) \o Pushed(r, f) \o Pushed(s, f)
    <3>1. Along(p, q, r, s, f, Saying(context, kind))
      <4> DEFINE z == p \o q \o r \o s
      <4>1. z = p \o q \o r \o s /\ context.notes = z
        BY DEF Parted
      <4> HIDE DEF z
      <4> QED
        BY ZenonT(30), <1>1, <2>1, <4>1, SaidAlong
    <3> QED
      BY <3>1 DEF Along
  <2> QED
    BY <2>2 DEF f
<1> HIDE DEF g
<1>7. Saying(context, "References") = p
  <2>1. /\ Pushed(p, g("References")) = p /\ Pushed(q, g("References")) = <<>>
        /\ Pushed(r, g("References")) = <<>> /\ Pushed(s, g("References")) = <<>>
    BY <1>1, <1>3, <1>4
  <2>2. Saying(context, "References") = p \o <<>> \o <<>> \o <<>>
    BY <1>6, <2>1
  <2> QED
    BY <1>5, <2>2
<1>8. Saying(context, "Referenced by") = q
  <2>1. /\ Pushed(p, g("Referenced by")) = <<>> /\ Pushed(q, g("Referenced by")) = q
        /\ Pushed(r, g("Referenced by")) = <<>> /\ Pushed(s, g("Referenced by")) = <<>>
    BY <1>1, <1>3, <1>4
  <2>2. Saying(context, "Referenced by") = <<>> \o q \o <<>> \o <<>>
    BY <1>6, <2>1
  <2> QED
    BY <1>5, <2>2
<1> QED
  BY <1>7, <1>8

\* The note at the table a key leads to, if that is the one with the Id, and
\* those of all the keys of a table.
KeyNote(d, u, fk, id) ==
    If(fk.table = id, Note("Referenced by", table_reference(d, Id(u)), fk.columns))
KeyNotes(d, u, id) == [l \in DOMAIN u.foreign_keys |-> KeyNote(d, u, u.foreign_keys[l], id)]
NotesToward(d, id) ==
    FlattenSeq([k \in DOMAIN d.tables |-> FlattenSeq(KeyNotes(d, d.tables[k], id))])

\* What generate() pushes for the relationships of a list.
RelationNote(d, id, r) ==
    If(r.to = id, Note("Referenced by", table_reference(d, r.from), r.from_columns))
RelationNotes(d, id, list) == FlattenSeq([i \in DOMAIN list |-> RelationNote(d, id, list[i])])

\* If() is a list of one item or of none.
LEMMA ShortList ==
    ASSUME NEW b, NEW x
    PROVE  IsList(If(b, x)) /\ \A i \in DOMAIN If(b, x) : If(b, x)[i] = x
<1>0. <<>> \in Seq({x})
  OBVIOUS
<1>1. IsList(<<>>)
  BY <1>0, ListIs
<1>2. <<x>> \in Seq({x})
  OBVIOUS
<1>3. IsList(<<x>>)
  BY <1>2, ListIs
<1>4. \A i \in DOMAIN <<x>> : <<x>>[i] = x
  OBVIOUS
<1>5. DOMAIN <<>> = {}
  OBVIOUS
<1>6. If(b, x) = <<x>> \/ If(b, x) = <<>>
  BY DEF If
<1> QED
  BY <1>1, <1>3, <1>4, <1>5, <1>6

\* Sorted or not, the relationships make the same notes.
LEMMA NotesOfListed ==
    ASSUME NEW d, NEW id, NEW p, NEW q, IsList(p), IsList(q), Alike(p, q)
    PROVE  /\ IsList(RelationNotes(d, id, p)) /\ IsList(RelationNotes(d, id, q))
           /\ Alike(RelationNotes(d, id, p), RelationNotes(d, id, q))
<1> DEFINE F == [i \in DOMAIN p |-> RelationNote(d, id, p[i])]
           G == [i \in DOMAIN q |-> RelationNote(d, id, q[i])]
<1>1. PICK h : Reorders(h, p, q) /\ \A i \in DOMAIN p : q[h[i]] = p[i]
  BY DEF Alike
<1>2. /\ F = [i \in DOMAIN p |-> F[i]] /\ \A i \in DOMAIN p : IsList(F[i])
      /\ G = [i \in DOMAIN q |-> G[i]] /\ \A i \in DOMAIN q : IsList(G[i])
  BY ShortList DEF RelationNote
<1>3. \A i \in DOMAIN p : h[i] \in DOMAIN q
  BY <1>1 DEF Reorders
<1>4. \A i \in DOMAIN p : F[i] = G[h[i]]
  BY <1>1, <1>3
<1> HIDE DEF F, G
<1>5. \A i \in DOMAIN p : Alike(F[i], G[h[i]])
  BY <1>4, AlikeItself
<1>6. Alike(FlattenSeq(F), FlattenSeq(G))
  BY <1>1, <1>2, <1>5, AlikeForEach
<1>7. IsList(FlattenSeq(F)) /\ IsList(FlattenSeq(G))
  BY <1>2, PushedForEach
<1> QED
  BY <1>6, <1>7 DEF RelationNotes, F, G

\* The notes for the relationships of the tables are the notes for their keys.
LEMMA ListedNotes ==
    ASSUME NEW d, IsList(d.tables), \A k \in DOMAIN d.tables : Orderly(d.tables[k]), NEW id
    PROVE  /\ RelationNotes(d, id, Listed(d)) = NotesToward(d, id)
           /\ \A k \in DOMAIN d.tables : IsList(FlattenSeq(KeyNotes(d, d.tables[k], id)))
<1> DEFINE F == [k \in DOMAIN d.tables |-> RelationsOf(d.tables[k])]
           S == UNION {ToSet(F[k]) : k \in DOMAIN F}
           g == [r \in S |-> RelationNote(d, id, r)]
           T == UNION {ToSet(RelationNote(d, id, r)) : r \in S}
<1>1. /\ Lists(F) /\ DOMAIN F = DOMAIN d.tables /\ Listed(d) = FlattenSeq(F)
      /\ \A k \in DOMAIN F :
            /\ DOMAIN F[k] = DOMAIN d.tables[k].foreign_keys
            /\ \A l \in DOMAIN F[k] : F[k][l] = RelationOf(d.tables[k], d.tables[k].foreign_keys[l])
  BY ListedIs
<1> HIDE DEF F
<1>2. \A k \in DOMAIN F : ToSet(F[k]) \subseteq S
  OBVIOUS
<1> HIDE DEF S
<1>3. F \in Seq(Seq(S)) /\ \A k \in DOMAIN F : F[k] \in Seq(S)
  BY <1>1, <1>2, ListsAre
<1>4. g \in [S -> Seq(T)] /\ \A r \in S : g[r] = RelationNote(d, id, r)
  <2>1. ASSUME NEW r \in S PROVE RelationNote(d, id, r) \in Seq(T)
    <3>1. IsList(RelationNote(d, id, r))
      BY ShortList DEF RelationNote
    <3>2. ToSet(RelationNote(d, id, r)) \subseteq T
      OBVIOUS
    <3> HIDE DEF T
    <3> QED
      BY <3>1, <3>2, ListIs
  <2> DEFINE U == Seq(T)
  <2>2. \A r \in S : RelationNote(d, id, r) \in U
    BY <2>1
  <2> HIDE DEF U, T
  <2>3. g \in [S -> U] /\ \A r \in S : g[r] = RelationNote(d, id, r)
    BY <2>2
  <2> QED
    BY <2>3 DEF U
<1> HIDE DEF g, T
<1>6. Listed(d) \in Seq(S)
  BY <1>1, <1>3, Flattened
<1>7. RelationNotes(d, id, Listed(d)) = Pushed(Listed(d), g)
  <2> DEFINE z == Listed(d)
  <2>1. \A i \in DOMAIN z : z[i] \in S
    BY <1>6, ItemsOf
  <2> HIDE DEF z
  <2>2. [i \in DOMAIN z |-> RelationNote(d, id, z[i])] = [i \in DOMAIN z |-> g[z[i]]]
    BY <1>4, <2>1
  <2> QED
    BY <2>2 DEF RelationNotes, Pushed, z
<1>8. ASSUME NEW k \in DOMAIN F
      PROVE  /\ Pushed(F[k], g) = FlattenSeq(KeyNotes(d, d.tables[k], id))
             /\ Pushed(F[k], g) \in Seq(T)
  <2>1. \A l \in DOMAIN F[k] : F[k][l] \in S
    BY <1>3, ItemsOf
  <2>2. [l \in DOMAIN F[k] |-> g[F[k][l]]] = KeyNotes(d, d.tables[k], id)
    <3>1. ASSUME NEW l \in DOMAIN F[k]
          PROVE  g[F[k][l]] = KeyNote(d, d.tables[k], d.tables[k].foreign_keys[l], id)
      <4>1. g[F[k][l]] = RelationNote(d, id, RelationOf(d.tables[k], d.tables[k].foreign_keys[l]))
        BY <1>1, <1>4, <2>1
      <4> QED
        BY <4>1 DEF RelationNote, RelationOf, KeyNote
    <3> QED
      BY <1>1, <3>1 DEF KeyNotes
  <2>3. F[k] \in Seq(S)
    BY <1>3
  <2>4. Pushed(F[k], g) \in Seq(T)
    BY <1>4, <2>3, EachOf
  <2> QED
    BY <2>2, <2>4 DEF Pushed
<1> DEFINE G == [k \in DOMAIN d.tables |-> FlattenSeq(KeyNotes(d, d.tables[k], id))]
<1>5. \A k \in DOMAIN F : G[k] = Pushed(F[k], g) /\ G[k] \in Seq(T)
  BY <1>1, <1>8
<1>9. Pushed(FlattenSeq(F), g) = FlattenSeq(G)
  <2>1. IsList(F) /\ Len(F) \in Nat /\ DOMAIN F = 1 .. Len(F)
    BY <1>1, ListIs DEF Lists
  <2>2. G \in Seq(Seq(T)) /\ Len(G) = Len(F)
    <3> DEFINE U == Seq(T)
               n == Len(F)
    <3>1. n \in Nat /\ G \in [1 .. n -> U]
      BY <1>1, <1>5, <2>1
    <3> HIDE DEF G, U, n
    <3>2. G \in Seq(U) /\ Len(G) = n
      BY <3>1
    <3> QED
      BY <3>2 DEF U, n
  <2> HIDE DEF G
  <2>3. ListsIn(F, S) /\ Pushes(g, S, T) /\ ListsIn(G, T)
    BY <1>3, <1>4, <2>2 DEF ListsIn, Pushes
  <2>4. Len(G) = Len(F) /\ \A k \in DOMAIN F : G[k] = Pushed(F[k], g)
    BY <1>5, <2>2
  <2> QED
    BY <2>3, <2>4, PushedTwice
<1>10. \A k \in DOMAIN d.tables : IsList(FlattenSeq(KeyNotes(d, d.tables[k], id)))
  BY <1>1, <1>8, ListIs
<1> QED
  BY <1>1, <1>7, <1>9, <1>10 DEF NotesToward

\* They are the same, in some order, before and after the sort.
LEMMA TowardSorted ==
    ASSUME NEW d \in Databases, NEW e, NEW h, SortedTo(h, d, e), NEW id
    PROVE  /\ IsList(NotesToward(d, id)) /\ IsList(NotesToward(e, id))
           /\ Alike(NotesToward(d, id), NotesToward(e, id))
<1> DEFINE F == [k \in DOMAIN d.tables |-> FlattenSeq(KeyNotes(d, d.tables[k], id))]
           G == [k \in DOMAIN e.tables |-> FlattenSeq(KeyNotes(e, e.tables[k], id))]
<1>1. /\ IsList(d.tables) /\ IsList(e.tables) /\ Reorders(h, d.tables, e.tables) /\ e.engine = d.engine
      /\ \A k \in DOMAIN d.tables :
            /\ Orderly(d.tables[k]) /\ h[k] \in DOMAIN e.tables
            /\ e.tables[h[k]] = SortedTable(d.tables[k]) /\ Id(e.tables[h[k]]) = Id(d.tables[k])
      /\ \A k \in DOMAIN e.tables : Orderly(e.tables[k])
  <2>1. IsList(d.tables) /\ Reorders(h, d.tables, e.tables)
    BY DEF SortedTo
  <2> QED
    BY <2>1, SortedTables
<1>2. /\ \A k \in DOMAIN d.tables : IsList(FlattenSeq(KeyNotes(d, d.tables[k], id)))
      /\ \A k \in DOMAIN e.tables : IsList(FlattenSeq(KeyNotes(e, e.tables[k], id)))
  BY <1>1, ListedNotes
<1>3. ASSUME NEW k \in DOMAIN d.tables
      PROVE  Alike(FlattenSeq(KeyNotes(d, d.tables[k], id)), FlattenSeq(KeyNotes(e, e.tables[h[k]], id)))
  <2> DEFINE t == d.tables[k]
             u == e.tables[h[k]]
             p == t.foreign_keys
             q == u.foreign_keys
             P == KeyNotes(d, t, id)
             Q == KeyNotes(e, u, id)
  <2>1. IsList(p) /\ IsList(q) /\ Alike(p, q)
    <3>1. u = SortedTable(t)
      BY <1>1
    <3> HIDE DEF u
    <3> QED
      BY <3>1, SortedTableKeeps
  <2>2. Id(u) = Id(t)
    BY <1>1
  <2>3. PICK f : Reorders(f, p, q) /\ \A l \in DOMAIN p : q[f[l]] = p[l]
    BY <2>1 DEF Alike
  <2>4. \A l \in DOMAIN p : f[l] \in DOMAIN q
    BY <2>3 DEF Reorders
  <2>5. \A fk : KeyNote(d, t, fk, id) = KeyNote(e, u, fk, id)
    BY <1>1, <2>2 DEF KeyNote, table_reference
  <2>6. /\ P = [l \in DOMAIN p |-> KeyNote(d, t, p[l], id)]
        /\ Q = [l \in DOMAIN q |-> KeyNote(e, u, q[l], id)]
    BY DEF KeyNotes
  <2> HIDE DEF P, Q, p, q, t, u
  <2>7. /\ P = [l \in DOMAIN p |-> P[l]] /\ \A l \in DOMAIN p : IsList(P[l])
        /\ Q = [l \in DOMAIN q |-> Q[l]] /\ \A l \in DOMAIN q : IsList(Q[l])
    BY <2>6, ShortList DEF KeyNote
  <2>8. \A l \in DOMAIN p : P[l] = Q[f[l]]
    BY <2>3, <2>4, <2>5, <2>6
  <2>9. \A l \in DOMAIN p : Alike(P[l], Q[f[l]])
    BY <2>8, AlikeItself
  <2>10. Alike(FlattenSeq(P), FlattenSeq(Q))
    BY <2>1, <2>3, <2>7, <2>9, AlikeForEach
  <2> QED
    BY <2>10 DEF P, Q, t, u
<1>4. /\ F = [k \in DOMAIN d.tables |-> F[k]] /\ \A k \in DOMAIN d.tables : IsList(F[k])
      /\ G = [k \in DOMAIN e.tables |-> G[k]] /\ \A k \in DOMAIN e.tables : IsList(G[k])
      /\ \A k \in DOMAIN d.tables : Alike(F[k], G[h[k]])
  BY <1>1, <1>2, <1>3
<1> HIDE DEF F, G
<1>5. Alike(FlattenSeq(F), FlattenSeq(G))
  BY <1>1, <1>4, AlikeForEach
<1>6. IsList(FlattenSeq(F)) /\ IsList(FlattenSeq(G))
  BY <1>1, <1>4, PushedForEach
<1> QED
  BY <1>5, <1>6 DEF NotesToward, F, G

\* What If() pushes is there only where its condition holds.
LEMMA ShortMember == ASSUME NEW b, NEW x, NEW y \in ToSet(If(b, x)) PROVE b /\ y = x
BY DEF If, ToSet

\* The documents of a table are at its place after the sort.
LEMMA DocumentIs ==
    ASSUME NEW d, NEW h, database \in Databases, SortedTo(h, database, d), documents = Documented(d),
           NEW i \in DOMAIN database.tables
    PROVE  DocumentOf(database.tables[i]) = h[i]
<1>1. /\ h[i] \in DOMAIN d.tables /\ Id(d.tables[h[i]]) = Id(database.tables[i])
      /\ \A k, l \in DOMAIN d.tables : Id(d.tables[k]) = Id(d.tables[l]) => k = l
  BY SortedTables
<1>2. documents.schema = d
  BY DocumentedFields
<1> QED
  BY <1>1, <1>2 DEF DocumentOf

\* What the notes of a table say of the keys that lead to it and from it.
LEMMA ContextIs ==
    ASSUME NEW d, NEW h, database \in Databases, SortedTo(h, database, d), documents = Documented(d),
           NEW k \in DOMAIN d.tables
    PROVE  /\ Saying(documents.ai[k], "Referenced by")
                = RelationNotes(d, Id(d.tables[k]), relationships(d))
           /\ Len(Saying(documents.ai[k], "References")) = Len(d.tables[k].foreign_keys)
<1> DEFINE u == d.tables[k]
           own(kind) == [i \in DOMAIN u.foreign_keys |->
                            Note(kind, table_reference(d, u.foreign_keys[i].table),
                                 u.foreign_keys[i].columns)]
           p == own("References")
           q == RelationNotes(d, Id(u), relationships(d))
           r == If(HasPrimaryKey(u), Note("Start queries from", <<>>, PrimaryKey(u)))
           s == own("Join from")
<1>1. documents.ai[k].notes = p \o q \o r \o s
  <2>1. documents.ai = generate(d, analyze(d))
    BY DocumentedFields
  <2>2. documents.ai[k] = table_context(d, u, relationships(d), analyze(d)[k])
    BY <2>1 DEF generate
  <2>3. table_context(d, u, relationships(d), analyze(d)[k]).notes = p \o q \o r \o s
    BY DEF table_context, RelationNotes, RelationNote, ForEach, Refers
  <2> QED
    BY <2>2, <2>3
<1>2. IsList(u.foreign_keys)
  <2>1. u.foreign_keys \in Seq(AnyKey)
    BY SortedTables DEF Orderly
  <2> HIDE DEF u, AnyKey
  <2> QED
    BY <2>1, ListIs
<1>3. ASSUME NEW kind
      PROVE  IsList(own(kind)) /\ Len(own(kind)) = Len(u.foreign_keys)
             /\ \A i \in DOMAIN own(kind) : own(kind)[i].kind = kind
  <2> DEFINE o == own(kind)
             y == u.foreign_keys
  <2>1. o = [i \in DOMAIN y |-> o[i]]
    OBVIOUS
  <2>2. \A i \in DOMAIN o : o[i].kind = kind
    BY DEF Note
  <2>3. IsList(y)
    BY <1>2
  <2> HIDE DEF o, y
  <2>4. IsList(o) /\ Len(o) = Len(y)
    BY <2>1, <2>3, OfEach
  <2> QED
    BY <2>2, <2>4 DEF o, y
<1>4. IsList(q) /\ \A i \in DOMAIN q : q[i].kind = "Referenced by"
  <2> DEFINE z == relationships(d)
             F == [i \in DOMAIN z |-> RelationNote(d, Id(u), z[i])]
  <2>1. IsList(z)
    BY SortedTables, RelationshipsAreListed
  <2>2. F = [i \in DOMAIN z |-> F[i]] /\ \A i \in DOMAIN z : IsList(F[i])
    BY ShortList DEF RelationNote
  <2>3. \A i \in DOMAIN z : \A x \in ToSet(F[i]) : x.kind = "Referenced by"
    <3> SUFFICES ASSUME NEW i \in DOMAIN z, NEW x \in ToSet(F[i]) PROVE x.kind = "Referenced by"
      OBVIOUS
    <3> DEFINE a == table_reference(d, z[i].from)
               b == z[i].from_columns
    <3>1. x = Note("Referenced by", a, b)
      BY ShortMember DEF RelationNote
    <3> HIDE DEF a, b, z, F
    <3> QED
      BY <3>1 DEF Note
  <2>4. q = FlattenSeq(F)
    BY DEF RelationNotes
  <2> HIDE DEF F, z, q
  <2>5. IsList(q) /\ \A x : x \in ToSet(q) <=> \E i \in DOMAIN z : x \in ToSet(F[i])
    BY <2>1, <2>2, <2>4, PushedForEach
  <2>6. \A i \in DOMAIN q : q[i] \in ToSet(q)
    BY <2>5, ListIs
  <2> QED
    BY <2>3, <2>5, <2>6
<1>5. IsList(r) /\ \A i \in DOMAIN r : r[i].kind = "Start queries from"
  <2> DEFINE a == PrimaryKey(u)
             n == Note("Start queries from", <<>>, a)
  <2>1. IsList(r) /\ \A i \in DOMAIN r : r[i] = n
    BY ShortList
  <2> HIDE DEF a, r
  <2>2. n.kind = "Start queries from"
    BY DEF Note
  <2> QED
    BY <2>1, <2>2
<1>6. /\ IsList(p) /\ Len(p) = Len(u.foreign_keys) /\ \A i \in DOMAIN p : p[i].kind = "References"
      /\ IsList(s) /\ \A i \in DOMAIN s : s[i].kind = "Join from"
  BY <1>3
<1> HIDE DEF u, own, p, q, r, s
<1>7. Saying(documents.ai[k], "References") = p /\ Saying(documents.ai[k], "Referenced by") = q
  <2>1. Parted(documents.ai[k], p, q, r, s)
    BY <1>1 DEF Parted
  <2> QED
    BY <1>4, <1>5, <1>6, <2>1, SaidOf
<1> QED
  BY <1>6, <1>7 DEF q, u

\* At both ends of every key the notes say the same of it.
LEMMA NotesAre ==
    ASSUME NEW d, NEW h, database \in Databases, SortedTo(h, database, d), documents = Documented(d),
           NEW t \in Tables
    PROVE  NotesAgree(t)
<1>1. PICK i \in DOMAIN database.tables : t = database.tables[i]
  BY DEF Tables, ToSet
<1> DEFINE k == h[i]
           id == Id(t)
<1>2. DocumentOf(t) = k
  BY <1>1, DocumentIs
<1>3. /\ k \in DOMAIN d.tables /\ Id(d.tables[k]) = id
      /\ d.tables[k] = SortedTable(t) /\ IsList(d.tables)
      /\ \A l \in DOMAIN d.tables : Orderly(d.tables[l])
      /\ \A l, m \in DOMAIN d.tables : Id(d.tables[l]) = Id(d.tables[m]) => l = m
  BY <1>1, SortedTables
<1> HIDE DEF k, id
<1>4. /\ Saying(documents.ai[k], "Referenced by") = RelationNotes(d, id, relationships(d))
      /\ Len(Saying(documents.ai[k], "References")) = Len(d.tables[k].foreign_keys)
  BY <1>3, ContextIs
<1>5. Mirrored(t) = NotesToward(database, id)
  BY DEF Mirrored, NotesToward, KeyNotes, KeyNote, ForEach, id
<1>6. Sorted(RelationNotes(d, id, relationships(d))) = Sorted(NotesToward(database, id))
  <2>1. IsList(Listed(d)) /\ IsList(relationships(d)) /\ Alike(Listed(d), relationships(d))
    BY <1>3, RelationshipsAreListed
  <2>2. /\ IsList(RelationNotes(d, id, Listed(d))) /\ IsList(RelationNotes(d, id, relationships(d)))
        /\ Alike(RelationNotes(d, id, Listed(d)), RelationNotes(d, id, relationships(d)))
    BY <2>1, NotesOfListed
  <2>3. RelationNotes(d, id, Listed(d)) = NotesToward(d, id)
    BY <1>3, ListedNotes
  <2>4. /\ IsList(NotesToward(database, id)) /\ IsList(NotesToward(d, id))
        /\ Alike(NotesToward(database, id), NotesToward(d, id))
    BY TowardSorted
  <2>5. Sorted(RelationNotes(d, id, Listed(d))) = Sorted(RelationNotes(d, id, relationships(d)))
    BY <2>2, AlikeSorted
  <2>6. Sorted(NotesToward(database, id)) = Sorted(NotesToward(d, id))
    BY <2>4, AlikeSorted
  <2> QED
    BY <2>3, <2>5, <2>6
<1>7. Len(d.tables[k].foreign_keys) = Len(t.foreign_keys)
  <2> DEFINE p == t.foreign_keys
             q == d.tables[k].foreign_keys
  <2>1. IsList(p) /\ IsList(q) /\ Alike(p, q)
    BY <1>1, <1>3, SortedTableKeeps
  <2> HIDE DEF p, q
  <2>2. Len(p) = Len(q)
    BY <2>1, AlikeSorted
  <2> QED
    BY <2>2 DEF p, q
<1> QED
  BY <1>2, <1>4, <1>5, <1>6, <1>7 DEF NotesAgree, NotesOf

-----------------------------------------------------------------------------
(* The ends of the keys. *)

\* A relationship is that of a key of a table.
LEMMA RelationshipIs ==
    ASSUME NEW d, NEW h, database \in Databases, SortedTo(h, database, d),
           NEW i \in DOMAIN relationships(d)
    PROVE  \E k \in DOMAIN database.tables : \E fk \in ToSet(database.tables[k].foreign_keys) :
                /\ relationships(d)[i].from = Id(database.tables[k])
                /\ relationships(d)[i].to = fk.table
<1> DEFINE F == [k \in DOMAIN d.tables |-> RelationsOf(d.tables[k])]
           x == relationships(d)[i]
<1>1. /\ IsList(d.tables) /\ \A k \in DOMAIN d.tables : Orderly(d.tables[k])
      /\ \A k, l \in DOMAIN d.tables : Id(d.tables[k]) = Id(d.tables[l]) => k = l
      /\ \A k \in DOMAIN d.tables : \E j \in DOMAIN database.tables : h[j] = k
      /\ \A j \in DOMAIN database.tables :
            d.tables[h[j]] = SortedTable(database.tables[j]) /\ Id(d.tables[h[j]]) = Id(database.tables[j])
  BY SortedTables
<1>2. x \in ToSet(Listed(d))
  <2>1. x \in ToSet(relationships(d))
    BY DEF ToSet
  <2>2. ToSet(Listed(d)) = ToSet(relationships(d))
    BY <1>1, RelationshipsAreListed, AlikeMembers
  <2> QED
    BY <2>1, <2>2
<1>3. /\ Lists(F) /\ DOMAIN F = DOMAIN d.tables /\ Listed(d) = FlattenSeq(F)
      /\ \A k \in DOMAIN F :
            /\ DOMAIN F[k] = DOMAIN d.tables[k].foreign_keys
            /\ \A l \in DOMAIN F[k] : F[k][l] = RelationOf(d.tables[k], d.tables[k].foreign_keys[l])
  BY <1>1, ListedIs
<1> HIDE DEF F, x
<1>4. PICK k \in DOMAIN F : x \in ToSet(F[k])
  <2>1. ToSet(FlattenSeq(F)) = UNION {ToSet(F[k]) : k \in DOMAIN F}
    BY <1>3, FlattenedList
  <2> QED
    BY <1>2, <1>3, <2>1
<1>5. PICK l \in DOMAIN F[k] : x = F[k][l]
  BY <1>4 DEF ToSet
<1>6. PICK j \in DOMAIN database.tables : h[j] = k
  BY <1>1, <1>3
<1> DEFINE t == database.tables[j]
           u == d.tables[k]
           fk == u.foreign_keys[l]
<1>7. fk \in ToSet(t.foreign_keys)
  <2>1. fk \in ToSet(u.foreign_keys)
    BY <1>3, <1>5 DEF ToSet
  <2>2. u = SortedTable(t)
    BY <1>1, <1>6
  <2>3. Alike(t.foreign_keys, u.foreign_keys)
    BY <2>2, SortedTableKeeps
  <2>4. ToSet(t.foreign_keys) = ToSet(u.foreign_keys)
    BY <2>3, AlikeMembers
  <2> QED
    BY <2>1, <2>4
<1>8. x = RelationOf(u, fk) /\ Id(u) = Id(t)
  BY <1>1, <1>3, <1>5, <1>6
<1>9. x.from = Id(t) /\ x.to = fk.table
  BY <1>8 DEF RelationOf
<1> QED
  BY <1>7, <1>9 DEF x

\* Without a finding of a broken key each key leads to a table.
LEMMA KeysLeadSomewhere ==
    ASSUME database \in Databases,
           ~ \E f \in DOMAIN validate(database).findings : f.rule = "BrokenForeignKey",
           NEW k \in DOMAIN database.tables, NEW fk \in ToSet(database.tables[k].foreign_keys)
    PROVE  \E j \in DOMAIN database.tables : Id(database.tables[j]) = fk.table
<1> DEFINE t == database.tables[k]
<1>1. Proper(database) /\ t \in ToSet(database.tables)
  BY DatabasesAreProper DEF ToSet
<1>2. ~ Broken(database, fk)
  <2> SUFFICES ASSUME Broken(database, fk) PROVE FALSE
    OBVIOUS
  <2>1. FoundOf(broken_foreign_keys(database), t)
    BY <1>1, FoundBroken
  <2>2. PICK f \in ToSet(broken_foreign_keys(database)) : TRUE
    BY <2>1 DEF FoundOf
  <2>3. f.rule = "BrokenForeignKey"
    BY <1>1, RuleNames
  <2>4. f \in ToSet(Findings(database))
    BY <1>1, AllFindings
  <2>5. f \in DOMAIN validate(database).findings
    BY <1>1, <2>4, Reports
  <2> QED
    BY <2>3, <2>5
<1>3. PICK u \in ToSet(database.tables) : Id(u) = fk.table
  BY <1>1, <1>2, BrokenIs
<1> QED
  BY <1>3 DEF ToSet

\* As many notes as there are relationships to the table.
LEMMA NotesCount ==
    ASSUME NEW d, NEW id, NEW z, IsList(z)
    PROVE  /\ Len(RelationNotes(d, id, z)) = Cardinality({a \in DOMAIN z : z[a].to = id})
           /\ Len(RelationNotes(d, id, z)) \in Nat
<1> DEFINE S == ToSet(z)
           T == UNION {ToSet(RelationNote(d, id, r)) : r \in S}
           g == [r \in S |-> RelationNote(d, id, r)]
           A == {a \in DOMAIN z : z[a].to = id}
<1>1. z \in Seq(S) /\ \A a \in DOMAIN z : z[a] \in S
  BY ListIs DEF IsList
<1>2. Pushes(g, S, T)
  <2>1. ASSUME NEW r \in S PROVE RelationNote(d, id, r) \in Seq(T)
    <3>1. IsList(RelationNote(d, id, r))
      BY ShortList DEF RelationNote
    <3>2. ToSet(RelationNote(d, id, r)) \subseteq T
      OBVIOUS
    <3> HIDE DEF T
    <3> QED
      BY <3>1, <3>2, ListIs
  <2> DEFINE U == Seq(T)
  <2>2. \A r \in S : RelationNote(d, id, r) \in U
    BY <2>1
  <2> HIDE DEF U, T
  <2>3. g \in [S -> U]
    BY <2>2
  <2> QED
    BY <2>3 DEF U, Pushes
<1>3. \A a \in DOMAIN z : g[z[a]] = RelationNote(d, id, z[a])
  BY <1>1
<1>4. RelationNotes(d, id, z) = Pushed(z, g)
  <2>1. [a \in DOMAIN z |-> RelationNote(d, id, z[a])] = [a \in DOMAIN z |-> g[z[a]]]
    BY <1>3
  <2> HIDE DEF g
  <2> QED
    BY <2>1 DEF RelationNotes, Pushed
<1>5. \A a \in DOMAIN z : Len(g[z[a]]) = IF a \in A THEN 1 ELSE 0
  <2> SUFFICES ASSUME NEW a \in DOMAIN z PROVE Len(g[z[a]]) = IF a \in A THEN 1 ELSE 0
    OBVIOUS
  <2>1. g[z[a]] = RelationNote(d, id, z[a])
    BY <1>3
  <2>2. a \in A <=> z[a].to = id
    OBVIOUS
  <2> HIDE DEF g, A
  <2> DEFINE x == Note("Referenced by", table_reference(d, z[a].from), z[a].from_columns)
  <2>3. RelationNote(d, id, z[a]) = If(z[a].to = id, x)
    BY DEF RelationNote
  <2> HIDE DEF x
  <2>4. Len(<<x>>) = 1 /\ Len(<<>>) = 0
    OBVIOUS
  <2>5. CASE z[a].to = id
    <3>1. g[z[a]] = <<x>>
      BY <2>1, <2>3, <2>5 DEF If
    <3> QED
      BY <2>2, <2>4, <2>5, <3>1
  <2>6. CASE z[a].to # id
    <3>1. g[z[a]] = <<>>
      BY <2>1, <2>3, <2>6 DEF If
    <3> QED
      BY <2>2, <2>4, <2>6, <3>1
  <2> QED
    BY <2>5, <2>6
<1>6. A \in SUBSET DOMAIN z
  OBVIOUS
<1> HIDE DEF S, T, g, A
<1>7. Len(Pushed(z, g)) = Cardinality(A) /\ Cardinality(A) \in Nat
  BY <1>1, <1>2, <1>5, <1>6, PushedCount
<1> QED
  BY <1>4, <1>7 DEF A

\* Without a broken key, every line of the diagram and every key ends somewhere.
LEMMA EndsAgree ==
    ASSUME NEW d, NEW h, database \in Databases, SortedTo(h, database, d), documents = Documented(d),
           ~ \E f \in DOMAIN validate(database).findings : f.rule = "BrokenForeignKey"
    PROVE  NoLooseEnds
<1> DEFINE z == relationships(d)
           To(k) == {a \in DOMAIN z : z[a].to = Id(d.tables[k])}
           c == [k \in DOMAIN d.tables |-> Len(RelationNotes(d, Id(d.tables[k]), z))]
<1>1. /\ IsList(d.tables) /\ \A k \in DOMAIN d.tables : Orderly(d.tables[k])
      /\ Len(d.tables) \in Nat /\ DOMAIN d.tables = 1 .. Len(d.tables)
      /\ \A k, l \in DOMAIN d.tables : Id(d.tables[k]) = Id(d.tables[l]) => k = l
      /\ \A j \in DOMAIN database.tables :
            h[j] \in DOMAIN d.tables /\ Id(d.tables[h[j]]) = Id(database.tables[j])
  BY SortedTables
<1>2. IsList(z) /\ IsList(Listed(d)) /\ Alike(Listed(d), z) /\ Len(Listed(d)) = Len(z)
  <2>1. IsList(z) /\ IsList(Listed(d)) /\ Alike(Listed(d), z)
    BY <1>1, RelationshipsAreListed
  <2> HIDE DEF z
  <2>2. Len(Listed(d)) = Len(z)
    BY <2>1, AlikeSorted
  <2> QED
    BY <2>1, <2>2
<1>3. ASSUME NEW a \in DOMAIN z
      PROVE  /\ \E k \in DOMAIN d.tables : z[a].to = Id(d.tables[k])
             /\ \E k \in DOMAIN d.tables : z[a].from = Id(d.tables[k])
  <2>0. PICK j \in DOMAIN database.tables :
            \E fk \in ToSet(database.tables[j].foreign_keys) :
                z[a].from = Id(database.tables[j]) /\ z[a].to = fk.table
    BY RelationshipIs
  <2>1. PICK fk \in ToSet(database.tables[j].foreign_keys) :
            z[a].from = Id(database.tables[j]) /\ z[a].to = fk.table
    BY <2>0
  <2>2. PICK i \in DOMAIN database.tables : Id(database.tables[i]) = fk.table
    BY KeysLeadSomewhere
  <2> QED
    BY <1>1, <2>1, <2>2
<1>4. ASSUME NEW e \in ToSet(documents.graph.edges)
      PROVE  {e.one, e.many} \subseteq {n.name : n \in ToSet(documents.graph.entities)}
  <2> DEFINE M == render_mermaid(d)
             name(k) == display_name(d, Id(d.tables[k]))
  <2>1. documents.graph = M
    BY DocumentedFields
  <2>2. /\ M.edges = [a \in DOMAIN z |->
              [one |-> display_name(d, z[a].to), many |-> display_name(d, z[a].from),
               label |-> z[a].constraint]]
        /\ DOMAIN M.entities = DOMAIN d.tables
        /\ \A k \in DOMAIN d.tables : M.entities[k].name = name(k)
    BY DEF render_mermaid
  <2> HIDE DEF M, z, name
  <2>3. PICK a \in DOMAIN z : e = [one |-> display_name(d, z[a].to),
                                   many |-> display_name(d, z[a].from), label |-> z[a].constraint]
    BY <2>1, <2>2 DEF ToSet
  <2>4. PICK k \in DOMAIN d.tables, l \in DOMAIN d.tables :
            z[a].to = Id(d.tables[k]) /\ z[a].from = Id(d.tables[l])
    BY <1>3
  <2>5. e.one = name(k) /\ e.many = name(l)
    BY <2>3, <2>4 DEF name
  <2>6. M.entities[k] \in ToSet(M.entities) /\ M.entities[l] \in ToSet(M.entities)
    BY <2>2 DEF ToSet
  <2> QED
    BY <2>1, <2>2, <2>5, <2>6
<1>5. Total(documents.ai, LAMBDA x : Len(Saying(x, "Referenced by"))) = sum(c)
  <2>1. documents.ai = generate(d, analyze(d))
    BY DocumentedFields
  <2>2. DOMAIN documents.ai = DOMAIN d.tables
    BY <2>1 DEF generate
  <2>3. \A k \in DOMAIN d.tables :
            Saying(documents.ai[k], "Referenced by") = RelationNotes(d, Id(d.tables[k]), z)
    BY ContextIs
  <2> HIDE DEF z
  <2>4. [k \in DOMAIN documents.ai |-> Len(Saying(documents.ai[k], "Referenced by"))] = c
    BY <2>2, <2>3
  <2> HIDE DEF c
  <2> QED
    BY <2>4 DEF Total
<1> HIDE DEF z
<1>6. \A k \in DOMAIN d.tables : Len(RelationNotes(d, Id(d.tables[k]), z)) = Cardinality(To(k))
                                /\ Len(RelationNotes(d, Id(d.tables[k]), z)) \in Nat
  BY <1>2, NotesCount
<1>7. c \in Seq(Nat) /\ Len(c) = Len(d.tables)
  <2> DEFINE n == Len(d.tables)
  <2>1. n \in Nat /\ c \in [1 .. n -> Nat]
    BY <1>1, <1>6
  <2> HIDE DEF n, c
  <2> QED
    BY <2>1 DEF n
<1>8. \A k \in DOMAIN d.tables : c[k] = Cardinality(To(k))
  BY <1>6
<1> DEFINE m == [a \in DOMAIN z |-> CHOOSE k \in DOMAIN d.tables : z[a].to = Id(d.tables[k])]
<1>9. \A a \in DOMAIN z : m[a] \in DOMAIN d.tables /\ z[a].to = Id(d.tables[m[a]])
  BY <1>3
<1>10. \A k \in DOMAIN d.tables : To(k) = {a \in DOMAIN z : m[a] = k}
  <2> HIDE DEF m
  <2> SUFFICES ASSUME NEW k \in DOMAIN d.tables, NEW a \in DOMAIN z
               PROVE  z[a].to = Id(d.tables[k]) <=> m[a] = k
    OBVIOUS
  <2> QED
    BY <1>1, <1>9
<1>11. m \in [DOMAIN z -> 1 .. Len(d.tables)]
  BY <1>1, <1>9
<1> HIDE DEF m, c
<1>12. IsFiniteSet(DOMAIN z) /\ Cardinality(DOMAIN z) = Len(z)
  <2>1. Len(z) \in Nat /\ DOMAIN z = 1 .. Len(z)
    BY <1>2, ListIs
  <2> QED
    BY <2>1, LengthOf
<1>13. sum(c) = Len(z)
  <2> DEFINE n == Len(d.tables)
             N == DOMAIN z
  <2>1. n \in Nat /\ IsFiniteSet(N) /\ m \in [N -> 1 .. n] /\ c \in Seq(Nat) /\ Len(c) = n
    BY <1>1, <1>7, <1>11, <1>12
  <2>2. \A k \in 1 .. n : c[k] = Cardinality({a \in N : m[a] = k})
    <3> HIDE DEF To
    <3> SUFFICES ASSUME NEW k \in 1 .. n PROVE c[k] = Cardinality({a \in N : m[a] = k})
      OBVIOUS
    <3>1. k \in DOMAIN d.tables
      BY <1>1
    <3>2. To(k) = {a \in N : m[a] = k}
      BY <1>10, <3>1
    <3> QED
      BY <1>8, <3>1, <3>2
  <2> HIDE DEF n, N
  <2>3. sum(c) = Cardinality(N)
    BY <2>1, <2>2, CountedOnce
  <2> QED
    BY <1>12, <2>3 DEF N
<1>14. documents.statistics.foreign_keys = Len(z)
  BY <1>2, CountsAre
<1> QED
  BY <1>4, <1>5, <1>13, <1>14 DEF NoLooseEnds

-----------------------------------------------------------------------------
(* The tables that join two. *)

\* No item occurs twice,
Apart(s) == \A i, j \in DOMAIN s : s[i] = s[j] => i = j

\* as the sorted list shows,
LEMMA ApartSorted ==
    ASSUME NEW s, IsList(s)
    PROVE  Apart(s) <=> \A f \in DOMAIN Sorted(s) : Sorted(s)[f] = 1
<1> DEFINE A(f) == {i \in DOMAIN s : s[i] = f}
<1>1. IsFiniteSet(DOMAIN s)
  BY FinitelyLong
<1>2. \A f : IsFiniteSet(A(f))
  <2> SUFFICES ASSUME NEW f PROVE IsFiniteSet(A(f))
    OBVIOUS
  <2>1. A(f) \in SUBSET DOMAIN s
    OBVIOUS
  <2> QED
    BY <1>1, <2>1, FS_Subset
<1>3. DOMAIN Sorted(s) = ToSet(s) /\ \A f \in ToSet(s) : Sorted(s)[f] = Cardinality(A(f))
  BY DEF Sorted
<1>4. ASSUME Apart(s), NEW f \in ToSet(s) PROVE Cardinality(A(f)) = 1
  <2>1. PICK i \in DOMAIN s : s[i] = f
    BY <1>4 DEF ToSet
  <2>2. A(f) = {i}
    BY <1>4, <2>1 DEF Apart
  <2> HIDE DEF A
  <2> QED
    BY <1>2, <2>2, FS_Singleton
<1>5. ASSUME \A f \in ToSet(s) : Cardinality(A(f)) = 1 PROVE Apart(s)
  <2> SUFFICES ASSUME NEW i \in DOMAIN s, NEW j \in DOMAIN s, s[i] = s[j] PROVE i = j
    BY DEF Apart
  <2>1. s[i] \in ToSet(s) /\ i \in A(s[i]) /\ j \in A(s[i])
    BY DEF ToSet
  <2> HIDE DEF A
  <2>2. PICK x : A(s[i]) = {x}
    BY <1>2, <1>5, <2>1, FS_Singleton
  <2> QED
    BY <2>1, <2>2
<1> HIDE DEF A
<1> QED
  BY <1>3, <1>4, <1>5

\* and a list of such items is sorted as another if that has the same items,
\* and none of them twice.
LEMMA SortedApart ==
    ASSUME NEW p, NEW q, IsList(p), IsList(q), Apart(p)
    PROVE  Sorted(p) = Sorted(q) <=> Apart(q) /\ ToSet(p) = ToSet(q)
<1>1. /\ DOMAIN Sorted(p) = ToSet(p) /\ DOMAIN Sorted(q) = ToSet(q)
      /\ Sorted(p) = [f \in ToSet(p) |-> Sorted(p)[f]]
      /\ Sorted(q) = [f \in ToSet(q) |-> Sorted(q)[f]]
  BY DEF Sorted
<1>2. \A f \in ToSet(p) : Sorted(p)[f] = 1
  BY <1>1, ApartSorted
<1>3. Apart(q) <=> \A f \in ToSet(q) : Sorted(q)[f] = 1
  BY <1>1, ApartSorted
<1>4. ASSUME Sorted(p) = Sorted(q) PROVE Apart(q) /\ ToSet(p) = ToSet(q)
  BY <1>1, <1>2, <1>3, <1>4
<1>5. ASSUME Apart(q), ToSet(p) = ToSet(q) PROVE Sorted(p) = Sorted(q)
  BY <1>1, <1>2, <1>3, <1>5
<1> QED
  BY <1>4, <1>5

\* In whatever order.
LEMMA AlikeApart ==
    ASSUME NEW p, NEW q, IsList(p), IsList(q), Alike(p, q)
    PROVE  Apart(p) <=> Apart(q)
<1>1. Sorted(p) = Sorted(q)
  BY AlikeSorted
<1> QED
  BY <1>1, ApartSorted

\* The primary key of a table.
LEMMA PrimaryKeyIs ==
    ASSUME NEW t, Orderly(t)
    PROVE  /\ IsList(PrimaryKey(t)) /\ Apart(PrimaryKey(t))
           /\ \A x : x \in ToSet(PrimaryKey(t)) <=>
                        \E i \in DOMAIN t.columns : t.columns[i].primary_key /\ x = t.columns[i].name
<1> DEFINE s == t.columns
           F == [i \in DOMAIN s |-> If(s[i].primary_key, s[i].name)]
           E == Entry(F, Len(F))
<1>1. IsList(s) /\ \A i, j \in DOMAIN s : s[i].name = s[j].name => i = j
  <2>1. s \in Seq(AnyColumn)
    BY DEF Orderly
  <2> HIDE DEF AnyColumn
  <2>2. IsList(s)
    BY <2>1, ListIs
  <2> QED
    BY <2>2 DEF Orderly
<1>2. F = [i \in DOMAIN s |-> F[i]] /\ \A i \in DOMAIN s : IsList(F[i])
  BY ShortList
<1>3. PrimaryKey(t) = FlattenSeq(F)
  BY DEF PrimaryKey, ForEach
<1>4. \A i \in DOMAIN s : /\ F[i] = If(s[i].primary_key, s[i].name)
                          /\ \A a \in DOMAIN F[i] : F[i][a] = s[i].name
  BY ShortList
<1> HIDE DEF F, s
<1>5. /\ Lists(F) /\ IsList(FlattenSeq(F))
      /\ \A x : x \in ToSet(FlattenSeq(F)) <=> \E i \in DOMAIN s : x \in ToSet(F[i])
  BY <1>1, <1>2, PushedForEach
<1>6. \A x : \A i \in DOMAIN s : x \in ToSet(F[i]) <=> s[i].primary_key /\ x = s[i].name
  <2> SUFFICES ASSUME NEW x, NEW i \in DOMAIN s
               PROVE  x \in ToSet(F[i]) <=> s[i].primary_key /\ x = s[i].name
    OBVIOUS
  <2>1. ToSet(<<s[i].name>>) = {s[i].name} /\ ToSet(<<>>) = {}
    BY DEF ToSet
  <2>2. CASE s[i].primary_key
    BY <1>4, <2>1, <2>2 DEF If
  <2>3. CASE ~ s[i].primary_key
    BY <1>4, <2>1, <2>3 DEF If
  <2> QED
    BY <2>2, <2>3
<1>7. Apart(FlattenSeq(F))
  <2> DEFINE L == FlattenSeq(F)
  <2> SUFFICES ASSUME NEW i \in DOMAIN L, NEW j \in DOMAIN L, L[i] = L[j] PROVE i = j
    BY DEF Apart
  <2>1. Alike(E, L)
    BY <1>5, FlattenedList
  <2>2. DOMAIN F = 1 .. Len(F) /\ DOMAIN F = DOMAIN s
    BY <1>2, <1>5, ListIs DEF Lists
  <2> HIDE DEF L
  <2>3. PICK v \in DOMAIN E, w \in DOMAIN E : L[i] = E[v] /\ L[j] = E[w] /\ (v = w => i = j)
    BY <2>1, AlikeItems
  <2>4. /\ v[1] \in DOMAIN F /\ v[2] \in DOMAIN F[v[1]] /\ E[v] = F[v[1]][v[2]]
        /\ w[1] \in DOMAIN F /\ w[2] \in DOMAIN F[w[1]] /\ E[w] = F[w[1]][w[2]]
        /\ v = <<v[1], v[2]>> /\ w = <<w[1], w[2]>>
    BY <2>2 DEF Entry, EntriesTo
  <2> HIDE DEF E
  <2>5. s[v[1]].name = s[w[1]].name
    BY <1>4, <2>2, <2>3, <2>4
  <2>6. v[1] = w[1]
    BY <1>1, <2>2, <2>4, <2>5
  <2>7. \A a \in DOMAIN F : \A b \in DOMAIN F[a] : b = 1
    <3> SUFFICES ASSUME NEW a \in DOMAIN F, NEW b \in DOMAIN F[a] PROVE b = 1
      OBVIOUS
    <3>1. DOMAIN <<s[a].name>> = {1} /\ DOMAIN <<>> = {}
      OBVIOUS
    <3>2. F[a] = <<s[a].name>> \/ F[a] = <<>>
      BY <1>4, <2>2 DEF If
    <3> QED
      BY <3>1, <3>2
  <2> QED
    BY <2>3, <2>4, <2>6, <2>7
<1> QED
  BY <1>3, <1>5, <1>6, <1>7 DEF s

\* The columns of the keys of a table, before and after the sort.
LEMMA KeyColumnsAre ==
    ASSUME NEW d \in Databases, NEW i \in DOMAIN d.tables, NEW t, t = d.tables[i],
           NEW u, u = SortedTable(t)
    PROVE  /\ IsList(KeyColumns(t)) /\ IsList(KeyColumns(u)) /\ Alike(KeyColumns(t), KeyColumns(u))
           /\ \A k \in DOMAIN u.foreign_keys : \E x : x \in ToSet(KeyColumns(u))
<1> DEFINE p == t.foreign_keys
           q == u.foreign_keys
           F == [a \in DOMAIN p |-> p[a].columns]
           G == [a \in DOMAIN q |-> q[a].columns]
<1>1. IsList(p) /\ IsList(q) /\ Alike(p, q) /\ Orderly(t) /\ Orderly(u)
  BY SortedTableKeeps, TablesAreOrderly
<1>2. ASSUME NEW v, Orderly(v), NEW a \in DOMAIN v.foreign_keys
      PROVE  IsList(v.foreign_keys[a].columns) /\ v.foreign_keys[a].columns # <<>>
  <2>1. v.foreign_keys[a] \in AnyKey /\ v.foreign_keys[a].columns # <<>>
    BY <1>2 DEF Orderly
  <2>2. \A fk \in AnyKey : fk.columns \in Seq(STRING)
    BY DEF AnyKey
  <2> QED
    BY <2>1, <2>2, ListIs
<1>3. KeyColumns(t) = FlattenSeq(F) /\ KeyColumns(u) = FlattenSeq(G)
  BY DEF KeyColumns, ForEach
<1>4. /\ F = [a \in DOMAIN p |-> F[a]] /\ \A a \in DOMAIN p : IsList(F[a])
      /\ G = [a \in DOMAIN q |-> G[a]] /\ \A a \in DOMAIN q : IsList(G[a]) /\ G[a] # <<>>
  BY <1>1, <1>2
<1>5. PICK h : Reorders(h, p, q) /\ \A a \in DOMAIN p : q[h[a]] = p[a]
  BY <1>1 DEF Alike
<1>6. \A a \in DOMAIN p : F[a] = G[h[a]]
  <2>1. \A a \in DOMAIN p : h[a] \in DOMAIN q
    BY <1>5 DEF Reorders
  <2> QED
    BY <1>5, <2>1
<1> HIDE DEF F, G, p, q
<1>7. \A a \in DOMAIN p : Alike(F[a], G[h[a]])
  BY <1>6, AlikeItself
<1>8. Alike(FlattenSeq(F), FlattenSeq(G))
  BY <1>1, <1>4, <1>5, <1>7, AlikeForEach
<1>9. /\ IsList(FlattenSeq(F)) /\ IsList(FlattenSeq(G))
      /\ \A x : x \in ToSet(FlattenSeq(G)) <=> \E a \in DOMAIN q : x \in ToSet(G[a])
  BY <1>1, <1>4, PushedForEach
<1>10. ASSUME NEW a \in DOMAIN q PROVE \E x : x \in ToSet(FlattenSeq(G))
  <2>1. IsList(G[a]) /\ G[a] # <<>>
    BY <1>4
  <2>2. \E x : x \in ToSet(G[a])
    <3> DEFINE g == G[a]
               S == ToSet(g)
    <3>1. g \in Seq(S) /\ g # <<>>
      BY <2>1 DEF IsList
    <3> HIDE DEF g, S
    <3>2. g[1] \in S
      BY <3>1
    <3> QED
      BY <3>2 DEF S, g
  <2> QED
    BY <1>9, <2>2
<1> QED
  BY <1>3, <1>8, <1>9, <1>10 DEF q

\* The members of five lists, one after the other.
LEMMA FiveLists ==
    ASSUME NEW p, NEW q, NEW r, NEW s, NEW v, IsList(p), IsList(q), IsList(r), IsList(s), IsList(v)
    PROVE  ToSet(p \o q \o r \o s \o v) = ToSet(p) \cup ToSet(q) \cup ToSet(r) \cup ToSet(s) \cup ToSet(v)
<1>1. ASSUME NEW x, NEW y, IsList(x), IsList(y)
      PROVE  IsList(x \o y) /\ ToSet(x \o y) = ToSet(x) \cup ToSet(y)
  <2> DEFINE S == ToSet(x) \cup ToSet(y)
             z == x \o y
  <2>1. x \in Seq(S) /\ y \in Seq(S)
    BY <1>1, ListIs
  <2>2. z \in Seq(S)
    <3> HIDE DEF S
    <3> QED
      BY <2>1
  <2>3. /\ Len(x) \in Nat /\ DOMAIN x = 1 .. Len(x) /\ Len(y) \in Nat /\ DOMAIN y = 1 .. Len(y)
        /\ Len(z) = Len(x) + Len(y) /\ DOMAIN z = 1 .. Len(z)
        /\ \A i \in 1 .. Len(z) : z[i] = IF i <= Len(x) THEN x[i] ELSE y[i - Len(x)]
    <3> HIDE DEF S
    <3> QED
      BY <2>1
  <2>4. \A a \in DOMAIN x : a \in DOMAIN z /\ z[a] = x[a]
    BY <2>3
  <2>5. \A a \in DOMAIN y : (a + Len(x)) \in DOMAIN z /\ z[a + Len(x)] = y[a]
    BY <2>3
  <2>6. S \subseteq ToSet(z)
    <3> HIDE DEF z
    <3> QED
      BY <2>4, <2>5 DEF ToSet
  <2>7. ToSet(z) \subseteq S
    <3> HIDE DEF S
    <3> QED
      BY <2>2 DEF ToSet
  <2> QED
    BY <2>2, <2>6, <2>7, ListIs
<1> DEFINE a == p \o q
           b == a \o r
           c == b \o s
<1>2. IsList(a) /\ ToSet(a) = ToSet(p) \cup ToSet(q)
  BY <1>1
<1> HIDE DEF a
<1>3. IsList(b) /\ ToSet(b) = ToSet(a) \cup ToSet(r)
  BY <1>1, <1>2
<1> HIDE DEF b
<1>4. IsList(c) /\ ToSet(c) = ToSet(b) \cup ToSet(s)
  BY <1>1, <1>3
<1> HIDE DEF c
<1>5. ToSet(c \o v) = ToSet(c) \cup ToSet(v)
  BY <1>1, <1>4
<1> QED
  BY <1>2, <1>3, <1>4, <1>5 DEF a, b, c

\* A table is said to join two exactly when junction_table() says so.
LEMMA JunctionFound ==
    ASSUME NEW t
    PROVE  (\E f \in ToSet(audit_table(t) \o junction_table(t) \o lookup_table(t)
                           \o soft_deletes(t) \o timestamp_conventions(t)) :
                f.kind = "JunctionTable")
            <=> /\ Len(t.foreign_keys) = 2
                /\ t.foreign_keys[1].table[2] # t.foreign_keys[2].table[2]
                /\ HasPrimaryKey(t)
                /\ Sorted(PrimaryKey(t)) = Sorted(KeyColumns(t))
<1> DEFINE p == audit_table(t)
           q == junction_table(t)
           r == lookup_table(t)
           s == soft_deletes(t)
           v == timestamp_conventions(t)
           C == /\ Len(t.foreign_keys) = 2
                /\ t.foreign_keys[1].table[2] # t.foreign_keys[2].table[2]
                /\ HasPrimaryKey(t)
                /\ Sorted(PrimaryKey(t)) = Sorted(KeyColumns(t))
<1>1. IsList(p) /\ \A f \in ToSet(p) : f.kind = "AuditTable"
  <2> DEFINE timed == \E c \in ToSet(t.columns) :
                          is_timestamp_type(c.data_type) \/ is_timestamp_type(c.name)
             b == to_lowercase(t.name) \in AuditNames
             x == [kind |-> "AuditTable", evidence |-> <<timed>>]
  <2>1. p = If(b, x) /\ x.kind = "AuditTable"
    BY DEF audit_table
  <2> HIDE DEF p, b, x
  <2> QED
    BY <2>1, ShortList, ShortMember
<1>2. /\ IsList(q) /\ \A f \in ToSet(q) : C
      /\ C => \E f \in ToSet(q) : f.kind = "JunctionTable"
  <2> DEFINE x == [kind |-> "JunctionTable",
                   evidence |-> [i \in DOMAIN t.foreign_keys |-> t.foreign_keys[i].table[2]]]
  <2>1. q = If(C, x) /\ x.kind = "JunctionTable"
    BY DEF junction_table
  <2> HIDE DEF q, C, x
  <2>2. C => x \in ToSet(q)
    <3>1. x \in ToSet(<<x>>)
      BY DEF ToSet
    <3> QED
      BY <2>1, <3>1 DEF If
  <2> QED
    BY <2>1, <2>2, ShortList, ShortMember
<1>3. IsList(r) /\ \A f \in ToSet(r) : f.kind = "LookupTable"
  <2> DEFINE b == /\ t.foreign_keys = <<>> /\ HasPrimaryKey(t) /\ Len(t.columns) <= 3
                  /\ LowerNames(t) \cap NameLike # {}
             x == [kind |-> "LookupTable", evidence |-> <<Len(t.columns)>>]
  <2>1. r = If(b, x) /\ x.kind = "LookupTable"
    BY DEF lookup_table
  <2> HIDE DEF r, b, x
  <2> QED
    BY <2>1, ShortList, ShortMember
<1>4. IsList(s) /\ \A f \in ToSet(s) : f.kind = "SoftDeletes"
  <2> DEFINE called(name) == SelectSeq(t.columns, LAMBDA c : to_lowercase(c.name) = name)
             marks == called("deleted_at") \o called("is_deleted")
             b == marks # <<>>
             x == [kind |-> "SoftDeletes", evidence |-> <<marks[1].data_type>>]
  <2>1. s = If(b, x) /\ x.kind = "SoftDeletes"
    BY DEF soft_deletes
  <2> HIDE DEF s, b, x
  <2> QED
    BY <2>1, ShortList, ShortMember
<1>5. IsList(v) /\ \A f \in ToSet(v) : f.kind = "TimestampConventions"
  <2> DEFINE b == /\ LowerNames(t) \cap {"created_at", "created", "create_time", "created_on"} # {}
                  /\ LowerNames(t) \cap {"updated_at", "updated", "update_time", "updated_on"} # {}
             x == [kind |-> "TimestampConventions", evidence |-> <<>>]
  <2>1. v = If(b, x) /\ x.kind = "TimestampConventions"
    BY DEF timestamp_conventions
  <2> HIDE DEF v, b, x
  <2> QED
    BY <2>1, ShortList, ShortMember
<1> HIDE DEF p, q, r, s, v
<1>6. ToSet(p \o q \o r \o s \o v) = ToSet(p) \cup ToSet(q) \cup ToSet(r) \cup ToSet(s) \cup ToSet(v)
  BY <1>1, <1>2, <1>3, <1>4, <1>5, FiveLists
<1> DEFINE all == p \o q \o r \o s \o v
<1> HIDE DEF all, C
<1>7. (\E f \in ToSet(all) : f.kind = "JunctionTable") <=> C
  BY <1>1, <1>2, <1>3, <1>4, <1>5, <1>6 DEF all
<1> QED
  BY <1>7 DEF all, C, p, q, r, s, v

\* The columns labelled as those of a key that joins are the primary key and
\* those of the foreign keys at once.
LEMMA LabelsAre ==
    ASSUME NEW u, Orderly(u), NEW K, K = ToSet(KeyColumns(u)), NEW A,
           DOMAIN A = DOMAIN u.columns,
           \A j \in DOMAIN A : /\ A[j].name = u.columns[j].name
                               /\ A[j].labels = Labels(u, u.columns[j])
    PROVE  /\ \A a \in ToSet(A) : a.labels \in {{}, {"PK", "FK"}}
           /\ {a.name : a \in {b \in ToSet(A) : b.labels # {}}} = K
           <=> ToSet(PrimaryKey(u)) = K
<1> DEFINE s == u.columns
           P == ToSet(PrimaryKey(u))
           Both == \A a \in ToSet(A) : a.labels \in {{}, {"PK", "FK"}}
           Named == {a.name : a \in {b \in ToSet(A) : b.labels # {}}}
<1>1. \A x : x \in P <=> \E j \in DOMAIN s : s[j].primary_key /\ x = s[j].name
  BY PrimaryKeyIs
<1>2. \A i, j \in DOMAIN s : s[i].name = s[j].name => i = j
  BY DEF Orderly
<1>3. \A j \in DOMAIN s : A[j].name = s[j].name
  OBVIOUS
<1>4. ASSUME NEW j \in DOMAIN s
      PROVE  /\ A[j].labels # {} <=> s[j].primary_key \/ s[j].name \in K
             /\ A[j].labels \in {{}, {"PK", "FK"}} <=> (s[j].primary_key <=> s[j].name \in K)
  <2> DEFINE L == A[j].labels
  <2>1. L = (IF s[j].primary_key THEN {"PK"} ELSE {}) \cup IF s[j].name \in K THEN {"FK"} ELSE {}
    BY DEF Labels
  <2> HIDE DEF L, s
  <2>2. CASE s[j].primary_key /\ s[j].name \in K
    <3>1. L = {"PK", "FK"}
      BY <2>1, <2>2
    <3> QED
      BY <2>2, <3>1 DEF L
  <2>3. CASE s[j].primary_key /\ s[j].name \notin K
    <3>1. L = {"PK"}
      BY <2>1, <2>3
    <3> QED
      BY <2>3, <3>1 DEF L
  <2>4. CASE ~ s[j].primary_key /\ s[j].name \in K
    <3>1. L = {"FK"}
      BY <2>1, <2>4
    <3> QED
      BY <2>4, <3>1 DEF L
  <2>5. CASE ~ s[j].primary_key /\ s[j].name \notin K
    <3>1. L = {}
      BY <2>1, <2>5
    <3> QED
      BY <2>5, <3>1 DEF L
  <2> QED
    BY <2>2, <2>3, <2>4, <2>5 DEF L
<1>5. \A a : a \in ToSet(A) <=> \E j \in DOMAIN s : a = A[j]
  BY DEF ToSet
<1> HIDE DEF s, P
<1>6. Both <=> \A j \in DOMAIN s : s[j].primary_key <=> s[j].name \in K
  BY <1>4, <1>5
<1>7. \A x : x \in Named <=> \E j \in DOMAIN s :
                                (s[j].primary_key \/ s[j].name \in K) /\ x = s[j].name
  BY <1>3, <1>4, <1>5
<1> HIDE DEF Both, Named
<1>8. ASSUME Both, Named = K PROVE P = K
  <2>1. \A x : x \in P <=> x \in Named
    BY <1>1, <1>6, <1>7, <1>8
  <2> QED
    BY <1>8, <2>1
<1>9. ASSUME P = K PROVE Both /\ Named = K
  <2>1. \A j \in DOMAIN s : s[j].primary_key <=> s[j].name \in K
    BY <1>1, <1>2, <1>9
  <2>2. \A x : x \in P <=> x \in Named
    BY <1>1, <1>7, <2>1
  <2> QED
    BY <1>6, <1>9, <2>1, <2>2
<1> QED
  BY <1>8, <1>9 DEF Both, Named, P

\* The names of two.
LEMMA TwoNames ==
    ASSUME NEW q, IsList(q), Len(q) = 2
    PROVE  Cardinality({x.table[2] : x \in ToSet(q)}) = 2 <=> q[1].table[2] # q[2].table[2]
<1> DEFINE a == q[1].table[2]
           b == q[2].table[2]
           S == {x.table[2] : x \in ToSet(q)}
<1>1. DOMAIN q = {1, 2}
  <2>1. DOMAIN q = 1 .. 2
    BY ListIs
  <2> QED
    BY <2>1
<1>2. \A x : x \in ToSet(q) <=> x = q[1] \/ x = q[2]
  BY <1>1 DEF ToSet
<1>3. S = {a} \cup {b}
  BY <1>2
<1> HIDE DEF S, a, b
<1>4. IsFiniteSet({a}) /\ Cardinality({a}) = 1
  BY FS_Singleton
<1>5. Cardinality({a} \cup {b}) = IF b \in {a} THEN Cardinality({a}) ELSE Cardinality({a}) + 1
  BY <1>4, FS_AddElement
<1>6. Cardinality(S) = 2 <=> a # b
  BY <1>3, <1>4, <1>5
<1> QED
  BY <1>6 DEF S, a, b

\* What is said to join two is drawn as what joins two.
LEMMA JunctionsAre ==
    ASSUME NEW d, NEW h, database \in Databases, SortedTo(h, database, d), documents = Documented(d),
           NEW t \in Tables
    PROVE  JunctionsAgree(t)
<1>1. PICK i \in DOMAIN database.tables : t = database.tables[i]
  BY DEF Tables, ToSet
<1> DEFINE k == h[i]
           u == d.tables[k]
           K == KeyColumns(t)
           L == KeyColumns(u)
           A == documents.graph.entities[k].attributes
<1>2. DocumentOf(t) = k
  BY <1>1, DocumentIs
<1>3. k \in DOMAIN d.tables /\ u = SortedTable(t) /\ Orderly(u)
  BY <1>1, SortedTables
<1>4. /\ IsList(t.foreign_keys) /\ IsList(u.foreign_keys)
      /\ Alike(t.foreign_keys, u.foreign_keys)
  <2> HIDE DEF u
  <2> QED
    BY <1>1, <1>3, SortedTableKeeps
<1>5. /\ IsList(K) /\ IsList(L) /\ Alike(K, L)
      /\ \A j \in DOMAIN u.foreign_keys : \E x : x \in ToSet(L)
  <2> HIDE DEF u
  <2> QED
    BY <1>1, <1>3, KeyColumnsAre
<1>6. /\ Len(u.foreign_keys) = Len(t.foreign_keys)
      /\ ToSet(u.foreign_keys) = ToSet(t.foreign_keys)
  <2> DEFINE p == t.foreign_keys
             q == u.foreign_keys
  <2>1. IsList(p) /\ IsList(q) /\ Alike(p, q)
    BY <1>4
  <2> HIDE DEF p, q
  <2>2. Len(p) = Len(q) /\ ToSet(p) = ToSet(q)
    BY <2>1, AlikeSorted, AlikeMembers
  <2> QED
    BY <2>2 DEF p, q
<1>7. (Apart(K) <=> Apart(L)) /\ ToSet(K) = ToSet(L)
  <2> HIDE DEF K, L
  <2> QED
    BY <1>5, AlikeApart, AlikeMembers
<1>8. /\ DOMAIN A = DOMAIN u.columns
      /\ \A j \in DOMAIN A : /\ A[j].name = u.columns[j].name
                             /\ A[j].labels = Labels(u, u.columns[j])
  <2>1. documents.graph = render_mermaid(d)
    BY DocumentedFields
  <2>2. A = [j \in DOMAIN u.columns |->
                [name |-> u.columns[j].name, labels |-> Labels(u, u.columns[j])]]
    <3>1. \A l \in DOMAIN d.tables :
            render_mermaid(d).entities[l].attributes =
                [j \in DOMAIN d.tables[l].columns |->
                    [name |-> d.tables[l].columns[j].name,
                     labels |-> Labels(d.tables[l], d.tables[l].columns[j])]]
      BY DEF render_mermaid
    <3> QED
      BY <1>3, <2>1, <3>1
  <2> HIDE DEF A, u, L
  <2> QED
    BY <2>2
<1>9. documents.analysis[k] = audit_table(u) \o junction_table(u) \o lookup_table(u)
                              \o soft_deletes(u) \o timestamp_conventions(u)
  <2>1. documents.analysis = analyze(d)
    BY DocumentedFields
  <2> QED
    BY <1>3, <2>1 DEF analyze
<1> DEFINE Two == Len(u.foreign_keys) = 2
           Differ == u.foreign_keys[1].table[2] # u.foreign_keys[2].table[2]
           Has == HasPrimaryKey(u)
           P == PrimaryKey(u)
           Same == ToSet(P) = ToSet(L)
<1>10. (\E f \in ToSet(documents.analysis[k]) : f.kind = "JunctionTable")
        <=> Two /\ Differ /\ Has /\ Sorted(P) = Sorted(L)
  BY <1>9, JunctionFound
<1>11. Sorted(P) = Sorted(L) <=> Apart(L) /\ Same
  <2>1. IsList(P) /\ Apart(P) /\ IsList(L)
    BY <1>3, <1>5, PrimaryKeyIs
  <2> HIDE DEF P, L
  <2> QED
    BY <2>1, SortedApart
<1>12. Two /\ Same => Has
  <2> SUFFICES ASSUME Two, Same PROVE Has
    OBVIOUS
  <2>1. 1 \in DOMAIN u.foreign_keys
    <3> DEFINE q == u.foreign_keys
    <3>1. DOMAIN q = 1 .. Len(q) /\ Len(q) = 2
      BY <1>4, ListIs
    <3> HIDE DEF q
    <3>2. 1 \in DOMAIN q
      BY <3>1
    <3> QED
      BY <3>2 DEF q
  <2>2. PICK x : x \in ToSet(P)
    BY <1>5, <2>1
  <2>3. \E j \in DOMAIN u.columns : u.columns[j].primary_key
    BY <1>3, <2>2, PrimaryKeyIs
  <2> QED
    BY <2>3 DEF HasPrimaryKey
<1>13. /\ \A a \in ToSet(A) : a.labels \in {{}, {"PK", "FK"}}
       /\ {a.name : a \in {b \in ToSet(A) : b.labels # {}}} = ToSet(L)
       <=> Same
  <2> DEFINE M == ToSet(L)
  <2>1. M = ToSet(KeyColumns(u))
    OBVIOUS
  <2> HIDE DEF A, u, M
  <2>2. /\ \A a \in ToSet(A) : a.labels \in {{}, {"PK", "FK"}}
        /\ {a.name : a \in {b \in ToSet(A) : b.labels # {}}} = M
        <=> ToSet(PrimaryKey(u)) = M
    BY <1>3, <1>8, <2>1, LabelsAre
  <2> QED
    BY <2>2 DEF M
<1>14. Two => (Cardinality({x.table[2] : x \in ToSet(t.foreign_keys)}) = 2 <=> Differ)
  <2> DEFINE q == u.foreign_keys
  <2>1. IsList(q)
    BY <1>4
  <2>2. Len(q) = 2 => (Cardinality({x.table[2] : x \in ToSet(q)}) = 2 <=> q[1].table[2] # q[2].table[2])
    <3> HIDE DEF q
    <3> QED
      BY <2>1, TwoNames
  <2> QED
    BY <1>6, <2>2
<1>15. JoinsTwo(t) <=> Two /\ Differ /\ Apart(L) /\ Same
  <2>1. documents.graph.entities[DocumentOf(t)].attributes = A
    BY <1>2
  <2>2. Len(t.foreign_keys) = 2 <=> Two
    BY <1>6
  <2>3. (\A a, b \in DOMAIN KeyColumns(t) : KeyColumns(t)[a] = KeyColumns(t)[b] => a = b)
            <=> Apart(L)
    BY <1>7 DEF Apart
  <2>4. /\ \A a \in ToSet(A) : a.labels \in {{}, {"PK", "FK"}}
        /\ {a.name : a \in {b \in ToSet(A) : b.labels # {}}} = ToSet(KeyColumns(t))
        <=> Same
    BY <1>7, <1>13
  <2> HIDE DEF A, Two, Differ, Same, L
  <2> QED
    BY <1>14, <2>1, <2>2, <2>3, <2>4 DEF JoinsTwo
<1> HIDE DEF Two, Differ, Has, P, L, Same
<1> QED
  BY <1>2, <1>10, <1>11, <1>12, <1>15 DEF JunctionsAgree

\* What the documents say of the keys agrees, wherever they say it
\* (analysis.rs, ai.rs, stats.rs, export.rs).
THEOREM DocumentsAlwaysAgree == Spec => []DocumentsAgree
<1>1. CommandInv /\ DocumentsIgnoreOrder => DocumentsAgree
  <2> SUFFICES ASSUME CommandInv, DocumentsIgnoreOrder, pc = "documented"
               PROVE  /\ CountsAgree
                      /\ \A t \in Tables : NotesAgree(t) /\ JunctionsAgree(t)
                      /\ (~ \E f \in DOMAIN validate(database).findings :
                                f.rule = "BrokenForeignKey") => NoLooseEnds
    BY DEF DocumentsAgree
  <2> DEFINE d == sort(database)
  <2>1. database \in Databases /\ documents = Documented(d)
    BY DEF CommandInv, DocumentsIgnoreOrder
  <2>2. PICK h : SortedTo(h, database, d)
    BY <2>1, SortedDatabase
  <2> HIDE DEF d
  <2>3. CountsAgree
    BY <2>1, <2>2, CountsAre
  <2>4. \A t \in Tables : NotesAgree(t) /\ JunctionsAgree(t)
    BY <2>1, <2>2, NotesAre, JunctionsAre
  <2>5. (~ \E f \in DOMAIN validate(database).findings : f.rule = "BrokenForeignKey") => NoLooseEnds
    BY <2>1, <2>2, EndsAgree
  <2> QED
    BY <2>3, <2>4, <2>5
<1> QED
  BY <1>1, CommandHolds, DocumentsAreSorted, PTL

=============================================================================
