------------------------------ MODULE Validation ------------------------------
(***************************************************************************)
(* validate() of src/src/validation.rs: the rules, in the order they run,  *)
(* over a Database whose tables are a sequence, and Tarjan's algorithm as  *)
(* the code has it, with the state it threads through the recursion.       *)
(*                                                                         *)
(* A finding is a record without its message; a circular finding lists the *)
(* tables of its message in `tables`.  The report is sorted, so it is the  *)
(* bag of its findings.  A name is a string, "" the empty or blank one.    *)
(***************************************************************************)
EXTENDS Naturals, Sequences, SequencesExt

Id(table) == <<table.schema, table.name>>

Finding(rule, severity, table, columns) ==
    [rule |-> rule, severity |-> severity, schema |-> table.schema,
     table |-> table.name, columns |-> columns, tables |-> {}]

\* What the rules push, item by item: one finding where the condition holds.
If(condition, finding) == IF condition THEN <<finding>> ELSE <<>>
ForEach(items, pushes(_)) == FlattenSeq([i \in DOMAIN items |-> pushes(items[i])])

HasPrimaryKey(table) == \E i \in DOMAIN table.columns : table.columns[i].primary_key

missing_primary_keys(d) ==
    ForEach(d.tables, LAMBDA t :
        If(~HasPrimaryKey(t), Finding("MissingPrimaryKey", "warning", t, <<>>)))

\* A HashMap collected from the tables: of two with one name the last stays.
Lookup(tables, id) ==
    LET found == {i \in DOMAIN tables : Id(tables[i]) = id}
    IN  IF found = {} THEN 0 ELSE CHOOSE i \in found : \A j \in found : j <= i

ColumnNames(table) == {table.columns[i].name : i \in DOMAIN table.columns}

\* A missing table and a count mismatch end the examination of a key; every
\* missing column is a finding of its own.
broken_foreign_keys(d) ==
    ForEach(d.tables, LAMBDA t :
        ForEach(t.foreign_keys, LAMBDA fk :
            LET target == Lookup(d.tables, fk.table)
                broken == Finding("BrokenForeignKey", "error", t, fk.columns)
            IN  IF target = 0 \/ Len(fk.columns) # Len(fk.referenced) THEN <<broken>>
                ELSE ForEach(fk.referenced, LAMBDA c :
                        If(c \notin ColumnNames(d.tables[target]), broken))))

\* Mutant: a unique and a plain index on the same columns are duplicates.
SignatureOfColumns(i) == [unique |-> TRUE, columns |-> i.columns]

\* The signatures come out of a HashMap in any order: `signatures` is one.
Signature(i) == [unique |-> i.unique, columns |-> i.columns]
duplicate_indexes(d) ==
    ForEach(d.tables, LAMBDA t :
        LET signatures == SetToSeq({Signature(t.indexes[i]) : i \in DOMAIN t.indexes})
            named(s) == {i \in DOMAIN t.indexes : Signature(t.indexes[i]) = s}
        IN  ForEach(signatures, LAMBDA s :
                If(Cardinality(named(s)) >= 2, Finding("DuplicateIndex", "warning", t, s.columns))))

-----------------------------------------------------------------------------
(* Tarjan's strongly connected components.  A node is an index into the       *)
(* adjacency lists; 0 in `indices` is a node that has not been visited.       *)

TarjanStates(n) ==
    [index : Nat, stack : Seq(1 .. n), indices : [1 .. n -> Nat], lowlinks : [1 .. n -> Nat],
     components : Seq(Seq(1 .. n))]

NotVisited(n) ==
    [index |-> 1, stack |-> <<>>, indices |-> [v \in 1 .. n |-> 0],
     lowlinks |-> [v \in 1 .. n |-> 0], components |-> <<>>]

OnStack(state, v) == \E i \in DOMAIN state.stack : state.stack[i] = v
Lesser(a, b) == IF a < b THEN a ELSE b

Enter(state, node) ==
    [state EXCEPT !.indices = [@ EXCEPT ![node] = state.index],
                  !.lowlinks = [@ EXCEPT ![node] = state.index],
                  !.index = @ + 1, !.stack = Append(@, node)]

Lower(state, node, low) == [state EXCEPT !.lowlinks[node] = Lesser(@, low)]

\* Mutant: a neighbor of a finished component lowers the lowlink.
VisitOffStack(state, node, neighbor, call) ==
    IF state.indices[neighbor] = 0
    THEN LET after == call[neighbor][state] IN Lower(after, node, after.lowlinks[neighbor])
    ELSE Lower(state, node, state.indices[neighbor])

\* `call` is the function itself, for the calls of it.
Visit(state, node, neighbor, call) ==
    IF state.indices[neighbor] = 0
    THEN LET after == call[neighbor][state] IN Lower(after, node, after.lowlinks[neighbor])
    ELSE IF OnStack(state, neighbor) THEN Lower(state, node, state.indices[neighbor])
    ELSE state

\* A node whose lowlink is its own index is the first of a component.
Leave(state, node) ==
    IF state.lowlinks[node] # state.indices[node] THEN state
    ELSE LET bottom == CHOOSE i \in DOMAIN state.stack : state.stack[i] = node
         IN  [state EXCEPT
                !.stack = SubSeq(@, 1, bottom - 1),
                !.components = Append(@, SubSeq(state.stack, bottom, Len(state.stack)))]

tarjan_strongconnect(node, adjacency, before, call) ==
    LET neighbors == adjacency[node]
        visited[i \in 0 .. Len(neighbors)] ==
            IF i = 0 THEN Enter(before, node) ELSE Visit(visited[i - 1], node, neighbors[i], call)
    IN  Leave(visited[Len(neighbors)], node)

Unrolled(adjacency, call) ==
    [node \in 1 .. Len(adjacency) |->
        [before \in TarjanStates(Len(adjacency)) |->
            tarjan_strongconnect(node, adjacency, before, call)]]

Unchanged(n) == [node \in 1 .. n |-> [before \in TarjanStates(n) |-> before]]

\* Each call within a call is for one node more, so that they never nest deeper
\* than there are nodes.
Calls(adjacency) ==
    LET n == Len(adjacency)
        calls[depth \in 0 .. n] ==
            IF depth = 0 THEN Unchanged(n) ELSE Unrolled(adjacency, calls[depth - 1])
    IN  calls[n]

Start(state, node, call) == IF state.indices[node] # 0 THEN state ELSE call[node][state]

\* Without nodes there are no components.
tarjan_scc(adjacency) ==
    LET n == Len(adjacency)
        visited[i \in 0 .. n] ==
            IF i = 0 THEN NotVisited(n) ELSE Start(visited[i - 1], i, Calls(adjacency))
    IN  IF adjacency = <<>> THEN <<>> ELSE visited[n].components

\* Mutant: the first foreign key of a table only.
AdjacencyOfFirst(d) ==
    [i \in DOMAIN d.tables |->
        LET keys == d.tables[i].foreign_keys
        IN  IF keys = <<>> THEN <<>>
            ELSE If(Lookup(d.tables, keys[1].table) # 0, Lookup(d.tables, keys[1].table))]

Adjacency(d) ==
    [i \in DOMAIN d.tables |->
        ForEach(d.tables, LAMBDA t :
            IF Lookup(d.tables, Id(t)) # i THEN <<>>
            ELSE ForEach(t.foreign_keys, LAMBDA fk :
                    If(Lookup(d.tables, fk.table) # 0, Lookup(d.tables, fk.table))))]

NoTable == [schema |-> "", name |-> ""]

circular_references(d) ==
    LET adjacency == Adjacency(d)
        cyclic(scc) == Len(scc) >= 2 \/ Contains(adjacency[scc[1]], scc[1])
        Named(i) == IF d.engine = "sqlserver" THEN Id(d.tables[i])
                                              ELSE <<d.tables[i].name>>
    IN  ForEach(tarjan_scc(adjacency), LAMBDA scc :
            If(cyclic(scc),
               [Finding("CircularReference", "error", NoTable, <<>>) EXCEPT
                    !.tables = {Named(i) : i \in ToSet(scc)}]))

-----------------------------------------------------------------------------
\* The empty names and zero positions of one table or view.
InvalidObject(o) ==
    LET invalid(columns) == Finding("InvalidMetadata", "error", o, columns)
    IN  If(o.schema = "", invalid(<<>>)) \o If(o.name = "", invalid(<<>>))
        \o ForEach(o.columns, LAMBDA c :
                If(c.name = "", invalid(<<c.name>>))
                \o If(c.ordinal_position = 0, invalid(<<c.name>>)))

invalid_metadata(d) ==
    LET invalid == Finding("InvalidMetadata", "error", NoTable, <<>>)
    IN  If(d.database = "", invalid) \o If(d.engine_version = "", invalid)
        \o ForEach(d.tables, InvalidObject) \o ForEach(d.views, InvalidObject)

sqlite_without_rowid_missing_primary_key(d) ==
    IF d.engine # "sqlite" THEN <<>>
    ELSE ForEach(d.tables, LAMBDA t :
            If(t.without_rowid /\ ~HasPrimaryKey(t),
               Finding("SqliteWithoutRowidMissingPrimaryKey", "error", t, <<>>)))

sqlite_strict_missing_default_on_not_null(d) ==
    IF d.engine # "sqlite" THEN <<>>
    ELSE ForEach(d.tables, LAMBDA t :
            ForEach(IF t.strict THEN t.columns ELSE <<>>, LAMBDA c :
                If(~c.nullable /\ ~c.has_default /\ ~c.auto_increment,
                   Finding("SqliteStrictMissingDefaultOnNotNull", "warning", t, <<c.name>>))))

\* The sorted findings: how often each is there.
Sorted(findings) ==
    [f \in ToSet(findings) |-> Cardinality({i \in DOMAIN findings : findings[i] = f})]

validate(d) ==
    LET findings ==
            missing_primary_keys(d) \o broken_foreign_keys(d) \o duplicate_indexes(d)
            \o circular_references(d) \o invalid_metadata(d)
            \o sqlite_without_rowid_missing_primary_key(d)
            \o sqlite_strict_missing_default_on_not_null(d)
        count(severity) == Cardinality({i \in DOMAIN findings : findings[i].severity = severity})
    IN  [findings |-> Sorted(findings),
         summary |-> [tables |-> Len(d.tables), views |-> Len(d.views),
                      finding_count |-> Len(findings),
                      error_count |-> count("error"), warning_count |-> count("warning")]]

=============================================================================
