-------------------------- MODULE InspectAndValidate --------------------------
(***************************************************************************)
(* `dbctx validate` from the first catalog query to the report: the rules  *)
(* of Validation over the Database that Introspection puts together from   *)
(* a live catalog.  The live catalogs are consistent: a server refuses a   *)
(* foreign key to a table or column that is not there, unless it was told  *)
(* not to check; SQLite does not check, and no such key is declared there. *)
(***************************************************************************)
EXTENDS Introspection, Validation

Column(is, c) ==
    [name |-> c, ordinal_position |-> 1, primary_key |-> c \in is.primary,
     nullable |-> c \notin is.primary, has_default |-> FALSE, auto_increment |-> c \in is.auto]

Columns(is) == LET names == SetToSeq(is.columns) IN [i \in DOMAIN names |-> Column(is, names[i])]

\* The result of the inspection as the rules read it.
Inspected ==
    LET tables == Ordered(DOMAIN result.tables)
        views == Ordered(DOMAIN result.views)
    IN  [database |-> "shop", engine |-> engine, engine_version |-> "1",
         tables |-> [i \in DOMAIN tables |->
            LET k == tables[i]
                t == result.tables[k]
            IN  [schema |-> k[1], name |-> k[2], columns |-> Columns(t.is),
                 indexes |-> SetToSeq(t.indexes), foreign_keys |-> SetToSeq(t.foreign_keys),
                 without_rowid |-> FALSE, strict |-> FALSE]],
         views |-> [i \in DOMAIN views |->
            [schema |-> views[i][1], name |-> views[i][2],
             columns |-> Columns(result.views[views[i]])]]]

Report == validate(Inspected)
Reported(rule) == {f \in DOMAIN Report.findings : f.rule = rule}

\* What the server guarantees of its catalog.
Consistent(c) ==
    \A k \in KeySet :
        /\ IsFiniteSet(c[k].columns) /\ IsFiniteSet(c[k].foreign_keys)
        /\ \A fk \in c[k].foreign_keys :
            /\ fk.table \in KeySet /\ c[fk.table].kind = "table"
            /\ fk.referenced # Implicit => /\ fk.referenced \in Seq(c[fk.table].columns)
                                           /\ Len(fk.referenced) = Len(fk.columns)

ASSUME CatalogsAreConsistent == \A c \in Catalogs : Consistent(c)

\* "A foreign key references a table or column that does not exist"
\* (validation.rs:26): no foreign key of a live database does, so an inspection
\* of one is never reported to have a broken foreign key.
NoFalseBrokenForeignKey == pc = "done" => Reported("BrokenForeignKey") = {}

\* The foreign keys that are known to look broken and are not: on SQLite one that
\* does not name the columns it references, and on MySQL one that leads to another
\* schema, of which the inspection reads nothing.
LooksBroken(fk) == fk.referenced = Implicit \/ fk.table \notin Scope(engine)

Edge(k) == {fk.table : fk \in catalog[k].foreign_keys}

\* While no DDL runs, whatever ran before, the report is true of the live
\* catalog through the queries, the maps and the join: no foreign key is
\* broken, but for those above; the tables without a primary key are the ones
\* that have none; and every table on a cycle of two foreign keys, or that
\* references itself, is named in a circular finding.
QuietReportIsTrue ==
    pc = "done" /\ window = {catalog} =>
        /\ \A f \in Reported("BrokenForeignKey") :
             \E fk \in catalog[<<f.schema, f.table>>].foreign_keys :
                 f.columns = fk.columns /\ LooksBroken(fk)
        /\ {<<f.schema, f.table>> : f \in Reported("MissingPrimaryKey")} =
             {k \in Scope(engine) : catalog[k].kind = "table" /\ catalog[k].primary = {}}
        /\ \A k \in Scope(engine) : (\E j \in Edge(k) \cap Scope(engine) : k \in Edge(j)) =>
             \E f \in Reported("CircularReference") :
                 (IF engine = "sqlserver" THEN k ELSE <<k[2]>>) \in f.tables

=============================================================================
