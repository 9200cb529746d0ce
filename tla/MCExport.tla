------------------------------- MODULE MCExport -------------------------------
(* Exports on small instances. *)
EXTENDS Export

CONSTANTS p1, p2, v1, v2

TwoSchemas == {v1, v2}

Table(s, n) == [schema |-> s, name |-> n]

\* A migration drops a table and creates another; one name in two schemas.
TwoNamespaces ==
    (v1 :> <<Table(<<"a">>, <<"t">>), Table(<<"b">>, <<"t">>)>>) @@
    (v2 :> <<Table(<<"a">>, <<"t">>), Table(<<"a">>, <<"u">>)>>)

\* On MySQL the database is the only schema.
OneNamespace ==
    (v1 :> <<Table(<<"a">>, <<"t">>), Table(<<"a">>, <<"u">>)>>) @@
    (v2 :> <<Table(<<"a">>, <<"u">>)>>)

\* {} is of a program that calls export(); the others are of command lines,
\* {"tables"} that of `--format json --no-json`, which writes nothing.
SerialSelections == {{"tables", "markdown"}, {"json", "tables", "markdown", "mermaid"}}
BareSelections == {{}, {"tables"}, {"json", "tables"}}
RaceSelections == {{"tables", "markdown"}, {"tables", "markdown", "mermaid"}}

Setting(procs, selections, qualified, tablesOf) ==
    [procs |-> procs, selections |-> selections, qualified |-> qualified, tablesOf |-> tablesOf]
AllSettings == { Setting({p1}, SerialSelections, TRUE, TwoNamespaces),
                 Setting({p1}, BareSelections, FALSE, OneNamespace),
                 Setting({p1, p2}, RaceSelections, TRUE, TwoNamespaces) }
=============================================================================
