------------------------- MODULE MCInspectAndValidate -------------------------
(* Inspection and validation of small catalogs. *)
EXTENDS InspectAndValidate

Orders == <<"a", "orders">>
Users == <<"a", "users">>
Audit == <<"b", "audit">>
ThreeKeys == <<Orders, Users, Audit>>

None == [kind |-> "none", columns |-> {}, primary |-> {}, integer |-> {}, auto |-> {},
         indexes |-> {}, foreign_keys |-> {}, info |-> Nothing]

IndexOn(name, kind, key) == [name |-> name, kind |-> kind, key |-> key, include |-> <<>>]

ForeignKey(column, key, referenced) ==
    [columns |-> <<column>>, table |-> key, referenced |-> referenced]

Keyless(info, columns, foreign_keys) ==
    [None EXCEPT !.kind = "table", !.columns = columns, !.foreign_keys = foreign_keys,
                 !.info = info]

\* A table with the integer primary key `id`.
Keyed(info, columns, indexes, foreign_keys) ==
    [Keyless(info, {"id"} \cup columns, foreign_keys) EXCEPT
        !.primary = {"id"}, !.integer = {"id"}, !.auto = {"id"},
        !.indexes = {IndexOn("pk_" \o info, "primary", <<"id">>)} \cup indexes]

View(columns) == [None EXCEPT !.kind = "view", !.columns = columns]

\* A materialized view: it has columns and indexes, and no driver lists it.
Materialized(columns, indexes) ==
    [None EXCEPT !.kind = "other", !.columns = columns, !.indexes = indexes]

CatalogOf(orders, users, audit) ==
    (Orders :> orders) @@ (Users :> users) @@ (Audit :> audit)

ToUser == ForeignKey("user_id", Users, <<"id">>)
PlainUsers == Keyed("users", {"email"}, {}, {})
UniqueUsers == Keyed("users", {"email"}, {IndexOn("ix", "unique", <<"email">>)}, {})
SelfUsers == Keyed("users", {"boss"}, {}, {ForeignKey("boss", Users, <<"id">>)})
UsersOfOrders == Keyed("users", {"last_id"}, {}, {ForeignKey("last_id", Orders, <<"id">>)})
OrdersOfUsers ==
    Keyed("orders", {"user_id", "email"},
          {IndexOn("iy", "unique", <<"user_id", "email">>)}, {ToUser})
OrdersByMail ==
    Keyed("orders", {"user_id", "email"}, {IndexOn("ix", "plain", <<"email", "user_id">>)}, {ToUser})
\* An index that begins with an expression, and one that is nothing else.
AuditTable ==
    Keyed("audit", {"email"}, {IndexOn("ix", "plain", <<Expr, "email">>),
                               IndexOn("ie", "unique", <<Expr>>)}, {})
\* Its name is that of an index of nothing but an expression.
KeylessAudit ==
    [Keyless("audit", {"at"}, {}) EXCEPT !.indexes = {IndexOn("ie", "plain", <<"at">>)}]

\* A key of two columns; an index that includes a second column, and a unique one
\* of an expression and one column; and user_id INTEGER REFERENCES users.
MemberTable ==
    [Keyless("members", {"org", "role"}, {}) EXCEPT
        !.primary = {"org", "role"}, !.integer = {"org"},
        !.indexes = {IndexOn("PRIMARY", "primary", <<"org", "role">>)}]
CoveringTable ==
    Keyed("members", {"org", "role"},
          {[IndexOn("iz", "unique", <<"org">>) EXCEPT !.include = <<"role">>],
           IndexOn("iu", "unique", <<Expr, "role">>)}, {})
ImplicitOrders == Keyed("orders", {"user_id"}, {}, {ForeignKey("user_id", Users, Implicit)})
OrdersOfAudit == Keyed("orders", {"at"}, {}, {ForeignKey("at", Audit, <<"id">>)})

\* An empty database; two tables; the referenced table only; the name of a
\* table taken by a view; an index dropped and its name given to one of another
\* table; another schema, and a view of what was a table; an index on what no
\* driver lists; two tables that reference each other; one that references
\* itself; one without a key, the name of whose index was that of another; the
\* three above; and a reference to another schema.
SomeCatalogs ==
    {CatalogOf(None, None, None),
     CatalogOf(OrdersOfUsers, UniqueUsers, None),
     CatalogOf(None, UniqueUsers, AuditTable),
     CatalogOf(View({"email"}), UniqueUsers, None),
     CatalogOf(OrdersByMail, PlainUsers, None),
     CatalogOf(None, View({"id", "email"}), AuditTable),
     CatalogOf(Materialized({"id"}, {IndexOn("ix", "unique", <<"id">>)}), None, None),
     CatalogOf(OrdersOfUsers, UsersOfOrders, None),
     CatalogOf(View({"id"}), SelfUsers, None),
     CatalogOf(None, PlainUsers, KeylessAudit),
     CatalogOf(OrdersByMail, PlainUsers, MemberTable),
     CatalogOf(None, CoveringTable, None),
     CatalogOf(ImplicitOrders, PlainUsers, None),
     CatalogOf(OrdersOfAudit, PlainUsers, AuditTable)}

\* What the theorems about an inspection suppose is so here.
ASSUME SomeAreWellFormed == AllWellFormed(SomeCatalogs)

CompositeKeyCatalogs == {CatalogOf(None, MemberTable, None)}
CoveringIndexCatalogs == {CatalogOf(None, CoveringTable, None)}
ImplicitCatalogs == {CatalogOf(ImplicitOrders, PlainUsers, None)}

EveryEngine == AllEngines
OnlySqlserver == {"sqlserver"}
OnlySqlite == {"sqlite"}
=============================================================================
