------------------------------- MODULE Execution -------------------------------
(***************************************************************************)
(* Reaching the database, and running one statement on it: connect() of    *)
(* the four drivers in src/src/database/, and src/src/execution.rs.        *)
(*                                                                         *)
(* A server may answer at any time or never; what it returns is a table,   *)
(* of which rows arrive one at a time and may stop arriving.               *)
(***************************************************************************)
EXTENDS Discovery, ReadOnly

CONSTANTS
    Tables,         \* Tables[driver]: what a statement may return, [columns, rows]
    MaxU64,         \* the largest number 64 bits hold, unsigned
    MaxI64,         \* and signed
    NotFinite       \* the value of a float that is NaN or infinite

\* The types a driver is sent cells in.  A cell is [type, value]; its value is
\* None for NULL, and text of MySQL is a sequence of characters.
TypesOf(driver) ==
    CASE driver \in {"mysql", "mariadb"} -> {"text"}
      [] driver = "sqlsrv" ->
            {"int", "float", "bit", "text", "bytes", "date", "datetime", "other"}
      [] driver = "postgres" ->
            {"int", "float", "bool", "text", "numeric", "bytes", "date", "datetime", "other"}
      [] driver = "sqlite" -> {"int", "float", "text", "bytes"}

IsCell(driver, cell) ==
    /\ cell = [type |-> cell.type, value |-> cell.value]
    /\ cell.type \in TypesOf(driver)
    /\ cell.value # None =>
        /\ driver \in {"mysql", "mariadb"} => cell.value \in Seq(0 .. 12)
        /\ driver = "sqlsrv" /\ cell.type \in {"date", "datetime"} => cell.value \in Nat

\* Every row has the same columns.  A column has one type, except with SQLite.
AreRows(driver, rows) ==
    \A i, k \in DOMAIN rows :
        /\ DOMAIN rows[i] = DOMAIN rows[k]
        /\ \A j \in DOMAIN rows[i] :
            /\ IsCell(driver, rows[i][j])
            /\ driver # "sqlite" => rows[i][j].type = rows[k][j].type

ASSUME TablesAssumption ==
    \A driver \in Drivers : \A table \in Tables[driver] :
        IsList(table.rows) /\ AreRows(driver, table.rows)
ASSUME WidthsAssumption == MaxU64 \in Nat /\ MaxI64 \in Nat

VARIABLES
    phase,          \* where the connection or the statement stands
    dialled,        \* <<>>, or the one address tried: no driver tries again
    attached,       \* the databases the connection has open, main first
    answer,         \* the table the statement yields
    fetched         \* the rows of it that have arrived

executionVars == <<phase, dialled, attached, answer, fetched>>

NoAnswer == [columns |-> <<>>, rows |-> <<>>]

-----------------------------------------------------------------------------
(* Where a driver connects to. *)

Or(value, fallback) == IF value = None THEN fallback ELSE value

\* mysql::connect, postgres::connect, sqlserver::connect: over TCP, SQL Server
\* to the database master first.
Address(c) ==
    CASE c["driver"] \in {"mysql", "mariadb"} ->
            [via |-> "tcp", host |-> c["host"], port |-> c["port"], user |-> c["user"],
             database |-> c["database"][1]]
      [] c["driver"] = "postgres" ->
            [via |-> "tcp", host |-> c["host"], port |-> c["port"],
             user |-> Or(c["user"], "postgres"), database |-> c["database"][1]]
      [] c["driver"] = "sqlsrv" ->
            [via |-> "tcp", host |-> c["host"], port |-> c["port"],
             user |-> Or(c["user"], "sa"), database |-> "master"]
      [] c["driver"] = "sqlite" ->
            [via |-> "file", database |-> c["database"][1]]

\* What is open once the address answered.
Opened(c) == IF c["driver"] = "sqlsrv" THEN <<>> ELSE <<c["database"][1]>>

\* The first contact succeeded.
Dial ==
    /\ phase = "dialling" /\ dialled = <<>>
    /\ dialled' = <<Address(config)>>
    /\ attached' = Opened(config)
    /\ phase' = IF Opened(config) = config["database"] THEN "open" ELSE "dialling"
    /\ UNCHANGED <<answer, fetched>>

\* Mutant: every attachment is given the first database.
AttachFirstAgain ==
    /\ phase = "dialling" /\ dialled # <<>>
    /\ attached' = Append(attached, config["database"][1])
    /\ phase' = IF Len(attached') = Len(config["database"]) THEN "open" ELSE "dialling"
    /\ UNCHANGED <<dialled, answer, fetched>>

\* USE of SQL Server, which selects the database, or ATTACH of SQLite, once for
\* each further file; the schemas are named by position.
Attach ==
    /\ phase = "dialling" /\ dialled # <<>>
    /\ attached' = Append(attached, config["database"][Len(attached) + 1])
    /\ phase' = IF Len(attached') = Len(config["database"]) THEN "open" ELSE "dialling"
    /\ UNCHANGED <<dialled, answer, fetched>>

\* No such host, a refused login, a missing file: DatabaseError::Connection.
DialFails ==
    /\ phase = "dialling"
    /\ dialled' = <<Address(config)>>
    /\ phase' = "refused"
    /\ UNCHANGED <<attached, answer, fetched>>

-----------------------------------------------------------------------------
(* A statement. *)

\* execute() looks at the text before any database is contacted.
CheckStatement ==
    /\ phase = "checking"
    /\ phase' = IF validate_read_only(args.statement) = "ok" THEN "dialling" ELSE "rejected"
    /\ UNCHANGED <<dialled, attached, answer, fetched>>

\* The server accepts the statement: its columns, and rows to come.
Query ==
    /\ phase = "open"
    /\ \E table \in Tables[config["driver"]] : answer' = table
    /\ phase' = "fetching"
    /\ UNCHANGED <<dialled, attached, fetched>>

Fetch ==
    /\ phase = "fetching" /\ Len(fetched) < Len(answer.rows)
    /\ fetched' = Append(fetched, answer.rows[Len(fetched) + 1])
    /\ UNCHANGED <<phase, dialled, attached, answer>>

\* Mutant: the rows so far are returned when the connection breaks.
FetchFailsQuietly ==
    /\ phase \in {"open", "fetching"}
    /\ phase' = IF phase = "fetching" THEN "returned" ELSE "refused"
    /\ UNCHANGED <<dialled, attached, answer, fetched>>

\* The server refuses the statement or goes away between two rows.  Every such
\* error is made a DatabaseError::Connection.
FetchFails ==
    /\ phase \in {"open", "fetching"}
    /\ phase' = "refused"
    /\ UNCHANGED <<dialled, attached, answer, fetched>>

FetchEnds ==
    /\ phase = "fetching" /\ Len(fetched) = Len(answer.rows)
    /\ phase' = "returned"
    /\ UNCHANGED <<dialled, attached, answer, fetched>>

Contacting == {"dialling", "open", "fetching"}

\* Mutant: connecting is outside the timeout.
ExpireConnected ==
    /\ phase \in Contacting /\ dialled # <<>>
    /\ phase' = "expired"
    /\ UNCHANGED <<dialled, attached, answer, fetched>>

\* The timeout covers connecting and fetching alike.
Expire ==
    /\ phase \in Contacting
    /\ phase' = "expired"
    /\ dialled' = <<Address(config)>>
    /\ UNCHANGED <<attached, answer, fetched>>

\* The names of the columns: sqlx knows them only from a row.
Columns ==
    IF config["driver"] \in {"postgres", "sqlite"} /\ fetched = <<>> THEN <<>>
    ELSE answer.columns

-----------------------------------------------------------------------------
(* Cells.  JSON is <<"null">>, or <<kind, value>>.                         *)

Null == <<"null">>

\* Text is a sequence of characters: a digit is its number.
Minus == 10
Letter == 11
NotUtf8 == 12

Digits(text) == text # <<>> /\ \A i \in DOMAIN text : text[i] \in 0 .. 9
\* What its first digits come to, for each number of them.
Leading(text) ==
    LET value[i \in 0 .. Len(text)] == IF i = 0 THEN 0 ELSE 10 * value[i - 1] + text[i]
    IN  value
Numeral(text) == Leading(text)[Len(text)]

\* Mutant: a numeral of too many digits wraps around.
mysql_text_wrapping(text) ==
    IF Digits(text) THEN <<"number", Numeral(text) % (MaxU64 + 1)>> ELSE <<"string", text>>

\* The text protocol has numbers as text: a numeral that fits becomes a number.
mysql_text_to_json(text) ==
    IF \E i \in DOMAIN text : text[i] = NotUtf8 THEN <<"array", text>>
    ELSE IF Digits(text) /\ Numeral(text) <= MaxU64 THEN <<"number", Numeral(text)>>
    ELSE IF /\ Len(text) > 1 /\ text[1] = Minus /\ Digits(Tail(text))
            /\ Numeral(Tail(text)) <= MaxI64 + 1 THEN <<"number", 0 - Numeral(Tail(text))>>
    ELSE <<"string", text>>

\* Values other than text are numbered.  JSON has no float that is not finite.
float_to_json(value) == IF value = NotFinite THEN Null ELSE <<"decimal", value>>

\* Days are counted from 1 here, and a day has 300 fragments to the second.
sqlserver_value_to_json(cell) ==
    CASE cell.type = "int" -> <<"number", cell.value>>
      [] cell.type = "float" -> float_to_json(cell.value)
      [] cell.type = "bit" -> <<"bool", cell.value>>
      [] cell.type = "text" -> <<"string", cell.value>>
      [] cell.type = "bytes" -> <<"array", cell.value>>
      [] cell.type = "date" -> <<"date", cell.value - 1>>
      [] cell.type = "datetime" -> <<"datetime", cell.value \div 300>>
      [] OTHER -> Null

\* The types decoded!() is asked for; any other is read as a String, which
\* fails, and a failure is null.
postgres_value_to_json(cell) ==
    CASE cell.type = "int" -> <<"number", cell.value>>
      [] cell.type = "float" -> float_to_json(cell.value)
      [] cell.type = "bool" -> <<"bool", cell.value>>
      [] cell.type \in {"text", "date", "datetime"} -> <<"string", cell.value>>
      [] cell.type = "numeric" /\ cell.value # NotFinite -> <<"string", cell.value>>
      [] cell.type = "bytes" -> <<"array", cell.value>>
      [] OTHER -> Null

sqlite_value_to_json(cell) ==
    CASE cell.type = "int" -> <<"number", cell.value>>
      [] cell.type = "float" -> float_to_json(cell.value)
      [] cell.type = "bytes" -> <<"array", cell.value>>
      [] cell.type = "text" -> <<"string", cell.value>>

to_json(driver, cell) ==
    IF cell.value = None THEN Null
    ELSE CASE driver \in {"mysql", "mariadb"} -> mysql_text_to_json(cell.value)
           [] driver = "sqlsrv" -> sqlserver_value_to_json(cell)
           [] driver = "postgres" -> postgres_value_to_json(cell)
           [] driver = "sqlite" -> sqlite_value_to_json(cell)

\* The rows of the ExecutionResult.
Rows ==
    [i \in DOMAIN fetched |->
        [j \in DOMAIN fetched[i] |-> to_json(config["driver"], fetched[i][j])]]

=============================================================================
