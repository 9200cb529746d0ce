-------------------------------- MODULE Config --------------------------------
(***************************************************************************)
(* The layers of connection settings and the rule that makes one           *)
(* configuration of them: src/src/config.rs.                               *)
(*                                                                         *)
(* A ConnectionSource is a function on the seven fields.  A field it does  *)
(* not supply is None, or <<>> for the database, which is a list.  Reading *)
(* a layer yields [error, source]; error is None when nothing went wrong.  *)
(***************************************************************************)
EXTENDS Naturals, Sequences

CONSTANTS
    None,           \* Option::None
    Garbled         \* a text that parses as no driver and as no port

Drivers == {"mysql", "mariadb", "sqlsrv", "postgres", "sqlite"}

\* None is no driver, no port and no exit code.
ASSUME NoneAssumption == None \notin Drivers /\ None \notin Nat

default_port(driver) ==
    CASE driver \in {"mysql", "mariadb"} -> 3306
      [] driver = "sqlsrv" -> 1433
      [] driver = "postgres" -> 5432
      [] driver = "sqlite" -> 0

DEFAULT_HOST == "127.0.0.1"

Fields == {"driver", "host", "port", "database", "user", "password", "socket"}

\* ConnectionSource::default()
NoSource == [f \in Fields |-> IF f = "database" THEN <<>> ELSE None]

ConfigErrors == {"UnknownDriver", "InvalidPort", "EnvFile", "ConfigFileUnreadable", "ConfigFile",
                 "PasswordInConfigFile", "MissingDatabase", "UnknownEngine",
                 "MultipleDatabasesRequireSqlite", "Prompt"}

\* A Vec, of whatever it holds.
IsList(s) == s \in Seq({s[i] : i \in DOMAIN s})

Read(source) == [error |-> None, source |-> source]
Unread(error) == [error |-> error, source |-> NoSource]

-----------------------------------------------------------------------------
(* The files and the environment. *)

FieldOf == [DB_CONNECTION |-> "driver", DB_HOST |-> "host", DB_PORT |-> "port",
            DB_DATABASE |-> "database", DB_USERNAME |-> "user",
            DB_PASSWORD |-> "password"]

Parses(field, value) ==
    CASE field = "driver" -> value \in Drivers
      [] field = "port" -> value \in 0 .. 65535
      [] OTHER -> TRUE

\* A field as a layer holds it: the database is a list of one.
Held(field, value) == IF field = "database" THEN <<value>> ELSE value

\* The layer the given entries describe, for keys renamed by `name`: of two
\* entries for one key the later counts.
FromEntries(entries, name) ==
    [f \in Fields |->
        LET at == {i \in DOMAIN entries :
                      entries[i].key \in DOMAIN name /\ name[entries[i].key] = f}
        IN  IF at = {} THEN NoSource[f]
            ELSE Held(f, entries[CHOOSE i \in at : \A j \in at : j <= i].value)]

\* The first value that does not parse ends the reading.
from_vars(vars) ==
    LET bad == {i \in DOMAIN vars :
                  vars[i].key \in DOMAIN FieldOf /\ ~Parses(FieldOf[vars[i].key], vars[i].value)}
        first == CHOOSE i \in bad : \A j \in bad : i <= j
    IN  IF bad = {} THEN Read(FromEntries(vars, FieldOf))
        ELSE Unread(IF FieldOf[vars[first].key] = "driver" THEN "UnknownDriver"
                                                           ELSE "InvalidPort")

\* A .env file; `required` when it was named with --env.  An entry that is no
\* assignment is reported before any value is looked at.
from_dotenv(file, required) ==
    CASE file.state = "absent" /\ ~required -> Read(NoSource)
      [] file.state = "whole" -> from_vars(file.entries)
      [] OTHER -> Unread("EnvFile")

\* The keys of [dbctx] that other phases own.
HeldKeys == {"output", "format", "analyze", "llm", "overwrite", "no_markdown", "no_json",
             "no_mermaid", "verbose", "quiet", "color", "log_format", "sqlite"}
ConnectionKeys == [f \in Fields \ {"password"} |-> f]

\* deny_unknown_fields, one [dbctx] table, no key twice, values of their types.
WellFormed(file) ==
    /\ file.state = "whole"
    /\ \A i \in DOMAIN file.entries :
        LET entry == file.entries[i]
        IN  /\ entry.key \in HeldKeys \cup DOMAIN ConnectionKeys
            /\ Parses(entry.key, entry.value)
            /\ \A j \in DOMAIN file.entries : file.entries[j].key = entry.key => i = j

\* Found by a look at the text, before it is parsed.
password_line(file) == \E i \in DOMAIN file.entries : file.entries[i].key = "password"

\* ProjectConfig::load, and connection() of what it returns.
load(file) ==
    CASE file.state = "absent" -> Read(NoSource)
      [] file.state = "unreadable" -> Unread("ConfigFileUnreadable")
      [] OTHER -> IF password_line(file) THEN Unread("PasswordInConfigFile")
                  ELSE IF WellFormed(file) THEN Read(FromEntries(file.entries, ConnectionKeys))
                  ELSE Unread("ConfigFile")

-----------------------------------------------------------------------------
(* Resolution. *)

Supplies(source, field) == source[field] # NoSource[field]
Supplied(sources, field) == \E i \in DOMAIN sources : Supplies(sources[i], field)

\* The field as the earliest layer that supplies it has it.
Pick(sources, field, fallback) ==
    IF Supplied(sources, field)
    THEN sources[CHOOSE i \in DOMAIN sources :
            /\ Supplies(sources[i], field)
            /\ \A j \in DOMAIN sources : Supplies(sources[j], field) => i <= j][field]
    ELSE fallback

\* Mutant: only the driver is ever asked for.
missing_driver(sources) == IF Supplied(sources, "driver") THEN <<>> ELSE <<"driver">>

\* What is asked for, in the order it is asked.
missing(sources) ==
    (IF Supplied(sources, "database") THEN <<>> ELSE <<"database">>)
    \o (IF Supplied(sources, "driver") THEN <<>> ELSE <<"driver">>)

\* The error of ConnectionConfig::resolve, or None.
resolve_error(sources) ==
    IF ~Supplied(sources, "database") THEN "MissingDatabase"
    ELSE IF ~Supplied(sources, "driver") THEN "UnknownEngine"
    ELSE IF /\ Pick(sources, "driver", None) # "sqlite"
            /\ Len(Pick(sources, "database", <<>>)) > 1
         THEN "MultipleDatabasesRequireSqlite"
    ELSE None

\* The ConnectionConfig it builds when there is none.
resolved(sources) ==
    [f \in Fields |->
        Pick(sources, f,
             CASE f = "host" -> DEFAULT_HOST
               [] f = "port" -> default_port(Pick(sources, "driver", None))
               [] OTHER -> NoSource[f])]

=============================================================================
