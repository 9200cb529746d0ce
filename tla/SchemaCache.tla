----------------------------- MODULE SchemaCache -----------------------------
(***************************************************************************)
(* What the MCP server promises about its schema cache, without its tasks, *)
(* its lock or its half-finished inspections.                              *)
(*                                                                         *)
(* The cache is one register.  A read answers with the register's value at *)
(* one instant between its call and its answer.  A refresh either fails    *)
(* and leaves the register alone, or replaces it in one instant by a       *)
(* database every part of which was read while that refresh was pending.   *)
(***************************************************************************)
EXTENDS Naturals

CONSTANTS
    Requests,       \* the calls the clients may have pending at once
    Queries,        \* the catalog queries of one inspection, 1..n in issue order
    MaxVersion      \* bound on the migrations

VARIABLES
    catalog,        \* the version of the live schema
    cached,         \* the register: for each query, the version it observed
    status,         \* status[r]: where call r stands
    since,          \* since[r]: the catalog version when refresh r was called
    response        \* response[r]: what read r answered

vars == <<catalog, cached, status, since, response>>

Version == 0 .. MaxVersion

\* What an inspection may return when its queries ran, one after the other,
\* while the catalog went from version lo to version hi.
Inspections(lo, hi) ==
    {d \in [Queries -> lo .. hi] : \A p, q \in Queries : p <= q => d[p] <= d[q]}

Nothing == [q \in Queries |-> 0]

Init ==
    /\ catalog \in Version
    /\ cached \in Inspections(0, catalog)
    /\ status = [r \in Requests |-> "idle"]
    /\ since = [r \in Requests |-> 0]
    /\ response = [r \in Requests |-> Nothing]

Migrate ==
    /\ catalog < MaxVersion
    /\ catalog' = catalog + 1
    /\ UNCHANGED <<cached, status, since, response>>

CallRead(r) ==
    /\ status[r] = "idle"
    /\ status' = [status EXCEPT ![r] = "reading"]
    /\ UNCHANGED <<catalog, cached, since, response>>

CallRefresh(r) ==
    /\ status[r] = "idle"
    /\ status' = [status EXCEPT ![r] = "refreshing"]
    /\ since' = [since EXCEPT ![r] = catalog]
    /\ UNCHANGED <<catalog, cached, response>>

\* A call that has nothing to do with the cache.
CallOther(r) ==
    /\ status[r] = "idle"
    /\ status' = [status EXCEPT ![r] = "other"]
    /\ UNCHANGED <<catalog, cached, since, response>>

AnswerRead(r) ==
    /\ status[r] = "reading"
    /\ status' = [status EXCEPT ![r] = "ok"]
    /\ response' = [response EXCEPT ![r] = cached]
    /\ UNCHANGED <<catalog, cached, since>>

Replace(r) ==
    /\ status[r] = "refreshing"
    /\ cached' \in Inspections(since[r], catalog)
    /\ status' = [status EXCEPT ![r] = "ok"]
    /\ UNCHANGED <<catalog, since, response>>

AnswerOther(r) ==
    /\ status[r] = "other"
    /\ status' = [status EXCEPT ![r] = "ok"]
    /\ UNCHANGED <<catalog, cached, since, response>>

Fail(r) ==
    /\ status[r] \in {"reading", "refreshing", "other"}
    /\ status' = [status EXCEPT ![r] = "error"]
    /\ UNCHANGED <<catalog, cached, since, response>>

Return(r) ==
    /\ status[r] \in {"ok", "error"}
    /\ status' = [status EXCEPT ![r] = "idle"]
    /\ since' = [since EXCEPT ![r] = 0]
    /\ response' = [response EXCEPT ![r] = Nothing]
    /\ UNCHANGED <<catalog, cached>>

Next ==
    \/ Migrate
    \/ \E r \in Requests :
        \/ CallRead(r)
        \/ CallRefresh(r)
        \/ CallOther(r)
        \/ AnswerRead(r)
        \/ Replace(r)
        \/ AnswerOther(r)
        \/ Fail(r)
        \/ Return(r)

Spec == Init /\ [][Next]_vars

=============================================================================
