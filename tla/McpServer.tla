------------------------------ MODULE McpServer ------------------------------
(***************************************************************************)
(* The MCP server of src/src/mcp_server.rs: one schema cache behind a      *)
(* tokio RwLock, shared by every session, and one task per request.        *)
(*                                                                         *)
(* The live schema is reduced to a version number that a migration         *)
(* advances.  An inspection is a sequence of catalog queries, each with a  *)
(* snapshot of its own, so the Database it returns is a function from      *)
(* query to the version that query saw.  A document rendered from the      *)
(* cache is rendered one such part at a time, under the read guard.        *)
(***************************************************************************)
EXTENDS Naturals, Sequences

CONSTANTS
    Requests,       \* the requests the clients may have in flight at once
    Handlers,       \* the handlers these clients call
    NumQueries,     \* the number of catalog queries of one inspection
    MaxVersion      \* bound on the migrations

Version == 0 .. MaxVersion
Queries == 1 .. NumQueries
Database == [Queries -> Version]

ReadHandlers == {"list_resources", "read_resource", "get_prompt"}
AllHandlers == ReadHandlers \cup {"refresh-schema", "execute-statement"}

ASSUME HandlersAssumption == Handlers \subseteq AllHandlers
ASSUME BoundsAssumption == NumQueries \in Nat \ {0} /\ MaxVersion \in Nat

VARIABLES
    catalog,    \* the version of the live schema
    cache,      \* DbctxServer::cache, the Database behind the lock
    queue,      \* the tasks waiting for the lock, in arrival order
    pc,         \* pc[r]: where the task of request r stands
    handler,    \* handler[r]: the handler of request r
    seen,       \* seen[r]: the parts an inspection read or a document rendered
    step,       \* step[r]: how many parts of seen[r] are there
    since,      \* history: the catalog version when refresh r was called
    promised,   \* history: the newest `since` of a refresh answered with success
    floor,      \* history: `promised` when read r was called
    refreshes   \* history: "serial" until two of them are in flight at once

task == <<queue, pc, handler, seen, step>>
history == <<since, promised, floor, refreshes>>
vars == <<catalog, cache, task, history>>

Nothing == [q \in Queries |-> 0]
Idle(r) == pc[r] = "idle"
Answered(r) == pc[r] \in {"ok", "error"}
Rendering(r) == pc[r] = "rendering"
Refreshing(r) == handler[r] = "refresh-schema" /\ pc[r] \in {"inspecting", "writing"}

\* What an inspection may return that ran while the catalog went from
\* version lo to version hi.
Inspections(lo, hi) ==
    {d \in [Queries -> lo .. hi] : \A p, q \in Queries : p <= q => d[p] <= d[q]}

\* DbctxServer::new: the schema was read once before the server serves.  A
\* migration may already have run during that read.
Init ==
    /\ catalog \in Version
    /\ cache \in Inspections(0, catalog)
    /\ queue = <<>>
    /\ pc = [r \in Requests |-> "idle"]
    /\ handler = [r \in Requests |-> "none"]
    /\ seen = [r \in Requests |-> Nothing]
    /\ step = [r \in Requests |-> 0]
    /\ since = [r \in Requests |-> 0]
    /\ promised = 0
    /\ floor = [r \in Requests |-> 0]
    /\ refreshes = "serial"

-----------------------------------------------------------------------------
(* The environment: somebody else changes the schema of the live database. *)

Migrate ==
    /\ catalog < MaxVersion
    /\ catalog' = catalog + 1
    /\ UNCHANGED <<cache, task, history>>

-----------------------------------------------------------------------------
(* list_resources, read_resource and get_prompt: take the read guard, render *)
(* the document from the cache, drop the guard with the answer.              *)

Dispatch(r, h, there) ==
    /\ h \in Handlers
    /\ Idle(r)
    /\ handler' = [handler EXCEPT ![r] = h]
    /\ pc' = [pc EXCEPT ![r] = there]

\* self.cache.read().await: the task joins the queue of the lock.
CallRead(r) ==
    /\ \E h \in ReadHandlers : Dispatch(r, h, "reading")
    /\ queue' = Append(queue, r)
    /\ floor' = [floor EXCEPT ![r] = promised]
    /\ UNCHANGED <<catalog, cache, seen, step, since, promised, refreshes>>

\* tokio's lock is fair: a reader is admitted in arrival order, so one that
\* came after a waiting writer waits behind it.
AcquireRead(r) ==
    /\ pc[r] = "reading"
    /\ queue # <<>> /\ Head(queue) = r
    /\ queue' = Tail(queue)
    /\ pc' = [pc EXCEPT ![r] = "rendering"]
    /\ UNCHANGED <<catalog, cache, handler, seen, step, history>>

Render(r) ==
    /\ Rendering(r)
    /\ step[r] < NumQueries
    /\ step' = [step EXCEPT ![r] = @ + 1]
    /\ seen' = [seen EXCEPT ![r][step[r] + 1] = cache[step[r] + 1]]
    /\ UNCHANGED <<catalog, cache, queue, pc, handler, history>>

Respond(r) ==
    /\ Rendering(r)
    /\ step[r] = NumQueries
    /\ pc' = [pc EXCEPT ![r] = "ok"]
    /\ UNCHANGED <<catalog, cache, queue, handler, seen, step, history>>

\* A URI or a prompt the server does not know, a table the cached schema does
\* not have, a document that does not serialize: an error, found under the
\* guard.  list_resources has no such path.
RefuseRead(r) ==
    /\ Rendering(r)
    /\ step[r] = 0
    /\ handler[r] \in {"read_resource", "get_prompt"}
    /\ pc' = [pc EXCEPT ![r] = "error"]
    /\ UNCHANGED <<catalog, cache, queue, handler, seen, step, history>>

-----------------------------------------------------------------------------
(* call_refresh_schema: inspect with no lock held, then replace the cache. *)

CallRefresh(r) ==
    /\ Dispatch(r, "refresh-schema", "inspecting")
    /\ since' = [since EXCEPT ![r] = catalog]
    /\ refreshes' = IF \E s \in Requests : Refreshing(s) THEN "overlapped" ELSE refreshes
    /\ UNCHANGED <<catalog, cache, queue, seen, step, promised, floor>>

\* Mutant: one query too many is counted.
InspectPastEnd(r) ==
    /\ pc[r] = "inspecting"
    /\ step[r] <= NumQueries
    /\ step' = [step EXCEPT ![r] = @ + 1]
    /\ UNCHANGED <<catalog, cache, queue, pc, handler, seen, history>>

\* One catalog query of database::inspect.
Inspect(r) ==
    /\ pc[r] = "inspecting"
    /\ step[r] < NumQueries
    /\ step' = [step EXCEPT ![r] = @ + 1]
    /\ seen' = [seen EXCEPT ![r][step[r] + 1] = catalog]
    /\ UNCHANGED <<catalog, cache, queue, pc, handler, history>>

\* Mutant: the Database is installed before every query has answered.
InspectedEarly(r) ==
    /\ pc[r] = "inspecting"
    /\ pc' = [pc EXCEPT ![r] = "writing"]
    /\ queue' = Append(queue, r)
    /\ UNCHANGED <<catalog, cache, handler, seen, step, history>>

\* read_schema returned a Database: self.cache.write().await.
Inspected(r) ==
    /\ pc[r] = "inspecting"
    /\ step[r] = NumQueries
    /\ pc' = [pc EXCEPT ![r] = "writing"]
    /\ queue' = Append(queue, r)
    /\ UNCHANGED <<catalog, cache, handler, seen, step, history>>

\* Mutant: a failed inspection leaves what it had read in the cache.
InspectFailsDirty(r) ==
    /\ pc[r] = "inspecting"
    /\ pc' = [pc EXCEPT ![r] = "error"]
    /\ cache' = seen[r]
    /\ UNCHANGED <<catalog, queue, handler, seen, step, history>>

\* read_schema failed: the inspection met an error, or the introspection
\* timeout dropped it between two of its queries.
InspectFails(r) ==
    /\ pc[r] = "inspecting"
    /\ pc' = [pc EXCEPT ![r] = "error"]
    /\ UNCHANGED <<catalog, cache, queue, handler, seen, step, history>>

\* Mutant: the cache is replaced under the readers.
InstallUnderReaders(r) ==
    /\ pc[r] = "writing"
    /\ queue # <<>> /\ Head(queue) = r
    /\ queue' = Tail(queue)
    /\ cache' = seen[r]
    /\ pc' = [pc EXCEPT ![r] = "ok"]
    /\ promised' = IF since[r] > promised THEN since[r] ELSE promised
    /\ UNCHANGED <<catalog, handler, seen, step, since, floor, refreshes>>

\* Mutant: the refresh answers "schema cache refreshed" and drops the Database.
InstallNothing(r) ==
    /\ pc[r] = "writing"
    /\ queue # <<>> /\ Head(queue) = r
    /\ \A s \in Requests : ~Rendering(s)
    /\ queue' = Tail(queue)
    /\ pc' = [pc EXCEPT ![r] = "ok"]
    /\ promised' = IF since[r] > promised THEN since[r] ELSE promised
    /\ UNCHANGED <<catalog, cache, handler, seen, step, since, floor, refreshes>>

\* *self.cache.write().await = database.  The guard is a temporary of that
\* statement and excludes every other task, so taking it, assigning and
\* dropping it is one step.
InstallSchema(r) ==
    /\ pc[r] = "writing"
    /\ queue # <<>> /\ Head(queue) = r
    /\ \A s \in Requests : ~Rendering(s)
    /\ queue' = Tail(queue)
    /\ cache' = seen[r]
    /\ pc' = [pc EXCEPT ![r] = "ok"]
    /\ promised' = IF since[r] > promised THEN since[r] ELSE promised
    /\ UNCHANGED <<catalog, handler, seen, step, since, floor, refreshes>>

-----------------------------------------------------------------------------
(* call_execute_statement: never touches the cache. *)

CallExecute(r) ==
    /\ Dispatch(r, "execute-statement", "executing")
    /\ UNCHANGED <<catalog, cache, queue, seen, step, history>>

\* execution::execute returned: rows, or an error (a missing `sql`, a rejected
\* statement, a database error, the timeout).
ExecuteReturns(r) ==
    /\ pc[r] = "executing"
    /\ \E outcome \in {"ok", "error"} : pc' = [pc EXCEPT ![r] = outcome]
    /\ UNCHANGED <<catalog, cache, queue, handler, seen, step, history>>

-----------------------------------------------------------------------------
\* The answer reaches the client, which may then send another request.
Deliver(r) ==
    /\ Answered(r)
    /\ pc' = [pc EXCEPT ![r] = "idle"]
    /\ handler' = [handler EXCEPT ![r] = "none"]
    /\ seen' = [seen EXCEPT ![r] = Nothing]
    /\ step' = [step EXCEPT ![r] = 0]
    /\ since' = [since EXCEPT ![r] = 0]
    /\ floor' = [floor EXCEPT ![r] = 0]
    /\ UNCHANGED <<catalog, cache, queue, promised, refreshes>>

Read(r) == CallRead(r) \/ AcquireRead(r) \/ Render(r) \/ Respond(r) \/ RefuseRead(r)

Refresh(r) ==
    CallRefresh(r) \/ Inspect(r) \/ Inspected(r) \/ InspectFails(r) \/ InstallSchema(r)

Execute(r) == CallExecute(r) \/ ExecuteReturns(r)

Next ==
    \/ Migrate
    \/ \E r \in Requests : Read(r) \/ Refresh(r) \/ Execute(r) \/ Deliver(r)

\* Mutant: a refresh inspects without a timeout.
FairnessWithoutTimeout ==
    \A r \in Requests :
        /\ WF_vars(AcquireRead(r))
        /\ WF_vars(Render(r))
        /\ WF_vars(Respond(r))
        /\ WF_vars(InstallSchema(r))
        /\ WF_vars(ExecuteReturns(r))

\* A task that can run is scheduled, and both timeouts fire.  Nothing is
\* assumed of the database: a catalog query may hang for ever.
Fairness ==
    \A r \in Requests :
        /\ WF_vars(AcquireRead(r))
        /\ WF_vars(Render(r))
        /\ WF_vars(Respond(r))
        /\ WF_vars(InspectFails(r))
        /\ WF_vars(InstallSchema(r))
        /\ WF_vars(ExecuteReturns(r))

Spec == Init /\ [][Next]_vars

FairSpec == Spec /\ Fairness

-----------------------------------------------------------------------------
(* Properties. *)

TypeOK ==
    /\ catalog \in Version
    /\ cache \in Database
    /\ queue \in Seq(Requests)
    /\ pc \in [Requests -> {"idle", "reading", "rendering", "inspecting",
                            "writing", "executing", "ok", "error"}]
    /\ handler \in [Requests -> AllHandlers \cup {"none"}]
    /\ seen \in [Requests -> Database]
    /\ step \in [Requests -> 0 .. NumQueries]
    /\ since \in [Requests -> Version]
    /\ promised \in Version
    /\ floor \in [Requests -> Version]
    /\ refreshes \in {"serial", "overlapped"}

\* While a handler renders, what it has rendered is what the cache holds: the
\* write guard of a refresh never replaces the Database under a reader of
\* mcp_server.rs:121, 153 or 233.
NoTornDocument ==
    \A r \in Requests : Rendering(r) =>
        \A q \in 1 .. step[r] : seen[r][q] = cache[q]

\* "Resources serve the cached schema; call the refresh-schema tool after a
\* migration to re-read it" (mcp_server.rs:111-112): a read called after a
\* refresh was answered with success shows no part of the schema older than
\* the moment that refresh was called.
ReadSeesRefresh ==
    \A r \in Requests : handler[r] \in ReadHandlers /\ pc[r] = "ok" =>
        \A q \in Queries : seen[r][q] >= floor[r]

\* It holds of clients that never have two refreshes in flight at once.
ReadSeesSerialRefresh == refreshes = "serial" => ReadSeesRefresh

\* The cache never moves back for such clients: no refresh replaces a part of
\* the Database by an older observation of it than the cache already served.
CacheNeverRegresses == [][refreshes = "serial" => \A q \in Queries : cache'[q] >= cache[q]]_cache

\* A refresh during which no migration ran installs exactly the live schema,
\* however many other refreshes, readers and timeouts it met.
QuietRefreshIsExact ==
    [][\A r \in Requests : Refreshing(r) /\ pc'[r] = "ok" /\ since[r] = catalog
            => cache' = [q \in Queries |-> catalog]]_vars

\* A refresh that answers an error (timeout, failed inspection) has changed
\* nothing: the cache moves only in the step in which a refresh answers ok.
OnlySuccessReplaces ==
    [][cache' # cache => \E r \in Requests : Refreshing(r) /\ pc'[r] = "ok"]_vars

\* Every request is answered, whatever the database does: the timeouts bound
\* the inspections and the statements, and the lock's queue lets neither
\* readers starve a refresh nor refreshes starve a reader.
EveryRequestAnswered == \A r \in Requests : ~Idle(r) ~> Answered(r)

\* The inductive strengthening of NoTornDocument and of the refinement: what a
\* task knows about its own partial result at each point of its handler.
HandlerOfTask(r) ==
    /\ Idle(r) => step[r] = 0
    /\ pc[r] \in {"reading", "rendering"} => handler[r] \in ReadHandlers
    /\ pc[r] = "reading" => step[r] = 0
    /\ pc[r] \in {"inspecting", "writing"} => handler[r] = "refresh-schema"
    /\ pc[r] = "executing" => handler[r] = "execute-statement"
    /\ Idle(r) => handler[r] = "none"

InspectionInWindow(r) ==
    Refreshing(r) =>
        /\ since[r] <= catalog
        /\ \A q \in 1 .. step[r] : seen[r][q] \in since[r] .. catalog
        /\ \A p, q \in 1 .. step[r] : p <= q => seen[r][p] <= seen[r][q]
        /\ pc[r] = "writing" => step[r] = NumQueries

TaskInv ==
    /\ TypeOK
    /\ NoTornDocument
    /\ cache \in Inspections(0, catalog)
    /\ \A r \in Requests : HandlerOfTask(r) /\ InspectionInWindow(r)

\* What makes ReadSeesRefresh inductive when refreshes do not overlap: one
\* refresh in flight at most, and it was called after every promise made and
\* after every part of the cache was observed.
SerialInv ==
    /\ \A r, s \in Requests : Refreshing(r) /\ Refreshing(s) => r = s
    /\ \A q \in Queries : promised <= cache[q]
    /\ \A r \in Requests :
        /\ Refreshing(r) => promised <= since[r] /\ \A q \in Queries : cache[q] <= since[r]
        /\ floor[r] <= promised

\* The cache is one register: reads and refreshes take effect in an instant.
CallStatus(r) ==
    CASE pc[r] \in {"reading", "rendering"}  -> "reading"
      [] pc[r] \in {"inspecting", "writing"} -> "refreshing"
      [] pc[r] = "executing"                 -> "other"
      [] OTHER                               -> pc[r]

Response(r) == IF handler[r] \in ReadHandlers /\ pc[r] = "ok" THEN seen[r] ELSE Nothing

Register == INSTANCE SchemaCache WITH
    cached <- cache,
    status <- [r \in Requests |-> CallStatus(r)],
    response <- [r \in Requests |-> Response(r)]

ImplementsRegister == Register!Spec

=============================================================================
