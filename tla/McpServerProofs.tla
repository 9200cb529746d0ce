--------------------------- MODULE McpServerProofs ---------------------------
(***************************************************************************)
(* Proofs about the MCP server's schema cache, for any set of requests,    *)
(* any number of catalog queries and any number of migrations.             *)
(***************************************************************************)
EXTENDS McpServer, SequenceTheorems, TLAPS

-----------------------------------------------------------------------------
(* Type correctness. *)

\* The state the server starts serving in has the types of TypeOK.
LEMMA InitTypeOK == Init => TypeOK
<1> SUFFICES ASSUME Init PROVE TypeOK
  OBVIOUS
<1> USE BoundsAssumption DEF Init, TypeOK, Version, Queries, Database, Nothing
<1>1. cache \in Database
  BY DEF Inspections
<1>2. queue \in Seq(Requests)
  OBVIOUS
<1>3. seen \in [Requests -> Database]
  OBVIOUS
<1> QED
  BY <1>1, <1>2, <1>3 DEF AllHandlers

\* Every actor's step keeps the types: by the handler that takes it.
LEMMA StepTypeOK == TypeOK /\ [Next]_vars => TypeOK'
<1> SUFFICES ASSUME TypeOK, [Next]_vars PROVE TypeOK'
  OBVIOUS
<1> USE BoundsAssumption DEF TypeOK
<1>1. CASE Migrate
  BY <1>1 DEF Migrate, task, history, Version
<1>2. ASSUME NEW r \in Requests, Read(r) PROVE TypeOK'
  <2>1. CASE CallRead(r)
    BY <2>1 DEF CallRead, Dispatch, AllHandlers, ReadHandlers
  <2>2. CASE AcquireRead(r)
    <3>1. Tail(queue) \in Seq(Requests)
      BY <2>2 DEF AcquireRead
    <3> QED
      BY <2>2, <3>1 DEF AcquireRead, history
  <2>3. CASE Render(r)
    <3>1. step[r] + 1 \in Queries /\ step[r] + 1 \in 0 .. NumQueries
      BY <2>3 DEF Render, Queries
    <3>2. seen' \in [Requests -> Database]
      BY <2>3, <3>1 DEF Render, Database
    <3> QED
      BY <2>3, <3>1, <3>2 DEF Render, history
  <2>4. CASE Respond(r)
    BY <2>4 DEF Respond, history
  <2>5. CASE RefuseRead(r)
    BY <2>5 DEF RefuseRead, history
  <2> QED
    BY <1>2, <2>1, <2>2, <2>3, <2>4, <2>5 DEF Read
<1>3. ASSUME NEW r \in Requests, Refresh(r) PROVE TypeOK'
  <2>1. CASE CallRefresh(r)
    BY <2>1 DEF CallRefresh, Dispatch, AllHandlers
  <2>2. CASE Inspect(r)
    <3>1. step[r] + 1 \in Queries /\ step[r] + 1 \in 0 .. NumQueries
      BY <2>2 DEF Inspect, Queries
    <3>2. seen' \in [Requests -> Database]
      BY <2>2, <3>1 DEF Inspect, Database
    <3> QED
      BY <2>2, <3>1, <3>2 DEF Inspect, history
  <2>3. CASE Inspected(r)
    BY <2>3 DEF Inspected, history
  <2>4. CASE InspectFails(r)
    BY <2>4 DEF InspectFails, history
  <2>5. CASE InstallSchema(r)
    <3>1. Tail(queue) \in Seq(Requests)
      BY <2>5 DEF InstallSchema
    <3> QED
      BY <2>5, <3>1 DEF InstallSchema
  <2> QED
    BY <1>3, <2>1, <2>2, <2>3, <2>4, <2>5 DEF Refresh
<1>4. ASSUME NEW r \in Requests, Execute(r) PROVE TypeOK'
  <2>1. CASE CallExecute(r)
    BY <2>1 DEF CallExecute, Dispatch, AllHandlers, history
  <2>2. CASE ExecuteReturns(r)
    BY <2>2 DEF ExecuteReturns, history
  <2> QED
    BY <1>4, <2>1, <2>2 DEF Execute
<1>5. ASSUME NEW r \in Requests, Deliver(r) PROVE TypeOK'
  <2>1. Nothing \in Database /\ 0 \in Version
    BY DEF Nothing, Database, Version
  <2> QED
    BY <1>5, <2>1 DEF Deliver
<1>6. CASE UNCHANGED vars
  BY <1>6 DEF vars, task, history
<1> QED
  BY <1>1, <1>2, <1>3, <1>4, <1>5, <1>6 DEF Next

\* The types of McpServer hold in every state of every run of it.
THEOREM TypeCorrect == Spec => []TypeOK
<1> QED
  BY InitTypeOK, StepTypeOK, PTL DEF Spec

-----------------------------------------------------------------------------
(* The inductive invariant of the cache and its tasks. *)

\* The server starts with an observed schema and no task.
LEMMA InitTaskInv == Init => TaskInv
<1> SUFFICES ASSUME Init PROVE TaskInv
  OBVIOUS
<1>1. TypeOK
  BY InitTypeOK
<1>2. NoTornDocument
  BY DEF Init, NoTornDocument, Rendering
<1>3. cache \in Inspections(0, catalog)
  BY DEF Init
<1>4. \A r \in Requests : HandlerOfTask(r) /\ InspectionInWindow(r)
  BY DEF Init, HandlerOfTask, InspectionInWindow, Refreshing, Idle
<1> QED
  BY <1>1, <1>2, <1>3, <1>4 DEF TaskInv

\* An inspection may be seen from a catalog that has moved on.
LEMMA InspectionsGrow ==
    ASSUME NEW lo \in Nat, NEW hi \in Nat, NEW up \in Nat, hi <= up,
           NEW d \in Inspections(lo, hi), NEW down \in Nat, down <= lo
    PROVE  d \in Inspections(down, up)
<1>1. lo .. hi \subseteq down .. up
  OBVIOUS
<1> QED
  BY <1>1 DEF Inspections

\* A finished inspection is a Database its window explains.
LEMMA FinishedInspection ==
    ASSUME TaskInv, NEW r \in Requests, pc[r] = "writing"
    PROVE  seen[r] \in Inspections(since[r], catalog)
<1>1. Refreshing(r) /\ step[r] = NumQueries
  BY DEF TaskInv, HandlerOfTask, InspectionInWindow, Refreshing
<1>2. /\ \A q \in Queries : seen[r][q] \in since[r] .. catalog
      /\ \A p, q \in Queries : p <= q => seen[r][p] <= seen[r][q]
  BY <1>1 DEF TaskInv, InspectionInWindow, Queries
<1>3. seen[r] \in [Queries -> since[r] .. catalog]
  BY <1>2 DEF TaskInv, TypeOK, Database
<1> QED
  BY <1>2, <1>3 DEF Inspections

\* What a handler has rendered stays true while the cache does, of handlers
\* that begin and of those that stand still.
LEMMA RenderedStays ==
    ASSUME NoTornDocument, cache' = cache,
           \A s \in Requests : Rendering(s)' =>
                \/ step'[s] = 0
                \/ Rendering(s) /\ seen'[s] = seen[s] /\ step'[s] = step[s]
    PROVE  NoTornDocument'
BY DEF NoTornDocument

\* What a task knows of its partial result survives every step of every task.
LEMMA StepTaskInv == TaskInv /\ [Next]_vars => TaskInv'
<1> SUFFICES ASSUME TaskInv, [Next]_vars PROVE TaskInv'
  OBVIOUS
<1> TypeOK /\ TypeOK'
  BY StepTypeOK DEF TaskInv
<1> DEFINE Tasks == \A r \in Requests : HandlerOfTask(r) /\ InspectionInWindow(r)
           Sound == cache \in Inspections(0, catalog)
<1>1. CASE Migrate
  <2>1. Sound'
    <3>1. catalog \in Nat /\ catalog' = catalog + 1 /\ cache' = cache
      BY <1>1, BoundsAssumption DEF Migrate, TypeOK, Version
    <3> QED
      BY <3>1, InspectionsGrow DEF TaskInv
  <2>2. NoTornDocument'
    BY <1>1 DEF TaskInv, NoTornDocument, Migrate, task, history, Rendering
  <2>3. ASSUME NEW r \in Requests PROVE HandlerOfTask(r)' /\ InspectionInWindow(r)'
    <3>1. HandlerOfTask(r)'
      BY <1>1 DEF TaskInv, Migrate, task, history, HandlerOfTask, Idle
    <3>2. since[r] \in Nat /\ catalog \in Nat /\ catalog' = catalog + 1
      BY <1>1, BoundsAssumption DEF Migrate, TypeOK, Version
    <3>3. since[r] .. catalog \subseteq since[r] .. catalog'
      BY <3>2
    <3>4. InspectionInWindow(r)'
      BY <1>1, <3>2, <3>3 DEF TaskInv, Migrate, task, history, InspectionInWindow, Refreshing
    <3> QED
      BY <3>1, <3>4
  <2> QED
    BY <2>1, <2>2, <2>3 DEF TaskInv
<1>2. ASSUME NEW r \in Requests, Read(r) PROVE TaskInv'
  <2>0. Sound'
    BY <1>2 DEF TaskInv, Read, CallRead, AcquireRead, Render, Respond, RefuseRead
  <2>1. CASE CallRead(r)
    <3>1. PICK h \in ReadHandlers : Dispatch(r, h, "reading")
      BY <2>1 DEF CallRead
    <3>2. NoTornDocument'
      BY <2>1, <3>1, RenderedStays DEF TaskInv, CallRead, Dispatch, TypeOK, Rendering
    <3>3. Tasks'
      BY <2>1, <3>1 DEF TaskInv, HandlerOfTask, InspectionInWindow, Refreshing, Idle,
                        CallRead, Dispatch, TypeOK, ReadHandlers
    <3> QED
      BY <2>0, <3>2, <3>3 DEF TaskInv
  <2>2. CASE AcquireRead(r)
    <3>1. step[r] = 0
      BY <2>2 DEF TaskInv, HandlerOfTask, AcquireRead
    <3>2. NoTornDocument'
      BY <2>2, <3>1, RenderedStays DEF TaskInv, AcquireRead, TypeOK, Rendering
    <3>3. Tasks'
      BY <2>2 DEF TaskInv, HandlerOfTask, InspectionInWindow, Refreshing, Idle,
                  AcquireRead, TypeOK, history
    <3> QED
      BY <2>0, <3>2, <3>3 DEF TaskInv
  <2>3. CASE Render(r)
    <3>1. step[r] \in 0 .. NumQueries /\ step[r] + 1 \in Queries
      BY <2>3, BoundsAssumption DEF Render, TypeOK, Queries
    <3>2. NoTornDocument'
      <4> SUFFICES ASSUME NEW s \in Requests, Rendering(s)', NEW q \in 1 .. step'[s]
                   PROVE  seen'[s][q] = cache'[q]
        BY DEF NoTornDocument
      <4>1. CASE s # r
        BY <2>3, <4>1 DEF TaskInv, NoTornDocument, Render, TypeOK, Rendering
      <4>2. CASE s = r /\ q = step[r] + 1
        BY <2>3, <4>2, <3>1 DEF Render, TypeOK, Database
      <4>3. CASE s = r /\ q # step[r] + 1
        <5>1. q \in 1 .. step[r]
          BY <2>3, <4>3, <3>1 DEF Render, TypeOK
        <5> QED
          BY <2>3, <4>3, <5>1, <3>1 DEF TaskInv, NoTornDocument, Render, TypeOK, Database
      <4> QED
        BY <4>1, <4>2, <4>3
    <3>3. Tasks'
      BY <2>3 DEF TaskInv, HandlerOfTask, InspectionInWindow, Refreshing, Idle,
                  Render, Rendering, TypeOK, history
    <3> QED
      BY <2>0, <3>2, <3>3 DEF TaskInv
  <2>4. CASE Respond(r) \/ RefuseRead(r)
    <3>1. /\ cache' = cache /\ seen' = seen /\ step' = step
          /\ \A s \in Requests : Rendering(s)' => Rendering(s)
      BY <2>4 DEF Respond, RefuseRead, TypeOK, Rendering
    <3>2. NoTornDocument'
      BY <3>1, RenderedStays DEF TaskInv
    <3>3. /\ \A s \in Requests : pc'[s] = pc[s] \/ pc'[s] \in {"ok", "error"}
          /\ UNCHANGED <<catalog, step, handler, since>>
      BY <2>4, SMTT(30) DEF Respond, RefuseRead, TypeOK, history
    <3>4. ASSUME NEW s \in Requests PROVE HandlerOfTask(s)' /\ InspectionInWindow(s)'
      <4>1. HandlerOfTask(s) /\ InspectionInWindow(s)
        BY DEF TaskInv
      <4>2. CASE pc'[s] = pc[s]
        BY <3>1, <3>3, <4>1, <4>2, Zenon DEF HandlerOfTask, InspectionInWindow, Refreshing, Idle
      <4>3. CASE pc'[s] \in {"ok", "error"}
        BY <4>3, SMTT(30) DEF HandlerOfTask, InspectionInWindow, Refreshing, Idle
      <4> QED
        BY <3>3, <4>2, <4>3
    <3>5. Tasks'
      BY <3>4
    <3> QED
      BY <2>0, <3>2, <3>5 DEF TaskInv
  <2> QED
    BY <1>2, <2>1, <2>2, <2>3, <2>4 DEF Read
<1>3. ASSUME NEW r \in Requests, Refresh(r) PROVE TaskInv'
  <2>1. CASE CallRefresh(r)
    <3>1. Sound'
      BY <2>1 DEF TaskInv, CallRefresh
    <3>2. NoTornDocument'
      BY <2>1, RenderedStays DEF TaskInv, CallRefresh, Dispatch, TypeOK, Rendering
    <3>3. step[r] = 0 /\ catalog \in Nat
      BY <2>1, BoundsAssumption DEF CallRefresh, Dispatch, TaskInv, HandlerOfTask, TypeOK, Version
    <3>4. ASSUME NEW s \in Requests PROVE HandlerOfTask(s)'
      BY <2>1 DEF TaskInv, HandlerOfTask, Idle, CallRefresh, Dispatch, TypeOK, ReadHandlers
    <3>5. ASSUME NEW s \in Requests, s # r PROVE InspectionInWindow(s)'
      BY <2>1, <3>5 DEF TaskInv, InspectionInWindow, Refreshing, CallRefresh, Dispatch, TypeOK
    <3>6. InspectionInWindow(r)'
      <4>1. /\ pc'[r] = "inspecting" /\ step'[r] = 0
            /\ since'[r] = catalog /\ catalog' = catalog
        BY <2>1, <3>3 DEF CallRefresh, Dispatch, TypeOK
      <4> QED
        BY <4>1, <3>3 DEF InspectionInWindow
    <3> QED
      BY <3>1, <3>2, <3>4, <3>5, <3>6 DEF TaskInv
  <2>2. CASE Inspect(r)
    <3>1. step[r] \in 0 .. NumQueries /\ step[r] + 1 \in Queries
      BY <2>2, BoundsAssumption DEF Inspect, TypeOK, Queries
    <3>2. Sound'
      BY <2>2 DEF TaskInv, Inspect
    <3>3. NoTornDocument'
      BY <2>2, RenderedStays DEF TaskInv, Inspect, TypeOK, Rendering
    <3>4. ASSUME NEW s \in Requests PROVE HandlerOfTask(s)'
      BY <2>2 DEF TaskInv, HandlerOfTask, Idle, Inspect, TypeOK, history
    <3>5. ASSUME NEW s \in Requests, s # r PROVE InspectionInWindow(s)'
      BY <2>2, <3>5 DEF TaskInv, InspectionInWindow, Refreshing, Inspect, TypeOK, history
    <3>6. InspectionInWindow(r)'
      <4>1. Refreshing(r) /\ InspectionInWindow(r)
        BY <2>2 DEF TaskInv, HandlerOfTask, Inspect, Refreshing
      <4>2. /\ step'[r] = step[r] + 1
            /\ \A q \in 1 .. step[r] : seen'[r][q] = seen[r][q]
            /\ seen'[r][step[r] + 1] = catalog
        BY <2>2, <3>1 DEF Inspect, TypeOK, Database
      <4>3. /\ catalog' = catalog /\ since' = since /\ pc'[r] = "inspecting"
            /\ since[r] \in Nat /\ catalog \in Nat
        BY <2>2, BoundsAssumption DEF Inspect, TypeOK, Version, history
      <4>4. \A q \in 1 .. step'[r] : seen'[r][q] \in since'[r] .. catalog'
        BY <3>1, <4>1, <4>2, <4>3 DEF InspectionInWindow
      <4>5. \A p, q \in 1 .. step'[r] : p <= q => seen'[r][p] <= seen'[r][q]
        BY <3>1, <4>1, <4>2, <4>3 DEF InspectionInWindow
      <4> QED
        BY <4>1, <4>3, <4>4, <4>5 DEF InspectionInWindow
    <3> QED
      BY <3>2, <3>3, <3>4, <3>5, <3>6 DEF TaskInv
  <2>3. CASE Inspected(r) \/ InspectFails(r)
    <3>1. Sound'
      BY <2>3 DEF TaskInv, Inspected, InspectFails
    <3>4. /\ cache' = cache /\ seen' = seen /\ step' = step
          /\ \A s \in Requests : Rendering(s)' => Rendering(s)
      BY <2>3 DEF Inspected, InspectFails, TypeOK, Rendering
    <3>2. NoTornDocument'
      BY <3>4, RenderedStays DEF TaskInv
    <3>3. Tasks'
      BY <2>3 DEF TaskInv, HandlerOfTask, InspectionInWindow, Refreshing, Idle,
                  Inspected, InspectFails, TypeOK, history
    <3> QED
      BY <3>1, <3>2, <3>3 DEF TaskInv
  <2>4. CASE InstallSchema(r)
    <3>1. Sound'
      <4>1. seen[r] \in Inspections(since[r], catalog)
        BY <2>4, FinishedInspection DEF InstallSchema
      <4>2. since[r] \in Nat /\ catalog \in Nat
        BY BoundsAssumption DEF TypeOK, Version
      <4>3. seen[r] \in Inspections(0, catalog)
        BY <4>1, <4>2, InspectionsGrow
      <4> QED
        BY <2>4, <4>3 DEF InstallSchema
    <3>2. NoTornDocument'
      BY <2>4 DEF NoTornDocument, InstallSchema, TypeOK, Rendering
    <3>3. Tasks'
      BY <2>4 DEF TaskInv, HandlerOfTask, InspectionInWindow, Refreshing, Idle,
                  InstallSchema, TypeOK
    <3> QED
      BY <3>1, <3>2, <3>3 DEF TaskInv
  <2> QED
    BY <1>3, <2>1, <2>2, <2>3, <2>4 DEF Refresh
<1>4. ASSUME NEW r \in Requests, Execute(r) \/ Deliver(r) PROVE TaskInv'
  <2>1. Sound'
    BY <1>4 DEF TaskInv, Execute, CallExecute, ExecuteReturns, Deliver
  <2>2. NoTornDocument'
    <3>1. /\ cache' = cache
          /\ \A s \in Requests : Rendering(s)' =>
                Rendering(s) /\ seen'[s] = seen[s] /\ step'[s] = step[s]
      <4>1. CASE Execute(r)
        BY <4>1 DEF Execute, CallExecute, Dispatch, ExecuteReturns, TypeOK, Rendering
      <4>2. CASE Deliver(r)
        BY <4>2 DEF Deliver, TypeOK, Rendering
      <4> QED
        BY <1>4, <4>1, <4>2
    <3> QED
      BY <3>1, RenderedStays DEF TaskInv
  <2>3. CASE CallExecute(r)
    BY <2>3, <2>1, <2>2 DEF TaskInv, HandlerOfTask, InspectionInWindow, Refreshing, Idle,
                CallExecute, Dispatch, TypeOK, history, ReadHandlers
  <2>4. CASE ExecuteReturns(r)
    BY <2>4, <2>1, <2>2 DEF TaskInv, HandlerOfTask, InspectionInWindow, Refreshing, Idle,
                ExecuteReturns, TypeOK, history
  <2>5. CASE Deliver(r)
    BY <2>5, <2>1, <2>2 DEF TaskInv, HandlerOfTask, InspectionInWindow, Refreshing, Idle,
                Deliver, Answered, TypeOK
  <2> QED
    BY <1>4, <2>3, <2>4, <2>5 DEF Execute
<1>5. CASE UNCHANGED vars
  BY <1>5 DEF TaskInv, NoTornDocument, HandlerOfTask, InspectionInWindow, Refreshing,
              Rendering, Idle, vars, task, history
<1> QED
  BY <1>1, <1>2, <1>3, <1>4, <1>5 DEF Next

\* The inductive invariant holds in every state: each task knows where its
\* partial result comes from, and the cache was observed part by part.
THEOREM TaskInvariant == Spec => []TaskInv
<1> QED
  BY InitTaskInv, StepTaskInv, PTL DEF Spec

\* No refresh replaces the Database under a handler that renders it.
THEOREM NoTornDocuments == Spec => []NoTornDocument
<1>1. TaskInv => NoTornDocument
  BY DEF TaskInv
<1> QED
  BY <1>1, TaskInvariant, PTL

-----------------------------------------------------------------------------
(* The server implements the register of SchemaCache. *)

\* A step that moves the task of request r alone.
MovesOnly(r) ==
    \A s \in Requests : s # r =>
        pc'[s] = pc[s] /\ handler'[s] = handler[s] /\ seen'[s] = seen[s]

\* The register sees such a step at r alone.
LEMMA RegisterSeesOnly ==
    ASSUME NEW r \in Requests, MovesOnly(r)
    PROVE  /\ [s \in Requests |-> CallStatus(s)]'
                = [[s \in Requests |-> CallStatus(s)] EXCEPT ![r] = CallStatus(r)']
           /\ [s \in Requests |-> Response(s)]'
                = [[s \in Requests |-> Response(s)] EXCEPT ![r] = Response(r)']
           /\ Response(r)' = Response(r)
                => [s \in Requests |-> Response(s)]' = [s \in Requests |-> Response(s)]
<1>1. ASSUME NEW s \in Requests, s # r
      PROVE  CallStatus(s)' = CallStatus(s) /\ Response(s)' = Response(s)
  BY <1>1 DEF MovesOnly, CallStatus, Response, Nothing
<1> QED
  BY <1>1

\* The server implements the register of SchemaCache: lock, tasks and partial
\* inspections are invisible to its clients.
THEOREM RegisterRefinement == Spec => ImplementsRegister
<1>1. Init => Register!Init
  <2> SUFFICES ASSUME Init PROVE Register!Init
    OBVIOUS
  <2>1. \A r \in Requests : CallStatus(r) = "idle" /\ Response(r) = Nothing
    BY DEF Init, CallStatus, Response
  <2> QED
    BY <2>1 DEF Init, Register!Init, Register!Version, Version, Inspections,
                Register!Inspections, Register!Nothing, Nothing
<1>2. TaskInv /\ [Next]_vars => [Register!Next]_Register!vars
  <2> SUFFICES ASSUME TaskInv, [Next]_vars PROVE [Register!Next]_Register!vars
    OBVIOUS
  <2> DEFINE status == [s \in Requests |-> CallStatus(s)]
             response == [s \in Requests |-> Response(s)]
  <2> USE DEF TypeOK, MovesOnly, history
  <2> TypeOK
    BY DEF TaskInv
  <2>1. CASE Migrate
    <3>1. status' = status /\ response' = response
      BY <2>1 DEF Migrate, task, CallStatus, Response, Nothing
    <3> QED
      BY <2>1, <3>1 DEF Migrate, Register!Next, Register!Migrate
  <2>2. ASSUME NEW r \in Requests,
               CallRead(r) \/ CallRefresh(r) \/ CallExecute(r)
        PROVE  [Register!Next]_Register!vars
    <3>1. MovesOnly(r)
      BY <2>2 DEF CallRead, CallRefresh, CallExecute, Dispatch
    <3>2. CallStatus(r) = "idle" /\ Response(r) = Nothing
      BY <2>2 DEF CallRead, CallRefresh, CallExecute, Dispatch, Idle, CallStatus, Response
    <3>3. CASE CallRead(r)
      <4>1. CallStatus(r)' = "reading" /\ Response(r)' = Nothing
        BY <3>3 DEF CallRead, Dispatch, CallStatus, Response, Nothing
      <4>2. Register!CallRead(r)
        BY <3>1, <3>2, <3>3, <4>1, RegisterSeesOnly DEF CallRead, Register!CallRead
      <4> QED
        BY <4>2 DEF Register!Next
    <3>4. CASE CallRefresh(r)
      <4>1. CallStatus(r)' = "refreshing" /\ Response(r)' = Nothing
        BY <3>4 DEF CallRefresh, Dispatch, CallStatus, Response, Nothing
      <4>2. Register!CallRefresh(r)
        BY <3>1, <3>2, <3>4, <4>1, RegisterSeesOnly DEF CallRefresh, Register!CallRefresh
      <4> QED
        BY <4>2 DEF Register!Next
    <3>5. CASE CallExecute(r)
      <4>1. CallStatus(r)' = "other" /\ Response(r)' = Nothing
        BY <3>5 DEF CallExecute, Dispatch, CallStatus, Response, Nothing
      <4>2. Register!CallOther(r)
        BY <3>1, <3>2, <3>5, <4>1, RegisterSeesOnly DEF CallExecute, Register!CallOther
      <4> QED
        BY <4>2 DEF Register!Next
    <3> QED
      BY <2>2, <3>3, <3>4, <3>5
  <2>3. ASSUME NEW r \in Requests,
               AcquireRead(r) \/ Render(r) \/ Inspect(r) \/ Inspected(r)
        PROVE  UNCHANGED Register!vars
    <3>1. MovesOnly(r)
      BY <2>3 DEF AcquireRead, Render, Inspect, Inspected
    <3>2. CallStatus(r)' = CallStatus(r) /\ Response(r)' = Response(r)
      BY <2>3 DEF AcquireRead, Render, Rendering, Inspect, Inspected, CallStatus,
                  Response, Nothing
    <3>3. status' = status /\ response' = response
      BY <3>1, <3>2, RegisterSeesOnly
    <3> QED
      BY <2>3, <3>3 DEF AcquireRead, Render, Inspect, Inspected, Register!vars
  <2>4. ASSUME NEW r \in Requests, Respond(r)
        PROVE  Register!AnswerRead(r)
    <3>1. MovesOnly(r)
      BY <2>4 DEF Respond
    <3>2. seen[r] = cache
      <4>1. \A q \in Queries : seen[r][q] = cache[q]
        BY <2>4 DEF TaskInv, NoTornDocument, Respond, Rendering, Queries
      <4> QED
        BY <4>1 DEF Database
    <3>3. handler[r] \in ReadHandlers
      BY <2>4 DEF TaskInv, HandlerOfTask, Respond, Rendering
    <3>4. CallStatus(r) = "reading" /\ CallStatus(r)' = "ok" /\ Response(r)' = cache
      BY <2>4, <3>2, <3>3 DEF Respond, Rendering, CallStatus, Response
    <3> QED
      BY <2>4, <3>1, <3>4, RegisterSeesOnly DEF Respond, Register!AnswerRead
  <2>5. ASSUME NEW r \in Requests, RefuseRead(r) \/ InspectFails(r)
        PROVE  Register!Fail(r)
    <3>1. MovesOnly(r)
      BY <2>5 DEF RefuseRead, InspectFails
    <3>2. /\ CallStatus(r) \in {"reading", "refreshing"} /\ CallStatus(r)' = "error"
          /\ Response(r) = Nothing /\ Response(r)' = Nothing
      BY <2>5 DEF RefuseRead, Rendering, InspectFails, CallStatus, Response, Nothing
    <3> QED
      BY <2>5, <3>1, <3>2, RegisterSeesOnly DEF RefuseRead, InspectFails, Register!Fail
  <2>6. ASSUME NEW r \in Requests, InstallSchema(r)
        PROVE  Register!Replace(r)
    <3>1. MovesOnly(r)
      BY <2>6 DEF InstallSchema
    <3>2. seen[r] \in Register!Inspections(since[r], catalog)
      BY <2>6, FinishedInspection DEF InstallSchema, Inspections, Register!Inspections
    <3>3. handler[r] \notin ReadHandlers
      BY <2>6 DEF TaskInv, HandlerOfTask, InstallSchema, ReadHandlers
    <3>4. /\ CallStatus(r) = "refreshing" /\ CallStatus(r)' = "ok"
          /\ Response(r) = Nothing /\ Response(r)' = Nothing
      BY <2>6, <3>3 DEF InstallSchema, CallStatus, Response, Nothing
    <3> QED
      BY <2>6, <3>1, <3>2, <3>4, RegisterSeesOnly DEF InstallSchema, Register!Replace
  <2>7. ASSUME NEW r \in Requests, ExecuteReturns(r)
        PROVE  Register!AnswerOther(r) \/ Register!Fail(r)
    <3>1. MovesOnly(r)
      BY <2>7 DEF ExecuteReturns
    <3>2. handler[r] \notin ReadHandlers
      BY <2>7 DEF TaskInv, HandlerOfTask, ExecuteReturns, ReadHandlers
    <3>3. /\ CallStatus(r) = "other" /\ CallStatus(r)' \in {"ok", "error"}
          /\ Response(r) = Nothing /\ Response(r)' = Nothing
      BY <2>7, <3>2 DEF ExecuteReturns, CallStatus, Response, Nothing
    <3> QED
      BY <2>7, <3>1, <3>3, RegisterSeesOnly
      DEF ExecuteReturns, Register!AnswerOther, Register!Fail
  <2>8. ASSUME NEW r \in Requests, Deliver(r)
        PROVE  Register!Return(r)
    <3>1. MovesOnly(r)
      BY <2>8 DEF Deliver
    <3>2. /\ CallStatus(r) \in {"ok", "error"} /\ CallStatus(r)' = "idle"
          /\ Response(r)' = Nothing
      BY <2>8 DEF Deliver, Answered, CallStatus, Response, Nothing
    <3> QED
      BY <2>8, <3>1, <3>2, RegisterSeesOnly
      DEF Deliver, Register!Return, Register!Nothing, Nothing
  <2>9. CASE UNCHANGED vars
    BY <2>9 DEF vars, task, Register!vars, CallStatus, Response, Nothing
  <2> QED
    BY <2>1, <2>2, <2>3, <2>4, <2>5, <2>6, <2>7, <2>8, <2>9
    DEF Next, Read, Refresh, Execute, Register!Next
<1> QED
  BY <1>1, <1>2, TaskInvariant, PTL DEF ImplementsRegister, Register!Spec, Spec

-----------------------------------------------------------------------------
(* What a step may do to the cache. *)

\* Only the step in which a refresh answers ok replaces the cache; an error
\* answer, whenever the timeout struck, leaves it as it was.
THEOREM FailedRefreshKeepsCache == Spec => OnlySuccessReplaces
<1>1. TaskInv /\ [Next]_vars
        => (cache' # cache => \E r \in Requests : Refreshing(r) /\ pc'[r] = "ok") \/ UNCHANGED vars
  <2> SUFFICES ASSUME TaskInv, Next, cache' # cache
               PROVE  \E r \in Requests : Refreshing(r) /\ pc'[r] = "ok"
    BY DEF vars
  <2>1. PICK r \in Requests : InstallSchema(r)
    BY DEF Next, Migrate, Read, CallRead, AcquireRead, Render, Respond, RefuseRead,
           Refresh, CallRefresh, Inspect, Inspected, InspectFails,
           Execute, CallExecute, ExecuteReturns, Deliver
  <2> QED
    BY <2>1 DEF InstallSchema, TaskInv, TypeOK, HandlerOfTask, Refreshing
<1> QED
  BY <1>1, TaskInvariant, PTL DEF OnlySuccessReplaces, Spec

\* A window with no migration in it leaves an inspection one possible result.
LEMMA QuietInspection ==
    ASSUME NEW v \in Nat, NEW d \in Inspections(v, v)
    PROVE  d = [q \in Queries |-> v]
BY DEF Inspections

\* A refresh answered ok with no migration since it was called has installed
\* the live schema, whatever else the server was doing.
THEOREM QuietRefreshes == Spec => QuietRefreshIsExact
<1>1. TaskInv /\ [Next]_vars
        => (\A r \in Requests : Refreshing(r) /\ pc'[r] = "ok" /\ since[r] = catalog
                => cache' = [q \in Queries |-> catalog]) \/ UNCHANGED vars
  <2> SUFFICES ASSUME TaskInv, Next, NEW r \in Requests,
                      Refreshing(r), pc'[r] = "ok", since[r] = catalog
               PROVE  cache' = [q \in Queries |-> catalog]
    BY DEF vars
  <2> TypeOK
    BY DEF TaskInv
  <2>1. ASSUME NEW s \in Requests, s # r, Read(s) \/ Refresh(s) \/ Execute(s) \/ Deliver(s)
        PROVE  pc'[r] = pc[r]
    BY <2>1 DEF TypeOK, Read, CallRead, AcquireRead, Render, Respond, RefuseRead, Dispatch,
           Refresh, CallRefresh, Inspect, Inspected, InspectFails, InstallSchema,
           Execute, CallExecute, ExecuteReturns, Deliver
  <2>2. ~Migrate
    BY DEF Migrate, task, Refreshing
  <2>3. Read(r) \/ Refresh(r) \/ Execute(r) \/ Deliver(r)
    BY <2>1, <2>2 DEF Next, Refreshing
  <2>4. InstallSchema(r)
    BY <2>3 DEF TypeOK, Refreshing, Idle, Answered, Rendering,
           Read, CallRead, AcquireRead, Render, Respond, RefuseRead, Dispatch,
           Refresh, CallRefresh, Inspect, Inspected, InspectFails,
           Execute, CallExecute, ExecuteReturns, Deliver
  <2>5. cache' = seen[r] /\ seen[r] \in Inspections(catalog, catalog)
    BY <2>4, FinishedInspection DEF InstallSchema
  <2> QED
    BY <2>5, QuietInspection, BoundsAssumption DEF TypeOK, Version
<1> QED
  BY <1>1, TaskInvariant, PTL DEF QuietRefreshIsExact, Spec

-----------------------------------------------------------------------------
(* Refreshes that do not overlap: what they promise, every read keeps.       *)

Promises == TaskInv /\ SerialInv /\ ReadSeesRefresh

\* No promise has been made to the first client.
LEMMA InitPromises == Init => Promises
<1> SUFFICES ASSUME Init PROVE Promises
  OBVIOUS
<1>1. TaskInv
  BY InitTaskInv
<1>2. SerialInv /\ ReadSeesRefresh
  BY <1>1, BoundsAssumption DEF Init, SerialInv, ReadSeesRefresh, Refreshing, TaskInv, TypeOK,
                                Database, Version
<1> QED
  BY <1>1, <1>2 DEF Promises

\* A step that leaves the cache and the promise alone, starts no refresh and
\* completes no document keeps the promises.
LEMMA QuietStep ==
    ASSUME Promises,
           promised' = promised, cache' = cache,
           \A r \in Requests :
                /\ Refreshing(r)' => Refreshing(r) /\ since'[r] = since[r]
                /\ floor'[r] <= promised
                /\ (handler[r] \in ReadHandlers /\ pc[r] = "ok")' =>
                        /\ handler[r] \in ReadHandlers /\ pc[r] = "ok"
                        /\ seen'[r] = seen[r] /\ floor'[r] = floor[r]
    PROVE  SerialInv' /\ ReadSeesRefresh'
BY DEF Promises, SerialInv, ReadSeesRefresh

\* Every step after which no two refreshes have overlapped keeps the promises.
LEMMA StepPromises == refreshes' = "serial" /\ Promises /\ [Next]_vars => Promises'
<1> SUFFICES ASSUME refreshes' = "serial", Promises, [Next]_vars PROVE Promises'
  OBVIOUS
<1>0. TaskInv /\ TaskInv' /\ TypeOK /\ TypeOK'
  BY StepTaskInv DEF Promises, TaskInv
<1>a. /\ catalog \in Nat /\ promised \in Nat
      /\ \A q \in Queries : cache[q] \in Nat /\ cache[q] <= catalog
      /\ \A r \in Requests : since[r] \in Nat /\ floor[r] \in Nat
      /\ \A r \in Requests : \A q \in Queries : seen[r][q] \in Nat
  BY <1>0, BoundsAssumption DEF TypeOK, TaskInv, Inspections, Version, Database
<1>b. \E q \in Queries : TRUE
  BY BoundsAssumption DEF Queries
<1> SUFFICES SerialInv' /\ ReadSeesRefresh'
  BY <1>0 DEF Promises
<1> USE <1>0 DEF TypeOK
<1>1. CASE Migrate
  BY <1>1, QuietStep DEF Migrate, task, history, Refreshing, Promises, SerialInv
<1>2. ASSUME NEW r \in Requests, Read(r) PROVE SerialInv' /\ ReadSeesRefresh'
  <2>1. CASE CallRead(r)
    <3>1. PICK h \in ReadHandlers : Dispatch(r, h, "reading")
      BY <2>1 DEF CallRead
    <3> QED
      BY <2>1, <3>1, <1>a, QuietStep
      DEF CallRead, Dispatch, Refreshing, Promises, SerialInv, ReadHandlers
  <2>2. CASE AcquireRead(r) \/ RefuseRead(r) \/ Render(r)
    BY <2>2, QuietStep DEF AcquireRead, RefuseRead, Render, Rendering, history,
                           Refreshing, Promises, SerialInv
  <2>3. CASE Respond(r)
    <3>1. \A q \in Queries : seen[r][q] = cache[q]
      BY <2>3 DEF TaskInv, NoTornDocument, Respond, Rendering, Queries
    <3>2. ASSUME NEW q \in Queries PROVE seen[r][q] >= floor[r]
      <4>1. floor[r] <= promised /\ promised <= cache[q]
        BY DEF Promises, SerialInv
      <4>2. floor[r] \in Nat /\ promised \in Nat /\ cache[q] \in Nat /\ seen[r][q] = cache[q]
        BY <1>a, <3>1
      <4> QED
        BY <4>1, <4>2
    <3>3. ReadSeesRefresh'
      BY <2>3, <3>2 DEF Respond, history, Promises, ReadSeesRefresh
    <3>4. SerialInv'
      BY <2>3 DEF Respond, history, Promises, SerialInv, Refreshing
    <3> QED
      BY <3>3, <3>4
  <2> QED
    BY <1>2, <2>1, <2>2, <2>3 DEF Read
<1>3. ASSUME NEW r \in Requests, Refresh(r) PROVE SerialInv' /\ ReadSeesRefresh'
  <2>1. CASE CallRefresh(r)
    <3>1. /\ \A s \in Requests : ~Refreshing(s)
          /\ \A s \in Requests : Refreshing(s)' => s = r
          /\ since'[r] = catalog /\ floor' = floor /\ promised' = promised /\ cache' = cache
          /\ seen' = seen
      BY <2>1 DEF CallRefresh, Dispatch, Refreshing
    <3>2. promised <= catalog
      <4>1. PICK q \in Queries : TRUE
        BY <1>b
      <4>2. promised <= cache[q] /\ cache[q] <= catalog /\ cache[q] \in Nat
        BY <1>a DEF Promises, SerialInv
      <4> QED
        BY <4>2, <1>a
    <3>3. SerialInv'
      BY <3>1, <3>2, <1>a DEF Promises, SerialInv
    <3>4. ReadSeesRefresh'
      BY <2>1, <3>1 DEF CallRefresh, Dispatch, Promises, ReadSeesRefresh, ReadHandlers
    <3> QED
      BY <3>3, <3>4
  <2>2. CASE Inspect(r) \/ Inspected(r) \/ InspectFails(r)
    <3>1. handler[r] \notin ReadHandlers
      BY <2>2 DEF TaskInv, HandlerOfTask, Inspect, Inspected, InspectFails, ReadHandlers
    <3> QED
      BY <2>2, <3>1, QuietStep DEF Inspect, Inspected, InspectFails, history,
                             Refreshing, Promises, SerialInv
  <2>3. CASE InstallSchema(r)
    <3>1. Refreshing(r) /\ handler[r] \notin ReadHandlers
      BY <2>3 DEF InstallSchema, TaskInv, HandlerOfTask, Refreshing, ReadHandlers
    <3>2. \A q \in Queries : since[r] <= seen[r][q]
      BY <2>3, FinishedInspection, <1>a DEF InstallSchema, Inspections
    <3>3. promised' = since[r] /\ promised <= promised'
      BY <2>3, <3>1, <1>a DEF InstallSchema, Promises, SerialInv
    <3>4. \A s \in Requests : ~Refreshing(s)'
      BY <2>3, <3>1 DEF InstallSchema, Refreshing, Promises, SerialInv
    <3>5. SerialInv'
      BY <2>3, <3>2, <3>3, <3>4, <1>a DEF InstallSchema, Promises, SerialInv
    <3>6. ReadSeesRefresh'
      BY <2>3, <3>1 DEF InstallSchema, Promises, ReadSeesRefresh
    <3> QED
      BY <3>5, <3>6
  <2> QED
    BY <1>3, <2>1, <2>2, <2>3 DEF Refresh
<1>4. ASSUME NEW r \in Requests, Execute(r) PROVE SerialInv' /\ ReadSeesRefresh'
  <2>1. CASE CallExecute(r)
    BY <2>1, QuietStep DEF CallExecute, Dispatch, history, Refreshing, Promises, SerialInv
  <2>2. CASE ExecuteReturns(r)
    <3>1. handler[r] \notin ReadHandlers
      BY <2>2 DEF TaskInv, HandlerOfTask, ExecuteReturns, ReadHandlers
    <3> QED
      BY <2>2, <3>1, QuietStep DEF ExecuteReturns, history, Refreshing, Promises, SerialInv
  <2> QED
    BY <1>4, <2>1, <2>2 DEF Execute
<1>5. ASSUME NEW r \in Requests, Deliver(r) PROVE SerialInv' /\ ReadSeesRefresh'
  BY <1>5, <1>a, QuietStep DEF Deliver, Answered, Refreshing, Promises, SerialInv
<1>6. CASE UNCHANGED vars
  BY <1>6, QuietStep DEF vars, task, history, Refreshing, Promises, SerialInv
<1> QED
  BY <1>1, <1>2, <1>3, <1>4, <1>5, <1>6 DEF Next

\* Refreshes that are serial have always been.
LEMMA StepOverlapped == refreshes' = "serial" /\ [Next]_vars => refreshes = "serial"
BY DEF Next, Migrate, Read, CallRead, AcquireRead, Render, Respond, RefuseRead,
       Refresh, CallRefresh, Inspect, Inspected, InspectFails, InstallSchema,
       Execute, CallExecute, ExecuteReturns, Deliver, vars, task, history

SerialPromises == TaskInv /\ (refreshes = "serial" => Promises)

\* Until two refreshes overlap, their promises are kept.
LEMMA PromisesInvariant == Spec => []SerialPromises
<1>1. Init => SerialPromises
  BY InitPromises DEF SerialPromises, Promises
<1>2. SerialPromises /\ [Next]_vars => SerialPromises'
  BY StepTaskInv, StepPromises, StepOverlapped DEF SerialPromises
<1> QED
  BY <1>1, <1>2, PTL DEF Spec

\* Of clients that do not overlap their refreshes, a document read after a
\* successful refresh shows nothing older than the moment it was called.
THEOREM SerialRefreshesAreSeen == Spec => []ReadSeesSerialRefresh
<1>1. SerialPromises => ReadSeesSerialRefresh
  BY DEF SerialPromises, Promises, ReadSeesSerialRefresh
<1> QED
  BY PromisesInvariant, <1>1, PTL

\* For such clients the cache never moves back: a refresh never replaces a
\* part by an older observation of it.
THEOREM SerialCacheNeverRegresses == Spec => CacheNeverRegresses
<1>1. SerialPromises /\ [Next]_vars
        => (refreshes = "serial" => \A q \in Queries : cache'[q] >= cache[q]) \/ UNCHANGED cache
  <2> SUFFICES ASSUME Promises, Next, cache' # cache, NEW q \in Queries
               PROVE  cache'[q] >= cache[q]
    BY DEF vars, SerialPromises
  <2>1. PICK r \in Requests : InstallSchema(r)
    BY DEF Next, Migrate, Read, CallRead, AcquireRead, Render, Respond, RefuseRead,
           Refresh, CallRefresh, Inspect, Inspected, InspectFails,
           Execute, CallExecute, ExecuteReturns, Deliver
  <2>2. Refreshing(r) /\ seen[r] \in Inspections(since[r], catalog)
    BY <2>1, FinishedInspection DEF InstallSchema, Promises, TaskInv, HandlerOfTask, Refreshing
  <2>3. cache[q] \in Nat /\ since[r] \in Nat /\ catalog \in Nat
    BY BoundsAssumption DEF Promises, TaskInv, TypeOK, Version, Database
  <2>4. cache[q] <= since[r] /\ seen[r][q] \in since[r] .. catalog
    BY <2>2 DEF Promises, SerialInv, Inspections
  <2> QED
    BY <2>1, <2>3, <2>4 DEF InstallSchema
<1> QED
  BY PromisesInvariant, <1>1, PTL DEF Spec, CacheNeverRegresses

=============================================================================
