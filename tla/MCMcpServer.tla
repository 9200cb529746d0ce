----------------------------- MODULE MCMcpServer -----------------------------
(* The MCP server on small instances. *)
EXTENDS McpServer

CONSTANTS r1, r2, r3

ThreeRequests == {r1, r2, r3}

\* One handler that reads the cache, the one that replaces it, and the one that
\* runs a statement beside it.
EveryKind == {"read_resource", "refresh-schema", "execute-statement"}
=============================================================================
