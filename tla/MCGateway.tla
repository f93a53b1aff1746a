----------------------------- MODULE MCGateway -----------------------------
(* Model-checking instances of Gateway.                                    *)
EXTENDS Gateway

CONSTANTS c1, c2

\* Two keys of one tenant that agree in their first eight characters.
OneBucket == [c \in Credentials |-> "b"]

\* A gateway without a model, the MCP server and the worker with and without.
SomeEnvironments ==
    {[service |-> "gateway", graph |-> "networkx", keyed |-> FALSE]}
        \cup [service : {"mcp"}, graph : {"networkx", "neo4j"}, keyed : BOOLEAN]
        \cup [service : {"worker"}, graph : {"networkx"}, keyed : BOOLEAN]
=============================================================================
