------------------------------ MODULE Startup ------------------------------
(***************************************************************************)
(* How a process comes up and goes down: the lifespans of the gateway and  *)
(* of the MCP server and the worker's startup and shutdown hooks.  Each    *)
(* opens its resources in an order of its own and puts every one on an     *)
(* exit stack, which closes them again, latest first, when serving ends    *)
(* and as well when a later step of the opening fails.                     *)
(***************************************************************************)
EXTENDS Naturals, Sequences, SequencesExt

CONSTANT
    Environments  \* what a process may be and be configured with

ASSUME EnvironmentsAssumption ==
    Environments \subseteq [service : {"gateway", "mcp", "worker"},
                            graph : {"networkx", "neo4j"}, keyed : BOOLEAN]

VARIABLES
    self,         \* the program this process is, its GM_GRAPH_BACKEND, and
                  \* whether the chosen model provider has its key
    phase,        \* of the process
    done,         \* steps of the opening that are behind it
    live,         \* resources that exist and are not closed
    stack         \* those the exit stack will close, in order of entry

startupVars == <<self, phase, done, live, stack>>

\* gateway.lifespan._open; the ontology and the keys are read last.
GatewayOpening == <<"tracer", "pool", "redis", "ping", "http", "queue", "llm", "bind">>

\* build_graph: a driver is opened, verified and given its schema; the
\* in-process graph opens nothing.
GraphOpening ==
    IF self.graph = "neo4j" THEN <<"driver", "verify", "schema">> ELSE <<>>

\* mcp_server.lifespan: the graph comes before the model.
McpOpening == <<"pool", "http">> \o GraphOpening \o <<"llm", "bind">>

\* worker.main.startup.
WorkerOpening == <<"pool", "http", "llm">>

Opening ==
    CASE self.service = "gateway" -> GatewayOpening
      [] self.service = "mcp" -> McpOpening
      [] self.service = "worker" -> WorkerOpening

\* Steps that open nothing: is it there, is it well formed?
Checks == {"ping", "verify", "schema", "bind"}

\* create_pool and create_queue reach out as well; a client that is only
\* constructed cannot fail.
MayFail == Checks \cup {"pool", "queue"}

\* Faulty: the Redis client is put on the stack once it has answered.
RegistersAnswered(x) ==
    CASE x = "redis" -> <<>> [] x = "ping" -> <<"redis">>
      [] x \in Checks \ {"ping"} -> <<>> [] OTHER -> <<x>>

\* What the step leaves on the exit stack, at once when it has succeeded.
Registers(x) == IF x \in Checks THEN <<>> ELSE <<x>>

Serving == phase = "serving"

StartupTypeOK ==
    /\ self \in Environments
    /\ phase \in {"opening", "serving", "closing", "down"}
    /\ done \in 0..Len(Opening)
    /\ stack \in Seq(live)

StartupInit ==
    /\ self \in Environments
    /\ phase = "opening" /\ done = 0 /\ live = {} /\ stack = <<>>

Upcoming == Opening[done + 1]

\* The next step of the opening succeeds.
Open ==
    /\ phase = "opening" /\ done < Len(Opening)
    /\ Upcoming = "llm" => self.keyed
    /\ done' = done + 1
    /\ live' = live \cup ({Upcoming} \ Checks)
    /\ stack' = stack \o Registers(Upcoming)
    /\ UNCHANGED <<self, phase>>

\* _llm_or_none: without a key the gateway and the MCP server come up with no
\* model; the worker does not come up.
NoModel ==
    /\ phase = "opening" /\ done < Len(Opening) /\ Upcoming = "llm" /\ ~self.keyed
    /\ self.service # "worker"
    /\ done' = done + 1
    /\ UNCHANGED <<self, phase, live, stack>>

\* The next step fails, and the stack unwinds what came before it.
Fail ==
    /\ phase = "opening" /\ done < Len(Opening)
    /\ Upcoming \in MayFail \/ (Upcoming = "llm" /\ ~self.keyed /\ self.service = "worker")
    /\ phase' = "closing"
    /\ UNCHANGED <<self, done, live, stack>>

Serve ==
    /\ phase = "opening" /\ done = Len(Opening)
    /\ phase' = "serving"
    /\ UNCHANGED <<self, done, live, stack>>

\* The server asks for the end: the context manager is left.
Stop ==
    /\ phase = "serving"
    /\ phase' = "closing"
    /\ UNCHANGED <<self, done, live, stack>>

Close ==
    /\ phase = "closing" /\ stack # <<>>
    /\ live' = live \ {Last(stack)}
    /\ stack' = Front(stack)
    /\ UNCHANGED <<self, phase, done>>

Down ==
    /\ phase = "closing" /\ stack = <<>>
    /\ phase' = "down"
    /\ UNCHANGED <<self, done, live, stack>>

\* Whichever step of the opening failed, a process that is down has closed all
\* it ever opened, and one that serves has everything its opening lists but a
\* model it has no key for (AsyncExitStack in the three entry points).
NothingLeaks ==
    /\ phase = "down" => live = {}
    /\ Serving => ToSet(Opening) \ (Checks \cup {"llm"}) \subseteq live
=============================================================================
