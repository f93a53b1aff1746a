------------------------------ MODULE Sampling ------------------------------
(***************************************************************************)
(* A completion of several samples, as the providers' adapters draw them:  *)
(* Anthropic's and Ollama's send one request for each sample, side by side *)
(* in a TaskGroup, and OpenAI's sends one for all of them.                 *)
(***************************************************************************)
EXTENDS Integers, SequencesExt

CONSTANTS
    Adapters,     \* of {"anthropic", "ollama", "openai"}
    FactLists     \* what one sample may extract

VARIABLE
    requests      \* of the latest call, in the order of its samples

\* A sample's text: facts, nothing at all, or something that is no
\* ExtractionBatch or repeats the canary.
Sample(kind, facts) == [kind |-> kind, facts |-> facts]
Empty == Sample("empty", <<>>)
Unfit == Sample("unfit", <<>>)
Completions == {Sample("facts", f) : f \in FactLists} \cup {Empty, Unfit}

Request(at, texts) == [at |-> at, texts |-> texts]
Pending(i) == requests[i].at \in {"open", "cancelling"}

SamplingTypeOK ==
    \A i \in DOMAIN requests :
        /\ requests[i].at \in {"open", "cancelling", "answered", "failed", "cancelled"}
        /\ requests[i].texts # <<>> => requests[i].at = "answered"

\* complete(n): what is sent.
Requested(llm, n) == [i \in 1..(IF llm = "openai" THEN 1 ELSE n) |-> Request("open", <<>>)]

\* What one request may bring; OpenAI may choose less often than it was asked.
Replied(llm, n) == IF llm = "openai" THEN BoundedSeq(Completions, n) ELSE {<<t>> : t \in Completions}

Ending(i, at, texts) == requests' = [requests EXCEPT ![i] = Request(at, texts)]

Answer(i, llm, n) ==
    /\ requests[i].at = "open"
    /\ \E texts \in Replied(llm, n) : Ending(i, "answered", texts)

\* Rate limited, out of credit, unreachable, timed out, an error status.
FailRequest(i) == requests[i].at = "open" /\ Ending(i, "failed", <<>>)

Failed == \E i \in DOMAIN requests : requests[i].at = "failed"

\* TaskGroup: after the first failure, all that are still open.
Cancel ==
    /\ Failed /\ \E i \in DOMAIN requests : requests[i].at = "open"
    /\ requests' = [i \in DOMAIN requests |->
                      IF requests[i].at = "open" THEN Request("cancelling", <<>>)
                      ELSE requests[i]]

CancelEnds(i) == requests[i].at = "cancelling" /\ Ending(i, "cancelled", <<>>)

Draw(llm, n) ==
    \/ Cancel
    \/ \E i \in DOMAIN requests : Answer(i, llm, n) \/ FailRequest(i) \/ CancelEnds(i)

\* Faulty: gather, which passes the first failure on at once.
GatherSettled == Failed \/ \A i \in DOMAIN requests : ~Pending(i)

\* The group is left when every task has ended.
Settled == \A i \in DOMAIN requests : ~Pending(i)

\* LLMResponse.samples: all that one request brought, or what each brought, in
\* the order of the requests, whenever they came in.
Samples ==
    IF Len(requests) = 1 THEN requests[1].texts
    ELSE [i \in DOMAIN requests |-> Head(requests[i].texts)]

\* complete() returns; else it raises.
Complete == ~Failed /\ Samples # <<>> /\ Empty \notin ToSet(Samples)

\* What is left of the requests once nobody wants their answers.
Forgotten == [i \in DOMAIN requests |-> Request(requests[i].at, <<>>)]
=============================================================================
