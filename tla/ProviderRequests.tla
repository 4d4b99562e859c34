-------------------------- MODULE ProviderRequests --------------------------
(***************************************************************************)
(* What a provider is sent of the loop's context: transformMessages        *)
(* (ai/src/api/transform-messages.ts), which every provider calls first.   *)
(*                                                                         *)
(* Its first pass changes the contents of messages and renames calls one   *)
(* to one, in a call and its result alike; neither is visible here.  The   *)
(* second pass leaves out failed replies and makes up the results that a   *)
(* run which failed or was aborted still owes.                             *)
(***************************************************************************)
EXTENDS AgentLoop

\* Where the second pass stands: result, pendingToolCalls, existingToolResultIds.
Begun == [result |-> <<>>, calls |-> <<>>, answered |-> {}]

\* insertSyntheticToolResults: given[k] is result after the first k of the calls.
Closed(s) ==
    LET given[k \in 0 .. Len(s.calls)] ==
            IF k = 0 THEN s.result
            ELSE IF s.calls[k] \in s.answered THEN given[k - 1]
            ELSE Append(given[k - 1], Result(s.calls[k]))
    IN  IF s.calls = <<>> THEN s ELSE [Begun EXCEPT !.result = given[Len(s.calls)]]

Pushed(s, m) == [s EXCEPT !.result = Append(@, m)]

ToolCalls(m) == [k \in 1 .. m.calls |-> <<m.batch, k>>]

Failed(m) == m.role = "assistant" /\ m.stop \in {"error", "aborted"}

\* Mutant: a user message does not interrupt the tool flow.
Mut_Converted(s, m) ==
    CASE m.role = "user" -> Pushed(s, m)
      [] m.role = "toolResult" -> [Pushed(s, m) EXCEPT !.answered = @ \cup {m.call}]
      [] m.role = "assistant" ->
            IF Failed(m) THEN Closed(s)
            ELSE IF m.calls = 0 THEN Pushed(Closed(s), m)
            ELSE [Pushed(Closed(s), m) EXCEPT !.calls = ToolCalls(m), !.answered = {}]

\* One message of the context.
Converted(s, m) ==
    CASE m.role = "user" -> Pushed(Closed(s), m)
      [] m.role = "toolResult" -> [Pushed(s, m) EXCEPT !.answered = @ \cup {m.call}]
      [] m.role = "assistant" ->
            IF Failed(m) THEN Closed(s)
            ELSE IF m.calls = 0 THEN Pushed(Closed(s), m)
            ELSE [Pushed(Closed(s), m) EXCEPT !.calls = ToolCalls(m), !.answered = {}]

\* pass[n]: after the first n messages.
transformMessages(messages) ==
    LET pass[n \in 0 .. Len(messages)] ==
            IF n = 0 THEN Begun ELSE Converted(pass[n - 1], messages[n])
    IN  Closed(pass[Len(messages)]).result

-----------------------------------------------------------------------------
\* Behind a reply stand the results of its calls, each once and in their order, and
\* no result is anywhere else.
WholeBatches(t) ==
    LET IsReply(i) == t[i].role = "assistant"
    IN  /\ \A i \in DOMAIN t : IsReply(i) =>
            \A k \in 1 .. t[i].calls :
                i + k \in DOMAIN t /\ t[i + k] = Result(<<t[i].batch, k>>)
        /\ \A j \in DOMAIN t : t[j].role = "toolResult" =>
            \E i \in 1 .. j - 1 : IsReply(i) /\ j <= i + t[i].calls

\* "satisfies API requirements": whatever was aborted, steered or thrown, also in
\* earlier runs, a request holds every call with exactly one result behind it,
\* and nothing of a reply that failed; and it speaks of the transcript.
RequestsAreComplete ==
    pc = "stream" =>
        /\ ContextIsTranscript
        /\ WholeBatches(transformMessages(context))
        /\ \A m \in Elements(transformMessages(context)) : ~ Failed(m)

=============================================================================
