------------------------------- MODULE Dialect -------------------------------
(***************************************************************************)
(* The conversation of the evidence loop as it is built (BaseAgent), kept  *)
(* in Anthropic's content blocks, and as LlmClient sends it to a provider  *)
(* that speaks OpenAI's dialect.  Pure operators over messages             *)
(*   [role, content], content a sequence of blocks                         *)
(*   [type, id, name, error, cached],                                      *)
(* a string being one block of type "string".  Texts are not kept apart.   *)
(***************************************************************************)
EXTENDS Lists

Flags == BOOLEAN
Names == STRING \cup {""}
Types == {"string", "text", "tool_use", "tool_result"}
Roles == {"user", "assistant"}
Blocks == [type : Types, id : Nat, name : Names, error : Flags, cached : Flags]
Messages == [role : Roles, content : Seq(Blocks)]
Answers == [role : {"assistant"}, content : Seq(Blocks)]

Block(type, id, name) == [type |-> type, id |-> id, name |-> name, error |-> FALSE, cached |-> FALSE]
Text == Block("text", 0, "")
Str == Block("string", 0, "")
ToolUse(id, name) == Block("tool_use", id, name)
ToolResult(use, error) == [Block("tool_result", use.id, "") EXCEPT !.error = error]
Msg(role, content) == [role |-> role, content |-> content]
OfType(m, type) == Select(m.content, LAMBDA b : b.type = type)

(***************************************************************************)
(* The loop's side                                                         *)
(***************************************************************************)
\* runTools: one result for each requested tool, in one message; a tool that
\* does not exist and a tool that throws answer with an error.
RunTools(uses) == [i \in DOMAIN uses |-> ToolResult(uses[i], uses[i].name # "graph")]

\* What follows an answer of the model: a nudge after prose, one errored result
\* for an emit that is turned down, else the results.
Reply(answer) ==
    LET uses == OfType(answer, "tool_use")
        emits == Select(uses, LAMBDA u : u.name = "emit")
    IN IF uses = <<>> THEN Msg("user", <<Str>>)
       ELSE IF emits # <<>> THEN Msg("user", <<ToolResult(emits[1], TRUE)>>)
       ELSE Msg("user", RunTools(uses))

\* The conversation after these answers, none of them accepted.
Conversation(answers) ==
    <<Msg("user", <<Str>>)>>
    \o FlattenSeq([i \in DOMAIN answers |-> <<answers[i], Reply(answers[i])>>])

\* Mutant: a message that is a string is left as it is.
CacheSkipsStrings(messages) ==
    LET last == Last(messages)
        marked == [i \in DOMAIN last.content |->
                     [last.content[i] EXCEPT !.cached = i = Len(last.content) /\ last.content[i] # Str]]
    IN Append(Front(messages), [last EXCEPT !.content = marked])

\* The messages without the marker of the request before.
Bare(m) == [m EXCEPT !.content = [i \in DOMAIN m.content |-> [m.content[i] EXCEPT !.cached = FALSE]]]
MarkLast(blocks) == [i \in DOMAIN blocks |-> [blocks[i] EXCEPT !.cached = i = Len(blocks)]]

\* One cache breakpoint, on the last block of the last message, which a string
\* becomes a text block for.
WithRollingCache(messages) ==
    LET bare == [i \in DOMAIN messages |-> Bare(messages[i])]
        last == Last(bare)
        blocks == IF last.content = <<Str>> THEN <<Text>> ELSE last.content
    IN Append(Front(bare), [last EXCEPT !.content = MarkLast(blocks)])

(***************************************************************************)
(* The translator's side.  An out message is [role, calls, answers]: the   *)
(* ids of the calls it makes, or the id of the call it answers.            *)
(***************************************************************************)
Out(role, calls, answers) == [role |-> role, calls |-> calls, answers |-> answers, error |-> FALSE]

\* Mutant: only the last result of a batch is sent.
LastResultOnly(m) ==
    LET results == OfType(m, "tool_result") IN
    IF m.role = "user" /\ results # <<>> THEN <<Out("tool", <<>>, Last(results).id)>>
    ELSE IF m.role = "assistant"
    THEN <<Out("assistant", [i \in DOMAIN OfType(m, "tool_use") |-> OfType(m, "tool_use")[i].id], 0)>>
    ELSE <<Out("user", <<>>, 0)>>

\* toMistralMessages for one message: results become messages of role tool,
\* in order, texts one user message after them; calls of an assistant stay
\* together.
Translated(m) ==
    LET results == OfType(m, "tool_result")
        texts == Select(m.content, LAMBDA b : b.type \in {"text", "string"})
        calls == OfType(m, "tool_use")
    IN IF m.role = "assistant" THEN <<Out("assistant", [i \in DOMAIN calls |-> calls[i].id], 0)>>
       ELSE [i \in DOMAIN results |-> [Out("tool", <<>>, results[i].id) EXCEPT !.error = results[i].error]]
            \o IF texts = <<>> THEN <<>> ELSE <<Out("user", <<>>, 0)>>

ToMistralMessages(messages) ==
    <<Out("system", <<>>, 0)>> \o FlattenSeq([i \in DOMAIN messages |-> Translated(messages[i])])

\* The way back: a text if the model spoke, then a block for each call.
FromDialect(spoke, calls) ==
    Msg("assistant", (IF spoke THEN <<Text>> ELSE <<>>)
                     \o [i \in DOMAIN calls |-> ToolUse(calls[i].id, calls[i].name)])

(***************************************************************************)
(* What the dialect demands of a request                                   *)
(***************************************************************************)
\* Every call is answered once, by the messages right after it, in order.
WellFormed(out) ==
    \A i \in DOMAIN out :
        LET n == Len(out[i].calls) IN
        out[i].role = "assistant" =>
            /\ i + n <= Len(out)
            /\ \A k \in 1..n : out[i + k].role = "tool" /\ out[i + k].answers = out[i].calls[k]
            /\ i + n < Len(out) => out[i + n + 1].role # "tool"

\* The prompt has room for four markers; the loop uses one, at the tail.
OneMarker(messages) ==
    LET marks == UNION {{i} \X {j \in DOMAIN messages[i].content : messages[i].content[j].cached} :
                          i \in DOMAIN messages}
    IN marks = {<<Len(messages), Len(Last(messages).content)>>}
=============================================================================
