---------------------------- MODULE MCInference ----------------------------
EXTENDS Inference

Nothing == [text |-> "", wide |-> FALSE, think |-> FALSE, call |-> [index |-> 0, arg |-> ""],
            finish |-> ""]
Call(i, x) == [Nothing EXCEPT !.call = [index |-> i, arg |-> x]]
Wide == [Nothing EXCEPT !.text = "w", !.wide = TRUE, !.think = TRUE]
Prose == [Nothing EXCEPT !.text = "a"]
Stop == [Nothing EXCEPT !.text = "z", !.finish = "stop"]
ToolCalls == [Nothing EXCEPT !.finish = "tool_calls"]

Finishing(i, x) == [Call(i, x) EXCEPT !.finish = "tool_calls"]

\* The event that finishes carries some of the answer itself; in one answer the
\* fragments of two calls are interleaved.
OpenAiAnswers ==
    {<<Wide, Call(1, "x"), Finishing(1, "y")>>, <<Call(1, "x"), Call(2, "y"), Finishing(1, "z")>>,
     <<Call(1, "x"), Finishing(2, "y")>>, <<Call(1, "x"), Prose, Stop>>}

AnthropicAnswers ==
    {<<Wide, Call(1, ""), Call(1, "x"), ToolCalls>>, <<Call(1, ""), Call(2, ""), ToolCalls>>}

BothAnswer ==
    [f \in {"openai", "anthropic"} |-> IF f = "openai" THEN OpenAiAnswers ELSE AnthropicAnswers]
=============================================================================
