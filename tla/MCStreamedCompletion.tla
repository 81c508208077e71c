------------------------- MODULE MCStreamedCompletion -------------------------
(* An instance of StreamedCompletion for TLC: answers of up to three pieces of *)
(* text, calls and arguments, ended the way of either provider, whole or cut   *)
(* off after any line, or given up with an error report.                       *)
EXTENDS StreamedCompletion

Event(k, i, v) == [kind |-> k, index |-> i, value |-> v]

Lines ==
    [a     |-> Event("text", 0, "a"),    b      |-> Event("text", 0, "b"),
     id1   |-> Event("call", 1, "id1"),  id2    |-> Event("call", 2, "id2"),
     x     |-> Event("args", 1, "x"),    y      |-> Event("args", 2, "y"),
     start |-> Event("start", 0, 5),     error  |-> Event("other", 0, ""),
     tools |-> Event("finish", 0, "tool_calls"), use |-> Event("finish", 0, "tool_use"),
     early |-> Event("usage", 0, 3),     total  |-> Event("usage", 0, 7),
     DONE  |-> Event("end", 0, "")]

TwoCalls == {1, 2}

Pieces == {"a", "b", "id1", "id2", "x", "y"}

\* Calls come up in the order of their indices, once, and before their arguments.
WellFormed(s) ==
    \A j \in DOMAIN s :
        LET before == {s[k] : k \in 1..(j - 1)} IN
            /\ s[j] = "x" => "id1" \in before
            /\ s[j] = "y" => "id2" \in before
            /\ s[j] \in {"id1", "id2"} => s[j] \notin before
            /\ s[j] = "id2" => "id1" \in before

Answers(n) == {s \in [1..n -> Pieces] : WellFormed(s)}

\* Texts alone, and texts and arguments that come after a call.
Mixed == Answers(2) \cup {s \in Answers(3) : s[1] = "id1"}

\* Each data line is an event with the lines before that name it, and a blank line.
Written(lines, name, end) ==
    FlattenSeq([i \in DOMAIN lines |-> name \o <<lines[i]>> \o end \o end])

Lf   == <<"LF">>
CrLf == <<"CR", "LF">>

\* OpenAI sends bare data lines, Anthropic names its events.  The last two lines of
\* an answer share an event.
OpenAI(s, end) ==
    Written(s, <<>>, end) \o <<"tools">> \o end \o <<"total">> \o end \o end
        \o Written(<<"DONE">>, <<>>, end)
Anthropic(s) ==
    Written(<<"start">> \o s \o <<"early", "use", "total">>, <<"event:", "LF">>, Lf)
GivenUp(s) == Written(Append(s, "error"), <<>>, Lf)

CutOff(s) == {SubSeq(s, 1, n) : n \in 1..Len(s)}

AllBodies ==
    {OpenAI(s, Lf) : s \in Mixed} \cup {OpenAI(s, CrLf) : s \in Answers(1)}
        \cup {Anthropic(s) : s \in Mixed} \cup {GivenUp(s) : s \in Answers(2)}
        \cup CutOff(OpenAI(<<"id1", "x", "a">>, Lf)) \cup CutOff(Anthropic(<<"b", "a">>))
===============================================================================
