------------------------------ MODULE Completion ------------------------------
(***************************************************************************)
(* completionStream, the part of an adapter behind the parser: it yields   *)
(* each piece of text at once and, when the stream is over, one "done"     *)
(* chunk with the assembled message.  StreamedCompletion adds the parser   *)
(* that extends script, which the actions here only read.                  *)
(*                                                                         *)
(* An event is what one payload of the stream says, in terms that fit both *)
(* adapters.  The fragment of a call that brings its id, and arguments     *)
(* with it, is two events, since nothing happens between them.             *)
(***************************************************************************)
EXTENDS Naturals, Sequences, SequencesExt, Subsequences

CONSTANT Calls      \* the indices of tool calls

\* start: input tokens; text, args: pieces; call: an id; finish: a reason;
\* usage: output tokens; end: [DONE]; other: ping, block stop, an error report.
Kinds == {"start", "text", "call", "args", "finish", "usage", "end", "other"}

VARIABLES
    script, ended,  \* the events the parser has handed on, and whether it is through
    at,             \* how many of the events were read
    content,        \* the text so far
    order, drafts,  \* the calls in the order they came up, and each one's id and arguments
    finish,         \* the mapped finish reason
    usage,          \* input and output tokens
    yielded,        \* the "delta" chunks so far
    pc

message == <<content, order, drafts, finish, usage>>

NoId    == ""
NoDraft == [id |-> NoId, args |-> <<>>]

Init ==
    /\ at = 0
    /\ content = <<>> /\ order = <<>> /\ drafts = [i \in Calls |-> NoDraft]
    /\ finish = "stop" /\ usage = [in |-> 0, out |-> 0]
    /\ yielded = <<>>
    /\ pc = "read"

\* The reasons of each provider, under the names of the platform.
mapFinishReason ==
    [stop |-> "stop", tool_calls |-> "tool_calls", function_call |-> "tool_calls",
     length |-> "length", content_filter |-> "content_filter"]
mapStopReason ==
    [end_turn |-> "stop", stop_sequence |-> "stop", tool_use |-> "tool_calls",
     max_tokens |-> "length"]

Mapped(reason) ==
    IF reason \in DOMAIN mapFinishReason THEN mapFinishReason[reason]
    ELSE IF reason \in DOMAIN mapStopReason THEN mapStopReason[reason] ELSE "other"

\* The next event is e, of kind k.
Take(e, k) ==
    /\ pc = "read" /\ at < Len(script)
    /\ e = script[at + 1] /\ e.kind = k
    /\ at' = at + 1

Start(e) ==
    /\ Take(e, "start")
    /\ usage' = [usage EXCEPT !.in = e.value]
    /\ UNCHANGED <<content, order, drafts, finish, yielded, pc>>

Text(e) ==
    /\ Take(e, "text")
    /\ content' = Append(content, e.value) /\ yielded' = Append(yielded, e.value)
    /\ UNCHANGED <<order, drafts, finish, usage, pc>>

Call(e) ==
    /\ Take(e, "call")
    /\ order' = Append(order, e.index)
    /\ drafts' = [drafts EXCEPT ![e.index].id = e.value]
    /\ UNCHANGED <<content, finish, usage, yielded, pc>>

\* Mutant: a fragment goes to the call that came up last.
ArgsToLast(e) ==
    /\ Take(e, "args")
    /\ drafts' = [drafts EXCEPT ![Last(order)].args = Append(@, e.value)]
    /\ UNCHANGED <<content, order, finish, usage, yielded, pc>>

Args(e) ==
    /\ Take(e, "args")
    /\ drafts' = [drafts EXCEPT ![e.index].args = Append(@, e.value)]
    /\ UNCHANGED <<content, order, finish, usage, yielded, pc>>

Finish(e) ==
    /\ Take(e, "finish")
    /\ finish' = Mapped(e.value)
    /\ UNCHANGED <<content, order, drafts, usage, yielded, pc>>

\* Token counts are totals: a later event replaces what an earlier one said.
Usage(e) ==
    /\ Take(e, "usage")
    /\ usage' = [usage EXCEPT !.out = e.value]
    /\ UNCHANGED <<content, order, drafts, finish, yielded, pc>>

Ignore(e) ==
    /\ Take(e, "other")
    /\ UNCHANGED <<message, yielded, pc>>

Sentinel(e) ==
    /\ Take(e, "end")
    /\ pc' = "over"
    /\ UNCHANGED <<message, yielded>>

\* The body has ended, with or without a sentinel: the "done" chunk is yielded.
Done ==
    /\ pc = "over" \/ (pc = "read" /\ ended /\ at = Len(script))
    /\ pc' = "done"
    /\ UNCHANGED <<at, message, yielded>>

\* The connection breaks, or a payload is not JSON: the consumer gets an exception.
Throw ==
    /\ pc = "read"
    /\ pc' = "failed"
    /\ UNCHANGED <<at, message, yielded>>

Next ==
    \/ at < Len(script) /\ LET e == script[at + 1] IN
          \/ Start(e) \/ Text(e) \/ Call(e) \/ Args(e)
          \/ Finish(e) \/ Usage(e) \/ Ignore(e) \/ Sentinel(e)
    \/ Done \/ Throw

-----------------------------------------------------------------------------
\* The positions of the events of kind k in s, and the values at the positions S.
Of(s, k)     == {i \in DOMAIN s : s[i].kind = k}
Values(s, S) == LET part == Only(s, S) IN [j \in DOMAIN part |-> part[j].value]

\* What the events of kind k say last.
Latest(s, k, default) == IF Of(s, k) = {} THEN default ELSE s[Max(Of(s, k))].value

\* What a provider sends: each call comes up once and before its arguments, and nothing
\* comes after the sentinel.
Protocol(s) ==
    /\ \A i \in Of(s, "call") : s[i].index \in Calls
    /\ \A i, j \in Of(s, "call") : s[i].index = s[j].index => i = j
    /\ \A i \in Of(s, "args") : \E j \in Of(s, "call") : j < i /\ s[j].index = s[i].index
    /\ \A i \in Of(s, "end") : i = Len(s)

\* complete, the call without a stream, given the answer that the events s are about:
\* the whole text, every call with its own id and arguments, the last totals and the
\* reason for the end.  What s does not say is left as it is.
complete(s) ==
    LET calls == Only(s, Of(s, "call"))
    IN  [content |-> Values(s, Of(s, "text")),
         calls   |-> [j \in DOMAIN calls |->
                        [id   |-> calls[j].value,
                         args |-> Values(s, {i \in Of(s, "args") : s[i].index = calls[j].index})]],
         usage   |-> [in |-> Latest(s, "start", 0), out |-> Latest(s, "usage", 0)],
         finish  |-> Mapped(Latest(s, "finish", "stop"))]

\* The message of the "done" chunk is the one that complete returns.
Assembles(s) ==
    complete(s) = [content |-> content, calls |-> [j \in DOMAIN order |-> drafts[order[j]]],
                   usage |-> usage, finish |-> finish]
=============================================================================
