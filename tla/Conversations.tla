---------------------------- MODULE Conversations ----------------------------
(***************************************************************************)
(* The messages of one thread while its runs append to them: what a run    *)
(* reads as history, the prompt it builds from that, from its input and    *)
(* from its own turns, the form in which the prompt reaches a provider,    *)
(* and the events of a streamed run.                                       *)
(*                                                                         *)
(* AgentRuns has how runs start, are cancelled and fail; here the poll     *)
(* finds the flag or not, and any call may throw.  Texts and names are     *)
(* left out: a message is its role and the tool calls it asks for or       *)
(* answers.                                                                *)
(***************************************************************************)
EXTENDS Naturals, Sequences, FiniteSets, SequencesExt, Subsequences

CONSTANTS
    Runs,
    Streams,    \* the runs that are streamed
    MaxSteps,   \* agent.maxSteps
    MaxCalls    \* bound: calls in one answer

ASSUME ConversationsAssumption ==
    Streams \subseteq Runs /\ MaxSteps \in Nat /\ MaxCalls \in Nat

VARIABLES
    rows,       \* the Message rows of the thread, in the order of their inserts: their
                \* run, role, and the calls they ask for or (one) answer
    prompt,     \* llmMessages of a run: the numbers of rows; 0 is the system prompt
    pc, step,
    left,       \* the calls of the last answer that are to be made yet
    status,
    events,     \* what a streamed run has yielded
    upset       \* history: the runs that no order of the thread is promised after

vars == <<rows, prompt, pc, step, left, status, events, upset>>

Event(name, s) == [name |-> name, status |-> s]

Calls    == [run : Runs, step : Nat, place : Nat]
Rows     == [run : Runs, role : {"user", "assistant", "tool"}, calls : Seq(Calls)]
Statuses == {"IN_PROGRESS", "COMPLETED", "TIMEOUT", "CANCELLED", "FAILED"}
Events   == [name : {"run.created", "message.completed", "tool_call.started",
                     "tool_call.completed", "run.completed", "error"},
             status : Statuses \cup {"none"}]

TypeOK ==
    /\ rows \in Seq(Rows) /\ prompt \in [Runs -> Seq(Nat)]
    /\ pc \in [Runs -> {"new", "read", "poll", "llm", "tools", "final", "over"}]
    /\ step \in [Runs -> 0..MaxSteps] /\ left \in [Runs -> Seq(Calls)]
    /\ status \in [Runs -> Statuses] /\ events \in [Streams -> Seq(Events)]
    /\ upset \subseteq Runs

Init ==
    /\ rows = <<>> /\ prompt = [r \in Runs |-> <<>>]
    /\ pc = [r \in Runs |-> "new"]
    /\ step = [r \in Runs |-> 0] /\ left = [r \in Runs |-> <<>>]
    /\ status = [r \in Runs |-> "IN_PROGRESS"]
    /\ events = [r \in Streams |-> <<Event("run.created", "IN_PROGRESS")>>]
    /\ upset = {}

Goto(r, l) == pc' = [pc EXCEPT ![r] = l]

Yield(r, es) == events' = [q \in Streams |-> IF q = r THEN events[q] \o es ELSE events[q]]

Save(r, role, calls) == rows' = Append(rows, [run |-> r, role |-> role, calls |-> calls])

Push(r) == prompt' = [prompt EXCEPT ![r] = Append(@, Len(rows) + 1)]

Upset(r, bad) == upset' = IF bad THEN upset \cup {r} ELSE upset

-----------------------------------------------------------------------------
\* A run that begins while another one is at work reads half of the other's turn.
SaveInput(r) ==
    /\ pc[r] = "new"
    /\ Save(r, "user", <<>>) /\ Goto(r, "read")
    /\ Upset(r, \E q \in Runs : pc[q] \notin {"new", "over"})
    /\ UNCHANGED <<prompt, step, left, status, events>>

Own(r) == {i \in DOMAIN rows : rows[i].run = r}

\* Ordered by createdAt: rows of one millisecond come in any order.  Bound: one pair of
\* neighbours changes places.
Orders(s) == {s} \cup {[s EXCEPT ![i] = s[i + 1], ![i + 1] = s[i]] : i \in 1..(Len(s) - 1)}

\* The history is every row of the thread but the run's input, which comes last.
\* Mutant: the input, too.
HistoryAndInput(r) == Ascending(DOMAIN rows)
History(r)         == Ascending(DOMAIN rows \ Own(r))

ReadHistory(r) ==
    /\ pc[r] = "read"
    /\ \E h \in Orders(History(r)) :
          /\ prompt' = [prompt EXCEPT ![r] = <<0>> \o h \o Ascending(Own(r))]
          /\ Upset(r, h # History(r))
    /\ Goto(r, "poll")
    /\ UNCHANGED <<rows, step, left, status, events>>

\* The next step, when the flag is not set.
Poll(r) ==
    /\ pc[r] = "poll" /\ step[r] < MaxSteps
    /\ step' = [step EXCEPT ![r] = @ + 1]
    /\ Goto(r, "llm")
    /\ UNCHANGED <<rows, prompt, left, status, events, upset>>

\* The answer with n calls is saved, and the calls begin.  One with another finish
\* reason ends the run, whatever calls it has.  Mutant: in the last step no call begins,
\* for nobody would read the result.
BeginsUnread(r, n, reason) == n > 0 /\ reason = "tool_calls" /\ step[r] < MaxSteps
Begins(r, n, reason)       == n > 0 /\ reason = "tool_calls"

Answer(r, n, reason) ==
    LET calls == [c \in 1..n |-> [run |-> r, step |-> step[r], place |-> c]] IN
    /\ pc[r] = "llm"
    /\ Save(r, "assistant", calls) /\ Push(r)
    /\ IF Begins(r, n, reason)
       THEN /\ left' = [left EXCEPT ![r] = calls] /\ Goto(r, "tools")
            /\ Yield(r, <<Event("tool_call.started", "none")>>)
       ELSE /\ Goto(r, "final") /\ UNCHANGED left
            /\ Yield(r, <<Event("message.completed", "none")>>)
    /\ Upset(r, n > 0 /\ reason # "tool_calls")
    /\ UNCHANGED <<step, status>>

\* The result of a call, or an error text, is saved; the next call begins, or the next
\* step.
FinishCall(r) ==
    /\ pc[r] = "tools"
    /\ Save(r, "tool", <<Head(left[r])>>) /\ Push(r)
    /\ left' = [left EXCEPT ![r] = Tail(@)]
    /\ IF Len(left[r]) = 1
       THEN Goto(r, "poll") /\ Yield(r, <<Event("tool_call.completed", "none")>>)
       ELSE /\ UNCHANGED pc
            /\ Yield(r, <<Event("tool_call.completed", "none"), Event("tool_call.started", "none")>>)
    /\ UNCHANGED <<step, status, upset>>

\* What the loop ends with.  Mutant: a loop that has no answer has run out of steps.
VerdictNoCancel(r) == IF pc[r] = "final" THEN "COMPLETED" ELSE "TIMEOUT"
Verdict(r) ==
    CASE pc[r] = "final"                          -> "COMPLETED"
      [] pc[r] # "final" /\ step[r] = MaxSteps -> "TIMEOUT"
      [] OTHER                                    -> "CANCELLED"     \* the flag was set

Settle(r) ==
    /\ pc[r] \in {"poll", "final"}
    /\ status' = [status EXCEPT ![r] = Verdict(r)]
    /\ Goto(r, "over") /\ Yield(r, <<Event("run.completed", status'[r])>>)
    /\ UNCHANGED <<rows, prompt, step, left, upset>>

\* A call throws, and the update to FAILED may, too, without anyone noticing.
Fail(r) ==
    /\ pc[r] # "over"
    /\ \E s \in {"FAILED", status[r]} : status' = [status EXCEPT ![r] = s]
    /\ Goto(r, "over") /\ Yield(r, <<Event("error", "none")>>)
    /\ Upset(r, pc[r] = "tools")
    /\ UNCHANGED <<rows, prompt, step, left>>

Next ==
    \E r \in Runs :
        \/ SaveInput(r) \/ ReadHistory(r) \/ Poll(r) \/ FinishCall(r) \/ Settle(r) \/ Fail(r)
        \/ \E n \in 0..MaxCalls, reason \in {"tool_calls", "stop"} : Answer(r, n, reason)

Spec == Init /\ [][Next]_vars

-----------------------------------------------------------------------------
\* toLlmMessage, and the forms of the two providers.  A tool result is a message of
\* its own role for the one, and a block of a user's message for the other, which has
\* the system prompt beside the messages.
Message(i) ==
    IF i = 0 THEN [role |-> "system", asks |-> <<>>, answers |-> <<>>]
    ELSE [role    |-> rows[i].role,
          asks    |-> IF rows[i].role = "assistant" THEN rows[i].calls ELSE <<>>,
          answers |-> IF rows[i].role = "tool" THEN rows[i].calls ELSE <<>>]

OpenAI(p) == [i \in DOMAIN p |-> Message(p[i])]

Anthropic(p) ==
    LET rest == Ascending({i \in DOMAIN p : Message(p[i]).role # "system"})
    IN  [i \in DOMAIN rest |->
            [Message(p[rest[i]]) EXCEPT !.role = IF @ = "tool" THEN "user" ELSE @]]

\* What both providers ask of a list of messages: the calls of a message are answered
\* by the messages right after it, each once, and nothing else is an answer.
Paired(ms) ==
    \A i \in DOMAIN ms :
        LET n == Len(ms[i].asks) IN
        /\ n > 0 => /\ i + n <= Len(ms)
                    /\ \A c \in 1..n : \E j \in (i + 1)..(i + n) : ms[j].answers = <<ms[i].asks[c]>>
        /\ ms[i].answers # <<>> =>
              \E j \in 1..(i - 1) : ToSet(ms[i].answers) \subseteq ToSet(ms[j].asks)

\* A prompt that reaches a provider has an answer right after every call, in the form
\* of either provider, as long as the runs in it followed one another, none of them
\* failed amid its calls or stopped at one, and rows of one millisecond kept their order.
PromptsPaired ==
    \A r \in Runs :
        /\ pc[r] = "llm"
        /\ \A i \in ToSet(prompt[r]) \ {0} : rows[i].run \notin upset
        => Paired(OpenAI(prompt[r])) /\ Paired(Anthropic(prompt[r]))

\* Whatever other runs append meanwhile, the turn of a run itself is in its prompt
\* once, last, in order and paired.
OwnTurnKept ==
    \A r \in Runs : pc[r] = "llm" =>
        \E b \in 1..Len(prompt[r]) :
            LET own == SubSeq(prompt[r], b + 1, Len(prompt[r]))
            IN  /\ own = Ascending(Own(r)) /\ Paired(OpenAI(own))
                /\ \A i \in 1..b : prompt[r][i] \notin Own(r)

Answers(r) == {i \in DOMAIN rows : rows[i].run = r /\ rows[i].role = "assistant"}

\* What the events of a stream say of its run.
TellsRun(r) ==
    LET es   == events[r]
        n    == Len(es)
        last == es[n]
    IN  /\ \A i \in 1..n : es[i].name \in {"run.completed", "error"}
                <=> i = n /\ pc[r] = "over"
        /\ last.name = "run.completed" => last.status = status[r]
        /\ (\E i \in 1..n : es[i].name = "message.completed") /\ last.name = "run.completed"
              <=> last.status = "COMPLETED"
        /\ last.status = "TIMEOUT" => Cardinality(Answers(r)) = MaxSteps
        /\ last.status = "CANCELLED" => Cardinality(Answers(r)) < MaxSteps
        /\ \A i \in 1..n : es[i].name = "tool_call.started" =>
              IF i = n THEN pc[r] = "tools"
                       ELSE es[i + 1].name \in {"tool_call.completed", "error"}

\* A stream ends with one event, which tells what is in the row of the run.  COMPLETED
\* follows a final message and nothing else but an error does, TIMEOUT follows as many
\* answers as there may be and CANCELLED fewer; and a call that was announced is
\* reported, unless the run failed in it.
StreamTellsRun == \A r \in Streams : TellsRun(r)
===============================================================================
