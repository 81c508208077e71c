-------------------------- MODULE StreamedCompletion --------------------------
(***************************************************************************)
(* completionStream end to end: the body of a provider's response is read  *)
(* in pieces, EventStream cuts it into payloads, Completion assembles the  *)
(* answer from them.  The adapter pulls: the parser works only when every  *)
(* payload it has handed on was consumed.                                  *)
(***************************************************************************)
EXTENDS Naturals, Sequences, SequencesExt

CONSTANTS
    Bodies,     \* the bodies a provider may send
    Meaning,    \* the event that each "data:" line is about
    Calls       \* the indices of tool calls

VARIABLES
    body, received, buffer, out, parsing,   \* the parser
    read, content, order, drafts, finish, usage, yielded, pc    \* the adapter

parser  == <<body, received, buffer, out, parsing>>
adapter == <<read, content, order, drafts, finish, usage, yielded, pc>>
vars    == <<parser, adapter>>

Parser == INSTANCE EventStream WITH
    Data <- DOMAIN Meaning, at <- received, pc <- parsing

Events(lines) == [i \in DOMAIN lines |-> Meaning[lines[i]]]

Adapter == INSTANCE Completion WITH
    script <- Events(out), ended <- parsing = "closed", at <- read

\* A line is data or the end of one.
ASSUME MeaningAssumption ==
    /\ \A d \in DOMAIN Meaning : Meaning[d].kind \in Adapter!Kinds
    /\ "LF" \notin DOMAIN Meaning /\ "CR" \notin DOMAIN Meaning

\* A body is a sequence of lines, and a provider keeps to the protocol.
ASSUME BodiesAssumption == \A b \in Bodies :
    /\ Len(b) \in Nat /\ b = [i \in 1..Len(b) |-> b[i]]
    /\ Adapter!Protocol(Events(Parser!Payloads(b)))

Init == Parser!Init /\ Adapter!Init

\* The adapter waits for the next payload.
Parse ==
    /\ pc = "read" /\ read = Len(out)
    /\ Parser!Next
    /\ UNCHANGED adapter

Assemble == Adapter!Next /\ UNCHANGED parser

Next == Parse \/ Assemble

Spec == Init /\ [][Next]_vars

-----------------------------------------------------------------------------
\* No event is handed on before its blank line was read, out of order or twice, for
\* both line ends and wherever the reads are cut.
NothingEarly == IsPrefix(out, Parser!Arrived)

OneSymbolEnds == \A i \in DOMAIN body : body[i] # "CR"

\* Whenever the adapter waits for the network, it has been given every event whose
\* blank line was read.  A line end of two characters that a read cuts in two hides a
\* boundary, so this is about bodies with LF line ends.
NothingLate ==
    OneSymbolEnds /\ pc = "read" /\ parsing = "read" => out = Parser!Arrived

\* The "done" chunk has the message, the calls, the totals and the reason that a call
\* without a stream would return, however the network cuts the body and however the
\* fragments of several calls interleave; of a body that is cut off or given up, those
\* that its complete events are about.
MessageAssembled ==
    OneSymbolEnds /\ pc = "done" => Adapter!Assembles(Events(Parser!Payloads(body)))
=============================================================================
