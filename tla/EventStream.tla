----------------------------- MODULE EventStream -----------------------------
(***************************************************************************)
(* parseSseStream: the body of a streamed completion arrives in reads of   *)
(* any size, and every event that a blank line has terminated is handed on *)
(* at once.                                                                *)
(*                                                                         *)
(* A line of the body is abstracted to one symbol, a line end to "LF" or   *)
(* "CR", "LF".  What a symbol of Data stands for follows its "data:".  A    *)
(* cut inside a line leaves as much undone as a cut before it, since the   *)
(* decoder joins characters and the buffer joins lines.                    *)
(***************************************************************************)
EXTENDS Naturals, Sequences, FiniteSetsExt, Subsequences

CONSTANTS
    Bodies,     \* the bodies a provider may send
    Data        \* the lines that start with "data:"

VARIABLES
    body, at,       \* the response, and how much of it was read
    buffer,         \* what was read and belongs to no emitted event
    out,            \* the payloads handed on
    pc

Init ==
    /\ body \in Bodies /\ at = 0
    /\ buffer = <<>> /\ out = <<>>
    /\ pc = "read"

\* The lines of s that start with "data:".
DataLines(s) == Only(s, {i \in DOMAIN s : s[i] \in Data})

\* replace(/\r\n/g, '\n'): a "CR" is dropped when s has an "LF" behind it.
Kept(s) == {i \in DOMAIN s : ~(s[i] = "CR" /\ i < Len(s) /\ s[i + 1] = "LF")}

Normalise(s) == Only(s, Kept(s))

\* Where a blank line ends an event of s.
Boundaries(s) == {i \in 1..(Len(s) - 1) : s[i] = "LF" /\ s[i + 1] = "LF"}

\* A read returns what has arrived, cut anywhere.
Read ==
    /\ pc = "read"
    /\ \E n \in (at + 1)..Len(body) :
        /\ buffer' = buffer \o Normalise(SubSeq(body, at + 1, n))
        /\ at' = n
    /\ pc' = "drain"
    /\ UNCHANGED <<body, out>>

\* Mutant: at most one event per read.
EmitOne ==
    /\ pc = "drain" /\ Boundaries(buffer) # {}
    /\ LET sep == Min(Boundaries(buffer)) IN
        /\ out' = out \o DataLines(SubSeq(buffer, 1, sep - 1))
        /\ buffer' = SubSeq(buffer, sep + 2, Len(buffer))
    /\ pc' = "read"
    /\ UNCHANGED <<body, at>>

Emit ==
    /\ pc = "drain" /\ Boundaries(buffer) # {}
    /\ LET sep == Min(Boundaries(buffer)) IN
        /\ out' = out \o DataLines(SubSeq(buffer, 1, sep - 1))
        /\ buffer' = SubSeq(buffer, sep + 2, Len(buffer))
    /\ UNCHANGED <<body, at, pc>>

KeepPartial ==
    /\ pc = "drain" /\ Boundaries(buffer) = {}
    /\ pc' = "read"
    /\ UNCHANGED <<body, at, buffer, out>>

\* What is left in the buffer is dropped.  Mutant: it is handed on.
CloseFlushing ==
    /\ pc = "read" /\ at = Len(body)
    /\ out' = out \o DataLines(buffer)
    /\ pc' = "closed"
    /\ UNCHANGED <<body, at, buffer>>

Close ==
    /\ pc = "read" /\ at = Len(body)
    /\ pc' = "closed"
    /\ UNCHANGED <<body, at, buffer, out>>

Next == Read \/ Emit \/ KeepPartial \/ Close

-----------------------------------------------------------------------------
\* The payloads of the events that are complete in s, however s is cut.
Payloads(s) ==
    LET lines == Normalise(s)
        ends == Boundaries(lines)
    IN  IF ends = {} THEN <<>> ELSE DataLines(SubSeq(lines, 1, Max(ends)))

Arrived == Payloads(SubSeq(body, 1, at))
=============================================================================
