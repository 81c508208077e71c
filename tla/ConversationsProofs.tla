-------------------------- MODULE ConversationsProofs --------------------------
(***************************************************************************)
(* For any number of runs, steps and calls: the events of a stream tell    *)
(* how its run went, the turn of a run stays whole at the end of its       *)
(* prompt, and a prompt that no run upset is paired in the form of either  *)
(* provider.  Dialogue is the inductive invariant: what a stream has told, *)
(* what the prompt of a run holds of the thread, and that the calls in a   *)
(* stretch of the thread no run upset are answered one by one.             *)
(***************************************************************************)
EXTENDS Conversations, SubsequencesProofs

USE ConversationsAssumption

Acts(r) ==
    \/ SaveInput(r) \/ ReadHistory(r) \/ Poll(r) \/ FinishCall(r) \/ Settle(r) \/ Fail(r)
    \/ \E n \in 0..MaxCalls, reason \in {"tool_calls", "stop"} : Answer(r, n, reason)

AtWork(r)  == pc[r] \notin {"new", "over"}
Talking(r) == pc[r] \in {"poll", "llm", "tools", "final"}

-----------------------------------------------------------------------------
\* One answer for every step, but the one that is awaited.
Counted ==
    \A r \in Runs :
        /\ IsFiniteSet(Answers(r))
        /\ pc[r] \notin {"llm", "over"} => Cardinality(Answers(r)) = step[r]
        /\ pc[r] = "llm" => Cardinality(Answers(r)) + 1 = step[r]

\* What a stream has told so far is where its run is.
Telling(r) ==
    LET es == events[r]
        n  == Len(es)
    IN  /\ n > 0
        /\ \A i \in 1..n : es[i].name # "run.completed" => es[i].status \in {"none", "IN_PROGRESS"}
        /\ \A i \in 1..n : es[i].name = "message.completed" => pc[r] \in {"final", "over"}
        /\ pc[r] = "final" => \E i \in 1..n : es[i].name = "message.completed"
        /\ pc[r] = "tools" => es[n].name = "tool_call.started"

Told == \A r \in Streams : Telling(r)

-----------------------------------------------------------------------------
\* A row is of a run that has begun, and each result belongs to a call before it.
RowSound(i) ==
    /\ pc[rows[i].run] # "new"
    /\ rows[i].role = "user" => rows[i].calls = <<>>
    /\ rows[i].role = "tool" =>
          \E j \in 1..(i - 1) :
              /\ rows[j].run = rows[i].run /\ rows[j].role = "assistant"
              /\ \E c \in DOMAIN rows[j].calls : rows[i].calls = <<rows[j].calls[c]>>

\* A run makes the calls of an answer of its own.
LeftSound(r) ==
    pc[r] = "tools" =>
        /\ Len(left[r]) > 0
        /\ \E j \in Own(r) :
              /\ rows[j].role = "assistant"
              /\ \A k \in 1..Len(left[r]) : \E c \in DOMAIN rows[j].calls :
                    left[r][k] = rows[j].calls[c]

RowsSound == (\A i \in DOMAIN rows : RowSound(i)) /\ (\A r \in Runs : LeftSound(r))

\* Of the runs that are not upset one is at work at a time.
Alone ==
    \A q, r \in Runs \ upset : AtWork(q) /\ AtWork(r) => q = r

\* A run that is about to read has its input in the thread; if it is not upset, all
\* before it is over and what follows it is upset.
Opened ==
    \A r \in Runs : pc[r] = "read" =>
        \E m \in DOMAIN rows :
            /\ Own(r) = {m} /\ rows[m].role = "user"
            /\ r \notin upset =>
                  /\ \A i \in 1..(m - 1) : pc[rows[i].run] = "over"
                  /\ \A i \in (m + 1)..Len(rows) : rows[i].run \in upset

\* Between two rows no run is upset.
Clean(i, k) == \A x \in i..k : rows[x].run \notin upset

\* Row i asks, and the rows behind it answer, as far as nobody upsets the thread; the
\* calls that have no row yet are to be made.
Answered(i) ==
    \A c \in 1..Len(rows[i].calls) :
        i + c <= Len(rows) /\ Clean(i, i + c) =>
            (rows[i + c].role = "tool" /\ rows[i + c].calls = <<rows[i].calls[c]>>)

Awaited(i) ==
    LET asks == rows[i].calls
        r    == rows[i].run
    IN  i + Len(asks) > Len(rows) /\ Clean(i, Len(rows)) =>
            /\ pc[r] = "tools" /\ Len(left[r]) = i + Len(asks) - Len(rows)
            /\ \A k \in 1..Len(left[r]) : left[r][k] = asks[Len(rows) - i + k]

Served == \A i \in DOMAIN rows : rows[i].role = "assistant" => Answered(i) /\ Awaited(i)

\* The prompt of r behind place b is its own turn, in the order of the rows ...
Turn(r, b) ==
    LET p == prompt[r] IN
    /\ b \in 1..(Len(p) - 1)
    /\ \A i \in (b + 1)..Len(p) : p[i] \in Own(r)
    /\ \A x \in Own(r) : \E i \in (b + 1)..Len(p) : p[i] = x
    /\ \A i, j \in (b + 1)..Len(p) : i < j => p[i] < p[j]
    /\ rows[p[b + 1]].role = "user"

\* ... with the answers right after the calls, the next of which are to be made ...
Followed(r, i) ==
    LET p    == prompt[r]
        asks == rows[p[i]].calls
    IN  \A c \in 1..Len(asks) : i + c <= Len(p) =>
            (rows[p[i + c]].role = "tool" /\ rows[p[i + c]].calls = <<asks[c]>>)

Pending(r, i) ==
    LET p    == prompt[r]
        asks == rows[p[i]].calls
    IN  i + Len(asks) > Len(p) /\ pc[r] # "final" =>
            /\ pc[r] = "tools" /\ Len(left[r]) = i + Len(asks) - Len(p)
            /\ \A k \in 1..Len(left[r]) : left[r][k] = asks[Len(p) - i + k]

Replied(r, b) ==
    \A i \in (b + 1)..Len(prompt[r]) :
        rows[prompt[r][i]].role = "assistant" => Followed(r, i) /\ Pending(r, i)

\* ... and before it are the system prompt and rows of others: the whole thread up to
\* the input, unless it holds an upset run.
Recalled(r, b) ==
    LET p == prompt[r] IN
    /\ p[1] = 0
    /\ \A i \in 2..b : p[i] \in DOMAIN rows \ Own(r)
    /\ r \notin upset =>
          \/ \E i \in 2..b : rows[p[i]].run \in upset
          \/ /\ \A i \in 2..b : p[i] = i - 1 /\ pc[rows[i - 1].run] = "over"
             /\ p[b + 1] = b

Taken == \A r \in Runs : Talking(r) =>
    \E b \in Nat : Turn(r, b) /\ Replied(r, b) /\ Recalled(r, b)

Dialogue ==
    /\ TypeOK /\ Counted /\ Told /\ StreamTellsRun
    /\ RowsSound /\ Alone /\ Opened /\ Served /\ Taken

-----------------------------------------------------------------------------
\* A row is added behind the others, and belongs to its run.
LEMMA SavedRow ==
  ASSUME TypeOK, NEW r \in Runs, NEW role \in {"user", "assistant", "tool"},
         NEW calls \in Seq(Calls), Save(r, role, calls)
  PROVE  LET n == Len(rows) IN
         /\ n \in Nat /\ Len(rows') = n + 1 /\ rows' \in Seq(Rows)
         /\ DOMAIN rows = 1..n /\ DOMAIN rows' = 1..(n + 1)
         /\ \A i \in 1..n : rows'[i] = rows[i]
         /\ rows'[n + 1] = [run |-> r, role |-> role, calls |-> calls]
         /\ Own(r)' = Own(r) \cup {n + 1}
         /\ \A q \in Runs : q # r => Own(q)' = Own(q)
         /\ Answers(r)' = IF role = "assistant" THEN Answers(r) \cup {n + 1} ELSE Answers(r)
         /\ \A q \in Runs : q # r => Answers(q)' = Answers(q)
<1> DEFINE n == Len(rows)
           x == [run |-> r, role |-> role, calls |-> calls]
<1>1. n \in Nat /\ rows \in Seq(Rows) /\ x \in Rows
  BY DEF TypeOK, Rows
<1>2. rows' = Append(rows, x)
  BY DEF Save
<1>3. x.run = r /\ x.role = role
  OBVIOUS
<1> HIDE DEF x
<1>4. /\ Len(rows') = n + 1 /\ rows' \in Seq(Rows)
      /\ DOMAIN rows = 1..n /\ DOMAIN rows' = 1..(n + 1)
      /\ \A i \in 1..n : rows'[i] = rows[i]
      /\ rows'[n + 1] = x
  BY <1>1, <1>2
<1> HIDE DEF n
<1>5. \A i \in 1..(n + 1) : i \in 1..n \/ i = n + 1
  BY <1>1
<1>6. n + 1 \in 1..(n + 1) /\ n + 1 \notin 1..n /\ 1..n \subseteq 1..(n + 1)
  BY <1>1
<1>7. Own(r)' = Own(r) \cup {n + 1}
  BY <1>3, <1>4, <1>5, <1>6 DEF Own
<1>8. \A q \in Runs : q # r => Own(q)' = Own(q)
  BY <1>3, <1>4, <1>5, <1>6 DEF Own
<1>9. Answers(r)' = IF role = "assistant" THEN Answers(r) \cup {n + 1} ELSE Answers(r)
  BY <1>3, <1>4, <1>5, <1>6 DEF Answers
<1>10. \A q \in Runs : q # r => Answers(q)' = Answers(q)
  BY <1>3, <1>4, <1>5, <1>6 DEF Answers
<1> QED BY <1>1, <1>4, <1>7, <1>8, <1>9, <1>10 DEF n, x

\* Events are added to the stream of the run alone.
LEMMA YieldedEvents ==
  ASSUME TypeOK, NEW r \in Runs, NEW es \in Seq(Events), Yield(r, es)
  PROVE  /\ events' \in [Streams -> Seq(Events)]
         /\ \A q \in Streams : q # r => events'[q] = events[q]
         /\ r \in Streams =>
               /\ Len(events[r]) \in Nat /\ Len(es) \in Nat
               /\ Len(events'[r]) = Len(events[r]) + Len(es)
               /\ \A i \in 1..Len(events[r]) : events'[r][i] = events[r][i]
               /\ \A i \in 1..Len(es) : events'[r][Len(events[r]) + i] = es[i]
<1>1. \A q \in Streams : events[q] \in Seq(Events)
  BY DEF TypeOK
<1>2. \A q \in Streams : events[q] \o es \in Seq(Events)
  BY <1>1
<1>3. events' = [q \in Streams |-> IF q = r THEN events[q] \o es ELSE events[q]]
  BY DEF Yield
<1>4. events' \in [Streams -> Seq(Events)] /\ \A q \in Streams : q # r => events'[q] = events[q]
  BY <1>1, <1>2, <1>3
<1>5. ASSUME r \in Streams
      PROVE  /\ Len(events[r]) \in Nat /\ Len(es) \in Nat
             /\ Len(events'[r]) = Len(events[r]) + Len(es)
             /\ \A i \in 1..Len(events[r]) : events'[r][i] = events[r][i]
             /\ \A i \in 1..Len(es) : events'[r][Len(events[r]) + i] = es[i]
  <2>1. events'[r] = events[r] \o es /\ events[r] \in Seq(Events)
    BY <1>1, <1>3, <1>5
  <2> QED BY <2>1, ConcatProperties
<1> QED BY <1>4, <1>5

\* A stream gets its own events at its end.
LEMMA YieldedOwn ==
  ASSUME TypeOK, NEW r \in Runs, NEW es \in Seq(Events), Yield(r, es), r \in Streams
  PROVE  /\ \A i \in 1..Len(events[r]) : events'[r][i] = events[r][i]
         /\ Len(es) = 1 => /\ Len(events'[r]) = Len(events[r]) + 1
                           /\ events'[r][Len(events[r]) + 1] = es[1]
         /\ Len(es) = 2 => /\ Len(events'[r]) = Len(events[r]) + 2
                           /\ events'[r][Len(events[r]) + 1] = es[1]
                           /\ events'[r][Len(events[r]) + 2] = es[2]
<1>1. /\ Len(events'[r]) = Len(events[r]) + Len(es)
      /\ \A i \in 1..Len(events[r]) : events'[r][i] = events[r][i]
      /\ \A i \in 1..Len(es) : events'[r][Len(events[r]) + i] = es[i]
  BY YieldedEvents
<1>2. (Len(es) = 1 => 1 \in 1..Len(es)) /\ (Len(es) = 2 => 1 \in 1..Len(es) /\ 2 \in 1..Len(es))
  OBVIOUS
<1> QED BY <1>1, <1>2

\* The events there are.
LEMMA EventTypes ==
    /\ Event("run.created", "IN_PROGRESS") \in Events
    /\ Event("message.completed", "none") \in Events
    /\ Event("tool_call.started", "none") \in Events
    /\ Event("tool_call.completed", "none") \in Events
    /\ Event("error", "none") \in Events
    /\ \A s \in Statuses : Event("run.completed", s) \in Events
BY DEF Event, Events, Statuses

\* Rows that come in another order are the same rows.
LEMMA OtherOrders ==
  ASSUME NEW S, NEW s \in Seq(S), NEW h \in Orders(s)
  PROVE  /\ h \in Seq(S) /\ Len(h) = Len(s)
         /\ \A i \in 1..Len(s) : \E j \in 1..Len(s) : h[j] = s[i]
<1>1. CASE h = s
  BY <1>1
<1>2. CASE h # s
  <2>1. PICK k \in 1..(Len(s) - 1) : h = [s EXCEPT ![k] = s[k + 1], ![k + 1] = s[k]]
    BY <1>2 DEF Orders
  <2>2. k \in 1..Len(s) /\ k + 1 \in 1..Len(s) /\ Len(s) \in Nat /\ s \in [1..Len(s) -> S] /\ k # k + 1
    OBVIOUS
  <2>3. /\ h \in [1..Len(s) -> S] /\ h[k] = s[k + 1] /\ h[k + 1] = s[k]
        /\ \A i \in 1..Len(s) : i # k /\ i # k + 1 => h[i] = s[i]
    BY <2>1, <2>2
  <2>4. h \in Seq(S) /\ Len(h) = Len(s)
    BY <2>2, <2>3
  <2> QED BY <2>2, <2>3, <2>4
<1> QED BY <1>1, <1>2

\* What a run has in its prompt when it has read the thread.
LEMMA ReadPrompt ==
  ASSUME TypeOK, Opened, NEW r \in Runs, ReadHistory(r)
  PROVE  \E m \in DOMAIN rows, b \in Nat :
            /\ Own(r) = {m} /\ rows[m].role = "user" /\ b >= 1
            /\ prompt'[r] \in Seq(Nat) /\ Len(prompt'[r]) = b + 1
            /\ prompt'[r][1] = 0 /\ prompt'[r][b + 1] = m
            /\ \A i \in 2..b : prompt'[r][i] \in DOMAIN rows \ Own(r)
            /\ \A x \in DOMAIN rows \ Own(r) : \E i \in 2..b : prompt'[r][i] = x
            /\ Len(History(r)) = b - 1
            /\ r \notin upset' =>
                  \A i \in 2..b : prompt'[r][i] = History(r)[i - 1]
<1> DEFINE S == DOMAIN rows \ Own(r)
<1>1. pc[r] = "read"
  BY DEF ReadHistory
<1>2. PICK m \in DOMAIN rows : Own(r) = {m} /\ rows[m].role = "user"
  BY <1>1 DEF Opened
<1>3. Len(rows) \in Nat /\ DOMAIN rows = 1..Len(rows) /\ m \in Nat
  BY DEF TypeOK
<1>4. IsFiniteSet(S) /\ S \subseteq Nat
  <2>1. IsFiniteSet(DOMAIN rows)
    BY <1>3, FS_Interval
  <2>2. S \in SUBSET DOMAIN rows
    OBVIOUS
  <2> QED BY <1>3, <2>1, <2>2, FS_Subset
<1>5. Ascending(Own(r)) = <<m>>
  <2> DEFINE s == <<m>>
  <2>1. s \in Seq({m}) /\ Len(s) = 1 /\ s[1] = m
    OBVIOUS
  <2> HIDE DEF s
  <2>2. \A i, j \in 1..Len(s) : i < j => s[i] < s[j]
    BY <2>1
  <2>3. \A x \in {m} : \E i \in 1..Len(s) : s[i] = x
    BY <2>1
  <2>4. s = Ascending({m})
    BY <1>3, <2>1, <2>2, <2>3, AscendingOnly
  <2> QED BY <1>2, <2>4 DEF s
<1> DEFINE H == Ascending(S)
<1>6. H = History(r) /\ H \in Seq(S) /\ \A x \in S : \E i \in 1..Len(H) : H[i] = x
  BY <1>4, AscendingLists DEF History
<1>7. PICK h \in Orders(H) :
          /\ prompt' = [prompt EXCEPT ![r] = <<0>> \o h \o <<m>>]
          /\ Upset(r, h # H)
  BY <1>5, <1>6 DEF ReadHistory
<1> HIDE DEF H
<1>8. /\ h \in Seq(S) /\ Len(h) = Len(H) /\ Len(H) \in Nat
      /\ \A x \in S : \E i \in 1..Len(H) : h[i] = x
  <2> HIDE DEF S
  <2>1. H \in Seq(S) /\ \A x \in S : \E i \in 1..Len(H) : H[i] = x
    BY <1>6
  <2>2. h \in Seq(S) /\ Len(h) = Len(H)
    BY <2>1, OtherOrders
  <2>3. \A i \in 1..Len(H) : \E j \in 1..Len(H) : h[j] = H[i]
    BY <2>1, OtherOrders
  <2>4. ASSUME NEW x \in S PROVE \E i \in 1..Len(H) : h[i] = x
    <3>1. PICK i \in 1..Len(H) : H[i] = x
      BY <2>1
    <3> QED BY <2>3, <3>1
  <2> QED BY <2>1, <2>2, <2>4
<1>9. r \notin upset' => h = H
  BY <1>7 DEF Upset
<1> DEFINE b == Len(H) + 1
           p == <<0>> \o h \o <<m>>
<1> HIDE DEF S
<1>10. prompt'[r] = p
  BY <1>7 DEF TypeOK
<1>11. /\ p \in Seq(Nat) /\ Len(p) = b + 1 /\ p[1] = 0 /\ p[b + 1] = m
       /\ \A i \in 1..Len(H) : p[i + 1] = h[i]
  <2>1. h \in Seq(Nat)
    BY <1>4, <1>8, SeqMonotonic
  <2>2. <<0>> \in Seq(Nat) /\ Len(<<0>>) = 1 /\ <<m>> \in Seq(Nat) /\ Len(<<m>>) = 1
        /\ <<0>>[1] = 0 /\ <<m>>[1] = m
    BY <1>3
  <2> DEFINE z == <<0>>  y == <<m>>  t == z \o h
  <2>3. z \in Seq(Nat) /\ y \in Seq(Nat) /\ Len(z) = 1 /\ Len(y) = 1 /\ z[1] = 0 /\ y[1] = m
    BY <2>2
  <2> HIDE DEF z, y
  <2>4. /\ t \in Seq(Nat) /\ Len(t) = b /\ t[1] = 0
        /\ \A i \in 1..Len(H) : t[i + 1] = h[i]
    <3>1. /\ t \in Seq(Nat) /\ Len(t) = Len(z) + Len(h)
          /\ \A i \in 1..(Len(z) + Len(h)) : t[i] = IF i <= Len(z) THEN z[i] ELSE h[i - Len(z)]
      BY <2>1, <2>3, ConcatProperties
    <3> HIDE DEF t
    <3> QED BY <1>8, <2>3, <3>1
  <2> HIDE DEF t
  <2>5. /\ t \o y \in Seq(Nat) /\ Len(t \o y) = Len(t) + Len(y)
        /\ \A i \in 1..(Len(t) + Len(y)) : (t \o y)[i] = IF i <= Len(t) THEN t[i] ELSE y[i - Len(t)]
    BY <2>3, <2>4, ConcatProperties
  <2>6. p = t \o y
    BY DEF t, z, y
  <2> HIDE DEF p
  <2> QED BY <1>8, <2>3, <2>4, <2>5, <2>6
<1> HIDE DEF p
<1>12. \A i \in 2..b : i - 1 \in 1..Len(H) /\ p[i] = h[i - 1]
  <2> SUFFICES ASSUME NEW i \in 2..b PROVE i - 1 \in 1..Len(H) /\ p[i] = h[i - 1]
    OBVIOUS
  <2>1. i - 1 \in 1..Len(H) /\ (i - 1) + 1 = i
    BY <1>8
  <2> QED BY <1>11, <2>1
<1>13. \A i \in 2..b : p[i] \in S
  <2>1. \A j \in 1..Len(H) : h[j] \in S
    BY <1>8
  <2> QED BY <1>12, <2>1
<1>14. ASSUME NEW x \in S PROVE \E i \in 2..b : p[i] = x
  <2>1. PICK j \in 1..Len(H) : h[j] = x
    BY <1>8
  <2>2. j + 1 \in 2..b
    <3>1. Len(H) \in Nat
      BY <1>8
    <3> QED BY <3>1
  <2>3. p[j + 1] = x
    BY <1>11, <2>1
  <2> QED BY <2>2, <2>3
<1>15. b \in Nat /\ b >= 1 /\ Len(History(r)) = b - 1
  <2>1. Len(H) \in Nat /\ Len(History(r)) = Len(H)
    BY <1>6, <1>8
  <2> QED BY <2>1
<1> HIDE DEF b
<1>16. ASSUME r \notin upset', NEW i \in 2..b
       PROVE  prompt'[r][i] = History(r)[i - 1]
  BY <1>6, <1>9, <1>10, <1>12, <1>16
<1>17. /\ \A i \in 2..b : prompt'[r][i] \in DOMAIN rows \ Own(r)
       /\ \A x \in DOMAIN rows \ Own(r) : \E i \in 2..b : prompt'[r][i] = x
  BY <1>10, <1>13, <1>14 DEF S
<1> QED BY <1>2, <1>10, <1>11, <1>15, <1>16, <1>17

-----------------------------------------------------------------------------
\* The answer of a provider: its calls, and what is left of them when one is made.
LEMMA AnsweredCalls ==
  ASSUME TypeOK, NEW r \in Runs, NEW n \in 0..MaxCalls
  PROVE  LET calls == [c \in 1..n |-> [run |-> r, step |-> step[r], place |-> c]]
         IN  calls \in Seq(Calls) /\ Len(calls) = n
<1> DEFINE calls == [c \in 1..n |-> [run |-> r, step |-> step[r], place |-> c]]
<1>1. n \in Nat /\ step[r] \in Nat
  BY DEF TypeOK
<1>2. calls \in [1..n -> Calls]
  BY <1>1 DEF Calls
<1> HIDE DEF calls
<1>3. calls \in Seq(Calls) /\ Len(calls) = n
  BY <1>1, <1>2
<1> QED BY <1>3 DEF calls

\* The next call of an answer, and the ones behind it.
LEMMA NextCall ==
  ASSUME TypeOK, NEW r \in Runs, Len(left[r]) > 0
  PROVE  /\ left[r] \in Seq(Calls) /\ Head(left[r]) = left[r][1] /\ left[r][1] \in Calls
         /\ <<Head(left[r])>> \in Seq(Calls)
         /\ Tail(left[r]) \in Seq(Calls) /\ Len(Tail(left[r])) = Len(left[r]) - 1
         /\ \A i \in 1..(Len(left[r]) - 1) : Tail(left[r])[i] = left[r][i + 1]
<1>1. left[r] \in Seq(Calls)
  BY DEF TypeOK
<1> DEFINE s == left[r]
<1> HIDE DEF s
<1>2. s \in Seq(Calls) /\ Len(s) > 0
  BY <1>1 DEF s
<1>3. Head(s) = s[1] /\ s[1] \in Calls /\ s # <<>>
  BY <1>2
<1>4. /\ Tail(s) \in Seq(Calls) /\ Len(Tail(s)) = Len(s) - 1
      /\ \A i \in 1..(Len(s) - 1) : Tail(s)[i] = s[i + 1]
  BY <1>2, <1>3, HeadTailProperties
<1> QED BY <1>2, <1>3, <1>4 DEF s

\* Every step keeps the types.
LEMMA TypesInit == Init => TypeOK
<1> SUFFICES ASSUME Init PROVE TypeOK
  OBVIOUS
<1>1. Event("run.created", "IN_PROGRESS") \in Events
  BY EventTypes
<1>2. <<Event("run.created", "IN_PROGRESS")>> \in Seq(Events)
  BY <1>1
<1>3. rows \in Seq(Rows) /\ prompt \in [Runs -> Seq(Nat)] /\ left \in [Runs -> Seq(Calls)]
  BY DEF Init
<1>4. events \in [Streams -> Seq(Events)]
  BY <1>2 DEF Init
<1> QED BY <1>3, <1>4 DEF Init, TypeOK, Statuses

\* Upset runs are runs.
LEMMA UpsetTypes ==
  ASSUME TypeOK, NEW r \in Runs, NEW bad, Upset(r, bad)
  PROVE  upset' \subseteq Runs /\ upset \subseteq upset' /\ upset' \subseteq upset \cup {r}
BY DEF TypeOK, Upset

\* A prompt that grows stays a prompt.
LEMMA PushTypes ==
  ASSUME TypeOK, NEW r \in Runs, Push(r)
  PROVE  /\ prompt' \in [Runs -> Seq(Nat)]
         /\ \A q \in Runs : q # r => prompt'[q] = prompt[q]
         /\ Len(prompt[r]) \in Nat /\ Len(prompt'[r]) = Len(prompt[r]) + 1
         /\ \A i \in 1..Len(prompt[r]) : prompt'[r][i] = prompt[r][i]
         /\ prompt'[r][Len(prompt[r]) + 1] = Len(rows) + 1
<1>1. prompt[r] \in Seq(Nat) /\ Len(rows) + 1 \in Nat /\ prompt \in [Runs -> Seq(Nat)]
  BY DEF TypeOK
<1>2. Append(prompt[r], Len(rows) + 1) \in Seq(Nat)
  BY <1>1
<1>3. prompt'[r] = Append(prompt[r], Len(rows) + 1) /\ prompt' \in [Runs -> Seq(Nat)]
  BY <1>1, <1>2 DEF Push
<1> QED BY <1>1, <1>3 DEF Push

\* A verdict is a status.
LEMMA VerdictTypes ==
  ASSUME NEW r \in Runs
  PROVE  Verdict(r) \in {"COMPLETED", "TIMEOUT", "CANCELLED"} /\ Verdict(r) \in Statuses
BY DEF Verdict, Statuses

\* Every step keeps the types.
LEMMA TypesStep ==
  ASSUME Dialogue, NEW r \in Runs, Acts(r)
  PROVE  TypeOK'
<1>1. /\ TypeOK /\ RowsSound /\ Opened
      /\ rows \in Seq(Rows) /\ prompt \in [Runs -> Seq(Nat)]
      /\ pc \in [Runs -> {"new", "read", "poll", "llm", "tools", "final", "over"}]
      /\ step \in [Runs -> 0..MaxSteps] /\ left \in [Runs -> Seq(Calls)]
      /\ status \in [Runs -> Statuses] /\ events \in [Streams -> Seq(Events)]
      /\ upset \subseteq Runs
  BY DEF Dialogue, TypeOK
<1>2. CASE SaveInput(r)
  <2>1. <<>> \in Seq(Calls)
    OBVIOUS
  <2>2. rows' \in Seq(Rows)
    BY <1>1, <1>2, <2>1, SavedRow DEF SaveInput
  <2>3. upset' \subseteq Runs
    BY <1>1, <1>2, UpsetTypes DEF SaveInput
  <2> QED BY <1>1, <1>2, <2>2, <2>3 DEF SaveInput, Goto, TypeOK
<1>3. CASE ReadHistory(r)
  <2>1. prompt'[r] \in Seq(Nat)
    BY <1>1, <1>3, ReadPrompt
  <2>2. prompt' \in [Runs -> Seq(Nat)]
    BY <1>1, <1>3, <2>1 DEF ReadHistory
  <2>3. upset' \subseteq Runs
    BY <1>1, <1>3, UpsetTypes DEF ReadHistory
  <2> QED BY <1>1, <1>3, <2>2, <2>3 DEF ReadHistory, Goto, TypeOK
<1>4. CASE Poll(r)
  <2>1. step[r] + 1 \in 0..MaxSteps
    BY <1>1, <1>4 DEF Poll
  <2> QED BY <1>1, <1>4, <2>1 DEF Poll, Goto, TypeOK
<1>5. CASE FinishCall(r)
  <2>1. Len(left[r]) > 0
    BY <1>1, <1>5 DEF FinishCall, RowsSound, LeftSound
  <2>2. rows' \in Seq(Rows) /\ prompt' \in [Runs -> Seq(Nat)]
    BY <1>1, <1>5, <2>1, NextCall, SavedRow, PushTypes DEF FinishCall
  <2>3. left' \in [Runs -> Seq(Calls)]
    BY <1>1, <1>5, <2>1, NextCall DEF FinishCall
  <2>4. /\ <<Event("tool_call.completed", "none")>> \in Seq(Events)
        /\ <<Event("tool_call.completed", "none"), Event("tool_call.started", "none")>> \in Seq(Events)
    <3>1. Event("tool_call.started", "none") \in Events /\ Event("tool_call.completed", "none") \in Events
      BY EventTypes
    <3> QED BY <3>1
  <2>5. events' \in [Streams -> Seq(Events)]
    BY <1>1, <1>5, <2>4, YieldedEvents DEF FinishCall
  <2> QED BY <1>1, <1>5, <2>2, <2>3, <2>5 DEF FinishCall, Goto, TypeOK
<1>6. CASE Settle(r)
  <2>1. status' \in [Runs -> Statuses] /\ status'[r] \in Statuses
    BY <1>1, <1>6, VerdictTypes DEF Settle
  <2>2. <<Event("run.completed", status'[r])>> \in Seq(Events)
    <3>1. Event("run.completed", status'[r]) \in Events
      BY <2>1, EventTypes
    <3> QED BY <3>1
  <2>3. events' \in [Streams -> Seq(Events)]
    BY <1>1, <1>6, <2>2, YieldedEvents DEF Settle
  <2> QED BY <1>1, <1>6, <2>1, <2>3 DEF Settle, Goto, TypeOK
<1>7. CASE Fail(r)
  <2>1. status' \in [Runs -> Statuses]
    BY <1>1, <1>7 DEF Fail, Statuses
  <2>2. <<Event("error", "none")>> \in Seq(Events)
    <3>1. Event("error", "none") \in Events
      BY EventTypes
    <3> QED BY <3>1
  <2>3. events' \in [Streams -> Seq(Events)] /\ upset' \subseteq Runs
    BY <1>1, <1>7, <2>2, YieldedEvents, UpsetTypes DEF Fail
  <2> QED BY <1>1, <1>7, <2>1, <2>3 DEF Fail, Goto, TypeOK
<1>8. ASSUME NEW n \in 0..MaxCalls, NEW reason \in {"tool_calls", "stop"}, Answer(r, n, reason)
      PROVE  TypeOK'
  <2> DEFINE calls == [c \in 1..n |-> [run |-> r, step |-> step[r], place |-> c]]
  <2>1. calls \in Seq(Calls)
    BY <1>1, AnsweredCalls
  <2>2. /\ Save(r, "assistant", calls) /\ Push(r)
        /\ left' = [left EXCEPT ![r] = calls] \/ left' = left
        /\ Upset(r, n > 0 /\ reason # "tool_calls")
        /\ UNCHANGED <<step, status>>
        /\ Goto(r, "tools") \/ Goto(r, "final")
        /\ \/ Yield(r, <<Event("tool_call.started", "none")>>)
           \/ Yield(r, <<Event("message.completed", "none")>>)
    BY <1>8 DEF Answer
  <2> HIDE DEF calls
  <2>3. rows' \in Seq(Rows) /\ prompt' \in [Runs -> Seq(Nat)] /\ upset' \subseteq Runs
    BY <1>1, <2>1, <2>2, SavedRow, PushTypes, UpsetTypes
  <2>4. /\ <<Event("tool_call.started", "none")>> \in Seq(Events)
        /\ <<Event("message.completed", "none")>> \in Seq(Events)
    <3>1. Event("tool_call.started", "none") \in Events /\ Event("message.completed", "none") \in Events
      BY EventTypes
    <3> QED BY <3>1
  <2>5. events' \in [Streams -> Seq(Events)]
    BY <1>1, <2>2, <2>4, YieldedEvents
  <2>6. left' \in [Runs -> Seq(Calls)]
    BY <1>1, <2>1, <2>2
  <2> QED BY <1>1, <2>2, <2>3, <2>5, <2>6 DEF Goto, TypeOK
<1> QED BY <1>2, <1>3, <1>4, <1>5, <1>6, <1>7, <1>8 DEF Acts

-----------------------------------------------------------------------------
\* Answers are counted by the steps.
LEMMA AnswersGrow ==
  ASSUME Dialogue, NEW r \in Runs, NEW role \in {"user", "assistant", "tool"},
         NEW calls \in Seq(Calls), Save(r, role, calls)
  PROVE  /\ \A q \in Runs : IsFiniteSet(Answers(q)') /\ (q # r => Answers(q)' = Answers(q))
         /\ role # "assistant" => Answers(r)' = Answers(r)
         /\ role = "assistant" => Cardinality(Answers(r)') = Cardinality(Answers(r)) + 1
<1> DEFINE n == Len(rows)
<1>1. TypeOK /\ \A q \in Runs : IsFiniteSet(Answers(q))
  BY DEF Dialogue, Counted
<1>2. /\ \A q \in Runs : q # r => Answers(q)' = Answers(q)
      /\ Answers(r)' = IF role = "assistant" THEN Answers(r) \cup {n + 1} ELSE Answers(r)
      /\ n \in Nat /\ DOMAIN rows = 1..n
  BY <1>1, SavedRow
<1>3. n + 1 \notin Answers(r)
  BY <1>2 DEF Answers
<1> HIDE DEF n
<1>4. /\ IsFiniteSet(Answers(r) \cup {n + 1})
      /\ Cardinality(Answers(r) \cup {n + 1}) = Cardinality(Answers(r)) + 1
  BY <1>1, <1>3, FS_AddElement
<1> QED BY <1>1, <1>2, <1>4

\* Every step keeps one answer for each step of a run.
LEMMA CountedStep ==
  ASSUME Dialogue, NEW r \in Runs, Acts(r)
  PROVE  Counted'
<1>1. /\ TypeOK /\ RowsSound /\ Counted
      /\ pc \in [Runs -> {"new", "read", "poll", "llm", "tools", "final", "over"}]
      /\ step \in [Runs -> 0..MaxSteps]
  BY DEF Dialogue, TypeOK
<1>2. CASE SaveInput(r)
  <2>1. \A q \in Runs : Answers(q)' = Answers(q)
    <3>1. <<>> \in Seq(Calls)
      OBVIOUS
    <3> QED BY <1>2, <3>1, AnswersGrow DEF SaveInput
  <2>2. pc' = [pc EXCEPT ![r] = "read"] /\ step' = step /\ pc[r] = "new"
    BY <1>2 DEF SaveInput, Goto
  <2> QED BY <1>1, <2>1, <2>2 DEF Counted
<1>3. CASE ReadHistory(r)
  <2>1. pc' = [pc EXCEPT ![r] = "poll"] /\ step' = step /\ pc[r] = "read" /\ rows' = rows
    BY <1>3 DEF ReadHistory, Goto
  <2> QED BY <1>1, <2>1 DEF Counted, Answers
<1>4. CASE Poll(r)
  <2>1. /\ pc' = [pc EXCEPT ![r] = "llm"] /\ step' = [step EXCEPT ![r] = @ + 1]
        /\ pc[r] = "poll" /\ rows' = rows
    BY <1>4 DEF Poll, Goto
  <2>2. \A q \in Runs : Answers(q)' = Answers(q)
    BY <2>1 DEF Answers
  <2> QED BY <1>1, <2>1, <2>2 DEF Counted
<1>5. CASE FinishCall(r)
  <2>1. \A q \in Runs : Answers(q)' = Answers(q)
    <3>1. <<Head(left[r])>> \in Seq(Calls)
      BY <1>1, <1>5, NextCall DEF FinishCall, RowsSound, LeftSound
    <3> QED BY <1>5, <3>1, AnswersGrow DEF FinishCall
  <2>2. (pc' = [pc EXCEPT ![r] = "poll"] \/ pc' = pc) /\ step' = step /\ pc[r] = "tools"
    BY <1>5 DEF FinishCall, Goto
  <2> QED BY <1>1, <2>1, <2>2 DEF Counted
<1>6. CASE Settle(r) \/ Fail(r)
  <2>1. pc' = [pc EXCEPT ![r] = "over"] /\ step' = step /\ rows' = rows
    BY <1>6 DEF Settle, Fail, Goto
  <2> QED BY <1>1, <2>1 DEF Counted, Answers
<1>7. ASSUME NEW n \in 0..MaxCalls, NEW reason \in {"tool_calls", "stop"}, Answer(r, n, reason)
      PROVE  Counted'
  <2> DEFINE calls == [c \in 1..n |-> [run |-> r, step |-> step[r], place |-> c]]
  <2>1. calls \in Seq(Calls)
    BY <1>1, AnsweredCalls
  <2>2. /\ Save(r, "assistant", calls) /\ step' = step /\ pc[r] = "llm"
        /\ pc' = [pc EXCEPT ![r] = "tools"] \/ pc' = [pc EXCEPT ![r] = "final"]
    BY <1>7 DEF Answer, Goto
  <2> HIDE DEF calls
  <2>3. /\ \A q \in Runs : IsFiniteSet(Answers(q)') /\ (q # r => Answers(q)' = Answers(q))
        /\ Cardinality(Answers(r)') = Cardinality(Answers(r)) + 1
    BY <2>1, <2>2, AnswersGrow
  <2> QED BY <1>1, <2>2, <2>3 DEF Counted
<1> QED BY <1>2, <1>3, <1>4, <1>5, <1>6, <1>7 DEF Acts

-----------------------------------------------------------------------------
\* A stream is told on only by its own run.
LEMMA OthersTell ==
  ASSUME Dialogue, NEW q \in Streams, events'[q] = events[q], pc'[q] = pc[q],
         status'[q] = status[q], Answers(q)' = Answers(q)
  PROVE  TellsRun(q)' /\ Telling(q)'
<1>1. TellsRun(q) /\ Telling(q)
  BY DEF Dialogue, Told, StreamTellsRun
<1> QED BY <1>1 DEF TellsRun, Telling

\* A stream at work has told of no end.
LEMMA Unended ==
  ASSUME Dialogue, NEW r \in Streams, pc[r] # "over"
  PROVE  /\ Len(events[r]) \in Nat /\ Len(events[r]) > 0
         /\ \A i \in 1..Len(events[r]) :
               /\ events[r][i].name \notin {"run.completed", "error"}
               /\ events[r][i].status \in {"none", "IN_PROGRESS"}
               /\ events[r][i].name = "tool_call.started" =>
                     IF i = Len(events[r]) THEN pc[r] = "tools"
                     ELSE events[r][i + 1].name \in {"tool_call.completed", "error"}
               /\ events[r][i].name = "message.completed" => pc[r] = "final"
<1>1. events[r] \in Seq(Events) /\ TellsRun(r) /\ Telling(r)
  BY DEF Dialogue, TypeOK, Told, StreamTellsRun
<1>2. Len(events[r]) \in Nat
  BY <1>1
<1> QED BY <1>1, <1>2 DEF TellsRun, Telling

\* A step that nothing is told of.
LEMMA TellNothing ==
  ASSUME Dialogue, NEW r \in Streams, events'[r] = events[r],
         pc[r] \notin {"tools", "final", "over"}, pc'[r] \notin {"tools", "final", "over"}
  PROVE  TellsRun(r)' /\ Telling(r)'
<1> DEFINE n == Len(events[r])
<1>1. /\ n \in Nat /\ n > 0
      /\ \A i \in 1..n :
            /\ events[r][i].name \notin {"run.completed", "error"}
            /\ events[r][i].status \in {"none", "IN_PROGRESS"}
            /\ events[r][i].name = "tool_call.started" =>
                  IF i = n THEN pc[r] = "tools"
                  ELSE events[r][i + 1].name \in {"tool_call.completed", "error"}
            /\ events[r][i].name # "message.completed"
  BY Unended
<1>2. n \in 1..n
  BY <1>1
<1> QED BY <1>1, <1>2 DEF TellsRun, Telling

\* An event within a run.
LEMMA TellMore ==
  ASSUME Dialogue, NEW r \in Streams, NEW e,
         Len(events'[r]) = Len(events[r]) + 1,
         \A i \in 1..Len(events[r]) : events'[r][i] = events[r][i],
         events'[r][Len(events[r]) + 1] = e, e.status = "none",
         e.name \in {"message.completed", "tool_call.started", "tool_call.completed"},
         pc[r] \notin {"final", "over"}, pc'[r] # "over",
         pc[r] = "tools" => e.name = "tool_call.completed",
         e.name = "message.completed" <=> pc'[r] = "final",
         e.name = "tool_call.started" <=> pc'[r] = "tools"
  PROVE  TellsRun(r)' /\ Telling(r)'
<1> DEFINE n == Len(events[r])
           f == events'[r]
<1>1. /\ n \in Nat /\ n > 0 /\ Len(f) = n + 1
      /\ \A i \in 1..n :
            /\ f[i].name \notin {"run.completed", "error"}
            /\ f[i].status \in {"none", "IN_PROGRESS"}
            /\ f[i].name = "tool_call.started" =>
                  IF i = n THEN pc[r] = "tools"
                  ELSE f[i + 1].name \in {"tool_call.completed", "error"}
            /\ f[i].name # "message.completed"
  <2>1. n \in Nat /\ n > 0 /\ Len(f) = n + 1
    BY Unended
  <2>2. ASSUME NEW i \in 1..n
        PROVE  /\ f[i].name \notin {"run.completed", "error"}
               /\ f[i].status \in {"none", "IN_PROGRESS"}
               /\ f[i].name # "message.completed"
    BY Unended
  <2>3. ASSUME NEW i \in 1..n, f[i].name = "tool_call.started"
        PROVE  IF i = n THEN pc[r] = "tools"
               ELSE f[i + 1].name \in {"tool_call.completed", "error"}
    <3>1. f[i] = events[r][i] /\ (i # n => i + 1 \in 1..n /\ f[i + 1] = events[r][i + 1])
      BY <2>1
    <3> QED BY <2>3, <3>1, Unended
  <2> QED BY <2>1, <2>2, <2>3
<1>2. f[n + 1] = e
  OBVIOUS
<1> HIDE DEF n, f
<1>3. \A i \in 1..(n + 1) : i \in 1..n \/ i = n + 1
  BY <1>1
<1>4. n + 1 \in 1..(n + 1) /\ n + 1 # n
  BY <1>1
<1>5. ASSUME NEW i \in 1..(n + 1), f[i].name = "tool_call.started"
      PROVE  IF i = n + 1 THEN pc'[r] = "tools"
             ELSE f[i + 1].name \in {"tool_call.completed", "error"}
  <2>1. CASE i = n + 1
    BY <1>2, <1>5, <2>1
  <2>2. CASE i \in 1..n
    BY <1>1, <1>2, <1>5, <2>2
  <2> QED BY <1>3, <2>1, <2>2
<1>6. TellsRun(r)'
  <2>1. \A i \in 1..(n + 1) : f[i].name \notin {"run.completed", "error"}
    BY <1>1, <1>2, <1>3
  <2>2. f[n + 1].status = "none"
    BY <1>2
  <2> QED BY <1>1, <1>4, <1>5, <2>1, <2>2 DEF TellsRun, f
<1>7. Telling(r)'
  <2>1. \A i \in 1..(n + 1) : f[i].status \in {"none", "IN_PROGRESS"}
    BY <1>1, <1>2, <1>3
  <2>2. \A i \in 1..(n + 1) : f[i].name = "message.completed" => pc'[r] = "final"
    BY <1>1, <1>2, <1>3
  <2> QED BY <1>1, <1>2, <1>4, <2>1, <2>2 DEF Telling, f
<1> QED BY <1>6, <1>7

\* The end of one call and the start of the next.
LEMMA TellTwo ==
  ASSUME Dialogue, NEW r \in Streams,
         Len(events'[r]) = Len(events[r]) + 2,
         \A i \in 1..Len(events[r]) : events'[r][i] = events[r][i],
         events'[r][Len(events[r]) + 1] = Event("tool_call.completed", "none"),
         events'[r][Len(events[r]) + 2] = Event("tool_call.started", "none"),
         pc[r] = "tools", pc'[r] = "tools"
  PROVE  TellsRun(r)' /\ Telling(r)'
<1> DEFINE n == Len(events[r])
           f == events'[r]
<1>1. /\ n \in Nat /\ n > 0 /\ Len(f) = n + 2
  BY Unended
<1>2. /\ f[n + 1].name = "tool_call.completed" /\ f[n + 1].status = "none"
      /\ f[n + 2].name = "tool_call.started" /\ f[n + 2].status = "none"
  BY DEF Event
<1>3. \A i \in 1..n :
            /\ f[i].name \notin {"run.completed", "error"}
            /\ f[i].status \in {"none", "IN_PROGRESS"}
            /\ f[i].name # "message.completed"
  BY Unended
<1>4. ASSUME NEW i \in 1..n, f[i].name = "tool_call.started"
      PROVE  f[i + 1].name \in {"tool_call.completed", "error"}
  <2>1. CASE i = n
    BY <1>2, <2>1
  <2>2. CASE i # n
    <3>1. f[i] = events[r][i] /\ i + 1 \in 1..n /\ f[i + 1] = events[r][i + 1]
      BY <1>1, <2>2
    <3> QED BY <1>4, <2>2, <3>1, Unended
  <2> QED BY <2>1, <2>2
<1> HIDE DEF n, f
<1>5. \A i \in 1..(n + 2) : i \in 1..n \/ i = n + 1 \/ i = n + 2
  BY <1>1
<1>6. n + 2 \in 1..(n + 2) /\ \A i \in 1..n : i # n + 2
  BY <1>1
<1>7. \A i \in 1..(n + 2) : /\ f[i].name \notin {"run.completed", "error", "message.completed"}
                            /\ f[i].status \in {"none", "IN_PROGRESS"}
  BY <1>2, <1>3, <1>5
<1>8. ASSUME NEW i \in 1..(n + 2), f[i].name = "tool_call.started"
      PROVE  IF i = n + 2 THEN pc'[r] = "tools"
             ELSE f[i + 1].name \in {"tool_call.completed", "error"}
  BY <1>2, <1>4, <1>5, <1>8
<1>9. TellsRun(r)'
  BY <1>1, <1>2, <1>6, <1>7, <1>8 DEF TellsRun, f
<1>10. Telling(r)'
  BY <1>1, <1>2, <1>6, <1>7 DEF Telling, f
<1> QED BY <1>9, <1>10

\* The event that ends a stream.
LEMMA TellEnd ==
  ASSUME Dialogue, NEW r \in Streams, NEW e,
         Len(events'[r]) = Len(events[r]) + 1,
         \A i \in 1..Len(events[r]) : events'[r][i] = events[r][i],
         events'[r][Len(events[r]) + 1] = e, pc[r] # "over", pc'[r] = "over",
         \/ e.name = "error" /\ e.status = "none"
         \/ /\ e.name = "run.completed" /\ e.status = status'[r] /\ pc[r] # "tools"
            /\ e.status = "COMPLETED" <=> pc[r] = "final"
            /\ e.status = "TIMEOUT" => Cardinality(Answers(r)') = MaxSteps
            /\ e.status = "CANCELLED" => Cardinality(Answers(r)') < MaxSteps
  PROVE  TellsRun(r)' /\ Telling(r)'
<1> DEFINE n == Len(events[r])
           f == events'[r]
<1>1. n \in Nat /\ n > 0 /\ Len(f) = n + 1
  BY Unended
<1>2. \A i \in 1..n :
            /\ f[i].name \notin {"run.completed", "error"}
            /\ f[i].status \in {"none", "IN_PROGRESS"}
            /\ f[i].name = "message.completed" => pc[r] = "final"
  BY Unended
<1>3. ASSUME NEW i \in 1..n, f[i].name = "tool_call.started"
      PROVE  f[i + 1].name \in {"tool_call.completed", "error"}
  <2>1. CASE i = n
    <3>1. pc[r] = "tools"
      BY <1>3, <2>1, Unended
    <3> QED BY <2>1, <3>1
  <2>2. CASE i # n
    <3>1. f[i] = events[r][i] /\ i + 1 \in 1..n /\ f[i + 1] = events[r][i + 1]
      BY <1>1, <2>2
    <3> QED BY <1>3, <2>2, <3>1, Unended
  <2> QED BY <2>1, <2>2
<1>4. f[n + 1] = e
  OBVIOUS
<1>5. pc[r] = "final" => \E i \in 1..n : f[i].name = "message.completed"
  <2>1. Telling(r)
    BY DEF Dialogue, Told
  <2> QED BY <1>1, <2>1 DEF Telling
<1> HIDE DEF n, f
<1>6. \A i \in 1..(n + 1) : i \in 1..n \/ i = n + 1
  BY <1>1
<1>7. n + 1 \in 1..(n + 1) /\ \A i \in 1..n : i # n + 1 /\ i \in 1..(n + 1)
  BY <1>1
<1>8. \A i \in 1..(n + 1) : f[i].name \in {"run.completed", "error"} <=> i = n + 1
  BY <1>2, <1>4, <1>6, <1>7
<1>9. ASSUME NEW i \in 1..(n + 1), f[i].name = "tool_call.started"
      PROVE  i # n + 1 /\ f[i + 1].name \in {"tool_call.completed", "error"}
  BY <1>3, <1>4, <1>6, <1>7, <1>9
<1>10. (\E i \in 1..(n + 1) : f[i].name = "message.completed") <=> pc[r] = "final"
  BY <1>2, <1>4, <1>5, <1>6, <1>7
<1>11. TellsRun(r)'
  BY <1>1, <1>4, <1>8, <1>9, <1>10 DEF TellsRun, f
<1>12. Telling(r)'
  BY <1>1, <1>2, <1>4, <1>6 DEF Telling, f
<1> QED BY <1>11, <1>12

\* Every step keeps what streams have told.
LEMMA StreamStep ==
  ASSUME Dialogue, NEW r \in Runs, Acts(r)
  PROVE  Told' /\ StreamTellsRun'
<1>1. /\ TypeOK /\ RowsSound /\ Counted
      /\ pc \in [Runs -> {"new", "read", "poll", "llm", "tools", "final", "over"}]
      /\ step \in [Runs -> 0..MaxSteps] /\ Streams \subseteq Runs
      /\ status \in [Runs -> Statuses]
  BY DEF Dialogue, TypeOK
<1>2. SUFFICES \A q \in Streams : TellsRun(q)' /\ Telling(q)'
  BY DEF Told, StreamTellsRun
<1>3. CASE SaveInput(r)
  <2>1. \A q \in Runs : Answers(q)' = Answers(q)
    <3>1. <<>> \in Seq(Calls)
      OBVIOUS
    <3> QED BY <1>3, <3>1, AnswersGrow DEF SaveInput
  <2>2. pc' = [pc EXCEPT ![r] = "read"] /\ status' = status /\ events' = events /\ pc[r] = "new"
    BY <1>3 DEF SaveInput, Goto
  <2>3. ASSUME NEW q \in Streams, q # r PROVE TellsRun(q)' /\ Telling(q)'
    BY <1>1, <2>1, <2>2, <2>3, OthersTell
  <2>4. ASSUME r \in Streams PROVE TellsRun(r)' /\ Telling(r)'
    BY <1>1, <2>2, <2>4, TellNothing
  <2> QED BY <2>3, <2>4
<1>4. CASE ReadHistory(r) \/ Poll(r)
  <2>1. \A q \in Runs : Answers(q)' = Answers(q)
    BY <1>4 DEF ReadHistory, Poll, Answers
  <2>2. /\ pc' = [pc EXCEPT ![r] = "poll"] \/ pc' = [pc EXCEPT ![r] = "llm"]
        /\ status' = status /\ events' = events /\ pc[r] \in {"read", "poll"}
    BY <1>4 DEF ReadHistory, Poll, Goto
  <2>3. ASSUME NEW q \in Streams, q # r PROVE TellsRun(q)' /\ Telling(q)'
    BY <1>1, <2>1, <2>2, <2>3, OthersTell
  <2>4. ASSUME r \in Streams PROVE TellsRun(r)' /\ Telling(r)'
    BY <1>1, <2>2, <2>4, TellNothing
  <2> QED BY <2>3, <2>4
<1>5. CASE FinishCall(r)
  <2>1. Len(left[r]) > 0 /\ <<Head(left[r])>> \in Seq(Calls)
    BY <1>1, <1>5, NextCall DEF FinishCall, RowsSound, LeftSound
  <2>2. \A q \in Runs : Answers(q)' = Answers(q)
    BY <1>5, <2>1, AnswersGrow DEF FinishCall
  <2>3. Event("tool_call.started", "none") \in Events /\ Event("tool_call.completed", "none") \in Events
    BY EventTypes
  <2> DEFINE c == Event("tool_call.completed", "none")
             d == Event("tool_call.started", "none")
  <2>4. CASE Len(left[r]) = 1
    <3>1. /\ pc' = [pc EXCEPT ![r] = "poll"] /\ status' = status /\ pc[r] = "tools"
          /\ Yield(r, <<c>>)
      BY <1>5, <2>4 DEF FinishCall, Goto
    <3>2. c.name = "tool_call.completed" /\ c.status = "none"
      BY DEF Event
    <3> HIDE DEF c
    <3>3. <<c>> \in Seq(Events) /\ Len(<<c>>) = 1 /\ <<c>>[1] = c
      BY <2>3 DEF c
    <3>4. ASSUME NEW q \in Streams, q # r PROVE TellsRun(q)' /\ Telling(q)'
      BY <1>1, <2>2, <3>1, <3>3, <3>4, YieldedEvents, OthersTell
    <3>5. ASSUME r \in Streams PROVE TellsRun(r)' /\ Telling(r)'
      <4> DEFINE es == <<c>>
      <4>1. es \in Seq(Events) /\ Len(es) = 1 /\ es[1] = c /\ Yield(r, es)
        BY <3>1, <3>3
      <4> HIDE DEF es
      <4>2. /\ Len(events'[r]) = Len(events[r]) + 1
            /\ \A i \in 1..Len(events[r]) : events'[r][i] = events[r][i]
            /\ events'[r][Len(events[r]) + 1] = c
        BY <1>1, <3>5, <4>1, YieldedOwn
      <4> QED BY <1>1, <3>1, <3>2, <3>5, <4>2, TellMore
    <3> QED BY <3>4, <3>5
  <2>5. CASE Len(left[r]) # 1
    <3>1. pc' = pc /\ status' = status /\ pc[r] = "tools" /\ Yield(r, <<c, d>>)
      BY <1>5, <2>5 DEF FinishCall
    <3> DEFINE es == <<c, d>>
    <3>2. es \in Seq(Events) /\ Len(es) = 2 /\ es[1] = c /\ es[2] = d /\ Yield(r, es)
      BY <2>3, <3>1
    <3> HIDE DEF es
    <3>4. ASSUME NEW q \in Streams, q # r PROVE TellsRun(q)' /\ Telling(q)'
      BY <1>1, <2>2, <3>1, <3>2, <3>4, YieldedEvents, OthersTell
    <3>5. ASSUME r \in Streams PROVE TellsRun(r)' /\ Telling(r)'
      <4>1. /\ Len(events'[r]) = Len(events[r]) + 2
            /\ \A i \in 1..Len(events[r]) : events'[r][i] = events[r][i]
            /\ events'[r][Len(events[r]) + 1] = c
            /\ events'[r][Len(events[r]) + 2] = d
        BY <1>1, <3>2, <3>5, YieldedOwn
      <4> QED BY <1>1, <3>1, <3>5, <4>1, TellTwo
    <3> QED BY <3>4, <3>5
  <2> QED BY <2>4, <2>5
<1>6. CASE Settle(r)
  <2>1. /\ pc' = [pc EXCEPT ![r] = "over"] /\ pc[r] \in {"poll", "final"} /\ rows' = rows
        /\ status' = [status EXCEPT ![r] = Verdict(r)] /\ step' = step
        /\ Yield(r, <<Event("run.completed", status'[r])>>)
    BY <1>6 DEF Settle, Goto
  <2>2. \A q \in Runs : Answers(q)' = Answers(q)
    BY <2>1 DEF Answers
  <2>3. status'[r] = Verdict(r) /\ status'[r] \in Statuses
    BY <1>1, <2>1, VerdictTypes
  <2> DEFINE e == Event("run.completed", status'[r])
             es == <<e>>
  <2>4. e.name = "run.completed" /\ e.status = status'[r] /\ e \in Events
    BY <2>3, EventTypes DEF Event
  <2> HIDE DEF e
  <2>5. es \in Seq(Events) /\ Len(es) = 1 /\ es[1] = e /\ Yield(r, es)
    BY <2>1, <2>4 DEF e
  <2> HIDE DEF es
  <2>6. ASSUME NEW q \in Streams, q # r PROVE TellsRun(q)' /\ Telling(q)'
    BY <1>1, <2>1, <2>2, <2>5, <2>6, YieldedEvents, OthersTell
  <2>7. ASSUME r \in Streams PROVE TellsRun(r)' /\ Telling(r)'
    <3>1. /\ Len(events'[r]) = Len(events[r]) + 1
          /\ \A i \in 1..Len(events[r]) : events'[r][i] = events[r][i]
          /\ events'[r][Len(events[r]) + 1] = e
      BY <1>1, <2>5, <2>7, YieldedOwn
    <3>2. /\ e.status = "COMPLETED" <=> pc[r] = "final"
          /\ e.status = "TIMEOUT" => step[r] = MaxSteps
          /\ e.status = "CANCELLED" => step[r] # MaxSteps
      <4>1. /\ Verdict(r) = "COMPLETED" <=> pc[r] = "final"
            /\ Verdict(r) = "TIMEOUT" => step[r] = MaxSteps
            /\ Verdict(r) = "CANCELLED" => step[r] # MaxSteps
        <5>1. CASE pc[r] = "final"
          BY <5>1 DEF Verdict
        <5>2. CASE pc[r] # "final" /\ step[r] = MaxSteps
          BY <5>2 DEF Verdict
        <5>3. CASE pc[r] # "final" /\ step[r] # MaxSteps
          BY <5>3 DEF Verdict
        <5> QED BY <5>1, <5>2, <5>3
      <4> QED BY <2>3, <2>4, <4>1
    <3>3. Cardinality(Answers(r)') = step[r] /\ step[r] \in 0..MaxSteps
      BY <1>1, <2>1, <2>2 DEF Counted
    <3>4. /\ e.status = "TIMEOUT" => Cardinality(Answers(r)') = MaxSteps
          /\ e.status = "CANCELLED" => Cardinality(Answers(r)') < MaxSteps
      BY <3>2, <3>3
    <3>5. pc'[r] = "over" /\ pc[r] # "over" /\ pc[r] # "tools"
      BY <1>1, <2>1
    <3> QED BY <2>4, <2>7, <3>1, <3>2, <3>4, <3>5, TellEnd
  <2> QED BY <2>6, <2>7
<1>7. CASE Fail(r)
  <2>1. /\ pc' = [pc EXCEPT ![r] = "over"] /\ pc[r] # "over" /\ rows' = rows
        /\ \E s \in {"FAILED", status[r]} : status' = [status EXCEPT ![r] = s]
        /\ Yield(r, <<Event("error", "none")>>)
    BY <1>7 DEF Fail, Goto
  <2>2. \A q \in Runs : Answers(q)' = Answers(q) /\ (q # r => status'[q] = status[q])
    BY <1>1, <2>1 DEF Answers
  <2> DEFINE e == Event("error", "none")
             es == <<e>>
  <2>4. e.name = "error" /\ e.status = "none" /\ e \in Events
    BY EventTypes DEF Event
  <2> HIDE DEF e
  <2>5. es \in Seq(Events) /\ Len(es) = 1 /\ es[1] = e /\ Yield(r, es)
    BY <2>1, <2>4 DEF e
  <2> HIDE DEF es
  <2>6. ASSUME NEW q \in Streams, q # r PROVE TellsRun(q)' /\ Telling(q)'
    BY <1>1, <2>1, <2>2, <2>5, <2>6, YieldedEvents, OthersTell
  <2>7. ASSUME r \in Streams PROVE TellsRun(r)' /\ Telling(r)'
    <3>1. /\ Len(events'[r]) = Len(events[r]) + 1
          /\ \A i \in 1..Len(events[r]) : events'[r][i] = events[r][i]
          /\ events'[r][Len(events[r]) + 1] = e
      BY <1>1, <2>5, <2>7, YieldedOwn
    <3>2. pc'[r] = "over" /\ pc[r] # "over"
      BY <1>1, <2>1
    <3> QED BY <2>4, <2>7, <3>1, <3>2, TellEnd
  <2> QED BY <2>6, <2>7
<1>8. ASSUME NEW n \in 0..MaxCalls, NEW reason \in {"tool_calls", "stop"}, Answer(r, n, reason)
      PROVE  \A q \in Streams : TellsRun(q)' /\ Telling(q)'
  <2> DEFINE calls == [c \in 1..n |-> [run |-> r, step |-> step[r], place |-> c]]
  <2>1. calls \in Seq(Calls)
    BY <1>1, AnsweredCalls
  <2>2. /\ Save(r, "assistant", calls) /\ status' = status /\ pc[r] = "llm"
        /\ \/ /\ pc' = [pc EXCEPT ![r] = "tools"]
              /\ Yield(r, <<Event("tool_call.started", "none")>>)
           \/ /\ pc' = [pc EXCEPT ![r] = "final"]
              /\ Yield(r, <<Event("message.completed", "none")>>)
    BY <1>8 DEF Answer, Goto
  <2> HIDE DEF calls
  <2>3. \A q \in Runs : q # r => Answers(q)' = Answers(q)
    BY <2>1, <2>2, AnswersGrow
  <2>4. PICK e \in Events :
           /\ Yield(r, <<e>>) /\ e.status = "none"
           /\ \/ pc' = [pc EXCEPT ![r] = "tools"] /\ e.name = "tool_call.started"
              \/ pc' = [pc EXCEPT ![r] = "final"] /\ e.name = "message.completed"
    <3>1. /\ Event("tool_call.started", "none") \in Events
          /\ Event("message.completed", "none") \in Events
      BY EventTypes
    <3>2. /\ Event("tool_call.started", "none").name = "tool_call.started"
          /\ Event("tool_call.started", "none").status = "none"
          /\ Event("message.completed", "none").name = "message.completed"
          /\ Event("message.completed", "none").status = "none"
      BY DEF Event
    <3>3. CASE pc' = [pc EXCEPT ![r] = "tools"] /\ Yield(r, <<Event("tool_call.started", "none")>>)
      BY <3>1, <3>2, <3>3
    <3>4. CASE pc' = [pc EXCEPT ![r] = "final"] /\ Yield(r, <<Event("message.completed", "none")>>)
      BY <3>1, <3>2, <3>4
    <3> QED BY <2>2, <3>3, <3>4
  <2> DEFINE es == <<e>>
  <2>5. es \in Seq(Events) /\ Len(es) = 1 /\ es[1] = e /\ Yield(r, es)
    BY <2>4
  <2> HIDE DEF es
  <2>6. ASSUME NEW q \in Streams, q # r PROVE TellsRun(q)' /\ Telling(q)'
    BY <1>1, <2>2, <2>3, <2>5, <2>6, YieldedEvents, OthersTell
  <2>7. ASSUME r \in Streams PROVE TellsRun(r)' /\ Telling(r)'
    <3>1. /\ Len(events'[r]) = Len(events[r]) + 1
          /\ \A i \in 1..Len(events[r]) : events'[r][i] = events[r][i]
          /\ events'[r][Len(events[r]) + 1] = e
      BY <1>1, <2>5, <2>7, YieldedOwn
    <3>2. /\ pc[r] = "llm"
          /\ \/ pc'[r] = "tools" /\ e.name = "tool_call.started"
             \/ pc'[r] = "final" /\ e.name = "message.completed"
      BY <1>1, <2>2, <2>4
    <3> QED BY <2>4, <2>7, <3>1, <3>2, TellMore
  <2> QED BY <2>6, <2>7
<1> QED BY <1>3, <1>4, <1>5, <1>6, <1>7, <1>8 DEF Acts

-----------------------------------------------------------------------------
\* What every step of a run leaves alone: the rows there are, and the other runs.
LEMMA StepFacts ==
  ASSUME Dialogue, NEW r \in Runs, Acts(r)
  PROVE  /\ \A q \in Runs : q # r => /\ pc'[q] = pc[q] /\ left'[q] = left[q]
                                     /\ prompt'[q] = prompt[q] /\ Own(q)' = Own(q)
         /\ pc[r] # "over" /\ pc'[r] # "new"
         /\ upset \subseteq upset' /\ upset' \subseteq Runs
         /\ Len(rows) \in Nat /\ DOMAIN rows = 1..Len(rows)
         /\ DOMAIN rows' = 1..Len(rows')
         /\ Len(rows') \in {Len(rows), Len(rows) + 1}
         /\ rows' = rows \/ Len(rows') = Len(rows) + 1
         /\ \A i \in 1..Len(rows) : rows'[i] = rows[i]
         /\ Len(rows') = Len(rows) + 1 =>
               /\ rows'[Len(rows) + 1].run = r
               /\ Own(r)' = Own(r) \cup {Len(rows) + 1}
               /\ SaveInput(r) \/ pc[r] \in {"llm", "tools"}
<1>1. /\ TypeOK /\ RowsSound
      /\ pc \in [Runs -> {"new", "read", "poll", "llm", "tools", "final", "over"}]
      /\ left \in [Runs -> Seq(Calls)] /\ prompt \in [Runs -> Seq(Nat)] /\ upset \subseteq Runs
      /\ Len(rows) \in Nat /\ DOMAIN rows = 1..Len(rows)
  BY DEF Dialogue, TypeOK
<1>2. \A q \in Runs : q # r => /\ pc'[q] = pc[q] /\ left'[q] = left[q] /\ prompt'[q] = prompt[q]
  BY <1>1 DEF Acts, SaveInput, ReadHistory, Poll, FinishCall, Settle, Fail, Answer, Goto, Push
<1>3. pc[r] # "over" /\ pc'[r] # "new"
  BY <1>1 DEF Acts, SaveInput, ReadHistory, Poll, FinishCall, Settle, Fail, Answer, Goto
<1>4. upset \subseteq upset' /\ upset' \subseteq Runs
  BY <1>1 DEF Acts, SaveInput, ReadHistory, Poll, FinishCall, Settle, Fail, Answer, Upset
<1>5. CASE rows' = rows
  <2>1. \A q \in Runs : Own(q)' = Own(q)
    BY <1>5 DEF Own
  <2>2. Len(rows') # Len(rows) + 1
    <3>1. Len(rows) \in Nat
      BY <1>1
    <3>2. Len(rows') = Len(rows)
      BY <1>5
    <3> QED BY <3>1, <3>2
  <2> QED BY <1>1, <1>2, <1>3, <1>4, <1>5, <2>1, <2>2
<1>6. ASSUME NEW role \in {"user", "assistant", "tool"}, NEW calls \in Seq(Calls),
             Save(r, role, calls), SaveInput(r) \/ pc[r] \in {"llm", "tools"}
      PROVE  /\ \A q \in Runs : q # r => Own(q)' = Own(q)
             /\ DOMAIN rows' = 1..Len(rows') /\ Len(rows') = Len(rows) + 1
             /\ \A i \in 1..Len(rows) : rows'[i] = rows[i]
             /\ rows'[Len(rows) + 1].run = r
             /\ Own(r)' = Own(r) \cup {Len(rows) + 1}
             /\ SaveInput(r) \/ pc[r] \in {"llm", "tools"}
  <2>1. /\ Len(rows') = Len(rows) + 1 /\ DOMAIN rows' = 1..(Len(rows) + 1)
        /\ \A i \in 1..Len(rows) : rows'[i] = rows[i]
        /\ rows'[Len(rows) + 1] = [run |-> r, role |-> role, calls |-> calls]
    BY <1>1, <1>6, SavedRow
  <2>2. Own(r)' = Own(r) \cup {Len(rows) + 1} /\ \A q \in Runs : q # r => Own(q)' = Own(q)
    BY <1>1, <1>6, SavedRow
  <2> QED BY <1>6, <2>1, <2>2
<1>7. CASE SaveInput(r)
  <2>1. <<>> \in Seq(Calls)
    OBVIOUS
  <2>2. Save(r, "user", <<>>)
    BY <1>7 DEF SaveInput
  <2> QED BY <1>1, <1>2, <1>3, <1>4, <1>6, <1>7, <2>1, <2>2
<1>8. CASE FinishCall(r)
  <2>1. <<Head(left[r])>> \in Seq(Calls)
    BY <1>1, <1>8, NextCall DEF FinishCall, RowsSound, LeftSound
  <2>2. Save(r, "tool", <<Head(left[r])>>) /\ pc[r] = "tools"
    BY <1>8 DEF FinishCall
  <2> QED BY <1>1, <1>2, <1>3, <1>4, <1>6, <2>1, <2>2
<1>9. ASSUME NEW n \in 0..MaxCalls, NEW reason \in {"tool_calls", "stop"}, Answer(r, n, reason)
      PROVE  \E calls \in Seq(Calls) : Save(r, "assistant", calls) /\ pc[r] = "llm"
  BY <1>1, <1>9, AnsweredCalls DEF Answer
<1>10. CASE \E n \in 0..MaxCalls, reason \in {"tool_calls", "stop"} : Answer(r, n, reason)
  <2>1. PICK calls \in Seq(Calls) : Save(r, "assistant", calls) /\ pc[r] = "llm"
    BY <1>9, <1>10
  <2> QED BY <1>1, <1>2, <1>3, <1>4, <1>6, <2>1
<1> QED BY <1>5, <1>7, <1>8, <1>10 DEF Acts, ReadHistory, Poll, Settle, Fail

\* The row of an answer, and the calls that begin.
LEMMA AnswerFacts ==
  ASSUME Dialogue, NEW r \in Runs, NEW n \in 0..MaxCalls,
         NEW reason \in {"tool_calls", "stop"}, Answer(r, n, reason)
  PROVE  LET k == Len(rows) + 1
             x == rows'[k]
             p == prompt[r]
         IN  /\ pc[r] = "llm" /\ Len(rows') = k /\ x.role = "assistant"
             /\ x.calls \in Seq(Calls) /\ Len(x.calls) = n
             /\ \/ n > 0 /\ pc'[r] = "tools" /\ left'[r] = x.calls
                \/ pc'[r] = "final" /\ (n = 0 \/ r \in upset')
             /\ Len(p) \in Nat /\ Len(prompt'[r]) = Len(p) + 1
             /\ prompt'[r][Len(p) + 1] = k
             /\ \A i \in 1..Len(p) : prompt'[r][i] = p[i]
<1> DEFINE calls == [c \in 1..n |-> [run |-> r, step |-> step[r], place |-> c]]
<1>1. /\ TypeOK /\ calls \in Seq(Calls) /\ Len(calls) = n
      /\ pc \in [Runs -> {"new", "read", "poll", "llm", "tools", "final", "over"}]
      /\ left \in [Runs -> Seq(Calls)]
  BY AnsweredCalls DEF Dialogue, TypeOK
<1>2. /\ pc[r] = "llm" /\ Save(r, "assistant", calls) /\ Push(r)
      /\ IF n > 0 /\ reason = "tool_calls"
         THEN left' = [left EXCEPT ![r] = calls] /\ Goto(r, "tools")
         ELSE Goto(r, "final")
      /\ Upset(r, n > 0 /\ reason # "tool_calls")
  BY DEF Answer, Begins
<1> HIDE DEF calls
<1>3. /\ Len(rows') = Len(rows) + 1
      /\ rows'[Len(rows) + 1] = [run |-> r, role |-> "assistant", calls |-> calls]
  BY <1>1, <1>2, SavedRow
<1>4. \/ n > 0 /\ pc'[r] = "tools" /\ left'[r] = calls
      \/ pc'[r] = "final" /\ (n = 0 \/ r \in upset')
  BY <1>1, <1>2 DEF Goto, Upset
<1> QED BY <1>1, <1>2, <1>3, <1>4, PushTypes

\* The row of a result, and the calls that are left.
LEMMA FinishFacts ==
  ASSUME Dialogue, NEW r \in Runs, FinishCall(r)
  PROVE  LET k == Len(rows) + 1
             x == rows'[k]
             p == prompt[r]
         IN  /\ pc[r] = "tools" /\ Len(rows') = k /\ x.role = "tool"
             /\ Len(left[r]) \in Nat /\ Len(left[r]) > 0 /\ x.calls = <<left[r][1]>>
             /\ Len(left'[r]) = Len(left[r]) - 1
             /\ \A i \in 1..(Len(left[r]) - 1) : left'[r][i] = left[r][i + 1]
             /\ pc'[r] = IF Len(left[r]) = 1 THEN "poll" ELSE "tools"
             /\ Len(p) \in Nat /\ Len(prompt'[r]) = Len(p) + 1
             /\ prompt'[r][Len(p) + 1] = k
             /\ \A i \in 1..Len(p) : prompt'[r][i] = p[i]
<1>1. /\ TypeOK /\ Len(left[r]) > 0 /\ pc[r] = "tools"
      /\ pc \in [Runs -> {"new", "read", "poll", "llm", "tools", "final", "over"}]
      /\ left \in [Runs -> Seq(Calls)]
  BY DEF Dialogue, TypeOK, RowsSound, LeftSound, FinishCall
<1>2. /\ left[r] \in Seq(Calls) /\ Head(left[r]) = left[r][1] /\ <<Head(left[r])>> \in Seq(Calls)
      /\ Len(Tail(left[r])) = Len(left[r]) - 1
      /\ \A i \in 1..(Len(left[r]) - 1) : Tail(left[r])[i] = left[r][i + 1]
  BY <1>1, NextCall
<1>3. Len(left[r]) \in Nat
  BY <1>2
<1>4. Save(r, "tool", <<Head(left[r])>>) /\ Push(r) /\ left'[r] = Tail(left[r])
  BY <1>1 DEF FinishCall
<1>5. pc'[r] = IF Len(left[r]) = 1 THEN "poll" ELSE "tools"
  BY <1>1 DEF FinishCall, Goto
<1>6. /\ Len(rows') = Len(rows) + 1
      /\ rows'[Len(rows) + 1] = [run |-> r, role |-> "tool", calls |-> <<Head(left[r])>>]
  BY <1>1, <1>2, <1>4, SavedRow
<1> QED BY <1>1, <1>2, <1>3, <1>4, <1>5, <1>6, PushTypes

\* The row of an input.
LEMMA InputFacts ==
  ASSUME Dialogue, NEW r \in Runs, SaveInput(r)
  PROVE  /\ pc[r] = "new" /\ pc'[r] = "read" /\ Len(rows') = Len(rows) + 1
         /\ rows'[Len(rows) + 1].role = "user" /\ rows'[Len(rows) + 1].calls = <<>>
         /\ r \notin upset' => \A q \in Runs : ~AtWork(q)
<1>1. /\ TypeOK /\ <<>> \in Seq(Calls)
      /\ pc \in [Runs -> {"new", "read", "poll", "llm", "tools", "final", "over"}]
  BY DEF Dialogue, TypeOK
<1>2. /\ Len(rows') = Len(rows) + 1
      /\ rows'[Len(rows) + 1] = [run |-> r, role |-> "user", calls |-> <<>>]
  BY <1>1, SavedRow DEF SaveInput
<1> QED BY <1>1, <1>2 DEF SaveInput, Goto, Upset, AtWork

\* The steps that add no row.
LEMMA QuietFacts ==
  ASSUME Dialogue, NEW r \in Runs, ReadHistory(r) \/ Poll(r) \/ Settle(r) \/ Fail(r)
  PROVE  /\ rows' = rows /\ left' = left
         /\ \/ ReadHistory(r) /\ pc[r] = "read" /\ pc'[r] = "poll"
            \/ prompt' = prompt /\ pc[r] = "poll" /\ pc'[r] = "llm"
            \/ prompt' = prompt /\ pc'[r] = "over" /\ (pc[r] = "tools" => r \in upset')
<1>1. pc \in [Runs -> {"new", "read", "poll", "llm", "tools", "final", "over"}]
  BY DEF Dialogue, TypeOK
<1>2. CASE ReadHistory(r)
  BY <1>1, <1>2 DEF ReadHistory, Goto
<1>3. CASE Poll(r)
  BY <1>1, <1>3 DEF Poll, Goto
<1>4. CASE Settle(r)
  BY <1>1, <1>4 DEF Settle, Goto
<1>5. CASE Fail(r)
  BY <1>1, <1>5 DEF Fail, Goto, Upset
<1> QED BY <1>2, <1>3, <1>4, <1>5

\* The rows keep sound.
LEMMA RowsStep ==
  ASSUME Dialogue, NEW r \in Runs, Acts(r)
  PROVE  RowsSound'
<1>0. /\ Len(rows) \in Nat /\ DOMAIN rows = 1..Len(rows) /\ DOMAIN rows' = 1..Len(rows')
      /\ Len(rows') \in {Len(rows), Len(rows) + 1}
      /\ \A i \in 1..Len(rows) : rows'[i] = rows[i]
  BY StepFacts
<1>1. PICK n \in Nat :
         /\ n = Len(rows) /\ Len(rows') \in {n, n + 1}
         /\ \A i \in Nat : 1 <= i /\ i <= n => rows'[i] = rows[i]
  <2>1. PICK n \in Nat : n = Len(rows)
    BY <1>0
  <2>2. \A i \in 1..n : rows'[i] = rows[i]
    BY <1>0, <2>1
  <2>3. \A i \in Nat : 1 <= i /\ i <= n => i \in 1..n
    BY <2>1
  <2>4. Len(rows') \in {n, n + 1}
    BY <1>0, <2>1
  <2> QED BY <2>1, <2>2, <2>3, <2>4
<1>2. Len(rows') = n + 1 => rows'[n + 1].run = r
  BY <1>1, StepFacts
<1>3. pc'[r] # "new" /\ \A q \in Runs : q # r => pc'[q] = pc[q] /\ left'[q] = left[q]
  BY StepFacts
<1>4. \A q \in Runs : q # r => Own(q)' = Own(q)
  BY StepFacts
<1>5. Len(rows') = n + 1 => Own(r)' = Own(r) \cup {n + 1}
  BY <1>1, StepFacts
<1>6. \A i \in 1..n : rows[i].run \in Runs
  <2>1. rows \in Seq(Rows)
    BY DEF Dialogue, TypeOK
  <2>2. \A x \in Rows : x.run \in Runs
    BY DEF Rows
  <2> HIDE DEF Rows
  <2> QED BY <1>1, <2>1, <2>2
<1>7. \A q \in Runs : Own(q) \subseteq 1..n
  BY <1>0, <1>1 DEF Own
<1>8. ASSUME NEW i \in 1..n PROVE RowSound(i)'
  <2>1. rows'[i] = rows[i]
    BY <1>1
  <2>2. \A j \in 1..(i - 1) : rows'[j] = rows[j]
    BY <1>1
  <2>3. RowSound(i) /\ rows[i].run \in Runs
    BY <1>0, <1>1, <1>6 DEF Dialogue, RowsSound
  <2>4. pc'[rows[i].run] # "new"
    BY <1>3, <2>3 DEF RowSound
  <2> QED BY <2>1, <2>2, <2>3, <2>4 DEF RowSound
<1>9. ASSUME Len(rows') = n + 1 PROVE RowSound(n + 1)'
  <2>0. pc'[rows'[n + 1].run] # "new"
    BY <1>2, <1>3, <1>9
  <2>1. CASE SaveInput(r)
    <3>1. rows'[n + 1].role = "user" /\ rows'[n + 1].calls = <<>>
      BY <1>1, <2>1, InputFacts
    <3> QED BY <2>0, <3>1 DEF RowSound
  <2>2. CASE FinishCall(r)
    <3>1. /\ pc[r] = "tools" /\ rows'[n + 1].role = "tool" /\ Len(left[r]) \in Nat
          /\ Len(left[r]) > 0 /\ rows'[n + 1].calls = <<left[r][1]>>
      BY <1>1, <2>2, FinishFacts
    <3>2. PICK j \in Own(r) :
             /\ rows[j].role = "assistant"
             /\ \A k \in 1..Len(left[r]) : \E c \in DOMAIN rows[j].calls :
                   left[r][k] = rows[j].calls[c]
      BY <3>1 DEF Dialogue, RowsSound, LeftSound
    <3>3. PICK c \in DOMAIN rows[j].calls : left[r][1] = rows[j].calls[c]
      BY <3>1, <3>2
    <3>4. j \in 1..n /\ rows[j].run = r
      BY <1>0, <1>1 DEF Own
    <3>5. j \in 1..((n + 1) - 1) /\ rows'[j] = rows[j]
      BY <1>1, <3>4
    <3>6. rows'[n + 1].run = r
      BY <1>2, <1>9
    <3> QED BY <2>0, <3>1, <3>2, <3>3, <3>4, <3>5, <3>6 DEF RowSound
  <2>3. CASE \E k \in 0..MaxCalls, reason \in {"tool_calls", "stop"} : Answer(r, k, reason)
    <3>1. rows'[n + 1].role = "assistant"
      BY <1>1, <2>3, AnswerFacts
    <3> QED BY <2>0, <3>1 DEF RowSound
  <2>4. ~(ReadHistory(r) \/ Poll(r) \/ Settle(r) \/ Fail(r))
    <3> SUFFICES ASSUME ReadHistory(r) \/ Poll(r) \/ Settle(r) \/ Fail(r) PROVE FALSE
      OBVIOUS
    <3>1. Len(rows') = n
      BY <1>1, QuietFacts
    <3> QED BY <1>1, <1>9, <3>1
  <2> QED BY <2>1, <2>2, <2>3, <2>4 DEF Acts
<1>10. ASSUME NEW q \in Runs, q # r PROVE LeftSound(q)'
  <2>1. pc'[q] = pc[q] /\ left'[q] = left[q]
    BY <1>3, <1>10
  <2>2. Own(q)' = Own(q)
    BY <1>4, <1>10
  <2>3. \A j \in Own(q) : rows'[j] = rows[j]
    BY <1>1, <1>7
  <2>4. LeftSound(q)
    BY DEF Dialogue, RowsSound
  <2> QED BY <2>1, <2>2, <2>3, <2>4 DEF LeftSound
<1>11. LeftSound(r)'
  <2>1. CASE SaveInput(r)
    BY <2>1, InputFacts DEF LeftSound
  <2>2. CASE ReadHistory(r) \/ Poll(r) \/ Settle(r) \/ Fail(r)
    <3>1. pc'[r] # "tools"
      BY <2>2, QuietFacts
    <3> QED BY <3>1 DEF LeftSound
  <2>3. CASE FinishCall(r)
    <3>1. /\ pc[r] = "tools" /\ Len(left[r]) \in Nat /\ Len(left[r]) > 0
          /\ Len(left'[r]) = Len(left[r]) - 1
          /\ \A i \in 1..(Len(left[r]) - 1) : left'[r][i] = left[r][i + 1]
          /\ pc'[r] = IF Len(left[r]) = 1 THEN "poll" ELSE "tools"
      BY <2>3, FinishFacts
    <3>2. PICK j \in Own(r) :
             /\ rows[j].role = "assistant"
             /\ \A k \in 1..Len(left[r]) : \E c \in DOMAIN rows[j].calls :
                   left[r][k] = rows[j].calls[c]
      BY <3>1 DEF Dialogue, RowsSound, LeftSound
    <3>3. j \in Own(r)' /\ rows'[j] = rows[j]
      <4>1. Own(r)' = Own(r) \cup {n + 1}
        BY <1>1, <1>5, <2>3, FinishFacts
      <4>2. j \in 1..n
        BY <1>7
      <4> QED BY <1>1, <4>1, <4>2
    <3>4. ASSUME NEW k \in 1..Len(left'[r])
          PROVE  \E c \in DOMAIN rows'[j].calls : left'[r][k] = rows'[j].calls[c]
      <4>1. k \in 1..(Len(left[r]) - 1) /\ k + 1 \in 1..Len(left[r])
        BY <3>1
      <4>2. left'[r][k] = left[r][k + 1]
        BY <3>1, <4>1
      <4> QED BY <3>2, <3>3, <4>1, <4>2
    <3>5. pc'[r] = "tools" => Len(left'[r]) > 0
      <4> DEFINE x == Len(left[r])
      <4>1. x \in Nat /\ x > 0 /\ Len(left'[r]) = x - 1 /\ (x = 1 => pc'[r] # "tools")
        BY <3>1
      <4> HIDE DEF x
      <4> QED BY <4>1
    <3> QED BY <3>2, <3>3, <3>4, <3>5 DEF LeftSound
  <2>4. CASE \E k \in 0..MaxCalls, reason \in {"tool_calls", "stop"} : Answer(r, k, reason)
    <3>1. PICK k \in 0..MaxCalls, reason \in {"tool_calls", "stop"} : Answer(r, k, reason)
      BY <2>4
    <3>2. /\ rows'[n + 1].role = "assistant" /\ Len(rows') = n + 1
          /\ rows'[n + 1].calls \in Seq(Calls) /\ Len(rows'[n + 1].calls) = k
          /\ pc'[r] = "tools" => k > 0 /\ left'[r] = rows'[n + 1].calls
      BY <1>1, <3>1, AnswerFacts
    <3>3. n + 1 \in Own(r)'
      BY <1>5, <3>2
    <3> DEFINE calls == rows'[n + 1].calls
    <3>4. \A i \in 1..Len(calls) : i \in DOMAIN calls
      BY <3>2
    <3> QED BY <3>2, <3>3, <3>4 DEF LeftSound
  <2> QED BY <2>1, <2>2, <2>3, <2>4 DEF Acts
<1>12. ASSUME NEW i \in DOMAIN rows' PROVE RowSound(i)'
  <2>1. i \in 1..n \/ (i = n + 1 /\ Len(rows') = n + 1)
    <3>1. PICK k \in Nat : k = Len(rows') /\ (k = n \/ k = n + 1)
      BY <1>1
    <3>2. i \in 1..k
      BY <1>0, <3>1
    <3>3. i \in 1..n \/ (i = n + 1 /\ k = n + 1)
      BY <3>1, <3>2
    <3> QED BY <3>1, <3>3
  <2> QED BY <1>8, <1>9, <2>1
<1>13. \A q \in Runs : LeftSound(q)'
  BY <1>10, <1>11
<1> QED BY <1>12, <1>13 DEF RowsSound

\* The thread before and after a step: it grows by a row of the run, or not at all.
LEMMA Thread ==
  ASSUME Dialogue, NEW r \in Runs, Acts(r)
  PROVE  \E n, k \in Nat :
            /\ n = Len(rows) /\ DOMAIN rows = 1..n
            /\ k = Len(rows') /\ DOMAIN rows' = 1..k
            /\ k = n \/ k = n + 1
            /\ \A i \in 1..n : rows'[i] = rows[i] /\ rows[i].run \in Runs
            /\ k = n + 1 => rows'[k].run = r
<1>1. /\ Len(rows) \in Nat /\ DOMAIN rows = 1..Len(rows) /\ DOMAIN rows' = 1..Len(rows')
      /\ Len(rows') \in {Len(rows), Len(rows) + 1}
      /\ \A i \in 1..Len(rows) : rows'[i] = rows[i]
      /\ Len(rows') = Len(rows) + 1 => rows'[Len(rows) + 1].run = r
  BY StepFacts
<1>2. PICK n \in Nat : n = Len(rows)
  BY <1>1
<1>3. PICK k \in Nat : k = Len(rows')
  <2>1. Len(rows') = n \/ Len(rows') = n + 1
    BY <1>1, <1>2
  <2>2. n + 1 \in Nat
    OBVIOUS
  <2> QED BY <2>1, <2>2
<1>4. ASSUME NEW i \in 1..n PROVE rows[i].run \in Runs
  <2>1. rows \in Seq(Rows) /\ \A x \in Rows : x.run \in Runs
    BY DEF Dialogue, TypeOK, Rows
  <2> QED BY <1>2, <2>1
<1>5. \A i \in 1..n : rows'[i] = rows[i]
  BY <1>1, <1>2
<1>6. /\ DOMAIN rows = 1..n /\ DOMAIN rows' = 1..k /\ (k = n \/ k = n + 1)
      /\ k = n + 1 => rows'[k].run = r
  BY <1>1, <1>2, <1>3
<1> QED BY <1>2, <1>3, <1>4, <1>5, <1>6

\* Where a run goes from where it is.
LEMMA Moves ==
  ASSUME Dialogue, NEW r \in Runs, Acts(r)
  PROVE  /\ pc'[r] = "read" => SaveInput(r)
         /\ pc[r] = "new" => SaveInput(r) \/ pc'[r] = "over"
         /\ \A q \in Runs : pc[q] = "over" => pc'[q] = "over" /\ q # r
         /\ pc'[r] = "llm" => pc[r] = "poll"
<1>1. pc \in [Runs -> {"new", "read", "poll", "llm", "tools", "final", "over"}]
  BY DEF Dialogue, TypeOK
<1>2. pc[r] # "over" /\ \A q \in Runs : q # r => pc'[q] = pc[q]
  BY StepFacts
<1>3. CASE SaveInput(r)
  BY <1>1, <1>2, <1>3 DEF SaveInput, Goto
<1>4. CASE FinishCall(r)
  BY <1>2, <1>4, FinishFacts
<1>5. CASE \E n \in 0..MaxCalls, reason \in {"tool_calls", "stop"} : Answer(r, n, reason)
  BY <1>2, <1>5, AnswerFacts
<1>6. CASE ReadHistory(r) \/ Poll(r) \/ Settle(r) \/ Fail(r)
  <2>1. /\ pc[r] = "new" => pc'[r] = "over"
        /\ pc'[r] # "read"
        /\ pc'[r] = "llm" => pc[r] = "poll"
    BY <1>6, QuietFacts
  <2> QED BY <1>2, <2>1
<1> QED BY <1>3, <1>4, <1>5, <1>6 DEF Acts

\* A run that begins while another is at work is upset.
LEMMA AloneStep ==
  ASSUME Dialogue, NEW r \in Runs, Acts(r)
  PROVE  Alone'
<1>1. upset \subseteq upset' /\ pc[r] # "over" /\ \A q \in Runs : q # r => pc'[q] = pc[q]
  BY StepFacts
<1>2. ASSUME NEW q \in Runs, q # r, q \notin upset', r \notin upset'
      PROVE  ~(AtWork(q)' /\ AtWork(r)')
  <2>1. CASE pc[r] = "new"
    <3>1. CASE SaveInput(r)
      BY <1>1, <1>2, <3>1, InputFacts DEF AtWork
    <3>2. CASE pc'[r] = "over"
      BY <3>2 DEF AtWork
    <3> QED BY <2>1, <3>1, <3>2, Moves
  <2>2. CASE pc[r] # "new"
    <3>1. AtWork(r) /\ (AtWork(q)' => AtWork(q))
      BY <1>1, <1>2, <2>2 DEF AtWork
    <3> QED BY <1>1, <1>2, <3>1 DEF Dialogue, Alone
  <2> QED BY <2>1, <2>2
<1>3. ASSUME NEW q \in Runs, NEW s \in Runs, q # r, s # r, q # s, q \notin upset', s \notin upset'
      PROVE  ~(AtWork(q)' /\ AtWork(s)')
  <2>1. /\ AtWork(q)' => AtWork(q)
        /\ AtWork(s)' => AtWork(s)
    BY <1>1, <1>3 DEF AtWork
  <2> QED BY <1>1, <1>3, <2>1 DEF Dialogue, Alone
<1>4. ASSUME NEW q \in Runs \ upset', NEW s \in Runs \ upset', q # s
      PROVE  ~(AtWork(q)' /\ AtWork(s)')
  <2>1. CASE q = r
    BY <1>2, <1>4, <2>1
  <2>2. CASE s = r
    BY <1>2, <1>4, <2>2
  <2> QED BY <1>3, <1>4, <2>1, <2>2
<1> QED BY <1>4 DEF Alone

\* The input of a run is in the thread before it reads.
LEMMA OpenedStep ==
  ASSUME Dialogue, NEW r \in Runs, Acts(r)
  PROVE  Opened'
<1>1. PICK n, k \in Nat :
         /\ n = Len(rows) /\ DOMAIN rows = 1..n
         /\ k = Len(rows') /\ DOMAIN rows' = 1..k
         /\ k = n \/ k = n + 1
         /\ \A i \in 1..n : rows'[i] = rows[i] /\ rows[i].run \in Runs
         /\ k = n + 1 => rows'[k].run = r
  BY Thread
<1>2. /\ upset \subseteq upset' /\ pc[r] # "over" /\ \A q \in Runs : q # r => pc'[q] = pc[q]
      /\ k = n + 1 => SaveInput(r) \/ pc[r] \in {"llm", "tools"}
  BY <1>1, StepFacts
<1>3. ASSUME NEW q \in Runs, q # r, pc'[q] = "read"
      PROVE  \E m \in DOMAIN rows' :
                /\ Own(q)' = {m} /\ rows'[m].role = "user"
                /\ q \notin upset' =>
                      /\ \A i \in 1..(m - 1) : pc'[rows'[i].run] = "over"
                      /\ \A i \in (m + 1)..Len(rows') : rows'[i].run \in upset'
  <2>1. PICK m \in DOMAIN rows :
           /\ Own(q) = {m} /\ rows[m].role = "user"
           /\ q \notin upset =>
                 /\ \A i \in 1..(m - 1) : pc[rows[i].run] = "over"
                 /\ \A i \in (m + 1)..Len(rows) : rows[i].run \in upset
    BY <1>2, <1>3 DEF Dialogue, Opened
  <2>2. m \in 1..n /\ m \in DOMAIN rows' /\ rows'[m].role = "user"
    BY <1>1, <2>1
  <2>3. Own(q)' = {m}
    <3>1. Own(q)' = Own(q)
      BY <1>3, StepFacts
    <3> QED BY <2>1, <3>1
  <2>4. ASSUME q \notin upset', NEW i \in 1..(m - 1) PROVE pc'[rows'[i].run] = "over"
    <3>1. i \in 1..n
      BY <1>1, <2>2
    <3>2. pc[rows[i].run] = "over" /\ rows'[i] = rows[i] /\ rows[i].run \in Runs
      BY <1>1, <1>2, <2>1, <2>4, <3>1
    <3> QED BY <3>2, Moves
  <2>5. ASSUME q \notin upset', NEW i \in (m + 1)..k PROVE rows'[i].run \in upset'
    <3>1. i \in (m + 1)..n \/ (i = k /\ k = n + 1)
      BY <1>1, <2>2
    <3>2. CASE i \in (m + 1)..n
      <4>1. i \in 1..n
        BY <1>1, <2>2, <3>2
      <4>2. rows'[i] = rows[i] /\ rows[i].run \in upset
        BY <1>1, <1>2, <2>1, <2>5, <3>2, <4>1
      <4> QED BY <1>2, <4>2
    <3>3. CASE i = k /\ k = n + 1
      <4>1. AtWork(q)
        BY <1>2, <1>3 DEF AtWork
      <4>2. CASE SaveInput(r)
        <5>1. r \in upset'
          BY <4>1, <4>2, InputFacts
        <5> QED BY <1>1, <3>3, <5>1
      <4>3. CASE pc[r] \in {"llm", "tools"}
        <5>1. AtWork(r)
          BY <4>3 DEF AtWork
        <5>2. q \notin upset
          BY <1>2, <2>5
        <5>3. r \in upset
          BY <1>3, <4>1, <5>1, <5>2 DEF Dialogue, Alone
        <5> QED BY <1>1, <1>2, <3>3, <5>3
      <4> QED BY <1>2, <3>3, <4>2, <4>3
    <3> QED BY <3>1, <3>2, <3>3
  <2> QED BY <1>1, <2>2, <2>3, <2>4, <2>5
<1>4. ASSUME pc'[r] = "read"
      PROVE  \E m \in DOMAIN rows' :
                /\ Own(r)' = {m} /\ rows'[m].role = "user"
                /\ r \notin upset' =>
                      /\ \A i \in 1..(m - 1) : pc'[rows'[i].run] = "over"
                      /\ \A i \in (m + 1)..Len(rows') : rows'[i].run \in upset'
  <2>1. SaveInput(r)
    BY <1>4, Moves
  <2>2. /\ pc[r] = "new" /\ k = n + 1 /\ rows'[k].role = "user"
        /\ r \notin upset' => \A q \in Runs : ~AtWork(q)
    BY <1>1, <2>1, InputFacts
  <2>3. \A i \in 1..n : pc[rows[i].run] # "new"
    BY <1>1 DEF Dialogue, RowsSound, RowSound
  <2>4. Own(r)' = {k}
    <3>1. Own(r)' = Own(r) \cup {k}
      BY <1>1, <2>2, StepFacts
    <3>2. Own(r) = {}
      BY <1>1, <2>2, <2>3 DEF Own
    <3> QED BY <3>1, <3>2
  <2>5. ASSUME r \notin upset', NEW i \in 1..(k - 1) PROVE pc'[rows'[i].run] = "over"
    <3>1. i \in 1..n
      BY <1>1, <2>2
    <3>2. rows'[i] = rows[i] /\ rows[i].run \in Runs /\ pc[rows[i].run] # "new"
      BY <1>1, <2>3, <3>1
    <3>3. pc[rows[i].run] = "over"
      BY <2>2, <2>5, <3>2 DEF AtWork
    <3> QED BY <3>2, <3>3, Moves
  <2>6. k \in DOMAIN rows' /\ \A i \in (k + 1)..k : FALSE
    BY <1>1, <2>2
  <2> QED BY <1>1, <2>2, <2>4, <2>5, <2>6
<1> QED BY <1>3, <1>4 DEF Opened

\* Run r is about to add the next answer to the calls of row i.
ServesNext(r, i, n) ==
    /\ rows[i].run = r /\ FinishCall(r) /\ Len(left[r]) = i + Len(rows[i].calls) - n
    /\ \A k \in 1..Len(left[r]) : left[r][k] = rows[i].calls[n - i + k]

\* The calls of an answer in a clean stretch at the end of the thread are made by its
\* run, and no other run adds a row.
LEMMA NextServed ==
  ASSUME Dialogue, NEW r \in Runs, Acts(r), NEW n \in Nat, n = Len(rows), Len(rows') = n + 1,
         NEW i \in 1..n, rows[i].role = "assistant", i + Len(rows[i].calls) > n,
         \A x \in i..(n + 1) : rows'[x].run \notin upset'
  PROVE  ServesNext(r, i, n)
<1>1. /\ DOMAIN rows = 1..n /\ rows'[n + 1].run = r /\ upset \subseteq upset'
      /\ \A x \in 1..n : rows'[x] = rows[x] /\ rows[x].run \in Runs
      /\ SaveInput(r) \/ pc[r] \in {"llm", "tools"}
  <2>1. PICK m, k \in Nat :
           /\ m = Len(rows) /\ DOMAIN rows = 1..m /\ k = Len(rows')
           /\ \A x \in 1..m : rows'[x] = rows[x] /\ rows[x].run \in Runs
           /\ k = m + 1 => rows'[k].run = r
    BY Thread
  <2>2. m = n /\ k = n + 1
    BY <2>1
  <2>3. upset \subseteq upset' /\ (SaveInput(r) \/ pc[r] \in {"llm", "tools"})
    BY StepFacts
  <2> QED BY <2>1, <2>2, <2>3
<1> DEFINE q == rows[i].run
           asks == rows[i].calls
<1>2. Clean(i, n) /\ r \notin upset' /\ q \in Runs /\ q \notin upset'
  <2>1. \A x \in i..n : x \in 1..n /\ x \in i..(n + 1)
    OBVIOUS
  <2>2. n + 1 \in i..(n + 1) /\ i \in i..n
    OBVIOUS
  <2>3. \A x \in i..n : rows[x].run \notin upset'
    BY <1>1, <2>1
  <2> QED BY <1>1, <2>2, <2>3 DEF Clean
<1>3. /\ pc[q] = "tools" /\ Len(left[q]) = i + Len(asks) - n
      /\ \A k \in 1..Len(left[q]) : left[q][k] = asks[n - i + k]
  <2>1. Awaited(i)
    BY <1>1 DEF Dialogue, Served
  <2> QED BY <1>2, <2>1 DEF Awaited
<1> HIDE DEF q
<1>4. AtWork(q)
  BY <1>3 DEF AtWork
<1>5. ~SaveInput(r)
  BY <1>2, <1>4, InputFacts
<1>6. AtWork(r) /\ pc[r] \in {"llm", "tools"}
  BY <1>1, <1>5 DEF AtWork
<1>7. q = r
  BY <1>1, <1>2, <1>4, <1>6 DEF Dialogue, Alone
<1>8. FinishCall(r)
  <2>1. ~(ReadHistory(r) \/ Poll(r) \/ Settle(r) \/ Fail(r))
    <3>1. n + 1 # n
      OBVIOUS
    <3> QED BY <3>1, QuietFacts
  <2>2. ~ \E k \in 0..MaxCalls, reason \in {"tool_calls", "stop"} : Answer(r, k, reason)
    BY <1>3, <1>7 DEF Answer
  <2> QED BY <1>5, <2>1, <2>2 DEF Acts
<1> QED BY <1>3, <1>7, <1>8 DEF q, ServesNext

\* Every step keeps the answers behind the calls.
LEMMA ServedStep ==
  ASSUME Dialogue, NEW r \in Runs, Acts(r)
  PROVE  Served'
<1>1. PICK n, k \in Nat :
         /\ n = Len(rows) /\ DOMAIN rows = 1..n
         /\ k = Len(rows') /\ DOMAIN rows' = 1..k
         /\ k = n \/ k = n + 1
         /\ \A i \in 1..n : rows'[i] = rows[i] /\ rows[i].run \in Runs
         /\ k = n + 1 => rows'[k].run = r
  BY Thread
<1>2. /\ upset \subseteq upset'
      /\ \A q \in Runs : q # r => pc'[q] = pc[q] /\ left'[q] = left[q]
  BY StepFacts
<1>3. \A i \in 1..n : Len(rows[i].calls) \in Nat
  <2>1. rows \in Seq(Rows)
    BY DEF Dialogue, TypeOK
  <2>2. \A x \in Rows : Len(x.calls) \in Nat
    BY DEF Rows
  <2> HIDE DEF Rows
  <2> QED BY <1>1, <2>1, <2>2
<1>4. ASSUME NEW i \in 1..n, NEW x \in i..n, Clean(i, x)' PROVE Clean(i, x)
  <2>1. \A y \in i..x : y \in 1..n
    OBVIOUS
  <2> QED BY <1>1, <1>2, <1>4, <2>1 DEF Clean
<1>5. ASSUME NEW i \in 1..n, rows[i].role = "assistant" PROVE Answered(i)'
  <2> DEFINE asks == rows[i].calls
  <2>1. rows'[i] = rows[i] /\ Answered(i)
    BY <1>1, <1>5 DEF Dialogue, Served
  <2> SUFFICES ASSUME NEW c \in 1..Len(asks), i + c <= k, Clean(i, i + c)'
               PROVE  rows'[i + c].role = "tool" /\ rows'[i + c].calls = <<asks[c]>>
    BY <1>1, <2>1 DEF Answered
  <2>2. CASE i + c <= n
    <3>1. i + c \in i..n /\ i + c \in 1..n
      BY <1>3, <2>2
    <3>2. Clean(i, i + c)
      BY <1>4, <3>1
    <3>3. rows[i + c].role = "tool" /\ rows[i + c].calls = <<asks[c]>>
      BY <1>1, <2>1, <2>2, <3>2 DEF Answered
    <3> QED BY <1>1, <3>1, <3>3
  <2>3. CASE i + c > n
    <3>1. k = n + 1 /\ i + c = n + 1 /\ c = n - i + 1 /\ i + Len(asks) > n
      BY <1>1, <1>3, <2>3
    <3>2. \A x \in i..(n + 1) : rows'[x].run \notin upset'
      BY <3>1 DEF Clean
    <3>3. /\ FinishCall(r) /\ Len(left[r]) = i + Len(asks) - n
          /\ \A j \in 1..Len(left[r]) : left[r][j] = asks[n - i + j]
      <4>1. n = Len(rows) /\ Len(rows') = n + 1 /\ i + Len(asks) > n
        BY <1>1, <3>1
      <4>2. ServesNext(r, i, n)
        BY <1>5, <3>2, <4>1, NextServed
      <4> QED BY <4>2 DEF ServesNext
    <3>4. rows'[n + 1].role = "tool" /\ rows'[n + 1].calls = <<left[r][1]>>
      BY <1>1, <3>3, FinishFacts
    <3>5. 1 \in 1..Len(left[r])
      BY <1>3, <3>1, <3>3
    <3>6. left[r][1] = asks[c]
      BY <3>1, <3>3, <3>5
    <3> QED BY <3>1, <3>4, <3>6
  <2> QED BY <1>3, <2>2, <2>3
<1>6. ASSUME NEW i \in 1..n, rows[i].role = "assistant" PROVE Awaited(i)'
  <2> DEFINE asks == rows[i].calls
             q    == rows[i].run
  <2>1. rows'[i] = rows[i] /\ Awaited(i) /\ q \in Runs
    BY <1>1, <1>6 DEF Dialogue, Served
  <2> SUFFICES ASSUME i + Len(asks) > k, Clean(i, k)'
               PROVE  /\ pc'[q] = "tools" /\ Len(left'[q]) = i + Len(asks) - k
                      /\ \A j \in 1..Len(left'[q]) : left'[q][j] = asks[k - i + j]
    BY <1>1, <2>1 DEF Awaited
  <2>2. CASE k = n
    <3>1. n \in i..n /\ i \in i..n
      OBVIOUS
    <3>2. Clean(i, n)
      BY <1>4, <2>2, <3>1
    <3>3. /\ pc[q] = "tools" /\ Len(left[q]) = i + Len(asks) - k
          /\ \A j \in 1..Len(left[q]) : left[q][j] = asks[k - i + j]
      BY <1>1, <2>1, <2>2, <3>2 DEF Awaited
    <3>4. q # r
      <4>1. q \notin upset'
        BY <2>1, <2>2, <3>1 DEF Clean
      <4>2. ~SaveInput(r) /\ ~FinishCall(r)
        <5>1. n + 1 # n
          OBVIOUS
        <5> QED BY <1>1, <2>2, <5>1, InputFacts, FinishFacts
      <4>3. ~ \E m \in 0..MaxCalls, reason \in {"tool_calls", "stop"} : Answer(r, m, reason)
        <5>1. n + 1 # n
          OBVIOUS
        <5> QED BY <1>1, <2>2, <5>1, AnswerFacts
      <4>4. pc[r] = "tools" => r \in upset'
        BY <4>2, <4>3, QuietFacts DEF Acts
      <4> QED BY <3>3, <4>1, <4>4
    <3> QED BY <1>2, <2>1, <3>3, <3>4
  <2>3. CASE k = n + 1
    <3>1. \A x \in i..(n + 1) : rows'[x].run \notin upset'
      BY <2>3 DEF Clean
    <3>2. i + Len(asks) > n
      BY <1>3, <2>3
    <3>3. /\ q = r /\ FinishCall(r) /\ Len(left[r]) = i + Len(asks) - n
          /\ \A j \in 1..Len(left[r]) : left[r][j] = asks[n - i + j]
      <4>1. n = Len(rows) /\ Len(rows') = n + 1
        BY <1>1, <2>3
      <4>2. ServesNext(r, i, n)
        BY <1>6, <3>1, <3>2, <4>1, NextServed
      <4> QED BY <4>2 DEF ServesNext
    <3>4. /\ Len(left'[r]) = Len(left[r]) - 1
          /\ \A j \in 1..(Len(left[r]) - 1) : left'[r][j] = left[r][j + 1]
          /\ pc'[r] = IF Len(left[r]) = 1 THEN "poll" ELSE "tools"
      BY <3>3, FinishFacts
    <3>5. Len(left[r]) # 1 /\ Len(left'[r]) = i + Len(asks) - k
      BY <1>3, <2>3, <3>3, <3>4
    <3>6. ASSUME NEW j \in 1..Len(left'[r]) PROVE left'[r][j] = asks[k - i + j]
      <4>1. j \in 1..(Len(left[r]) - 1) /\ j + 1 \in 1..Len(left[r])
        <5>1. PICK x \in Nat : x = Len(left[r]) /\ Len(left'[r]) = x - 1
          <6>1. i + Len(asks) - n \in Nat
            BY <1>3, <3>2
          <6> QED BY <3>3, <3>4, <6>1
        <5> QED BY <5>1
      <4>2. left'[r][j] = asks[n - i + (j + 1)]
        BY <3>3, <3>4, <4>1
      <4>3. n - i + (j + 1) = k - i + j
        BY <2>3
      <4> QED BY <4>2, <4>3
    <3> QED BY <3>3, <3>4, <3>5, <3>6
  <2> QED BY <1>1, <2>2, <2>3
<1>7. ASSUME k = n + 1, rows'[k].role = "assistant" PROVE Answered(k)' /\ Awaited(k)'
  <2>1. \E m \in 0..MaxCalls, reason \in {"tool_calls", "stop"} : Answer(r, m, reason)
    <3>1. ~SaveInput(r) /\ ~FinishCall(r)
      BY <1>1, <1>7, InputFacts, FinishFacts
    <3>2. ~(ReadHistory(r) \/ Poll(r) \/ Settle(r) \/ Fail(r))
      <4>1. n + 1 # n
        OBVIOUS
      <4> QED BY <1>1, <1>7, <4>1, QuietFacts
    <3> QED BY <3>1, <3>2 DEF Acts
  <2>2. PICK m \in 0..MaxCalls, reason \in {"tool_calls", "stop"} : Answer(r, m, reason)
    BY <2>1
  <2> DEFINE asks == rows'[k].calls
  <2>3. /\ Len(asks) = m /\ rows'[k].run = r
        /\ \/ m > 0 /\ pc'[r] = "tools" /\ left'[r] = asks
           \/ m = 0 \/ r \in upset'
    BY <1>1, <1>7, <2>2, AnswerFacts
  <2>4. Answered(k)'
    <3>1. \A c \in 1..Len(asks) : ~(k + c <= k)
      BY <2>3
    <3> QED BY <1>1, <3>1 DEF Answered
  <2>5. Awaited(k)'
    <3> SUFFICES ASSUME k + Len(asks) > k, Clean(k, k)'
                 PROVE  /\ pc'[r] = "tools" /\ Len(left'[r]) = k + Len(asks) - k
                        /\ \A j \in 1..Len(left'[r]) : left'[r][j] = asks[k - k + j]
      BY <1>1, <2>3 DEF Awaited
    <3>1. r \notin upset'
      <4>1. k \in k..k
        OBVIOUS
      <4> QED BY <2>3, <4>1 DEF Clean
    <3>2. pc'[r] = "tools" /\ left'[r] = asks
      BY <2>3, <3>1
    <3> QED BY <2>3, <3>2
  <2> QED BY <2>4, <2>5
<1>8. ASSUME NEW i \in DOMAIN rows', rows'[i].role = "assistant"
      PROVE  Answered(i)' /\ Awaited(i)'
  <2>1. i \in 1..n \/ (i = k /\ k = n + 1)
    BY <1>1
  <2>2. CASE i \in 1..n
    BY <1>1, <1>5, <1>6, <1>8, <2>2
  <2> QED BY <1>7, <1>8, <2>1, <2>2
<1> QED BY <1>8 DEF Served

\* What a run has in its prompt p when it talks and the thread has n rows.
Speaks(q, b, p, n) ==
    /\ p = prompt[q] /\ n = Len(rows) /\ DOMAIN rows = 1..n
    /\ Len(p) \in Nat /\ b >= 1 /\ b + 1 <= Len(p)
    /\ \A i \in (b + 1)..Len(p) : p[i] \in Own(q) /\ p[i] \in 1..n
    /\ \A x \in Own(q) : x \in 1..n /\ \E i \in (b + 1)..Len(p) : p[i] = x
    /\ \A i, j \in (b + 1)..Len(p) : i < j => p[i] < p[j]
    /\ rows[p[b + 1]].role = "user"
    /\ \A x \in 1..n : Len(rows[x].calls) \in Nat

\* The prompt and the length of the thread, with names that a step does not change.
LEMMA TalkFacts ==
  ASSUME Dialogue, NEW q \in Runs, NEW b \in Nat, Turn(q, b)
  PROVE  \E p \in Seq(Nat), n \in Nat : Speaks(q, b, p, n)
<1>1. prompt[q] \in Seq(Nat) /\ rows \in Seq(Rows)
  BY DEF Dialogue, TypeOK
<1>2. PICK p \in Seq(Nat) : p = prompt[q]
  BY <1>1
<1>3. PICK n \in Nat : n = Len(rows) /\ DOMAIN rows = 1..n
  BY <1>1
<1>4. \A x \in Own(q) : x \in 1..n
  BY <1>3 DEF Own
<1>5. /\ b \in 1..(Len(p) - 1)
      /\ \A i \in (b + 1)..Len(p) : p[i] \in Own(q)
      /\ \A x \in Own(q) : \E i \in (b + 1)..Len(p) : p[i] = x
      /\ \A i, j \in (b + 1)..Len(p) : i < j => p[i] < p[j]
      /\ rows[p[b + 1]].role = "user"
  BY <1>2 DEF Turn
<1>6. Len(p) \in Nat /\ b >= 1 /\ b + 1 <= Len(p)
  BY <1>5
<1>7. \A x \in 1..n : Len(rows[x].calls) \in Nat
  <2>1. \A y \in Rows : Len(y.calls) \in Nat
    BY DEF Rows
  <2> HIDE DEF Rows
  <2> QED BY <1>1, <1>3, <2>1
<1>8. \A i \in (b + 1)..Len(p) : p[i] \in Own(q) /\ p[i] \in 1..n
  BY <1>4, <1>5
<1>9. \A x \in Own(q) : x \in 1..n /\ \E i \in (b + 1)..Len(p) : p[i] = x
  BY <1>4, <1>5
<1>10. Speaks(q, b, p, n)
  BY <1>2, <1>3, <1>5, <1>6, <1>7, <1>8, <1>9 DEF Speaks
<1> QED BY <1>10

\* A step that is no concern of the prompt of q.
LEMMA KeptTaken ==
  ASSUME Dialogue, NEW r \in Runs, Acts(r), NEW q \in Runs, Talking(q),
         prompt'[q] = prompt[q], left'[q] = left[q], Own(q)' = Own(q),
         pc'[q] = pc[q] \/ (pc[q] = "poll" /\ pc'[q] = "llm")
  PROVE  \E b \in Nat : Turn(q, b)' /\ Replied(q, b)' /\ Recalled(q, b)'
<1>1. \A x \in 1..Len(rows) : rows'[x] = rows[x] /\ rows[x].run \in Runs
  BY Thread
<1>2. upset \subseteq upset' /\ DOMAIN rows \subseteq DOMAIN rows'
  <2>1. PICK n, k \in Nat : DOMAIN rows = 1..n /\ DOMAIN rows' = 1..k /\ (k = n \/ k = n + 1)
    BY Thread
  <2>2. DOMAIN rows \subseteq DOMAIN rows'
    BY <2>1
  <2> QED BY <2>2, StepFacts
<1>3. PICK b \in Nat : Turn(q, b) /\ Replied(q, b) /\ Recalled(q, b)
  BY DEF Dialogue, Taken
<1>0. PICK p \in Seq(Nat), n \in Nat : Speaks(q, b, p, n)
  BY <1>3, TalkFacts
<1>4. /\ p = prompt[q] /\ n = Len(rows) /\ DOMAIN rows = 1..n
      /\ Len(p) \in Nat /\ b >= 1 /\ b + 1 <= Len(p)
      /\ \A i \in (b + 1)..Len(p) : p[i] \in Own(q) /\ p[i] \in 1..n
      /\ \A x \in Own(q) : x \in 1..n /\ \E i \in (b + 1)..Len(p) : p[i] = x
      /\ \A i, j \in (b + 1)..Len(p) : i < j => p[i] < p[j]
      /\ rows[p[b + 1]].role = "user"
      /\ \A x \in 1..n : Len(rows[x].calls) \in Nat
  BY <1>0 DEF Speaks
<1>5. prompt'[q] = p /\ b + 1 \in (b + 1)..Len(p) /\ b \in 1..(Len(p) - 1)
  BY <1>4
<1>6. \A i \in (b + 1)..Len(p) : rows'[p[i]] = rows[p[i]]
  BY <1>1, <1>4
<1>7. Turn(q, b)'
  <2>1. /\ \A i \in (b + 1)..Len(p) : p[i] \in Own(q)'
        /\ \A x \in Own(q)' : \E i \in (b + 1)..Len(p) : p[i] = x
    BY <1>4
  <2>2. rows'[p[b + 1]].role = "user"
    BY <1>4, <1>5, <1>6
  <2> QED BY <1>4, <1>5, <2>1, <2>2 DEF Turn
<1>8. ASSUME NEW i \in (b + 1)..Len(p), rows[p[i]].role = "assistant"
      PROVE  Followed(q, i)' /\ Pending(q, i)'
  <2>1. Followed(q, i) /\ Pending(q, i)
    BY <1>3, <1>4, <1>8 DEF Replied
  <2> DEFINE asks == rows[p[i]].calls
  <2>2. rows'[p[i]] = rows[p[i]] /\ Len(asks) \in Nat /\ i \in Nat /\ i >= b + 1
    <3>1. rows'[p[i]] = rows[p[i]] /\ p[i] \in 1..n
      BY <1>4, <1>6
    <3>2. Len(asks) \in Nat
      BY <1>4, <3>1
    <3> QED BY <3>1, <3>2
  <2>3. Followed(q, i)'
    <3> SUFFICES ASSUME NEW c \in 1..Len(asks), i + c <= Len(p)
                 PROVE  rows'[p[i + c]].role = "tool" /\ rows'[p[i + c]].calls = <<asks[c]>>
      BY <1>5, <2>2 DEF Followed
    <3>1. rows[p[i + c]].role = "tool" /\ rows[p[i + c]].calls = <<asks[c]>>
      BY <1>4, <2>1 DEF Followed
    <3>2. i + c \in (b + 1)..Len(p)
      BY <1>4, <2>2
    <3> QED BY <1>6, <3>1, <3>2
  <2>4. Pending(q, i)'
    <3>1. i + Len(asks) > Len(p) /\ pc[q] # "final" =>
            /\ pc[q] = "tools" /\ Len(left[q]) = i + Len(asks) - Len(p)
            /\ \A k \in 1..Len(left[q]) : left[q][k] = asks[Len(p) - i + k]
      BY <1>4, <2>1 DEF Pending
    <3>2. i + Len(asks) > Len(p) /\ pc'[q] # "final" =>
            /\ pc'[q] = "tools" /\ Len(left'[q]) = i + Len(asks) - Len(p)
            /\ \A k \in 1..Len(left'[q]) : left'[q][k] = asks[Len(p) - i + k]
      BY <3>1
    <3> QED BY <1>5, <2>2, <3>2 DEF Pending
  <2> QED BY <2>3, <2>4
<1>9. Replied(q, b)'
  BY <1>5, <1>6, <1>8 DEF Replied
<1>10. Recalled(q, b)'
  <2>1. p[1] = 0 /\ \A i \in 2..b : p[i] \in DOMAIN rows \ Own(q)
    BY <1>3, <1>4 DEF Recalled
  <2>2. \A i \in 2..b : p[i] \in DOMAIN rows' \ Own(q)'
    BY <1>2, <2>1
  <2>3. \A i \in 2..b : rows'[p[i]] = rows[p[i]] /\ rows[p[i]].run \in Runs
    BY <1>1, <1>4, <2>1
  <2>4. ASSUME q \notin upset'
        PROVE  \/ \E i \in 2..b : rows'[p[i]].run \in upset'
               \/ /\ \A i \in 2..b : p[i] = i - 1 /\ pc'[rows'[i - 1].run] = "over"
                  /\ p[b + 1] = b
    <3>1. \/ \E i \in 2..b : rows[p[i]].run \in upset
          \/ /\ \A i \in 2..b : p[i] = i - 1 /\ pc[rows[i - 1].run] = "over"
             /\ p[b + 1] = b
      BY <1>2, <1>3, <1>4, <2>4 DEF Recalled
    <3>2. CASE \E i \in 2..b : rows[p[i]].run \in upset
      BY <1>2, <2>3, <3>2
    <3>3. CASE /\ \A i \in 2..b : p[i] = i - 1 /\ pc[rows[i - 1].run] = "over"
               /\ p[b + 1] = b
      <4>1. ASSUME NEW i \in 2..b PROVE pc'[rows'[i - 1].run] = "over"
        <5>1. p[i] = i - 1 /\ pc[rows[i - 1].run] = "over"
          BY <3>3
        <5>2. rows'[i - 1] = rows[i - 1] /\ rows[i - 1].run \in Runs
          BY <2>3, <5>1
        <5> QED BY <5>1, <5>2, Moves
      <4> QED BY <3>3, <4>1
    <3> QED BY <3>1, <3>2, <3>3
  <2> QED BY <1>5, <2>1, <2>2, <2>4 DEF Recalled
<1> QED BY <1>7, <1>9, <1>10

\* A row that is saved and pushed continues the turn of its run.
LEMMA PushedTurn ==
  ASSUME Dialogue, NEW r \in Runs, Acts(r), NEW b \in Nat, Turn(r, b), Recalled(r, b),
         NEW p \in Seq(Nat), NEW n \in Nat, Speaks(r, b, p, n), Len(rows') = n + 1,
         NEW s \in Seq(Nat), s = prompt'[r], Len(s) = Len(p) + 1, s[Len(p) + 1] = n + 1,
         \A i \in 1..Len(p) : s[i] = p[i]
  PROVE  Turn(r, b)' /\ Recalled(r, b)'
<1>1. /\ p = prompt[r] /\ n = Len(rows) /\ DOMAIN rows = 1..n
      /\ Len(p) \in Nat /\ b >= 1 /\ b + 1 <= Len(p)
      /\ \A i \in (b + 1)..Len(p) : p[i] \in Own(r) /\ p[i] \in 1..n
      /\ \A x \in Own(r) : x \in 1..n /\ \E i \in (b + 1)..Len(p) : p[i] = x
      /\ \A i, j \in (b + 1)..Len(p) : i < j => p[i] < p[j]
      /\ rows[p[b + 1]].role = "user"
  BY DEF Speaks
<1>2. Own(r)' = Own(r) \cup {n + 1}
  BY <1>1, StepFacts
<1>3. /\ upset \subseteq upset' /\ DOMAIN rows' = 1..(n + 1)
      /\ \A x \in 1..n : rows'[x] = rows[x]
  BY <1>1, StepFacts
<1>4. \A i \in (b + 1)..(Len(p) + 1) :
         (i \in 1..Len(p) /\ i \in (b + 1)..Len(p)) \/ i = Len(p) + 1
  <2>1. Len(p) \in Nat
    BY <1>1
  <2> QED BY <2>1
<1>5. Turn(r, b)'
  <2>1. b \in 1..(Len(s) - 1) /\ b + 1 \in (b + 1)..Len(p) /\ b + 1 \in 1..Len(p)
    <3>1. Len(p) \in Nat /\ b >= 1 /\ b + 1 <= Len(p)
      BY <1>1
    <3> QED BY <3>1
  <2>2. ASSUME NEW i \in (b + 1)..Len(s) PROVE s[i] \in Own(r)'
    BY <1>1, <1>2, <1>4, <2>2
  <2>3. ASSUME NEW x \in Own(r)' PROVE \E i \in (b + 1)..Len(s) : s[i] = x
    <3>1. CASE x = n + 1
      <4>1. Len(p) + 1 \in (b + 1)..Len(s)
        BY <1>1
      <4> QED BY <3>1, <4>1
    <3>2. CASE x \in Own(r)
      <4>1. PICK i \in (b + 1)..Len(p) : p[i] = x
        BY <1>1, <3>2
      <4>2. i \in 1..Len(p) /\ i \in (b + 1)..Len(s)
        BY <1>1
      <4> QED BY <4>1, <4>2
    <3> QED BY <1>2, <2>3, <3>1, <3>2
  <2>4. ASSUME NEW i \in (b + 1)..Len(s), NEW j \in (b + 1)..Len(s), i < j PROVE s[i] < s[j]
    <3>0. Len(s) = Len(p) + 1 /\ Len(p) \in Nat
      BY <1>1
    <3>4. i # Len(p) + 1
      BY <2>4, <3>0
    <3>1. i \in (b + 1)..Len(p) /\ i \in 1..Len(p) /\ s[i] = p[i]
      BY <1>4, <3>0, <3>4
    <3>2. CASE j = Len(p) + 1
      <4>1. p[i] \in 1..n
        BY <1>1, <3>1
      <4> QED BY <3>1, <3>2, <4>1
    <3>3. CASE j # Len(p) + 1
      <4>1. j \in (b + 1)..Len(p) /\ j \in 1..Len(p) /\ s[j] = p[j]
        BY <1>4, <3>0, <3>3
      <4> QED BY <1>1, <2>4, <3>1, <4>1
    <3> QED BY <3>2, <3>3
  <2>5. rows'[s[b + 1]].role = "user"
    <3>1. s[b + 1] = p[b + 1] /\ p[b + 1] \in 1..n
      BY <1>1, <2>1
    <3> QED BY <1>1, <1>3, <3>1
  <2> QED BY <2>1, <2>2, <2>3, <2>4, <2>5 DEF Turn
<1>6. Recalled(r, b)'
  <2>1. p[1] = 0 /\ \A i \in 2..b : p[i] \in DOMAIN rows \ Own(r)
    BY <1>1 DEF Recalled
  <2>2. 1 \in 1..Len(p) /\ b + 1 \in 1..Len(p) /\ \A i \in 2..b : i \in 1..Len(p)
    <3>1. Len(p) \in Nat /\ b \in Nat /\ b >= 1 /\ b + 1 <= Len(p)
      BY <1>1
    <3> QED BY <3>1
  <2>3. \A i \in 2..b : s[i] = p[i] /\ p[i] \in 1..n /\ p[i] \notin Own(r)
    BY <1>1, <2>1, <2>2
  <2>4. \A i \in 2..b : s[i] \in DOMAIN rows' \ Own(r)'
    <3>1. \A x \in 1..n : x \in 1..(n + 1) /\ x # n + 1
      OBVIOUS
    <3> QED BY <1>2, <1>3, <2>3, <3>1
  <2>5. \A i \in 2..b : rows'[s[i]] = rows[p[i]] /\ rows[p[i]].run \in Runs
    <3>1. \A x \in 1..n : rows'[x] = rows[x] /\ rows[x].run \in Runs
      BY <1>1, Thread
    <3> QED BY <2>3, <3>1
  <2>6. ASSUME r \notin upset'
        PROVE  \/ \E i \in 2..b : rows'[s[i]].run \in upset'
               \/ /\ \A i \in 2..b : s[i] = i - 1 /\ pc'[rows'[i - 1].run] = "over"
                  /\ s[b + 1] = b
    <3>1. \/ \E i \in 2..b : rows[p[i]].run \in upset
          \/ /\ \A i \in 2..b : p[i] = i - 1 /\ pc[rows[i - 1].run] = "over"
             /\ p[b + 1] = b
      BY <1>1, <1>3, <2>6 DEF Recalled
    <3>2. CASE \E i \in 2..b : rows[p[i]].run \in upset
      BY <1>3, <2>5, <3>2
    <3>3. CASE /\ \A i \in 2..b : p[i] = i - 1 /\ pc[rows[i - 1].run] = "over"
               /\ p[b + 1] = b
      <4>1. ASSUME NEW i \in 2..b PROVE s[i] = i - 1 /\ pc'[rows'[i - 1].run] = "over"
        <5>1. s[i] = i - 1 /\ p[i] = i - 1 /\ pc[rows[i - 1].run] = "over"
          BY <2>3, <3>3
        <5>2. rows'[i - 1] = rows[i - 1] /\ rows[i - 1].run \in Runs
          BY <2>5, <5>1
        <5> QED BY <5>1, <5>2, Moves
      <4>2. s[b + 1] = b
        BY <2>2, <3>3
      <4> QED BY <4>1, <4>2
    <3> QED BY <3>1, <3>2, <3>3
  <2>7. s[1] = 0
    BY <2>1, <2>2
  <2> QED BY <2>4, <2>6, <2>7 DEF Recalled
<1> QED BY <1>5, <1>6

\* Places behind place i of a list.
LEMMA Within ==
  ASSUME NEW i \in Nat, NEW l \in Nat, NEW k \in Nat, i + l <= k
  PROVE  \A c \in 1..l : i + c <= k
OBVIOUS

\* What is not among k rows but among one more is the last of these.
LEMMA JustBehind ==
  ASSUME NEW i \in Nat, NEW c \in Nat, NEW k \in Nat, i + c <= k + 1, ~(i + c <= k)
  PROVE  i + c = k + 1 /\ c = k - i + 1
OBVIOUS

\* What a place i of the turn has kept when prompt p has become s.
RepliesKept(r, p, s, i) ==
    LET asks == rows[p[i]].calls IN
    /\ rows'[s[i]] = rows[p[i]] /\ Len(asks) \in Nat /\ Pending(r, i)
    /\ \A c \in 1..Len(asks) : i + c <= Len(p) =>
          (rows'[s[i + c]].role = "tool" /\ rows'[s[i + c]].calls = <<asks[c]>>)
    /\ i + Len(asks) <= Len(p) => Followed(r, i)' /\ Pending(r, i)'

\* The rows of the turn that have all their answers keep them.
LEMMA PushedReplies ==
  ASSUME Dialogue, NEW r \in Runs, Acts(r), NEW b \in Nat, Replied(r, b),
         NEW p \in Seq(Nat), NEW n \in Nat, Speaks(r, b, p, n),
         NEW s \in Seq(Nat), s = prompt'[r], Len(s) = Len(p) + 1,
         \A i \in 1..Len(p) : s[i] = p[i],
         NEW i \in (b + 1)..Len(p), rows'[s[i]].role = "assistant"
  PROVE  RepliesKept(r, p, s, i)
<1>1. /\ p = prompt[r] /\ n = Len(rows) /\ Len(p) \in Nat /\ b >= 1
      /\ \A j \in (b + 1)..Len(p) : p[j] \in 1..n
      /\ \A x \in 1..n : Len(rows[x].calls) \in Nat
  BY DEF Speaks
<1>2. \A x \in 1..n : rows'[x] = rows[x]
  BY <1>1, StepFacts
<1>3. \A j \in (b + 1)..Len(p) : s[j] = p[j] /\ rows'[s[j]] = rows[p[j]]
  <2>1. \A j \in (b + 1)..Len(p) : j \in 1..Len(p)
    BY <1>1
  <2> QED BY <1>1, <1>2, <2>1
<1> DEFINE asks == rows[p[i]].calls
<1>4. rows'[s[i]] = rows[p[i]] /\ Len(asks) \in Nat
  BY <1>1, <1>3
<1>5. Followed(r, i) /\ Pending(r, i)
  BY <1>1, <1>4 DEF Replied
<1>6. ASSUME NEW c \in 1..Len(asks), i + c <= Len(p)
      PROVE  rows'[s[i + c]].role = "tool" /\ rows'[s[i + c]].calls = <<asks[c]>>
  <2>1. rows[p[i + c]].role = "tool" /\ rows[p[i + c]].calls = <<asks[c]>>
    BY <1>1, <1>5, <1>6 DEF Followed
  <2>2. i + c \in (b + 1)..Len(p)
    BY <1>1, <1>4, <1>6
  <2> QED BY <1>3, <2>1, <2>2
<1>7. ASSUME i + Len(asks) <= Len(p) PROVE Followed(r, i)' /\ Pending(r, i)'
  <2>0. Len(p) \in Nat /\ Len(asks) \in Nat /\ i \in Nat /\ i + Len(asks) <= Len(p)
    BY <1>1, <1>4, <1>7
  <2>1. \A c \in 1..Len(asks) : i + c <= Len(p)
    BY <2>0, Within
  <2>2. Followed(r, i)'
    BY <1>4, <1>6, <2>1 DEF Followed
  <2>3. ~(i + Len(asks) > Len(s))
    BY <2>0
  <2>4. Pending(r, i)'
    BY <1>4, <2>3 DEF Pending
  <2> QED BY <2>2, <2>4
<1> QED BY <1>4, <1>5, <1>6, <1>7 DEF RepliesKept

\* An answer follows a turn in which every call has its result.
LEMMA AnswerTaken ==
  ASSUME Dialogue, NEW r \in Runs, NEW m \in 0..MaxCalls,
         NEW reason \in {"tool_calls", "stop"}, Answer(r, m, reason)
  PROVE  \E b \in Nat : Turn(r, b)' /\ Replied(r, b)' /\ Recalled(r, b)'
<1>1. Acts(r) /\ pc[r] = "llm"
  BY DEF Acts, Answer
<1>2. PICK b \in Nat : Turn(r, b) /\ Replied(r, b) /\ Recalled(r, b)
  BY <1>1 DEF Dialogue, Taken, Talking
<1>3. PICK p \in Seq(Nat), n \in Nat : Speaks(r, b, p, n)
  BY <1>2, TalkFacts
<1>4. p = prompt[r] /\ n = Len(rows) /\ Len(p) \in Nat /\ b >= 1 /\ b + 1 <= Len(p)
  BY <1>3 DEF Speaks
<1>5. PICK s \in Seq(Nat) : s = prompt'[r]
  <2>1. TypeOK /\ Push(r)
    BY DEF Dialogue, Answer
  <2>2. prompt' \in [Runs -> Seq(Nat)]
    BY <2>1, PushTypes
  <2> QED BY <2>2
<1>6. /\ Len(rows') = n + 1 /\ rows'[n + 1].role = "assistant"
      /\ rows'[n + 1].calls \in Seq(Calls) /\ Len(rows'[n + 1].calls) = m
      /\ \/ m > 0 /\ pc'[r] = "tools" /\ left'[r] = rows'[n + 1].calls
         \/ pc'[r] = "final"
  BY <1>4, AnswerFacts
<1>7. /\ Len(s) = Len(p) + 1 /\ s[Len(p) + 1] = n + 1
      /\ \A i \in 1..Len(p) : s[i] = p[i]
  BY <1>4, <1>5, AnswerFacts
<1>8. Turn(r, b)' /\ Recalled(r, b)'
  BY <1>1, <1>2, <1>3, <1>5, <1>6, <1>7, PushedTurn
<1>9. ASSUME NEW i \in (b + 1)..Len(p), rows'[s[i]].role = "assistant"
      PROVE  Followed(r, i)' /\ Pending(r, i)'
  <2>0. RepliesKept(r, p, s, i)
    BY <1>1, <1>2, <1>3, <1>5, <1>7, <1>9, PushedReplies
  <2>1. /\ Pending(r, i) /\ Len(rows[p[i]].calls) \in Nat
        /\ i + Len(rows[p[i]].calls) <= Len(p) => Followed(r, i)' /\ Pending(r, i)'
    BY <2>0 DEF RepliesKept
  <2>2. i + Len(rows[p[i]].calls) <= Len(p)
    <3>1. ~(i + Len(rows[p[i]].calls) > Len(p))
      BY <1>1, <1>4, <2>1 DEF Pending
    <3> QED BY <1>4, <2>1, <3>1
  <2> QED BY <2>1, <2>2
<1>10. Followed(r, Len(p) + 1)' /\ Pending(r, Len(p) + 1)'
  <2> DEFINE asks == rows'[n + 1].calls
  <2>0. PICK l \in Nat : l = Len(p) + 1
    BY <1>4
  <2>1. prompt'[r] = s /\ s[l] = n + 1 /\ Len(s) = l /\ Len(asks) = m /\ m \in Nat
    BY <1>5, <1>6, <1>7, <2>0
  <2>2. \A c \in 1..Len(asks) : ~(l + c <= Len(s))
    BY <2>1
  <2>3. Followed(r, l)'
    BY <2>1, <2>2 DEF Followed
  <2>4. ASSUME l + Len(asks) > Len(s), pc'[r] # "final"
        PROVE  /\ pc'[r] = "tools" /\ Len(left'[r]) = l + Len(asks) - Len(s)
               /\ \A k \in 1..Len(left'[r]) : left'[r][k] = asks[Len(s) - l + k]
    <3>1. pc'[r] = "tools" /\ left'[r] = asks
      BY <1>6, <2>4
    <3> QED BY <2>1, <3>1
  <2>5. Pending(r, l)'
    BY <2>1, <2>4 DEF Pending
  <2>6. Followed(r, l)' /\ Pending(r, l)' /\ l = Len(p) + 1
    BY <2>0, <2>3, <2>5
  <2> QED BY <2>6
<1>11. Replied(r, b)'
  <2>1. ASSUME NEW i \in (b + 1)..Len(s), rows'[s[i]].role = "assistant"
        PROVE  Followed(r, i)' /\ Pending(r, i)'
    <3>1. i \in (b + 1)..Len(p) \/ i = Len(p) + 1
      BY <1>4, <1>7
    <3> QED BY <1>9, <1>10, <2>1, <3>1
  <2> QED BY <1>5, <2>1 DEF Replied
<1> QED BY <1>8, <1>11

\* The result of a call follows the answer that asks for it, or another result of it.
LEMMA FinishTaken ==
  ASSUME Dialogue, NEW r \in Runs, FinishCall(r)
  PROVE  \E b \in Nat : Turn(r, b)' /\ Replied(r, b)' /\ Recalled(r, b)'
<1>1. Acts(r) /\ pc[r] = "tools"
  BY DEF Acts, FinishCall
<1>2. PICK b \in Nat : Turn(r, b) /\ Replied(r, b) /\ Recalled(r, b)
  BY <1>1 DEF Dialogue, Taken, Talking
<1>3. PICK p \in Seq(Nat), n \in Nat : Speaks(r, b, p, n)
  BY <1>2, TalkFacts
<1>4. p = prompt[r] /\ n = Len(rows) /\ Len(p) \in Nat /\ b >= 1 /\ b + 1 <= Len(p)
  BY <1>3 DEF Speaks
<1>5. PICK s \in Seq(Nat) : s = prompt'[r]
  <2>1. TypeOK /\ Push(r)
    BY DEF Dialogue, FinishCall
  <2>2. prompt' \in [Runs -> Seq(Nat)]
    BY <2>1, PushTypes
  <2> QED BY <2>2
<1>6. /\ Len(rows') = n + 1 /\ rows'[n + 1].role = "tool"
      /\ Len(left[r]) \in Nat /\ Len(left[r]) > 0 /\ rows'[n + 1].calls = <<left[r][1]>>
      /\ Len(left'[r]) = Len(left[r]) - 1
      /\ \A i \in 1..(Len(left[r]) - 1) : left'[r][i] = left[r][i + 1]
      /\ pc'[r] = IF Len(left[r]) = 1 THEN "poll" ELSE "tools"
  BY <1>4, FinishFacts
<1>7. /\ Len(s) = Len(p) + 1 /\ s[Len(p) + 1] = n + 1
      /\ \A i \in 1..Len(p) : s[i] = p[i]
  BY <1>4, <1>5, FinishFacts
<1>8. Turn(r, b)' /\ Recalled(r, b)'
  BY <1>1, <1>2, <1>3, <1>5, <1>6, <1>7, PushedTurn
<1>9. ASSUME NEW i \in (b + 1)..Len(p), rows'[s[i]].role = "assistant"
      PROVE  Followed(r, i)' /\ Pending(r, i)'
  <2> DEFINE asks == rows[p[i]].calls
  <2>0. i \in Nat /\ Len(p) \in Nat /\ Len(s) = Len(p) + 1
    BY <1>4, <1>7
  <2>4. RepliesKept(r, p, s, i)
    BY <1>1, <1>2, <1>3, <1>5, <1>7, <1>9, PushedReplies
  <2>1. /\ rows'[s[i]] = rows[p[i]] /\ Pending(r, i) /\ Len(asks) \in Nat
        /\ \A c \in 1..Len(asks) : i + c <= Len(p) =>
               (rows'[s[i + c]].role = "tool" /\ rows'[s[i + c]].calls = <<asks[c]>>)
        /\ i + Len(asks) <= Len(p) => Followed(r, i)' /\ Pending(r, i)'
    BY <2>4 DEF RepliesKept
  <2>2. CASE i + Len(asks) > Len(p)
    <3>1. /\ Len(left[r]) = i + Len(asks) - Len(p)
          /\ \A k \in 1..Len(left[r]) : left[r][k] = asks[Len(p) - i + k]
      BY <1>1, <1>4, <2>1, <2>2 DEF Pending
    <3>2. ASSUME NEW c \in 1..Len(asks), i + c <= Len(s)
          PROVE  rows'[s[i + c]].role = "tool" /\ rows'[s[i + c]].calls = <<asks[c]>>
      <4>1. CASE i + c <= Len(p)
        BY <2>1, <4>1
      <4>2. CASE ~(i + c <= Len(p))
        <5>1. i + c = Len(p) + 1 /\ c = Len(p) - i + 1
          <6>2. Len(asks) \in Nat
            BY <2>1
          <6>1. c \in Nat /\ i + c <= Len(p) + 1 /\ ~(i + c <= Len(p))
            BY <2>0, <3>2, <4>2, <6>2
          <6> QED BY <2>0, <6>1, JustBehind
        <5>2. 1 \in 1..Len(left[r])
          BY <1>6
        <5>3. left[r][1] = asks[c]
          BY <3>1, <5>1, <5>2
        <5> QED BY <1>6, <1>7, <5>1, <5>3
      <4> QED BY <4>1, <4>2
    <3>3. Followed(r, i)'
      BY <1>5, <2>1, <3>2 DEF Followed
    <3>4. ASSUME i + Len(asks) > Len(s)
          PROVE  /\ pc'[r] = "tools" /\ Len(left'[r]) = i + Len(asks) - Len(s)
                 /\ \A k \in 1..Len(left'[r]) : left'[r][k] = asks[Len(s) - i + k]
      <4>1. Len(left[r]) # 1 /\ Len(left'[r]) = i + Len(asks) - Len(s)
        BY <1>4, <1>6, <1>7, <2>1, <3>1, <3>4
      <4>2. ASSUME NEW k \in 1..Len(left'[r]) PROVE left'[r][k] = asks[Len(s) - i + k]
        <5>1. k \in 1..(Len(left[r]) - 1) /\ k + 1 \in 1..Len(left[r])
          BY <1>6
        <5>2. left'[r][k] = asks[Len(p) - i + (k + 1)]
          BY <1>6, <3>1, <5>1
        <5>3. Len(p) - i + (k + 1) = Len(s) - i + k
          <6>1. k \in Nat
            BY <5>1
          <6> QED BY <2>0, <6>1
        <5> QED BY <5>2, <5>3
      <4> QED BY <1>6, <4>1, <4>2
    <3>5. Pending(r, i)'
      BY <1>5, <2>1, <3>4 DEF Pending
    <3> QED BY <3>3, <3>5
  <2>3. CASE ~(i + Len(asks) > Len(p))
    <3>1. i + Len(asks) <= Len(p)
      BY <2>0, <2>1, <2>3
    <3> QED BY <2>1, <3>1
  <2> QED BY <2>2, <2>3
<1>10. Replied(r, b)'
  <2>1. ASSUME NEW i \in (b + 1)..Len(s), rows'[s[i]].role = "assistant"
        PROVE  Followed(r, i)' /\ Pending(r, i)'
    <3>1. i \in (b + 1)..Len(p) \/ i = Len(p) + 1
      BY <1>4, <1>7
    <3>2. i # Len(p) + 1
      BY <1>6, <1>7, <2>1
    <3> QED BY <1>9, <2>1, <3>1, <3>2
  <2> QED BY <1>5, <2>1 DEF Replied
<1> QED BY <1>8, <1>10

\* What a run has read.
LEMMA ReadTaken ==
  ASSUME Dialogue, NEW r \in Runs, ReadHistory(r)
  PROVE  \E b \in Nat : Turn(r, b)' /\ Replied(r, b)' /\ Recalled(r, b)'
<1>1. Acts(r) /\ pc[r] = "read" /\ rows' = rows /\ TypeOK /\ Opened
  BY DEF Acts, ReadHistory, Dialogue
<1>2. PICK m \in DOMAIN rows, b \in Nat :
         /\ Own(r) = {m} /\ rows[m].role = "user" /\ b >= 1
         /\ prompt'[r] \in Seq(Nat) /\ Len(prompt'[r]) = b + 1
         /\ prompt'[r][1] = 0 /\ prompt'[r][b + 1] = m
         /\ \A i \in 2..b : prompt'[r][i] \in DOMAIN rows \ Own(r)
         /\ \A x \in DOMAIN rows \ Own(r) : \E i \in 2..b : prompt'[r][i] = x
         /\ Len(History(r)) = b - 1
         /\ r \notin upset' => \A i \in 2..b : prompt'[r][i] = History(r)[i - 1]
  BY <1>1, ReadPrompt
<1>3. PICK s \in Seq(Nat) : s = prompt'[r]
  BY <1>2
<1>4. Own(r)' = {m} /\ rows'[m].role = "user"
  BY <1>1, <1>2 DEF Own
<1>5. Len(s) = b + 1 /\ \A i \in (b + 1)..(b + 1) : i = b + 1
  BY <1>2, <1>3
<1>6. Turn(r, b)'
  <2>1. b \in 1..(Len(s) - 1) /\ b + 1 \in (b + 1)..Len(s)
    BY <1>2, <1>5
  <2>2. \A i \in (b + 1)..Len(s) : s[i] = m /\ i = b + 1
    BY <1>2, <1>3, <1>5
  <2>3. \A x \in Own(r)' : \E i \in (b + 1)..Len(s) : s[i] = x
    BY <1>4, <2>1, <2>2
  <2>4. \A i, j \in (b + 1)..Len(s) : i < j => s[i] < s[j]
    <3>1. \A i, j \in (b + 1)..Len(s) : ~(i < j)
      BY <2>2
    <3> QED BY <3>1
  <2>5. rows'[s[b + 1]].role = "user"
    BY <1>4, <2>1, <2>2
  <2> QED BY <1>3, <1>4, <2>1, <2>2, <2>3, <2>4, <2>5 DEF Turn
<1>7. Replied(r, b)'
  <2>1. \A i \in (b + 1)..Len(s) : rows'[s[i]].role # "assistant"
    BY <1>2, <1>3, <1>4, <1>5
  <2> QED BY <1>3, <2>1 DEF Replied
<1>8. PICK n \in Nat : n = Len(rows) /\ DOMAIN rows = 1..n
  BY <1>1 DEF TypeOK
<1>9. /\ \A i \in 2..b : s[i] \in 1..n /\ s[i] # m
      /\ \A x \in 1..n : x # m => \E i \in 2..b : s[i] = x
  BY <1>2, <1>3, <1>8
<1>10. ASSUME r \notin upset'
       PROVE  \/ \E i \in 2..b : rows[s[i]].run \in upset
              \/ /\ \A i \in 2..b : s[i] = i - 1 /\ pc[rows[i - 1].run] = "over"
                 /\ s[b + 1] = b
  <2>1. /\ \A i \in 1..(m - 1) : pc[rows[i].run] = "over"
        /\ \A i \in (m + 1)..n : rows[i].run \in upset
    <3>1. r \notin upset
      BY <1>1, <1>10, StepFacts
    <3>2. PICK k \in DOMAIN rows :
             /\ Own(r) = {k}
             /\ \A i \in 1..(k - 1) : pc[rows[i].run] = "over"
             /\ \A i \in (k + 1)..Len(rows) : rows[i].run \in upset
      BY <1>1, <3>1 DEF Opened
    <3>3. k = m
      BY <1>2, <3>2
    <3> QED BY <1>8, <3>2, <3>3
  <2>2. m \in 1..n
    BY <1>8
  <2>3. CASE m # n
    <3>1. n \in (m + 1)..n /\ n \in 1..n
      BY <2>2, <2>3
    <3>2. PICK i \in 2..b : s[i] = n
      BY <1>9, <2>3, <3>1
    <3> QED BY <2>1, <3>1, <3>2
  <2>4. CASE m = n
    <3>1. DOMAIN rows \ Own(r) = 1..(n - 1)
      BY <1>2, <1>8, <2>4
    <3>2. n - 1 \in Nat
      BY <2>2
    <3>3. Len(History(r)) = n - 1 /\ \A i \in 1..(n - 1) : History(r)[i] = i
      BY <3>1, <3>2, AscendingInterval DEF History
    <3>4. b = n
      BY <1>2, <3>2, <3>3
    <3>5. ASSUME NEW i \in 2..b PROVE s[i] = i - 1 /\ pc[rows[i - 1].run] = "over"
      <4>1. i - 1 \in 1..(n - 1) /\ i - 1 \in 1..(m - 1)
        BY <2>4, <3>4
      <4>2. s[i] = History(r)[i - 1]
        BY <1>2, <1>3, <1>10
      <4> QED BY <2>1, <3>3, <4>1, <4>2
    <3>6. s[b + 1] = b
      BY <1>2, <1>3, <2>4, <3>4
    <3> QED BY <3>5, <3>6
  <2> QED BY <2>3, <2>4
<1>11. Recalled(r, b)'
  <2>1. s[1] = 0 /\ \A i \in 2..b : s[i] \in DOMAIN rows' \ Own(r)'
    BY <1>1, <1>2, <1>3, <1>4
  <2>2. upset \subseteq upset'
    BY <1>1, StepFacts
  <2>3. ASSUME r \notin upset'
        PROVE  \/ \E i \in 2..b : rows'[s[i]].run \in upset'
               \/ /\ \A i \in 2..b : s[i] = i - 1 /\ pc'[rows'[i - 1].run] = "over"
                  /\ s[b + 1] = b
    <3>1. CASE \E i \in 2..b : rows[s[i]].run \in upset
      BY <1>1, <2>2, <3>1
    <3>2. CASE /\ \A i \in 2..b : s[i] = i - 1 /\ pc[rows[i - 1].run] = "over"
               /\ s[b + 1] = b
      <4>1. ASSUME NEW i \in 2..b PROVE s[i] = i - 1 /\ pc'[rows'[i - 1].run] = "over"
        <5>1. s[i] = i - 1 /\ i - 1 \in 1..n /\ pc[rows[i - 1].run] = "over"
          BY <1>9, <3>2
        <5>2. rows'[i - 1] = rows[i - 1] /\ rows[i - 1].run \in Runs
          <6>1. \A x \in 1..Len(rows) : rows[x].run \in Runs
            BY <1>1, Thread
          <6> QED BY <1>1, <1>8, <5>1, <6>1
        <5> QED BY <1>1, <5>1, <5>2, Moves
      <4> QED BY <3>2, <4>1
    <3> QED BY <1>10, <2>3, <3>1, <3>2
  <2> QED BY <1>3, <2>1, <2>3 DEF Recalled
<1> QED BY <1>6, <1>7, <1>11

\* Every step keeps what the prompts hold of the thread.
LEMMA TakenStep ==
  ASSUME Dialogue, NEW r \in Runs, Acts(r)
  PROVE  Taken'
<1>1. ASSUME NEW q \in Runs, q # r, Talking(q)'
      PROVE  \E b \in Nat : Turn(q, b)' /\ Replied(q, b)' /\ Recalled(q, b)'
  <2>1. /\ pc'[q] = pc[q] /\ left'[q] = left[q] /\ prompt'[q] = prompt[q]
    BY <1>1, StepFacts
  <2>2. Own(q)' = Own(q)
    BY <1>1, StepFacts
  <2>3. Talking(q)
    BY <1>1, <2>1 DEF Talking
  <2> QED BY <2>1, <2>2, <2>3, KeptTaken
<1>2. ASSUME Talking(r)'
      PROVE  \E b \in Nat : Turn(r, b)' /\ Replied(r, b)' /\ Recalled(r, b)'
  <2>1. CASE SaveInput(r)
    BY <1>2, <2>1, InputFacts DEF Talking
  <2>2. CASE FinishCall(r)
    BY <2>2, FinishTaken
  <2>3. CASE \E n \in 0..MaxCalls, reason \in {"tool_calls", "stop"} : Answer(r, n, reason)
    BY <2>3, AnswerTaken
  <2>4. CASE ReadHistory(r)
    BY <2>4, ReadTaken
  <2>5. CASE (Poll(r) \/ Settle(r) \/ Fail(r)) /\ ~ReadHistory(r)
    <3>1. /\ rows' = rows /\ left' = left
          /\ \/ prompt' = prompt /\ pc[r] = "poll" /\ pc'[r] = "llm"
             \/ pc'[r] = "over"
      BY <2>5, QuietFacts
    <3>2. prompt' = prompt /\ pc[r] = "poll" /\ pc'[r] = "llm"
      BY <1>2, <3>1 DEF Talking
    <3>3. Own(r)' = Own(r) /\ Talking(r)
      BY <3>1, <3>2 DEF Own, Talking
    <3> QED BY <3>1, <3>2, <3>3, KeptTaken
  <2> QED BY <2>1, <2>2, <2>3, <2>4, <2>5 DEF Acts
<1>3. \A q \in Runs : Talking(q)' =>
          \E b \in Nat : Turn(q, b)' /\ Replied(q, b)' /\ Recalled(q, b)'
  BY <1>1, <1>2
<1> QED BY <1>3 DEF Taken

-----------------------------------------------------------------------------
\* Dialogue is an invariant.
LEMMA DialogueInit == Init => Dialogue
<1> SUFFICES ASSUME Init PROVE Dialogue
  OBVIOUS
<1>1. TypeOK
  BY TypesInit
<1>2. /\ rows = <<>> /\ DOMAIN rows = {} /\ upset = {}
      /\ \A r \in Runs : pc[r] = "new" /\ step[r] = 0
  BY DEF Init
<1>3. \A r \in Runs : Answers(r) = {}
  BY <1>2 DEF Answers
<1>4. Counted
  <2>1. IsFiniteSet({}) /\ Cardinality({}) = 0
    BY FS_EmptySet
  <2> QED BY <1>2, <1>3, <2>1 DEF Counted
<1>5. ASSUME NEW r \in Streams PROVE Telling(r) /\ TellsRun(r)
  <2> DEFINE e == Event("run.created", "IN_PROGRESS")
             es == <<e>>
  <2>1. e.name = "run.created" /\ e.status = "IN_PROGRESS"
    BY DEF Event
  <2>2. events[r] = es /\ r \in Runs /\ pc[r] = "new"
    BY <1>2 DEF Init
  <2>3. Len(es) = 1 /\ es[1] = e
    OBVIOUS
  <2> HIDE DEF e, es
  <2>4. \A i \in 1..Len(es) : i = 1 /\ es[i] = e
    BY <2>3
  <2>5. Telling(r)
    BY <2>1, <2>2, <2>3, <2>4 DEF Telling
  <2>6. TellsRun(r)
    BY <2>1, <2>2, <2>3, <2>4 DEF TellsRun
  <2> QED BY <2>5, <2>6
<1>6. RowsSound
  BY <1>2 DEF RowsSound, LeftSound
<1>7. Alone
  BY <1>2 DEF Alone, AtWork
<1>8. Opened
  BY <1>2 DEF Opened
<1>9. Served
  BY <1>2 DEF Served
<1>10. Taken
  BY <1>2 DEF Taken, Talking
<1>11. Told /\ StreamTellsRun
  BY <1>5 DEF Told, StreamTellsRun
<1> QED BY <1>1, <1>4, <1>6, <1>7, <1>8, <1>9, <1>10, <1>11 DEF Dialogue

\* Every step keeps the dialogue.
LEMMA DialogueStep == Dialogue /\ [Next]_vars => Dialogue'
<1> SUFFICES ASSUME Dialogue, [Next]_vars PROVE Dialogue'
  OBVIOUS
<1>1. ASSUME NEW r \in Runs, Acts(r) PROVE Dialogue'
  <2>1. TypeOK'
    BY <1>1, TypesStep
  <2>2. Counted'
    BY <1>1, CountedStep
  <2>3. Told' /\ StreamTellsRun'
    BY <1>1, StreamStep
  <2>4. RowsSound'
    BY <1>1, RowsStep
  <2>5. Alone'
    BY <1>1, AloneStep
  <2>6. Opened'
    BY <1>1, OpenedStep
  <2>7. Served'
    BY <1>1, ServedStep
  <2>8. Taken'
    BY <1>1, TakenStep
  <2> QED BY <2>1, <2>2, <2>3, <2>4, <2>5, <2>6, <2>7, <2>8 DEF Dialogue
<1>2. CASE UNCHANGED vars
  <2>1. /\ rows' = rows /\ prompt' = prompt /\ pc' = pc /\ step' = step /\ left' = left
        /\ status' = status /\ events' = events /\ upset' = upset
    BY <1>2 DEF vars
  <2>2. TypeOK'
    BY <2>1 DEF Dialogue, TypeOK
  <2>3. Alone'
    BY <2>1 DEF Dialogue, Alone, AtWork
  <2>4. Opened'
    BY <2>1 DEF Dialogue, Opened, Own
  <2>5. Served'
    BY <2>1 DEF Dialogue, Served, Answered, Awaited, Clean
  <2>6. Counted'
    BY <2>1 DEF Dialogue, Counted, Answers
  <2>7. Told' /\ StreamTellsRun'
    <3>1. ASSUME NEW r \in Streams PROVE Telling(r)' /\ TellsRun(r)'
      <4>1. Telling(r) /\ TellsRun(r)
        BY DEF Dialogue, Told, StreamTellsRun
      <4>2. Telling(r)'
        BY <2>1, <4>1 DEF Telling
      <4>3. Answers(r)' = Answers(r)
        BY <2>1 DEF Answers
      <4>4. TellsRun(r)'
        BY <2>1, <4>1, <4>3 DEF TellsRun
      <4> QED BY <4>2, <4>4
    <3> QED BY <3>1 DEF Told, StreamTellsRun
  <2>8. RowsSound'
    BY <2>1 DEF Dialogue, RowsSound, RowSound, LeftSound, Own
  <2>9. ASSUME NEW r \in Runs, Talking(r)'
        PROVE  \E b \in Nat : Turn(r, b)' /\ Replied(r, b)' /\ Recalled(r, b)'
    <3>1. Talking(r)
      BY <2>1, <2>9 DEF Talking
    <3>2. PICK b \in Nat : Turn(r, b) /\ Replied(r, b) /\ Recalled(r, b)
      BY <3>1 DEF Dialogue, Taken
    <3>3. Turn(r, b)'
      BY <2>1, <3>2 DEF Turn, Own
    <3>4. Recalled(r, b)'
      BY <2>1, <3>2 DEF Recalled, Own
    <3>5. ASSUME NEW i \in (b + 1)..Len(prompt'[r]), rows'[prompt'[r][i]].role = "assistant"
          PROVE  Followed(r, i)' /\ Pending(r, i)'
      <4>1. Followed(r, i) /\ Pending(r, i)
        BY <2>1, <3>2, <3>5 DEF Replied
      <4> QED BY <2>1, <4>1 DEF Followed, Pending
    <3> QED BY <3>3, <3>4, <3>5 DEF Replied
  <2>10. Taken'
    BY <2>9 DEF Taken
  <2> QED BY <2>2, <2>3, <2>4, <2>5, <2>6, <2>7, <2>8, <2>10 DEF Dialogue
<1>3. CASE Next
  <2>1. PICK r \in Runs :
           \/ SaveInput(r) \/ ReadHistory(r) \/ Poll(r) \/ FinishCall(r) \/ Settle(r) \/ Fail(r)
           \/ \E n \in 0..MaxCalls, reason \in {"tool_calls", "stop"} : Answer(r, n, reason)
    BY <1>3 DEF Next
  <2> QED BY <1>1, <2>1 DEF Acts
<1> QED BY <1>2, <1>3

\* The dialogue holds always.
LEMMA DialogueHolds == Spec => []Dialogue
BY DialogueInit, DialogueStep, PTL DEF Spec

\* A stream ends with one event that tells how the run went, for any number of runs in
\* the thread and of steps and calls in a run.
THEOREM StreamsTellTheirRuns == Spec => []StreamTellsRun
<1>1. Dialogue => StreamTellsRun
  BY DEF Dialogue
<1> QED BY <1>1, DialogueHolds, PTL

-----------------------------------------------------------------------------
\* Place i of a list of rows has its answers right behind it ...
AsksAt(p, i) ==
    LET asks == rows[p[i]].calls IN
    rows[p[i]].role = "assistant" =>
        /\ i + Len(asks) <= Len(p)
        /\ \A c \in 1..Len(asks) :
              rows[p[i + c]].role = "tool" /\ rows[p[i + c]].calls = <<asks[c]>>

\* ... and answers a call before it.
AnswersAt(p, i) ==
    rows[p[i]].role = "tool" =>
        \E j \in 1..(i - 1) :
            /\ p[j] \in DOMAIN rows /\ rows[p[j]].role = "assistant"
            /\ \E c \in DOMAIN rows[p[j]].calls : rows[p[i]].calls = <<rows[p[j]].calls[c]>>

\* A list of messages is paired when the rows it is made from are.  Only the first may be
\* the system prompt.
LEMMA PairedList ==
  ASSUME NEW p \in Seq(Nat), NEW ms, DOMAIN ms = 1..Len(p), Len(ms) = Len(p),
         \A i \in 1..Len(p) :
            ms[i].asks = Message(p[i]).asks /\ ms[i].answers = Message(p[i]).answers,
         \A i \in 1..Len(p) : p[i] \in DOMAIN rows \/ (i = 1 /\ p[i] = 0),
         \A x \in DOMAIN rows : x # 0 /\ rows[x].calls \in Seq(Calls),
         \A i \in 1..Len(p) : p[i] \in DOMAIN rows => AsksAt(p, i) /\ AnswersAt(p, i)
  PROVE  Paired(ms)
<1>0. Len(p) \in Nat
  OBVIOUS
<1>1. ASSUME NEW x \in DOMAIN rows
      PROVE  /\ Message(x).asks = IF rows[x].role = "assistant" THEN rows[x].calls ELSE <<>>
             /\ Message(x).answers = IF rows[x].role = "tool" THEN rows[x].calls ELSE <<>>
  <2>1. x # 0
    OBVIOUS
  <2> QED BY <2>1 DEF Message
<1>2. Message(0).asks = <<>> /\ Message(0).answers = <<>>
  BY DEF Message
<1>3. ASSUME NEW i \in 1..Len(p), Len(ms[i].asks) > 0
      PROVE  /\ i + Len(ms[i].asks) <= Len(p)
             /\ \A c \in 1..Len(ms[i].asks) :
                   \E j \in (i + 1)..(i + Len(ms[i].asks)) : ms[j].answers = <<ms[i].asks[c]>>
  <2>1. Len(<<>>) = 0
    OBVIOUS
  <2>2. p[i] \in DOMAIN rows
    BY <1>2, <1>3, <2>1
  <2>3. ms[i].asks = rows[p[i]].calls /\ rows[p[i]].role = "assistant"
    BY <1>1, <1>3, <2>1, <2>2
  <2> DEFINE asks == rows[p[i]].calls
             n    == Len(asks)
  <2>4. /\ i + n <= Len(p) /\ n \in Nat
        /\ \A c \in 1..n : rows[p[i + c]].role = "tool" /\ rows[p[i + c]].calls = <<asks[c]>>
    BY <2>2, <2>3 DEF AsksAt
  <2> HIDE DEF n
  <2>5. ASSUME NEW c \in 1..n PROVE \E j \in (i + 1)..(i + n) : ms[j].answers = <<asks[c]>>
    <3>1. i + c \in (i + 1)..(i + n) /\ i + c \in 1..Len(p) /\ i + c # 1
      BY <1>0, <2>4
    <3>2. p[i + c] \in DOMAIN rows
      BY <3>1
    <3>3. ms[i + c].answers = rows[p[i + c]].calls
      BY <1>1, <2>4, <3>1, <3>2
    <3> QED BY <2>4, <3>1, <3>3
  <2> QED BY <2>3, <2>4, <2>5 DEF n
<1>4. ASSUME NEW i \in 1..Len(p), ms[i].answers # <<>>
      PROVE  \E j \in 1..(i - 1) : ToSet(ms[i].answers) \subseteq ToSet(ms[j].asks)
  <2>1. p[i] \in DOMAIN rows
    BY <1>2, <1>4
  <2>2. ms[i].answers = rows[p[i]].calls /\ rows[p[i]].role = "tool"
    BY <1>1, <1>4, <2>1
  <2>3. PICK j \in 1..(i - 1) :
           /\ p[j] \in DOMAIN rows /\ rows[p[j]].role = "assistant"
           /\ \E c \in DOMAIN rows[p[j]].calls : rows[p[i]].calls = <<rows[p[j]].calls[c]>>
    BY <2>1, <2>2 DEF AnswersAt
  <2>4. j \in 1..Len(p)
    BY <1>0
  <2>5. ms[j].asks = rows[p[j]].calls
    BY <1>1, <2>3, <2>4
  <2>6. PICK c \in DOMAIN ms[j].asks : ms[i].answers = <<ms[j].asks[c]>>
    BY <2>2, <2>3, <2>5
  <2>7. ToSet(ms[i].answers) = {ms[j].asks[c]}
    BY <2>6 DEF ToSet
  <2>8. ms[j].asks[c] \in ToSet(ms[j].asks)
    BY DEF ToSet
  <2> QED BY <2>7, <2>8
<1> QED BY <1>3, <1>4 DEF Paired

\* The rows of a turn that awaits an answer answer one another.
LEMMA TurnPaired ==
  ASSUME Dialogue, NEW r \in Runs, pc[r] = "llm", NEW b \in Nat, Replied(r, b),
         NEW p \in Seq(Nat), NEW n \in Nat, Speaks(r, b, p, n), NEW i \in (b + 1)..Len(p)
  PROVE  /\ AsksAt(p, i)
         /\ rows[p[i]].role = "tool" =>
               \E j \in (b + 1)..(i - 1) :
                  /\ rows[p[j]].role = "assistant"
                  /\ \E c \in DOMAIN rows[p[j]].calls : rows[p[i]].calls = <<rows[p[j]].calls[c]>>
<1>1. /\ p = prompt[r] /\ n = Len(rows) /\ DOMAIN rows = 1..n
      /\ Len(p) \in Nat /\ b >= 1 /\ b + 1 <= Len(p)
      /\ \A k \in (b + 1)..Len(p) : p[k] \in Own(r) /\ p[k] \in 1..n
      /\ \A x \in Own(r) : x \in 1..n /\ \E k \in (b + 1)..Len(p) : p[k] = x
      /\ \A k, j \in (b + 1)..Len(p) : k < j => p[k] < p[j]
      /\ \A x \in 1..n : Len(rows[x].calls) \in Nat
  BY DEF Speaks
<1>2. ASSUME rows[p[i]].role = "assistant" PROVE AsksAt(p, i)
  <2> DEFINE asks == rows[p[i]].calls
  <2>1. Followed(r, i) /\ Pending(r, i) /\ Len(asks) \in Nat
    BY <1>1, <1>2 DEF Replied
  <2>2. ~(i + Len(asks) > Len(p))
    BY <1>1, <2>1 DEF Pending
  <2>3. i + Len(asks) <= Len(p)
    BY <1>1, <2>1, <2>2
  <2>4. \A c \in 1..Len(asks) : i + c <= Len(p)
    <3>1. Len(p) \in Nat /\ Len(asks) \in Nat /\ i \in Nat
      BY <1>1, <2>1
    <3> QED BY <2>3, <3>1
  <2> QED BY <1>1, <2>1, <2>3, <2>4 DEF Followed, AsksAt
<1>3. ASSUME rows[p[i]].role = "tool"
      PROVE  \E j \in (b + 1)..(i - 1) :
                /\ rows[p[j]].role = "assistant"
                /\ \E c \in DOMAIN rows[p[j]].calls : rows[p[i]].calls = <<rows[p[j]].calls[c]>>
  <2>1. p[i] \in Own(r) /\ p[i] \in 1..n
    BY <1>1
  <2>2. PICK y \in 1..(p[i] - 1) :
           /\ rows[y].run = rows[p[i]].run /\ rows[y].role = "assistant"
           /\ \E c \in DOMAIN rows[y].calls : rows[p[i]].calls = <<rows[y].calls[c]>>
    <3>1. RowSound(p[i])
      BY <1>1, <2>1 DEF Dialogue, RowsSound
    <3> QED BY <1>3, <3>1 DEF RowSound
  <2>3. y \in 1..n /\ y < p[i] /\ y \in Nat
    BY <2>1
  <2>4. y \in Own(r)
    BY <1>1, <2>1, <2>2, <2>3 DEF Own
  <2>5. PICK j \in (b + 1)..Len(p) : p[j] = y
    BY <1>1, <2>4
  <2>6. j < i
    <3>1. i # j
      BY <2>1, <2>3, <2>5
    <3>2. ~(i < j)
      <4>1. i < j => p[i] < p[j]
        BY <1>1
      <4> QED BY <2>1, <2>3, <2>5, <4>1
    <3> QED BY <1>1, <3>1, <3>2
  <2>7. j \in (b + 1)..(i - 1)
    BY <1>1, <2>6
  <2> QED BY <2>2, <2>5, <2>7
<1>4. rows[p[i]].role # "assistant" => AsksAt(p, i)
  BY DEF AsksAt
<1> QED BY <1>2, <1>3, <1>4

\* What is paired stays so when the places before it are left away.
LEMMA Shifted ==
  ASSUME NEW d \in Nat, NEW p \in Seq(Nat), NEW s \in Seq(Nat), d + Len(s) = Len(p),
         \A k \in 1..Len(s) : s[k] = p[d + k],
         NEW i \in 1..Len(s), Len(rows[s[i]].calls) \in Nat, AsksAt(p, d + i),
         rows[p[d + i]].role = "tool" =>
            \E j \in (d + 1)..(d + i - 1) :
               /\ p[j] \in DOMAIN rows /\ rows[p[j]].role = "assistant"
               /\ \E c \in DOMAIN rows[p[j]].calls :
                     rows[p[d + i]].calls = <<rows[p[j]].calls[c]>>
  PROVE  AsksAt(s, i) /\ AnswersAt(s, i)
<1>1. Len(s) \in Nat /\ Len(p) \in Nat /\ i \in Nat /\ s[i] = p[d + i]
  OBVIOUS
<1>2. ASSUME rows[s[i]].role = "assistant" PROVE AsksAt(s, i)
  <2> DEFINE asks == rows[s[i]].calls
             n    == Len(asks)
  <2>1. /\ d + i + n <= Len(p)
        /\ \A c \in 1..n : rows[p[d + i + c]].role = "tool" /\ rows[p[d + i + c]].calls = <<asks[c]>>
    BY <1>1, <1>2 DEF AsksAt
  <2>2. n \in Nat
    OBVIOUS
  <2> HIDE DEF n
  <2>3. i + n <= Len(s)
    BY <1>1, <2>1, <2>2
  <2>4. \A c \in 1..n : i + c \in 1..Len(s) /\ d + (i + c) = d + i + c
    BY <1>1, <2>2, <2>3
  <2>5. \A c \in 1..n : s[i + c] = p[d + i + c]
    BY <2>4
  <2>6. \A c \in 1..n : rows[s[i + c]].role = "tool" /\ rows[s[i + c]].calls = <<asks[c]>>
    BY <2>1, <2>5
  <2> QED BY <2>3, <2>6 DEF AsksAt, n
<1>3. ASSUME rows[s[i]].role = "tool" PROVE AnswersAt(s, i)
  <2>1. PICK j \in (d + 1)..(d + i - 1) :
           /\ p[j] \in DOMAIN rows /\ rows[p[j]].role = "assistant"
           /\ \E c \in DOMAIN rows[p[j]].calls : rows[p[d + i]].calls = <<rows[p[j]].calls[c]>>
    BY <1>1, <1>3
  <2>2. j - d \in 1..(i - 1) /\ j - d \in 1..Len(s) /\ d + (j - d) = j
    BY <1>1
  <2>3. s[j - d] = p[j]
    BY <2>2
  <2> QED BY <1>1, <2>1, <2>2, <2>3 DEF AnswersAt
<1> QED BY <1>2, <1>3 DEF AsksAt, AnswersAt

\* The list for the provider that takes every row as a message.
LEMMA OpenAIList ==
  ASSUME NEW p \in Seq(Nat)
  PROVE  /\ DOMAIN OpenAI(p) = 1..Len(p) /\ Len(OpenAI(p)) = Len(p)
         /\ \A i \in 1..Len(p) : OpenAI(p)[i] = Message(p[i])
<1> DEFINE M == {Message(p[i]) : i \in 1..Len(p)}
<1>1. OpenAI(p) = [i \in 1..Len(p) |-> Message(p[i])] /\ Len(p) \in Nat
  BY DEF OpenAI
<1>2. OpenAI(p) \in [1..Len(p) -> M]
  BY <1>1
<1> HIDE DEF M
<1>3. OpenAI(p) \in Seq(M) /\ Len(OpenAI(p)) = Len(p)
  BY <1>1, <1>2
<1> QED BY <1>1, <1>3

\* The list for the provider that has the system prompt apart: every message but the first.
LEMMA AnthropicList ==
  ASSUME TypeOK, NEW p \in Seq(Nat), Len(p) > 0, p[1] = 0,
         \A i \in 2..Len(p) : p[i] \in DOMAIN rows
  PROVE  LET m == Len(p) - 1 IN
         /\ m \in Nat /\ DOMAIN Anthropic(p) = 1..m /\ Len(Anthropic(p)) = m
         /\ \A i \in 1..m : /\ Anthropic(p)[i].asks = Message(p[i + 1]).asks
                            /\ Anthropic(p)[i].answers = Message(p[i + 1]).answers
<1>1. PICK m \in Nat : m = Len(p) - 1
  OBVIOUS
<1> DEFINE S == {i \in DOMAIN p : Message(p[i]).role # "system"}
<1>2. ASSUME NEW x \in DOMAIN rows PROVE Message(x).role # "system"
  <2>1. rows \in Seq(Rows) /\ x # 0 /\ rows[x] \in Rows
    BY DEF TypeOK
  <2>2. Message(x).role = rows[x].role
    BY <2>1 DEF Message
  <2> QED BY <2>1, <2>2 DEF Rows
<1>3. Message(0).role = "system"
  BY DEF Message
<1>4. \A i \in Nat : i \in S <=> i \in 2..(m + 1)
  <2>1. DOMAIN p = 1..(m + 1)
    BY <1>1
  <2>2. \A i \in 2..(m + 1) : i \in 1..(m + 1) /\ p[i] \in DOMAIN rows
    BY <1>1
  <2>3. \A i \in 1..(m + 1) : i \notin 2..(m + 1) => i = 1
    OBVIOUS
  <2> QED BY <1>2, <1>3, <2>1, <2>2, <2>3
<1>5. S \subseteq Nat
  OBVIOUS
<1> HIDE DEF S
<1> DEFINE s == [k \in 1..m |-> k + 1]
<1>6. s \in Seq(S) /\ Len(s) = m /\ \A k \in 1..m : s[k] = k + 1
  <2>1. \A k \in 1..m : k + 1 \in 2..(m + 1) /\ k + 1 \in Nat
    OBVIOUS
  <2>2. s \in [1..m -> S]
    BY <1>4, <2>1
  <2> QED BY <2>2
<1> HIDE DEF s
<1>7. \A i, j \in 1..Len(s) : i < j => s[i] < s[j]
  BY <1>6
<1>8. ASSUME NEW x \in S PROVE \E i \in 1..Len(s) : s[i] = x
  <2>1. x - 1 \in 1..m /\ s[x - 1] = x
    BY <1>4, <1>5, <1>6
  <2> QED BY <1>6, <2>1
<1>9. s = Ascending(S)
  BY <1>5, <1>6, <1>7, <1>8, AscendingOnly
<1>10. Anthropic(p) = [i \in DOMAIN s |->
           [Message(p[s[i]]) EXCEPT !.role = IF @ = "tool" THEN "user" ELSE @]]
  BY <1>9 DEF Anthropic, S
<1>11. DOMAIN s = 1..m
  BY <1>6
<1> DEFINE A(i) == [Message(p[i + 1]) EXCEPT !.role = IF @ = "tool" THEN "user" ELSE @]
<1>12. Anthropic(p) = [i \in 1..m |-> A(i)]
  BY <1>6, <1>10, <1>11
<1>13. ASSUME NEW x PROVE
          LET a == [Message(x) EXCEPT !.role = IF @ = "tool" THEN "user" ELSE @]
          IN  a.asks = Message(x).asks /\ a.answers = Message(x).answers
  BY DEF Message
<1>14. \A i \in 1..m : A(i).asks = Message(p[i + 1]).asks /\ A(i).answers = Message(p[i + 1]).answers
  BY <1>13
<1> HIDE DEF A
<1> DEFINE M == {A(i) : i \in 1..m}
<1>15. Anthropic(p) \in [1..m -> M]
  BY <1>12
<1> HIDE DEF M
<1>16. Anthropic(p) \in Seq(M) /\ Len(Anthropic(p)) = m /\ DOMAIN Anthropic(p) = 1..m
  BY <1>15
<1>17. \A i \in 1..m : Anthropic(p)[i] = A(i)
  BY <1>12
<1> QED BY <1>1, <1>14, <1>16, <1>17

\* Every row is one of the thread and has a list of calls.
LEMMA RowsTyped ==
  ASSUME TypeOK
  PROVE  \A x \in DOMAIN rows : x # 0 /\ x \in Nat /\ rows[x].calls \in Seq(Calls)
                                /\ Len(rows[x].calls) \in Nat
<1>1. rows \in Seq(Rows)
  BY DEF TypeOK
<1>2. \A y \in Rows : y.calls \in Seq(Calls) /\ Len(y.calls) \in Nat
  BY DEF Rows
<1> HIDE DEF Rows
<1> QED BY <1>1, <1>2

\* The turn of a run is kept, once, last, in order and paired.
LEMMA DialogueKeepsTurns == Dialogue => OwnTurnKept
<1> SUFFICES ASSUME Dialogue, NEW r \in Runs, pc[r] = "llm"
             PROVE  \E b \in 1..Len(prompt[r]) :
                       LET own == SubSeq(prompt[r], b + 1, Len(prompt[r]))
                       IN  /\ own = Ascending(Own(r)) /\ Paired(OpenAI(own))
                           /\ \A i \in 1..b : prompt[r][i] \notin Own(r)
  BY DEF OwnTurnKept
<1>1. PICK b \in Nat : Turn(r, b) /\ Replied(r, b) /\ Recalled(r, b)
  BY DEF Dialogue, Taken, Talking
<1>2. PICK p \in Seq(Nat), n \in Nat : Speaks(r, b, p, n)
  BY <1>1, TalkFacts
<1>3. /\ p = prompt[r] /\ n = Len(rows) /\ DOMAIN rows = 1..n
      /\ Len(p) \in Nat /\ b >= 1 /\ b + 1 <= Len(p)
      /\ \A i \in (b + 1)..Len(p) : p[i] \in Own(r) /\ p[i] \in 1..n
      /\ \A x \in Own(r) : x \in 1..n /\ \E i \in (b + 1)..Len(p) : p[i] = x
      /\ \A i, j \in (b + 1)..Len(p) : i < j => p[i] < p[j]
  BY <1>2 DEF Speaks
<1> DEFINE own == SubSeq(p, b + 1, Len(p))
           m   == Len(p) - b
<1>4. /\ own \in Seq(Own(r)) /\ m \in Nat /\ Len(own) = m
      /\ \A k \in 1..m : own[k] = p[b + k]
  <2>1. \A i \in (b + 1)..Len(p) : p[i] \in Own(r)
    BY <1>3
  <2>2. /\ own \in Seq(Own(r))
        /\ Len(own) = IF b + 1 <= Len(p) THEN Len(p) - (b + 1) + 1 ELSE 0
        /\ \A k \in 1..(Len(p) - (b + 1) + 1) : own[k] = p[b + 1 + k - 1]
    <3>1. b + 1 \in Int /\ Len(p) \in Int
      BY <1>3
    <3> QED BY <2>1, <3>1, SubSeqProperties
  <2>3. m \in Nat /\ Len(p) - (b + 1) + 1 = m
    BY <1>3
  <2>4. \A k \in 1..m : b + 1 + k - 1 = b + k
    BY <1>3
  <2> HIDE DEF own, m
  <2>5. Len(own) = m
    BY <1>3, <2>2, <2>3
  <2> QED BY <2>2, <2>3, <2>4, <2>5
<1>5. PICK s \in Seq(Nat) : s = own
  <2>1. Own(r) \subseteq Nat
    BY <1>3
  <2>2. own \in Seq(Nat)
    BY <1>4, <2>1, SeqMonotonic
  <2> QED BY <2>2
<1> HIDE DEF own
<1>6. \A k \in 1..m : b + k \in (b + 1)..Len(p) /\ s[k] = p[b + k]
  <2>1. \A k \in 1..m : b + k \in (b + 1)..Len(p)
    <3>1. Len(p) \in Nat
      BY <1>3
    <3> QED BY <3>1
  <2>2. \A k \in 1..m : s[k] = p[b + k]
    BY <1>4, <1>5
  <2> QED BY <2>1, <2>2
<1>7. s = Ascending(Own(r))
  <2>1. Own(r) \subseteq Nat /\ s \in Seq(Own(r)) /\ Len(s) = m
    BY <1>3, <1>4, <1>5
  <2>2. ASSUME NEW i \in 1..Len(s), NEW j \in 1..Len(s), i < j PROVE s[i] < s[j]
    <3>1. b + i \in (b + 1)..Len(p) /\ b + j \in (b + 1)..Len(p) /\ b + i < b + j
      BY <1>6, <2>1, <2>2
    <3>2. s[i] = p[b + i] /\ s[j] = p[b + j]
      BY <1>6, <2>1
    <3> QED BY <1>3, <3>1, <3>2
  <2>3. ASSUME NEW x \in Own(r) PROVE \E i \in 1..Len(s) : s[i] = x
    <3>1. PICK i \in (b + 1)..Len(p) : p[i] = x
      BY <1>3
    <3>2. i - b \in 1..m /\ b + (i - b) = i
      BY <1>3
    <3>3. s[i - b] = x
      BY <1>6, <3>1, <3>2
    <3> QED BY <2>1, <3>2, <3>3
  <2> QED BY <2>1, <2>2, <2>3, AscendingOnly
<1>8. \A x \in DOMAIN rows : x # 0 /\ x \in Nat /\ rows[x].calls \in Seq(Calls)
                             /\ Len(rows[x].calls) \in Nat
  BY RowsTyped DEF Dialogue
<1>9. \A k \in 1..Len(s) : s[k] \in DOMAIN rows /\ s[k] = p[b + k]
  BY <1>3, <1>4, <1>5, <1>6
<1>10. ASSUME NEW i \in 1..Len(s) PROVE AsksAt(s, i) /\ AnswersAt(s, i)
  <2>1. b + i \in (b + 1)..Len(p)
    BY <1>4, <1>5, <1>6
  <2>2. /\ AsksAt(p, b + i)
        /\ rows[p[b + i]].role = "tool" =>
               \E j \in (b + 1)..(b + i - 1) :
                  /\ rows[p[j]].role = "assistant"
                  /\ \E c \in DOMAIN rows[p[j]].calls : rows[p[b + i]].calls = <<rows[p[j]].calls[c]>>
    <3>1. PICK k \in (b + 1)..Len(p) : k = b + i
      BY <2>1
    <3>2. /\ AsksAt(p, k)
          /\ rows[p[k]].role = "tool" =>
               \E j \in (b + 1)..(k - 1) :
                  /\ rows[p[j]].role = "assistant"
                  /\ \E c \in DOMAIN rows[p[j]].calls : rows[p[k]].calls = <<rows[p[j]].calls[c]>>
      BY <1>1, <1>2, TurnPaired
    <3>3. AsksAt(p, b + i)
      BY <3>1, <3>2
    <3>4. ASSUME rows[p[b + i]].role = "tool"
          PROVE  \E j \in (b + 1)..(b + i - 1) :
                  /\ rows[p[j]].role = "assistant"
                  /\ \E c \in DOMAIN rows[p[j]].calls : rows[p[b + i]].calls = <<rows[p[j]].calls[c]>>
      <4>1. PICK j \in (b + 1)..(k - 1) :
                  /\ rows[p[j]].role = "assistant"
                  /\ \E c \in DOMAIN rows[p[j]].calls : rows[p[k]].calls = <<rows[p[j]].calls[c]>>
        BY <3>1, <3>2, <3>4
      <4>2. j \in (b + 1)..(b + i - 1)
        BY <3>1
      <4> QED BY <3>1, <4>1, <4>2
    <3> QED BY <3>3, <3>4
  <2>3. \A j \in (b + 1)..(b + i - 1) : p[j] \in DOMAIN rows
    <3>1. \A j \in (b + 1)..(b + i - 1) : j \in (b + 1)..Len(p)
      BY <1>3, <2>1
    <3> QED BY <1>3, <3>1
  <2>4. rows[p[b + i]].role = "tool" =>
               \E j \in (b + 1)..(b + i - 1) :
                  /\ p[j] \in DOMAIN rows /\ rows[p[j]].role = "assistant"
                  /\ \E c \in DOMAIN rows[p[j]].calls : rows[p[b + i]].calls = <<rows[p[j]].calls[c]>>
    BY <2>2, <2>3
  <2>5. b + Len(s) = Len(p) /\ Len(rows[s[i]].calls) \in Nat /\ \A k \in 1..Len(s) : s[k] = p[b + k]
    <3>1. Len(p) \in Nat /\ Len(s) = Len(p) - b
      BY <1>3, <1>4, <1>5
    <3>2. b + Len(s) = Len(p)
      BY <3>1
    <3>3. Len(rows[s[i]].calls) \in Nat
      BY <1>8, <1>9
    <3> QED BY <1>9, <3>2, <3>3
  <2> QED BY <2>2, <2>4, <2>5, Shifted
<1>11. Paired(OpenAI(s))
  BY <1>8, <1>9, <1>10, OpenAIList, PairedList
<1>12. ASSUME NEW i \in 1..b PROVE p[i] \notin Own(r)
  <2>1. p[1] = 0 /\ \A k \in 2..b : p[k] \in DOMAIN rows \ Own(r)
    BY <1>1, <1>3 DEF Recalled
  <2>2. i = 1 \/ i \in 2..b
    OBVIOUS
  <2>3. 0 \notin Own(r)
    BY <1>3
  <2> QED BY <2>1, <2>2, <2>3
<1>13. b \in 1..Len(p)
  BY <1>3
<1> QED BY <1>3, <1>5, <1>7, <1>11, <1>12, <1>13 DEF own

\* A prompt without an upset run is the whole thread up to the turn, and paired.
LEMMA PromptSound ==
  ASSUME Dialogue, NEW r \in Runs, pc[r] = "llm", NEW p \in Seq(Nat), p = prompt[r],
         \A i \in 1..Len(p) : p[i] # 0 => rows[p[i]].run \notin upset
  PROVE  /\ Len(p) > 0 /\ p[1] = 0
         /\ \A i \in 2..Len(p) : p[i] \in DOMAIN rows /\ AsksAt(p, i)
         /\ \A i \in 2..Len(p) : rows[p[i]].role = "tool" =>
               \E j \in 2..(i - 1) :
                  /\ p[j] \in DOMAIN rows /\ rows[p[j]].role = "assistant"
                  /\ \E c \in DOMAIN rows[p[j]].calls : rows[p[i]].calls = <<rows[p[j]].calls[c]>>
<1>1. PICK b \in Nat : Turn(r, b) /\ Replied(r, b) /\ Recalled(r, b)
  BY DEF Dialogue, Taken, Talking
<1>2. PICK n \in Nat : Speaks(r, b, p, n)
  <2>1. PICK q \in Seq(Nat), n \in Nat : Speaks(r, b, q, n)
    BY <1>1, TalkFacts
  <2>2. q = p
    BY <2>1 DEF Speaks
  <2> QED BY <2>1, <2>2
<1>3. /\ n = Len(rows) /\ DOMAIN rows = 1..n
      /\ Len(p) \in Nat /\ b >= 1 /\ b + 1 <= Len(p)
      /\ \A i \in (b + 1)..Len(p) : p[i] \in Own(r) /\ p[i] \in 1..n
      /\ rows[p[b + 1]].role = "user"
      /\ \A x \in 1..n : Len(rows[x].calls) \in Nat
  BY <1>2 DEF Speaks
<1>4. b + 1 \in (b + 1)..Len(p) /\ b + 1 \in 1..Len(p)
  BY <1>3
<1>5. p[1] = 0 /\ \A i \in 2..b : p[i] \in DOMAIN rows
  BY <1>1 DEF Recalled
<1>6. r \notin upset
  <2>1. p[b + 1] \in 1..n /\ p[b + 1] \in Own(r)
    BY <1>3, <1>4
  <2>2. p[b + 1] # 0 /\ rows[p[b + 1]].run = r
    BY <2>1 DEF Own
  <2> QED BY <1>4, <2>2
<1>7. (\A i \in 2..b : p[i] = i - 1) /\ p[b + 1] = b
  <2>1. ~ \E i \in 2..b : rows[p[i]].run \in upset
    <3> SUFFICES ASSUME NEW i \in 2..b PROVE rows[p[i]].run \notin upset
      OBVIOUS
    <3>1. i \in 1..Len(p) /\ p[i] # 0
      BY <1>3, <1>5
    <3> QED BY <3>1
  <2> QED BY <1>1, <1>6, <2>1 DEF Recalled
<1>8. b \in 1..n
  BY <1>3, <1>4, <1>7
<1>9. \A x \in 1..b : rows[x].run \notin upset
  <2> SUFFICES ASSUME NEW x \in 1..b PROVE rows[x].run \notin upset
    OBVIOUS
  <2>1. x + 1 \in 1..Len(p) /\ p[x + 1] = x
    <3>1. x = b \/ x + 1 \in 2..b
      OBVIOUS
    <3>2. x + 1 \in 2..b => p[x + 1] = (x + 1) - 1
      BY <1>7
    <3>3. x + 1 \in 1..Len(p)
      BY <1>3
    <3> QED BY <1>7, <3>1, <3>2, <3>3
  <2> QED BY <2>1
<1>10. ASSUME NEW i \in 2..b PROVE AsksAt(p, i)
  <2>1. PICK x \in 1..(b - 1) : i = x + 1 /\ p[i] = x
    <3>1. i - 1 \in 1..(b - 1) /\ i = (i - 1) + 1
      OBVIOUS
    <3> QED BY <1>7, <3>1
  <2>2. ASSUME rows[x].role = "assistant" PROVE AsksAt(p, i)
    <3> DEFINE asks == rows[x].calls
               l    == Len(asks)
    <3>1. x \in 1..n /\ l \in Nat
      BY <1>3, <1>8
    <3>2. Answered(x)
      BY <1>3, <2>2, <3>1 DEF Dialogue, Served
    <3>3. \A c \in 1..l : x + c <= b =>
             (rows[x + c].role = "tool" /\ rows[x + c].calls = <<asks[c]>>)
      <4> SUFFICES ASSUME NEW c \in 1..l, x + c <= b
                   PROVE  rows[x + c].role = "tool" /\ rows[x + c].calls = <<asks[c]>>
        OBVIOUS
      <4>1. x + c <= Len(rows)
        BY <1>3, <1>8, <3>1
      <4>2. Clean(x, x + c)
        <5>1. \A y \in x..(x + c) : y \in 1..b
          BY <3>1
        <5> QED BY <1>9, <5>1 DEF Clean
      <4> QED BY <3>2, <4>1, <4>2 DEF Answered
    <3> HIDE DEF l
    <3>4. x + l <= b - 1
      <4> SUFFICES ASSUME ~(x + l <= b - 1) PROVE FALSE
        OBVIOUS
      <4>1. b - x \in 1..l /\ x + (b - x) = b /\ x + (b - x) <= b
        BY <3>1
      <4>2. rows[b].role = "tool"
        BY <3>3, <4>1
      <4> QED BY <1>3, <1>7, <4>2
    <3>5. ASSUME NEW c \in 1..l PROVE rows[p[i + c]].role = "tool" /\ rows[p[i + c]].calls = <<asks[c]>>
      <4>1. x + c <= b /\ i + c \in 2..b /\ (i + c) - 1 = x + c
        BY <2>1, <3>1, <3>4
      <4>2. p[i + c] = x + c
        BY <1>7, <4>1
      <4> QED BY <3>3, <4>1, <4>2
    <3>6. i + l <= Len(p)
      BY <1>3, <2>1, <3>1, <3>4
    <3> QED BY <2>1, <3>5, <3>6 DEF AsksAt, l
  <2> QED BY <2>1, <2>2 DEF AsksAt
<1>11. ASSUME NEW i \in 2..b, rows[p[i]].role = "tool"
       PROVE  \E j \in 2..(i - 1) :
                  /\ p[j] \in DOMAIN rows /\ rows[p[j]].role = "assistant"
                  /\ \E c \in DOMAIN rows[p[j]].calls : rows[p[i]].calls = <<rows[p[j]].calls[c]>>
  <2>1. i - 1 \in 1..n /\ p[i] = i - 1
    BY <1>7, <1>8
  <2>2. PICK y \in 1..(i - 1 - 1) :
           /\ rows[y].role = "assistant"
           /\ \E c \in DOMAIN rows[y].calls : rows[i - 1].calls = <<rows[y].calls[c]>>
    <3>1. RowSound(i - 1)
      BY <1>3, <2>1 DEF Dialogue, RowsSound
    <3> QED BY <1>11, <2>1, <3>1 DEF RowSound
  <2>3. y + 1 \in 2..(i - 1) /\ y + 1 \in 2..b /\ (y + 1) - 1 = y
    OBVIOUS
  <2>4. p[y + 1] = y /\ p[y + 1] \in DOMAIN rows
    BY <1>5, <1>7, <2>3
  <2> QED BY <2>1, <2>2, <2>3, <2>4
<1>12. ASSUME NEW i \in (b + 1)..Len(p)
       PROVE  /\ AsksAt(p, i)
              /\ rows[p[i]].role = "tool" =>
                    \E j \in 2..(i - 1) :
                       /\ p[j] \in DOMAIN rows /\ rows[p[j]].role = "assistant"
                       /\ \E c \in DOMAIN rows[p[j]].calls :
                             rows[p[i]].calls = <<rows[p[j]].calls[c]>>
  <2>1. /\ AsksAt(p, i)
        /\ rows[p[i]].role = "tool" =>
               \E j \in (b + 1)..(i - 1) :
                  /\ rows[p[j]].role = "assistant"
                  /\ \E c \in DOMAIN rows[p[j]].calls : rows[p[i]].calls = <<rows[p[j]].calls[c]>>
    BY <1>1, <1>2, TurnPaired
  <2>2. \A j \in (b + 1)..(i - 1) : j \in 2..(i - 1) /\ p[j] \in DOMAIN rows
    <3>1. \A j \in (b + 1)..(i - 1) : j \in 2..(i - 1) /\ j \in (b + 1)..Len(p)
      BY <1>3
    <3> QED BY <1>3, <3>1
  <2> QED BY <2>1, <2>2
<1>13. \A i \in 2..Len(p) : i \in 2..b \/ i \in (b + 1)..Len(p)
  BY <1>3
<1>14. \A i \in 2..Len(p) : p[i] \in DOMAIN rows /\ AsksAt(p, i)
  BY <1>3, <1>5, <1>10, <1>12, <1>13
<1>15. Len(p) > 0
  BY <1>3
<1>16. ASSUME NEW i \in 2..Len(p), rows[p[i]].role = "tool"
       PROVE  \E j \in 2..(i - 1) :
                  /\ p[j] \in DOMAIN rows /\ rows[p[j]].role = "assistant"
                  /\ \E c \in DOMAIN rows[p[j]].calls : rows[p[i]].calls = <<rows[p[j]].calls[c]>>
  BY <1>11, <1>12, <1>13, <1>16
<1> QED BY <1>5, <1>14, <1>15, <1>16

\* A prompt no run upset is paired: its history by the thread, its turn by the run.
LEMMA DialoguePairs == Dialogue => PromptsPaired
<1> SUFFICES ASSUME Dialogue, NEW r \in Runs, pc[r] = "llm",
                    \A i \in ToSet(prompt[r]) \ {0} : rows[i].run \notin upset
             PROVE  Paired(OpenAI(prompt[r])) /\ Paired(Anthropic(prompt[r]))
  BY DEF PromptsPaired
<1>1. TypeOK
  BY DEF Dialogue
<1>2. PICK p \in Seq(Nat) : p = prompt[r]
  BY <1>1 DEF TypeOK
<1>3. \A i \in 1..Len(p) : p[i] # 0 => rows[p[i]].run \notin upset
  <2>1. \A i \in 1..Len(p) : p[i] \in ToSet(p)
    BY DEF ToSet
  <2> QED BY <1>2, <2>1
<1>4. /\ Len(p) > 0 /\ p[1] = 0
      /\ \A i \in 2..Len(p) : p[i] \in DOMAIN rows /\ AsksAt(p, i)
      /\ \A i \in 2..Len(p) : rows[p[i]].role = "tool" =>
               \E j \in 2..(i - 1) :
                  /\ p[j] \in DOMAIN rows /\ rows[p[j]].role = "assistant"
                  /\ \E c \in DOMAIN rows[p[j]].calls : rows[p[i]].calls = <<rows[p[j]].calls[c]>>
  BY <1>2, <1>3, PromptSound
<1>5. \A x \in DOMAIN rows : x # 0 /\ x \in Nat /\ rows[x].calls \in Seq(Calls)
                             /\ Len(rows[x].calls) \in Nat
  BY <1>1, RowsTyped
<1>6. \A i \in 1..Len(p) : i = 1 \/ i \in 2..Len(p)
  OBVIOUS
<1>7. 0 \notin DOMAIN rows
  BY <1>5
<1>8. Paired(OpenAI(p))
  <2>1. ASSUME NEW i \in 1..Len(p), p[i] \in DOMAIN rows PROVE AsksAt(p, i) /\ AnswersAt(p, i)
    <3>1. i \in 2..Len(p)
      BY <1>4, <1>6, <1>7, <2>1
    <3>2. \A j \in 2..(i - 1) : j \in 1..(i - 1)
      OBVIOUS
    <3> QED BY <1>4, <3>1, <3>2 DEF AnswersAt
  <2>2. \A i \in 1..Len(p) : p[i] \in DOMAIN rows \/ (i = 1 /\ p[i] = 0)
    BY <1>4, <1>6
  <2> QED BY <1>5, <2>1, <2>2, OpenAIList, PairedList
<1>9. Paired(Anthropic(p))
  <2>1. PICK m \in Nat : m = Len(p) - 1
    BY <1>4
  <2> DEFINE q == [k \in 1..m |-> p[k + 1]]
  <2>2. \A k \in 1..m : k + 1 \in 2..Len(p) /\ p[k + 1] \in Nat
    BY <2>1
  <2>3. PICK s \in Seq(Nat) : s = q
    <3>1. q \in [1..m -> Nat]
      BY <2>2
    <3>2. q \in Seq(Nat)
      BY <3>1
    <3> QED BY <3>2
  <2>4. Len(s) = m /\ \A k \in 1..m : s[k] = p[k + 1]
    BY <2>3
  <2> HIDE DEF q
  <2>5. /\ DOMAIN Anthropic(p) = 1..m /\ Len(Anthropic(p)) = m
        /\ \A i \in 1..m : /\ Anthropic(p)[i].asks = Message(p[i + 1]).asks
                           /\ Anthropic(p)[i].answers = Message(p[i + 1]).answers
    BY <1>1, <1>4, <2>1, AnthropicList
  <2>6. ASSUME NEW i \in 1..Len(s) PROVE AsksAt(s, i) /\ AnswersAt(s, i) /\ s[i] \in DOMAIN rows
    <3>1. i \in 1..m /\ 1 + i \in 2..Len(p) /\ 1 + i = i + 1 /\ (1 + i) - 1 = i
      BY <2>2, <2>4
    <3>2. s[i] = p[1 + i] /\ s[i] \in DOMAIN rows
      BY <1>4, <2>4, <3>1
    <3>3. /\ AsksAt(p, 1 + i)
          /\ rows[p[1 + i]].role = "tool" =>
               \E j \in (1 + 1)..(1 + i - 1) :
                  /\ p[j] \in DOMAIN rows /\ rows[p[j]].role = "assistant"
                  /\ \E c \in DOMAIN rows[p[j]].calls :
                        rows[p[1 + i]].calls = <<rows[p[j]].calls[c]>>
      <4>1. 2..((1 + i) - 1) = (1 + 1)..(1 + i - 1)
        OBVIOUS
      <4> QED BY <1>4, <3>1, <4>1
    <3>4. 1 + Len(s) = Len(p) /\ \A k \in 1..Len(s) : s[k] = p[1 + k]
      <4>1. \A k \in 1..m : k + 1 = 1 + k
        OBVIOUS
      <4>2. 1 + m = Len(p)
        BY <2>1
      <4> QED BY <2>4, <4>1, <4>2
    <3>5. Len(rows[s[i]].calls) \in Nat
      BY <1>5, <3>2
    <3>6. 1 \in Nat
      OBVIOUS
    <3>7. AsksAt(s, i) /\ AnswersAt(s, i)
      BY <3>3, <3>4, <3>5, <3>6, Shifted
    <3> QED BY <3>2, <3>7
  <2>7. \A i \in 1..Len(s) : /\ Anthropic(p)[i].asks = Message(s[i]).asks
                             /\ Anthropic(p)[i].answers = Message(s[i]).answers
    BY <2>4, <2>5
  <2> QED BY <1>5, <2>4, <2>5, <2>6, <2>7, PairedList
<1> QED BY <1>2, <1>8, <1>9

\* The turn of a run is in its prompt once, last, in order and paired, whatever any
\* number of other runs append to the thread meanwhile.
THEOREM TurnsStayWhole == Spec => []OwnTurnKept
BY DialogueHolds, DialogueKeepsTurns, PTL

\* A prompt that no run upset is paired in the form of either provider: for any number of
\* runs before it in the thread, and of steps and calls in each.
THEOREM PromptsStayPaired == Spec => []PromptsPaired
BY DialogueHolds, DialoguePairs, PTL

=============================================================================
