---------------------------- MODULE KnowledgeProofs ----------------------------
(***************************************************************************)
(* What holds of knowledge bases of every size: of their configuration     *)
(* (Catalog), of the chunks of a text (Chunking) and of the documents on   *)
(* their way into the index (DocumentIndexing).  The three machines share  *)
(* no state, and each part has an inductive invariant of its own: Edited,  *)
(* Cutting and Indexed.                                                    *)
(***************************************************************************)
EXTENDS DocumentIndexing, Chunking, Catalog, TLAPS

-----------------------------------------------------------------------------
(* For any sizes, overlaps and defaults and any number of updates at once: *)
(* a row is valid unless its last write put together fields that nobody    *)
(* checked together.  What an update has checked is still so until another *)
(* one overtakes it.                                                       *)

USE CatalogAssumption

\* Nobody updates what was never created.
Settled == ~Exists /\ ~gone => \A u \in Updaters : stage[u] = "idle"

\* A body is one of the kind of its row.
Suited(u) ==
    stage[u] # "idle" /\ Exists => body[u] \in IF IsBase THEN UpdateBase ELSE UpdateTool

\* What an update has checked is what it would write, until it is overtaken.
Checked(u) ==
    stage[u] = "write" /\ Exists /\ u \notin overtaken => Accepts(body[u], row)

Edited ==
    /\ CatalogTypeOK /\ Settled /\ RowValid
    /\ \A u \in Updaters : Suited(u) /\ Checked(u)

-----------------------------------------------------------------------------
\* A row's fields have their types.
Typed(r) ==
    \A f \in DOMAIN r :
        r[f] \in Choices(f) \/ (f \in {"method", "url", "builtIn"} /\ r[f] = Null)

\* A body has some of the fields, each of its type.
LEMMA BodyFields ==
  ASSUME NEW fs, NEW b \in BodiesOf(fs)
  PROVE  DOMAIN b \subseteq fs /\ \A f \in DOMAIN b : b[f] \in Choices(f)
  BY DEF BodiesOf

\* A request may change none of these fields.
LEMMA EmptyBody == Empty \in UpdateBase /\ Empty \in UpdateTool
<1> DEFINE none == {}
<1>1. Empty \in [none -> UNION {Choices(g) : g \in none}]
  BY DEF Empty
<1>2. none \in SUBSET BaseField /\ none \in SUBSET Declared
  OBVIOUS
<1>3. \A g \in none : Empty[g] \in Choices(g)
  OBVIOUS
<1> QED BY <1>1, <1>2, <1>3 DEF UpdateBase, UpdateTool, BodiesOf

\* A row is that of a base or that of a tool.
LEMMA RowFields ==
  ASSUME NEW r \in Rows
  PROVE  DOMAIN r \in {BaseField, ToolField}
  BY DEF Rows

\* What a body makes of a row is a row of the same kind.
LEMMA MergedRow ==
  ASSUME NEW r \in Rows, Typed(r), NEW b, DOMAIN b \subseteq DOMAIN r,
         \A f \in DOMAIN b : b[f] \in Choices(f)
  PROVE  /\ Merged(b, r) \in Rows /\ Typed(Merged(b, r)) /\ Merged(b, r) # Null
         /\ DOMAIN Merged(b, r) = DOMAIN r
<1>1. \A f \in DOMAIN r : \/ Merged(b, r)[f] \in Choices(f)
                          \/ f \in {"method", "url", "builtIn"} /\ Merged(b, r)[f] = Null
  BY DEF Merged, Typed
<1>2. DOMAIN Merged(b, r) = DOMAIN r
  BY DEF Merged
<1>3. Typed(Merged(b, r))
  BY <1>1, <1>2 DEF Typed
<1>4. CASE r \in [BaseField -> Nat]
  <2>1. \A f \in BaseField : Merged(b, r)[f] \in Nat
    BY <1>1, <1>4 DEF BaseField, Choices
  <2> QED BY <1>2, <1>3, <1>4, <2>1 DEF Rows, Merged
<1>5. CASE r \in [ToolField -> Values]
  <2>1. \A f \in ToolField : Merged(b, r)[f] \in Values
    BY <1>5 DEF Values, Merged
  <2> QED BY <1>2, <1>3, <1>5, <2>1 DEF Rows, Merged
<1> QED BY <1>4, <1>5 DEF Rows

-----------------------------------------------------------------------------
\* There is no row at first.
LEMMA EditedInit == CatalogInit => Edited
  BY EmptyBody DEF CatalogInit, Edited, CatalogTypeOK, Settled, RowValid, Suited, Checked, Exists

\* Steps that leave the row alone.
LEMMA RowKept ==
  ASSUME UNCHANGED <<row, gone, doubt>>
  PROVE  /\ Exists' = Exists /\ IsBase' = IsBase
         /\ RowValid => RowValid'
         /\ \A b : Accepts(b, row)' = Accepts(b, row)
  BY DEF Exists, IsBase, RowValid, Accepts, Valid, Merged, Spread

\* A body comes in for a row of its kind.
LEMMA ReceiveStep ==
  ASSUME Edited, NEW u \in Updaters, NEW b \in UpdateBase \cup UpdateTool, Receive(u, b)
  PROVE  Edited'
<1>1. /\ UNCHANGED <<row, gone, doubt, overtaken>> /\ Exists
      /\ b \in IF IsBase THEN UpdateBase ELSE UpdateTool
      /\ body' = [body EXCEPT ![u] = b] /\ stage' = [stage EXCEPT ![u] = "read"]
  BY DEF Receive
<1>2. CatalogTypeOK'
  BY <1>1, RowKept DEF Edited, CatalogTypeOK
<1>3. \A v \in Updaters : \/ v = u /\ body'[v] = b /\ stage'[v] = "read"
                          \/ body'[v] = body[v] /\ stage'[v] = stage[v]
  BY <1>1 DEF Edited, CatalogTypeOK
<1>4. ASSUME NEW v \in Updaters PROVE Suited(v)' /\ Checked(v)'
  BY <1>1, <1>3, RowKept DEF Edited, Suited, Checked, Accepts
<1> QED BY <1>1, <1>2, <1>4, RowKept DEF Edited, Settled

\* A check that is passed is of the row as it is.
LEMMA CheckStep ==
  ASSUME Edited, NEW u \in Updaters, Check(u)
  PROVE  Edited'
  BY DEF Check, Edited, CatalogTypeOK, Settled, RowValid, Suited, Checked, Exists, IsBase,
         Accepts, Merged, Spread

\* A request that is answered without a write has nothing checked any more.
LEMMA AnswerStep ==
  ASSUME Edited, NEW u \in Updaters, Refuse(u) \/ Miss(u)
  PROVE  Edited'
<1>1. /\ UNCHANGED <<row, gone, doubt, overtaken>>
      /\ body' = [body EXCEPT ![u] = Empty] /\ stage' = [stage EXCEPT ![u] = "idle"]
  BY DEF Refuse, Miss, Respond
<1>2. CatalogTypeOK'
  BY <1>1, RowKept, EmptyBody DEF Edited, CatalogTypeOK
<1>3. \A v \in Updaters : \/ stage'[v] = "idle"
                          \/ body'[v] = body[v] /\ stage'[v] = stage[v]
  BY <1>1 DEF Edited, CatalogTypeOK
<1>4. ASSUME NEW v \in Updaters PROVE Suited(v)' /\ Checked(v)'
  BY <1>1, <1>3, RowKept DEF Edited, Suited, Checked
<1> QED BY <1>1, <1>2, <1>3, <1>4, RowKept DEF Edited, Settled

\* A row that is gone is not updated.
LEMMA DeleteStep == Edited /\ Delete => Edited'
  BY DEF Delete, Edited, CatalogTypeOK, Settled, RowValid, Suited, Checked, Exists

\* A base is created with what nobody checked only if one of the two fields is given.
LEMMA CreateBaseStep ==
  ASSUME Edited, NEW b \in CreateBase, CreateKnowledgeBase(b)
  PROVE  Edited'
<1>1. /\ ~Exists /\ ~gone /\ (DOMAIN b = BaseField => Ordered(b))
      /\ row' = Merged(b, BaseDefaults) /\ doubt' = (DOMAIN b \notin {{}, BaseField})
      /\ UNCHANGED <<gone, body, stage, overtaken>>
  BY DEF CreateKnowledgeBase
<1>2. DOMAIN b \subseteq BaseField /\ \A f \in DOMAIN b : b[f] \in Choices(f)
  BY BodyFields DEF CreateBase
<1>3. BaseDefaults \in Rows /\ Typed(BaseDefaults) /\ DOMAIN BaseDefaults = BaseField
  BY DEF BaseDefaults, Rows, Typed, BaseField, Choices
<1>4. row' \in Rows /\ Typed(row') /\ row' # Null /\ DOMAIN row' = BaseField
  BY <1>1, <1>2, <1>3, MergedRow
<1>5. RowValid'
  <2>1. CASE DOMAIN b = {}
    BY <1>1, <1>4, <2>1 DEF RowValid, Valid, Ordered, Merged, BaseDefaults, BaseField
  <2>2. CASE DOMAIN b = BaseField
    BY <1>1, <1>4, <2>2 DEF RowValid, Valid, Ordered, Merged, BaseDefaults, BaseField
  <2> QED BY <1>1, <2>1, <2>2 DEF RowValid
<1>6. CatalogTypeOK'
  BY <1>1, <1>4 DEF Edited, CatalogTypeOK, Typed
<1>7. \A u \in Updaters : stage'[u] = "idle"
  BY <1>1 DEF Edited, Settled
<1> QED BY <1>5, <1>6, <1>7 DEF Edited, Settled, Suited, Checked

\* A tool is created with its shape checked.
LEMMA CreateToolStep ==
  ASSUME Edited, NEW b \in CreateTool, CreateHttpTool(b)
  PROVE  Edited'
<1>1. /\ ~Exists /\ ~gone /\ row' = Merged(b, ToolDefaults)
      /\ Shaped(row'["type"], row')
      /\ UNCHANGED <<gone, body, stage, overtaken, doubt>>
  BY DEF CreateHttpTool
<1>2. /\ DOMAIN b \subseteq ToolField /\ "parameters" \in DOMAIN b
      /\ \A f \in DOMAIN b : b[f] \in Choices(f)
  BY BodyFields DEF CreateTool
<1>3. DOMAIN row' = ToolField /\ \A f \in ToolField :
          row'[f] = IF f \in DOMAIN b THEN b[f] ELSE ToolDefaults[f]
  BY <1>1 DEF Merged, ToolDefaults
<1>4. Typed(row')
  BY <1>2, <1>3 DEF Typed, ToolDefaults, ToolField, Choices, Types
<1>5. row' \in Rows
  <2>1. \A f \in ToolField : row'[f] \in Values
    <3>1. Null \in Values
      BY DEF Values, ToolField, Choices
    <3> QED BY <1>3, <1>4, <3>1 DEF Typed, Values
  <2>2. row' = [f \in ToolField |-> row'[f]]
    BY <1>1, <1>3 DEF Merged, ToolDefaults
  <2> QED BY <2>1, <2>2 DEF Rows
<1>6. RowValid'
  BY <1>1, <1>3 DEF RowValid, Valid, ToolField, BaseField
<1>7. CatalogTypeOK'
  BY <1>1, <1>4, <1>5 DEF Edited, CatalogTypeOK, Typed
<1>8. \A u \in Updaters : stage'[u] = "idle"
  BY <1>1 DEF Edited, Settled
<1> QED BY <1>6, <1>7, <1>8 DEF Edited, Settled, Suited, Checked

\* What an update accepts is valid once it is written.
LEMMA AcceptedIsValid ==
  ASSUME row \in Rows, NEW b, DOMAIN b \subseteq DOMAIN row, Accepts(b, row)
  PROVE  Valid(Merged(b, row))
<1>1. DOMAIN Merged(b, row) = DOMAIN row
  BY DEF Merged
<1>2. CASE IsBase
  BY <1>1, <1>2 DEF Accepts, Valid, IsBase
<1>3. CASE ~IsBase
  <2>1. DOMAIN row = ToolField
    BY <1>3, RowFields DEF IsBase
  <2>2. Shaped(Merged(b, row)["type"], Spread(b, row))
    BY <1>3 DEF Accepts
  <2>3. /\ \A f \in {"method", "url", "parameters"} :
              f \notin DOMAIN b => Spread(b, row)[f] = Null
        /\ \A f \in ToolField : f \in DOMAIN b => Spread(b, row)[f] = Merged(b, row)[f]
        /\ Spread(b, row)["builtIn"] = Merged(b, row)["builtIn"]
    BY <2>1 DEF Spread, Merged, Declared, ToolField
  <2>4. Shaped(Merged(b, row)["type"], Merged(b, row))
    BY <2>2, <2>3 DEF Shaped, ToolField
  <2> QED BY <1>1, <1>3, <2>4 DEF Valid, IsBase
<1> QED BY <1>2, <1>3

\* A write leaves a valid row or a doubt, and overtakes the checks of all others.
LEMMA WriteStep ==
  ASSUME Edited, NEW u \in Updaters, Write(u)
  PROVE  Edited'
<1>1. /\ stage[u] = "write" /\ Exists /\ row' = Merged(body[u], row)
      /\ overtaken' = overtaken \cup {v \in Updaters \ {u} : stage[v] = "write"}
      /\ doubt' = (u \in overtaken) /\ gone' = gone
      /\ stage' = [stage EXCEPT ![u] = "idle"] /\ body' = [body EXCEPT ![u] = Empty]
  BY DEF Write, Respond
<1>2. row \in Rows /\ Typed(row)
  BY <1>1 DEF Edited, CatalogTypeOK, Typed, Exists
<1>3. DOMAIN body[u] \subseteq DOMAIN row /\ \A f \in DOMAIN body[u] : body[u][f] \in Choices(f)
  <2>1. CASE IsBase
    BY <1>1, <2>1, BodyFields DEF Edited, Suited, UpdateBase, IsBase
  <2>2. CASE ~IsBase
    <3>1. DOMAIN row = ToolField /\ Declared \subseteq ToolField
      BY <1>2, <2>2, RowFields DEF IsBase, Declared, ToolField
    <3> QED BY <1>1, <2>2, <3>1, BodyFields DEF Edited, Suited, UpdateTool
  <2> QED BY <2>1, <2>2
<1>4. row' \in Rows /\ Typed(row') /\ row' # Null /\ DOMAIN row' = DOMAIN row
  BY <1>1, <1>2, <1>3, MergedRow
<1>5. RowValid'
  <2>1. ASSUME u \notin overtaken PROVE Valid(row')
    <3>1. Accepts(body[u], row)
      BY <1>1, <2>1 DEF Edited, Checked
    <3> QED BY <1>1, <1>2, <1>3, <3>1, AcceptedIsValid
  <2>2. ~doubt' => Valid(row')
    BY <1>1, <2>1
  <2> QED BY <2>2 DEF RowValid, Valid, Ordered, Shaped
<1>6. CatalogTypeOK'
  <2>1. gone = FALSE
    BY <1>1 DEF Edited, CatalogTypeOK
  <2> QED BY <1>1, <1>4, <2>1, EmptyBody DEF Edited, CatalogTypeOK, Typed
<1>7. \A v \in Updaters : \/ stage'[v] = "idle"
                          \/ body'[v] = body[v] /\ stage'[v] = stage[v]
                             /\ (stage[v] = "write" => v \in overtaken')
  BY <1>1 DEF Edited, CatalogTypeOK
<1>8. ASSUME NEW v \in Updaters PROVE Suited(v)' /\ Checked(v)'
  <2>1. IsBase' = IsBase
    BY <1>4 DEF IsBase
  <2> QED BY <1>1, <1>7, <2>1 DEF Edited, Suited, Checked
<1>9. Settled'
  BY <1>4 DEF Settled, Exists
<1> QED BY <1>5, <1>6, <1>8, <1>9 DEF Edited

\* Every step keeps what updates have checked.
LEMMA EditedStep == Edited /\ [CatalogNext]_catalogVars => Edited'
<1> SUFFICES ASSUME Edited, [CatalogNext]_catalogVars PROVE Edited'
  OBVIOUS
<1>1. CASE UNCHANGED catalogVars
  BY <1>1 DEF catalogVars, Edited, CatalogTypeOK, Settled, RowValid, Suited, Checked, Exists, IsBase,
             Accepts, Valid, Merged, Spread
<1>2. CASE CatalogNext
  BY <1>2, CreateBaseStep, CreateToolStep, ReceiveStep, CheckStep, AnswerStep, WriteStep,
     DeleteStep DEF CatalogNext
<1> QED BY <1>1, <1>2

\* The row, the bodies under way and where they stand have their types.
THEOREM TypesHold == CatalogSpec => []CatalogTypeOK
<1>1. Edited => CatalogTypeOK
  BY DEF Edited
<1> QED BY <1>1, EditedInit, EditedStep, PTL DEF CatalogSpec

\* However many updates race each other and a deletion, a base's overlap stays below its
\* chunk size and a tool has what its type needs, unless the last write put together
\* fields that were never checked together.
THEOREM RowsStayValid == CatalogSpec => []RowValid
<1>1. Edited => RowValid
  BY DEF Edited
<1> QED BY <1>1, EditedInit, EditedStep, PTL DEF CatalogSpec

HIDE CatalogAssumption

-----------------------------------------------------------------------------
(* For texts, chunk sizes and overlaps of every size: the chunks of a text *)
(* cover it, advance through it, overlap as configured, and each is stored *)
(* with its own vector.                                                    *)

USE LengthsAssumption, SizesAssumption, OverlapsAssumption, BatchAssumption

\* The end of the last chunk cut so far.
Reached == IF Len(chunks) = 0 THEN 0 ELSE chunks[Len(chunks)].to

Covered(n) ==
    \A x \in Nat : x < n =>
        \E i \in 1..Len(chunks) : chunks[i].from <= x /\ x < chunks[i].to

\* A chunk is not empty and respects the size; all but the last are full, and each
\* starts a stride behind its predecessor and ends further on.
ChunksSound ==
    /\ \A i \in 1..Len(chunks) :
          /\ chunks[i].from < chunks[i].to
          /\ chunks[i].to <= chunks[i].from + size
    /\ \A i \in 2..Len(chunks) :
          /\ chunks[i].from = chunks[i - 1].from + Stride
          /\ chunks[i - 1].to = chunks[i - 1].from + size
          /\ chunks[i - 1].to < chunks[i].to

\* Where the loop stands: its chunks are full and end before the text does.
LoopSound ==
    phase = "chunk" =>
        /\ start < len
        /\ Len(chunks) = 0 => start = 0
        /\ Len(chunks) > 0 =>
              /\ chunks[Len(chunks)].to = chunks[Len(chunks)].from + size
              /\ chunks[Len(chunks)].to < len
              /\ start = chunks[Len(chunks)].from + Stride

VectorsSound ==
    /\ Len(vectors) <= Len(chunks)
    /\ \A i \in 1..Len(vectors) : vectors[i] = i
    /\ phase = "chunk" => Len(vectors) = 0
    /\ phase = "done" => Len(vectors) = Len(chunks)

Cutting ==
    /\ ChunkTypeOK /\ ChunksSound /\ LoopSound /\ VectorsSound
    /\ Covered(Reached)
    /\ phase # "chunk" => Reached = len

-----------------------------------------------------------------------------
\* The stride always advances and never skips a character.
LEMMA StrideBounds ==
  ASSUME ChunkTypeOK
  PROVE  /\ Stride \in Nat /\ 1 <= Stride /\ Stride <= size
         /\ overlap < size => Stride = size - overlap
<1>1. size \in Nat /\ size >= 1 /\ overlap \in Nat
  BY DEF ChunkTypeOK
<1>2. CASE overlap < size
  <2>1. size - overlap \in Nat /\ size - overlap >= 1
    BY <1>1, <1>2
  <2> QED BY <1>1, <1>2, <2>1 DEF Stride, Greater
<1>3. CASE ~(overlap < size)
  BY <1>1, <1>3 DEF Stride, Greater
<1> QED BY <1>2, <1>3

\* The bounds of a chunk are numbers.
LEMMA RangeBounds ==
  ASSUME chunks \in Seq(Ranges), len \in Nat, NEW i \in 1..Len(chunks)
  PROVE  chunks[i].from \in Nat /\ chunks[i].to \in Nat
<1>1. chunks[i] \in Ranges
  OBVIOUS
<1>2. \A c \in Ranges : c.from \in 0..len /\ c.to \in 0..len
  BY DEF Ranges
<1> QED BY <1>1, <1>2

\* Nothing is cut and the loop is at the start of the text initially.
LEMMA CuttingInit == ChunkInit => Cutting
<1> SUFFICES ASSUME ChunkInit PROVE Cutting
  OBVIOUS
<1>1. ChunkTypeOK
  BY DEF ChunkInit, ChunkTypeOK, Ranges
<1>2. Len(chunks) = 0 /\ Len(vectors) = 0 /\ phase = "chunk" /\ start = 0 /\ len > 0
  BY DEF ChunkInit
<1>3. ChunksSound /\ LoopSound /\ VectorsSound
  BY <1>2 DEF ChunksSound, LoopSound, VectorsSound
<1>4. Covered(Reached)
  BY <1>2 DEF Covered, Reached
<1> QED BY <1>1, <1>2, <1>3, <1>4 DEF Cutting

\* A text that is not cut is covered by its only chunk.
LEMMA KeepWholeStep == Cutting /\ KeepWhole => Cutting'
<1> SUFFICES ASSUME Cutting, KeepWhole PROVE Cutting'
  OBVIOUS
<1> USE DEF Cutting
<1>1. /\ len \in Nat /\ len >= 1 /\ size \in Nat /\ len <= size
      /\ UNCHANGED <<len, size, overlap, start, vectors>> /\ phase' = "embed"
  BY DEF KeepWhole, ChunkTypeOK, input
<1> DEFINE c == [from |-> 0, to |-> len]
<1>2. chunks' = <<c>> /\ Len(chunks') = 1 /\ chunks'[1] = c /\ c.from = 0 /\ c.to = len
  BY DEF KeepWhole
<1>3. c \in Ranges'
  BY <1>1 DEF Ranges
<1> HIDE DEF c
<1>4. ChunkTypeOK'
  BY <1>1, <1>2, <1>3 DEF ChunkTypeOK
<1>5. ChunksSound'
  BY <1>1, <1>2 DEF ChunksSound
<1>6. LoopSound'
  BY <1>1 DEF LoopSound
<1>7. VectorsSound'
  BY <1>1, <1>2 DEF VectorsSound, KeepWhole
<1>8. Reached' = len'
  BY <1>1, <1>2 DEF Reached
<1>9. Covered(Reached)'
  BY <1>1, <1>2, <1>8 DEF Covered
<1> QED BY <1>4, <1>5, <1>6, <1>7, <1>8, <1>9

\* A further chunk starts where the text is covered, and ends further on.
LEMMA CutStep == Cutting /\ Cut => Cutting'
<1> SUFFICES ASSUME Cutting, Cut PROVE Cutting'
  OBVIOUS
<1> USE DEF Cutting
<1>1. /\ len \in Nat /\ size \in Nat /\ size >= 1 /\ overlap \in Nat /\ start \in Nat
      /\ phase = "chunk" /\ len > size /\ start < len
      /\ UNCHANGED <<len, size, overlap, vectors>>
  BY DEF Cut, ChunkTypeOK, input
<1>2. /\ Stride \in Nat /\ 1 <= Stride /\ Stride <= size /\ Stride' = Stride
  BY <1>1, StrideBounds DEF Stride
<1> DEFINE c == Piece
           n == Len(chunks)
<1>3. chunks \in Seq(Ranges) /\ n \in Nat
  BY DEF ChunkTypeOK
<1>4. /\ c.from = start /\ c.to \in Nat /\ c.to <= len /\ start < c.to
      /\ c.to <= start + size
      /\ start + size >= len => c.to = len
      /\ start + size < len => c.to = start + size
  BY <1>1 DEF Piece, Smaller
<1>5. c \in Ranges /\ Ranges' = Ranges
  BY <1>1 DEF Piece, Ranges, Smaller
<1> HIDE DEF c
<1>6. /\ Len(chunks') = n + 1 /\ chunks'[n + 1] = c
      /\ \A i \in 1..n : chunks'[i] = chunks[i]
      /\ chunks' \in Seq(Ranges)
  BY <1>3, <1>5 DEF Cut, c
<1>7. /\ Last => phase' = "embed" /\ start' = start
      /\ ~Last => start' = start + Stride /\ phase' = "chunk"
  BY <1>1 DEF Cut
<1>8. \A i \in 1..n : chunks[i].from \in Nat /\ chunks[i].to \in Nat
  BY <1>1, <1>3, RangeBounds
<1>9. n > 0 => /\ chunks[n].to = chunks[n].from + size
               /\ start = chunks[n].from + Stride
               /\ chunks[n].to < len
  BY <1>1 DEF LoopSound
<1>10. n = 0 => start = 0
  BY <1>1 DEF LoopSound
<1>11. n > 0 => chunks[n].to < c.to /\ start <= chunks[n].to
  BY <1>1, <1>2, <1>3, <1>4, <1>8, <1>9
<1>12. ChunkTypeOK'
  <2>1. start' \in Nat /\ phase' \in {"chunk", "embed", "done"}
    BY <1>1, <1>2, <1>7
  <2>2. chunks' \in Seq(Ranges)'
    BY <1>5, <1>6
  <2> QED BY <1>1, <2>1, <2>2 DEF ChunkTypeOK
<1>13. ChunksSound'
  <2>1. ASSUME NEW i \in 1..(n + 1)
        PROVE  chunks'[i].from < chunks'[i].to /\ chunks'[i].to <= chunks'[i].from + size
    <3>1. CASE i = n + 1
      BY <1>1, <1>4, <1>6, <3>1
    <3>2. CASE i \in 1..n
      BY <1>6, <3>2 DEF ChunksSound
    <3> QED BY <1>3, <3>1, <3>2
  <2>2. ASSUME NEW i \in 2..(n + 1)
        PROVE  /\ chunks'[i].from = chunks'[i - 1].from + Stride
               /\ chunks'[i - 1].to = chunks'[i - 1].from + size
               /\ chunks'[i - 1].to < chunks'[i].to
    <3>1. CASE i = n + 1
      <4>1. n > 0 /\ i - 1 = n /\ chunks'[i - 1] = chunks[n]
        BY <1>3, <1>6, <3>1
      <4> QED BY <1>4, <1>6, <1>9, <1>11, <3>1, <4>1
    <3>2. CASE i \in 2..n
      <4>1. i - 1 \in 1..n /\ i \in 1..n
        BY <1>3, <3>2
      <4> QED BY <1>6, <3>2, <4>1 DEF ChunksSound
    <3> QED BY <1>3, <3>1, <3>2
  <2> QED BY <1>1, <1>2, <1>6, <2>1, <2>2 DEF ChunksSound
<1>14. LoopSound'
  <2>1. CASE Last
    BY <1>7, <2>1 DEF LoopSound
  <2>2. CASE ~Last
    <3>1. start + size < len /\ start + Stride < len
      BY <1>1, <1>2, <2>2 DEF Last
    <3> QED BY <1>1, <1>2, <1>3, <1>4, <1>6, <1>7, <2>2, <3>1 DEF LoopSound
  <2> QED BY <2>1, <2>2
<1>15. VectorsSound'
  <2>1. Len(vectors) = 0 /\ vectors' = vectors
    BY <1>1 DEF VectorsSound
  <2>2. phase' # "done"
    BY <1>7
  <2> QED BY <1>3, <1>6, <2>1, <2>2 DEF VectorsSound
<1>16. Reached' = c.to
  BY <1>3, <1>6 DEF Reached
<1>17. Covered(Reached)'
  <2> SUFFICES ASSUME NEW x \in Nat, x < c.to
               PROVE  \E i \in 1..(n + 1) : chunks'[i].from <= x /\ x < chunks'[i].to
    BY <1>6, <1>16 DEF Covered
  <2>1. CASE x >= start
    BY <1>3, <1>4, <1>6, <2>1
  <2>2. CASE x < start
    <3>1. n > 0 /\ x < chunks[n].to
      BY <1>1, <1>3, <1>8, <1>10, <1>11, <2>2
    <3>2. PICK i \in 1..n : chunks[i].from <= x /\ x < chunks[i].to
      BY <1>3, <3>1 DEF Covered, Reached
    <3> QED BY <1>3, <1>6, <3>2
  <2> QED BY <1>1, <2>1, <2>2
<1>18. phase' # "chunk" => Reached' = len'
  BY <1>1, <1>4, <1>7, <1>16 DEF Last
<1> QED BY <1>12, <1>13, <1>14, <1>15, <1>17, <1>18

\* Whatever order a batch is answered in, its vectors are appended in the order of
\* their chunks.
LEMMA EmbedStep == Cutting /\ EmbedBatch => Cutting'
<1> SUFFICES ASSUME Cutting, EmbedBatch PROVE Cutting'
  OBVIOUS
<1> USE DEF Cutting
<1> DEFINE m == Len(vectors)
           n == Smaller(Batch, Len(chunks) - m)
<1>1. /\ m \in Nat /\ Len(chunks) \in Nat /\ m < Len(chunks)
      /\ vectors \in Seq(Nat)
      /\ UNCHANGED <<len, size, overlap, start, chunks, phase>> /\ phase = "embed"
  BY DEF EmbedBatch, ChunkTypeOK, input
<1>2. n \in Nat /\ n >= 1 /\ m + n <= Len(chunks)
  BY <1>1 DEF Smaller
<1>3. PICK o \in Orders(n) : vectors' = vectors \o [k \in 1..n |-> m + ByIndex(o, n)[k]]
  BY DEF EmbedBatch
<1> HIDE DEF m, n
<1>4. \A k \in 1..n : ByIndex(o, n)[k] = k
  BY <1>3 DEF Orders, ByIndex
<1>5. DEFINE s == [k \in 1..n |-> m + ByIndex(o, n)[k]]
<1>6. s \in Seq(Nat) /\ Len(s) = n /\ \A k \in 1..n : s[k] = m + k
  <2>1. \A k \in 1..n : s[k] = m + k /\ m + k \in Nat
    BY <1>1, <1>2, <1>4
  <2>2. s \in [1..n -> Nat]
    BY <2>1
  <2>3. s \in Seq(Nat) /\ Len(s) = n
    BY <1>2, <2>2
  <2> QED BY <2>1, <2>3
<1> HIDE DEF s
<1>7. /\ vectors' \in Seq(Nat) /\ Len(vectors') = m + n
      /\ \A i \in 1..m : vectors'[i] = vectors[i]
      /\ \A i \in (m + 1)..(m + n) : vectors'[i] = s[i - m]
  BY <1>1, <1>2, <1>3, <1>6 DEF m, s
<1>8. \A i \in 1..(m + n) : vectors'[i] = i
  <2> SUFFICES ASSUME NEW i \in 1..(m + n) PROVE vectors'[i] = i
    OBVIOUS
  <2>1. CASE i \in 1..m
    BY <1>7, <2>1 DEF VectorsSound, m
  <2>2. CASE i \in (m + 1)..(m + n)
    <3>1. i - m \in 1..n /\ m + (i - m) = i
      BY <1>1, <1>2, <2>2
    <3> QED BY <1>6, <1>7, <2>2, <3>1
  <2> QED BY <1>1, <1>2, <2>1, <2>2
<1>9. ChunkTypeOK'
  BY <1>1, <1>7 DEF ChunkTypeOK, Ranges
<1>10. ChunksSound' /\ LoopSound' /\ Covered(Reached)' /\ Reached' = len'
  <2>1. Stride' = Stride
    BY <1>1 DEF Stride
  <2> QED BY <1>1, <2>1 DEF ChunksSound, LoopSound, Covered, Reached
<1>11. VectorsSound'
  BY <1>1, <1>2, <1>7, <1>8 DEF VectorsSound
<1> QED BY <1>9, <1>10, <1>11

\* The invariant survives every step.
LEMMA CuttingStep == Cutting /\ [ChunkNext]_chunkVars => Cutting'
<1> SUFFICES ASSUME Cutting, [ChunkNext]_chunkVars PROVE Cutting'
  OBVIOUS
<1>1. CASE KeepWhole
  BY <1>1, KeepWholeStep
<1>2. CASE Cut
  BY <1>2, CutStep
<1>3. CASE EmbedBatch
  BY <1>3, EmbedStep
<1>4. CASE Store
  <2>1. /\ UNCHANGED <<len, size, overlap, start, chunks, vectors>>
        /\ phase = "embed" /\ phase' = "done" /\ Len(vectors) >= Len(chunks)
    BY <1>4 DEF Store, input
  <2>2. Stride' = Stride /\ Ranges' = Ranges /\ Reached' = Reached
    BY <2>1 DEF Stride, Ranges, Reached
  <2>3. ChunkTypeOK' /\ ChunksSound' /\ LoopSound'
    BY <2>1, <2>2 DEF Cutting, ChunkTypeOK, ChunksSound, LoopSound
  <2>4. VectorsSound'
    BY <2>1 DEF Cutting, ChunkTypeOK, VectorsSound
  <2>5. Covered(Reached)' /\ Reached' = len'
    BY <2>1, <2>2 DEF Cutting, Covered
  <2> QED BY <2>3, <2>4, <2>5 DEF Cutting
<1>5. CASE UNCHANGED chunkVars
  <2>1. UNCHANGED <<len, size, overlap, start, chunks, vectors, phase>>
    BY <1>5 DEF chunkVars, input
  <2>2. Stride' = Stride /\ Ranges' = Ranges /\ Reached' = Reached
    BY <2>1 DEF Stride, Ranges, Reached
  <2>3. ChunkTypeOK' /\ ChunksSound' /\ LoopSound' /\ VectorsSound'
    BY <2>1, <2>2 DEF Cutting, ChunkTypeOK, ChunksSound, LoopSound, VectorsSound
  <2>4. Covered(Reached)' /\ (phase' # "chunk" => Reached' = len')
    BY <2>1, <2>2 DEF Cutting, Covered
  <2> QED BY <2>3, <2>4 DEF Cutting
<1> QED BY <1>1, <1>2, <1>3, <1>4, <1>5 DEF ChunkNext

\* The invariant holds in every reachable state.
LEMMA CuttingAlways == ChunkSpec => []Cutting
<1>1. ChunkInit => Cutting
  BY CuttingInit
<1>2. Cutting /\ [ChunkNext]_chunkVars => Cutting'
  BY CuttingStep
<1> QED BY <1>1, <1>2, PTL DEF ChunkSpec

\* Every character of every text is in a chunk, for every chunk size and every
\* overlap, those included that are larger than the chunk size.
THEOREM NothingIsLost == ChunkSpec => []WholeTextIsStored
<1>1. Cutting => WholeTextIsStored
  <2> SUFFICES ASSUME Cutting, phase # "chunk", NEW x \in 0..(len - 1)
               PROVE  \E i \in DOMAIN chunks : chunks[i].from <= x /\ x < chunks[i].to
    BY DEF WholeTextIsStored
  <2>1. x \in Nat /\ x < Reached
    BY DEF Cutting, ChunkTypeOK
  <2>2. PICK i \in 1..Len(chunks) : chunks[i].from <= x /\ x < chunks[i].to
    BY <2>1 DEF Cutting, Covered
  <2>3. DOMAIN chunks = 1..Len(chunks)
    BY DEF Cutting, ChunkTypeOK
  <2> QED BY <2>2, <2>3
<1> QED BY <1>1, CuttingAlways, PTL

\* Every chunk fits the chunk size and adds characters of its own.
THEOREM ChunksAlwaysAdvance == ChunkSpec => []ChunksAdvance
<1>1. Cutting => ChunksAdvance
  <2> SUFFICES ASSUME Cutting, NEW i \in DOMAIN chunks
               PROVE  /\ chunks[i].from < chunks[i].to
                      /\ chunks[i].to <= chunks[i].from + size
                      /\ i > 1 => chunks[i - 1].to < chunks[i].to
    BY DEF ChunksAdvance
  <2>1. i \in 1..Len(chunks) /\ (i > 1 => i \in 2..Len(chunks))
    BY DEF Cutting, ChunkTypeOK
  <2> QED BY <2>1 DEF Cutting, ChunksSound
<1> QED BY <1>1, CuttingAlways, PTL

\* Neighbours share the configured overlap whenever it is smaller than the size.
THEOREM OverlapIsExact == ChunkSpec => []NeighboursOverlap
<1>1. Cutting => NeighboursOverlap
  <2> SUFFICES ASSUME Cutting, overlap < size, NEW i \in DOMAIN chunks, i > 1
               PROVE  chunks[i - 1].to = chunks[i].from + overlap
    BY DEF NeighboursOverlap
  <2>1. i \in 2..Len(chunks) /\ i - 1 \in 1..Len(chunks)
    BY DEF Cutting, ChunkTypeOK
  <2>2. chunks[i - 1].from \in Nat /\ size \in Nat /\ overlap \in Nat
    BY <2>1, RangeBounds DEF Cutting, ChunkTypeOK
  <2>3. Stride = size - overlap
    BY StrideBounds DEF Cutting
  <2>4. /\ chunks[i].from = chunks[i - 1].from + Stride
        /\ chunks[i - 1].to = chunks[i - 1].from + size
    BY <2>1 DEF Cutting, ChunksSound
  <2> QED BY <2>2, <2>3, <2>4
<1> QED BY <1>1, CuttingAlways, PTL

\* Every row pairs a chunk with its own vector, however many batches there are and
\* in whatever order each is answered.
THEOREM VectorsMatchChunks == ChunkSpec => []OwnVectors
<1>1. Cutting => OwnVectors
  BY DEF Cutting, ChunkTypeOK, VectorsSound, OwnVectors
<1> QED BY <1>1, CuttingAlways, PTL

-----------------------------------------------------------------------------
\* Where the loop stands when it has cut so many chunks, and how many it has cut when
\* it ends.
Counted ==
    /\ phase = "chunk" =>
          /\ start = Len(chunks) * Stride
          /\ Len(chunks) > 0 => (Len(chunks) - 1) * Stride + size < len
    /\ ChunkCount

\* Multiplication by a natural number is monotone.
LEMMA TimesMonotone ==
  ASSUME NEW a \in Nat, NEW b \in Nat, NEW s \in Nat, a <= b
  PROVE  a * s <= b * s
OBVIOUS

\* The integer quotient is the only number whose multiple is that close.
LEMMA QuotientIs ==
  ASSUME NEW n \in Nat, NEW s \in Nat \ {0}, NEW q \in Nat, q * s <= n, n < (q + 1) * s
  PROVE  n \div s = q
<1> DEFINE d == n \div s
<1>1. d \in Nat /\ d * s <= n /\ n < (d + 1) * s
  BY Z3
<1> HIDE DEF d
<1>2. ~(d < q)
  <2> SUFFICES ASSUME d + 1 <= q PROVE FALSE
    BY <1>1
  <2>1. (d + 1) * s <= q * s
    BY <1>1, TimesMonotone
  <2> QED BY <1>1, <2>1
<1>3. ~(q < d)
  <2> SUFFICES ASSUME q + 1 <= d PROVE FALSE
    BY <1>1
  <2>1. (q + 1) * s <= d * s
    BY <1>1, TimesMonotone
  <2> QED BY <1>1, <2>1
<1> QED BY <1>1, <1>2, <1>3 DEF d

\* One more chunk begins one stride further on.
LEMMA CountedCut == Cutting /\ Counted /\ Cut => Counted'
<1> SUFFICES ASSUME Cutting, Counted, Cut PROVE Counted'
  OBVIOUS
<1> DEFINE k == Len(chunks)
<1>1. /\ len \in Nat /\ size \in Nat /\ size >= 1 /\ start \in Nat /\ k \in Nat
      /\ phase = "chunk" /\ len > size /\ UNCHANGED <<len, size, overlap>>
      /\ start = k * Stride /\ (k > 0 => (k - 1) * Stride + size < len)
  BY DEF Cut, Cutting, ChunkTypeOK, input, Counted
<1>2. Stride \in Nat /\ 1 <= Stride /\ Stride' = Stride
  BY <1>1, StrideBounds DEF Stride, Cutting
<1>3. Len(chunks') = k + 1
  BY DEF Cut, Cutting, ChunkTypeOK
<1> HIDE DEF k
<1>4. CASE Last
  <2>1. phase' = "embed" /\ len <= k * Stride + size
    BY <1>1, <1>4 DEF Cut, Last
  <2>2. k > 0
    <3>1. SUFFICES ASSUME k = 0 PROVE FALSE
      BY <1>1
    <3>2. k * Stride = 0
      BY <1>2, <3>1
    <3> QED BY <1>1, <2>1, <3>2
  <2> DEFINE n == len - size + Stride - 1
  <2>3. PICK j \in Nat : k = j + 1
    BY <1>1, <2>2
  <2>4. j * Stride \in Nat /\ k * Stride = j * Stride + Stride
        /\ (k + 1) * Stride = j * Stride + Stride + Stride
    BY <1>2, <2>3
  <2>5. j * Stride + size < len
    BY <1>1, <2>2, <2>3
  <2>6. n \in Nat /\ k * Stride <= n /\ n < (k + 1) * Stride
    BY <1>1, <1>2, <2>1, <2>4, <2>5
  <2> HIDE DEF n
  <2>7. n \div Stride = k
    BY <1>1, <1>2, <2>6, QuotientIs
  <2>8. 1 + (len - size + Stride - 1) \div Stride = k + 1
    BY <1>1, <2>7 DEF n
  <2> QED BY <1>1, <1>2, <1>3, <2>1, <2>8 DEF Counted, ChunkCount
<1>5. CASE ~Last
  <2>1. phase' = "chunk" /\ start' = start + Stride /\ start + size < len
    BY <1>1, <1>5 DEF Cut, Last
  <2>2. (k + 1) * Stride = k * Stride + Stride
    BY <1>1, <1>2
  <2>3. start' = Len(chunks') * Stride' /\ (Len(chunks') - 1) * Stride' + size' < len'
    BY <1>1, <1>2, <1>3, <2>1, <2>2
  <2> QED BY <2>1, <2>3 DEF Counted, ChunkCount
<1> QED BY <1>4, <1>5

\* Every step keeps the count.
LEMMA CountedStep == Cutting /\ Counted /\ [ChunkNext]_chunkVars => Counted'
<1> SUFFICES ASSUME Cutting, Counted, [ChunkNext]_chunkVars PROVE Counted'
  OBVIOUS
<1>1. CASE KeepWhole
  <2>1. phase' = "embed" /\ len' <= size' /\ Len(chunks') = 1
    BY <1>1 DEF KeepWhole, input
  <2> QED BY <2>1 DEF Counted, ChunkCount
<1>2. CASE Cut
  BY <1>2, CountedCut
<1>3. CASE EmbedBatch \/ Store \/ UNCHANGED chunkVars
  <2>1. /\ UNCHANGED <<len, size, overlap, start, chunks>>
        /\ phase = "chunk" <=> phase' = "chunk"
    BY <1>3 DEF EmbedBatch, Store, chunkVars, input
  <2> QED BY <2>1 DEF Counted, ChunkCount, Stride
<1> QED BY <1>1, <1>2, <1>3 DEF ChunkNext

\* A text takes one row, and one more for each stride it extends beyond the first.
THEOREM RowsAreCounted == ChunkSpec => []ChunkCount
<1>1. ChunkInit => Counted
  BY DEF ChunkInit, Counted, ChunkCount, Stride, Greater
<1>2. Counted => ChunkCount
  BY DEF Counted
<1> QED BY <1>1, <1>2, CountedStep, CuttingAlways, PTL DEF ChunkSpec

HIDE LengthsAssumption
HIDE SizesAssumption
HIDE OverlapsAssumption
HIDE BatchAssumption

-----------------------------------------------------------------------------
(* As long as no live worker loses the lock of its job, the document and   *)
(* chunk tables stay consistent: an attempt knows the status of its        *)
(* document and what it has stored.                                        *)

USE DocsAssumption, DocFaultsAssumption

\* No document, no job and no worker at work initially.
LEMMA IndexedInit == Init => Indexed
<1> SUFFICES ASSUME Init PROVE Indexed
  OBVIOUS
<1>1. TypeOK
  BY DEF Init, TypeOK, Queue!TypeOK, Queue!Init, Queue!JobStates, Queue!Attempts,
     Queue!MaxStalls, RequestPc, WorkerPc, Statuses
<1>2. RequestsSound /\ JobsSound
  BY DEF Init, Queue!Init, RequestsSound, JobsSound, Procs
<1>3. \A w \in Workers : pc[w] = "idle" /\ task[w] = None
  BY DEF Init, Procs
<1>4. LocksHeld /\ WorkersSound
  BY <1>3 DEF LocksHeld, WorkersSound
<1>5. TableSound
  BY DEF Init, Queue!Init, TableSound
<1> QED BY <1>1, <1>2, <1>4, <1>5 DEF Indexed

\* One step at a time: nobody disturbs what a worker at work relies on.
LEMMA IndexedStep ==
  ASSUME Indexed, [Next]_vars, "lockLoss" \notin Faults
  PROVE  Indexed'
<1> USE DEF Indexed, TypeOK, Queue!TypeOK, Goto, Turn, bases, docs, jobs, Procs, Present
<1>1. ASSUME NEW k \in KBs, CreateKb(k)
      PROVE  Indexed'
  <2>1. TypeOK'
    BY <1>1 DEF CreateKb, TypeOK, Queue!TypeOK, Queue!JobStates, RequestPc, WorkerPc,
       TryPc, Statuses, Indexable
  <2>2. RequestsSound'
    BY <1>1 DEF CreateKb, RequestsSound, JobsSound, LocksHeld, Queue!Owns,
       WorkersSound, Fits, TableSound, Indexable, TryPc
  <2>3. JobsSound'
    BY <1>1 DEF CreateKb, JobsSound, RequestsSound, LocksHeld, Queue!Owns,
       WorkersSound, Fits, TableSound, Indexable, TryPc
  <2>4. LocksHeld'
    BY <1>1 DEF CreateKb, LocksHeld, Queue!Owns, RequestsSound, JobsSound,
       WorkersSound, Fits, TableSound, Indexable, TryPc
  <2>5. WorkersSound'
    BY <1>1 DEF CreateKb, WorkersSound, Fits, RequestsSound, JobsSound, LocksHeld,
       Queue!Owns, TableSound, Indexable, TryPc
  <2>6. TableSound'
    BY <1>1 DEF CreateKb, TableSound, RequestsSound, JobsSound, LocksHeld, Queue!Owns,
       WorkersSound, Fits, Indexable, TryPc
  <2> QED BY <2>1, <2>2, <2>3, <2>4, <2>5, <2>6
<1>2. ASSUME NEW k \in KBs, DeleteKb(k)
      PROVE  Indexed'
  <2>1. TypeOK'
    BY <1>2 DEF DeleteKb, TypeOK, Queue!TypeOK, Queue!JobStates, RequestPc, WorkerPc,
       TryPc, Statuses, Indexable
  <2>2. RequestsSound'
    BY <1>2 DEF DeleteKb, RequestsSound, JobsSound, LocksHeld, Queue!Owns,
       WorkersSound, Fits, TableSound, Indexable, TryPc
  <2>3. JobsSound'
    BY <1>2 DEF DeleteKb, JobsSound, RequestsSound, LocksHeld, Queue!Owns,
       WorkersSound, Fits, TableSound, Indexable, TryPc
  <2>4. LocksHeld'
    BY <1>2 DEF DeleteKb, LocksHeld, Queue!Owns, RequestsSound, JobsSound,
       WorkersSound, Fits, TableSound, Indexable, TryPc
  <2>5. WorkersSound'
    BY <1>2 DEF DeleteKb, WorkersSound, Fits, RequestsSound, JobsSound, LocksHeld,
       Queue!Owns, TableSound, Indexable, TryPc
  <2>6. TableSound'
    BY <1>2 DEF DeleteKb, TableSound, RequestsSound, JobsSound, LocksHeld, Queue!Owns,
       WorkersSound, Fits, Indexable, TryPc
  <2> QED BY <2>1, <2>2, <2>3, <2>4, <2>5, <2>6
<1>3. ASSUME NEW d \in Docs, NEW k \in KBs, Submit(d, k)
      PROVE  Indexed'
  <2>1. TypeOK'
    BY <1>3 DEF Submit, TypeOK, Queue!TypeOK, Queue!JobStates, RequestPc, WorkerPc,
       TryPc, Statuses, Indexable
  <2>2. RequestsSound'
    BY <1>3 DEF Submit, RequestsSound, JobsSound, LocksHeld, Queue!Owns, WorkersSound,
       Fits, TableSound, Indexable, TryPc
  <2>3. JobsSound'
    BY <1>3 DEF Submit, JobsSound, RequestsSound, LocksHeld, Queue!Owns, WorkersSound,
       Fits, TableSound, Indexable, TryPc
  <2>4. LocksHeld'
    BY <1>3 DEF Submit, LocksHeld, Queue!Owns, RequestsSound, JobsSound, WorkersSound,
       Fits, TableSound, Indexable, TryPc
  <2>5. WorkersSound'
    BY <1>3 DEF Submit, WorkersSound, Fits, RequestsSound, JobsSound, LocksHeld,
       Queue!Owns, TableSound, Indexable, TryPc
  <2>6. TableSound'
    BY <1>3 DEF Submit, TableSound, RequestsSound, JobsSound, LocksHeld, Queue!Owns,
       WorkersSound, Fits, Indexable, TryPc
  <2> QED BY <2>1, <2>2, <2>3, <2>4, <2>5, <2>6
<1>4. ASSUME NEW d \in Docs, RequireKb(d)
      PROVE  Indexed'
  <2>1. TypeOK'
    BY <1>4 DEF RequireKb, TypeOK, Queue!TypeOK, Queue!JobStates, RequestPc, WorkerPc,
       TryPc, Statuses, Indexable
  <2>2. RequestsSound'
    BY <1>4 DEF RequireKb, RequestsSound, JobsSound, LocksHeld, Queue!Owns,
       WorkersSound, Fits, TableSound, Indexable, TryPc
  <2>3. JobsSound'
    BY <1>4 DEF RequireKb, JobsSound, RequestsSound, LocksHeld, Queue!Owns,
       WorkersSound, Fits, TableSound, Indexable, TryPc
  <2>4. LocksHeld'
    BY <1>4 DEF RequireKb, LocksHeld, Queue!Owns, RequestsSound, JobsSound,
       WorkersSound, Fits, TableSound, Indexable, TryPc
  <2>5. WorkersSound'
    BY <1>4 DEF RequireKb, WorkersSound, Fits, RequestsSound, JobsSound, LocksHeld,
       Queue!Owns, TableSound, Indexable, TryPc
  <2>6. TableSound'
    BY <1>4 DEF RequireKb, TableSound, RequestsSound, JobsSound, LocksHeld, Queue!Owns,
       WorkersSound, Fits, Indexable, TryPc
  <2> QED BY <2>1, <2>2, <2>3, <2>4, <2>5, <2>6
<1>5. ASSUME NEW d \in Docs, Reject(d)
      PROVE  Indexed'
  <2>1. TypeOK'
    BY <1>5 DEF Reject, TypeOK, Queue!TypeOK, Queue!JobStates, RequestPc, WorkerPc,
       TryPc, Statuses, Indexable
  <2>2. RequestsSound'
    BY <1>5 DEF Reject, RequestsSound, JobsSound, LocksHeld, Queue!Owns, WorkersSound,
       Fits, TableSound, Indexable, TryPc
  <2>3. JobsSound'
    BY <1>5 DEF Reject, JobsSound, RequestsSound, LocksHeld, Queue!Owns, WorkersSound,
       Fits, TableSound, Indexable, TryPc
  <2>4. LocksHeld'
    BY <1>5 DEF Reject, LocksHeld, Queue!Owns, RequestsSound, JobsSound, WorkersSound,
       Fits, TableSound, Indexable, TryPc
  <2>5. WorkersSound'
    BY <1>5 DEF Reject, WorkersSound, Fits, RequestsSound, JobsSound, LocksHeld,
       Queue!Owns, TableSound, Indexable, TryPc
  <2>6. TableSound'
    BY <1>5 DEF Reject, TableSound, RequestsSound, JobsSound, LocksHeld, Queue!Owns,
       WorkersSound, Fits, Indexable, TryPc
  <2> QED BY <2>1, <2>2, <2>3, <2>4, <2>5, <2>6
<1>6. ASSUME NEW d \in Docs, Create(d)
      PROVE  Indexed'
  <2>1. TypeOK'
    BY <1>6 DEF Create, InsertDocument, TypeOK, Queue!TypeOK, Queue!JobStates,
       RequestPc, WorkerPc, TryPc, Statuses, Indexable
  <2>2. RequestsSound'
    BY <1>6 DEF Create, InsertDocument, RequestsSound, JobsSound, LocksHeld,
       Queue!Owns, WorkersSound, Fits, TableSound, Indexable, TryPc
  <2>3. JobsSound'
    BY <1>6 DEF Create, InsertDocument, JobsSound, RequestsSound, LocksHeld,
       Queue!Owns, WorkersSound, Fits, TableSound, Indexable, TryPc
  <2>4. LocksHeld'
    BY <1>6 DEF Create, InsertDocument, LocksHeld, Queue!Owns, RequestsSound,
       JobsSound, WorkersSound, Fits, TableSound, Indexable, TryPc
  <2>5. WorkersSound'
    BY <1>6 DEF Create, InsertDocument, WorkersSound, Fits, RequestsSound, JobsSound,
       LocksHeld, Queue!Owns, TableSound, Indexable, TryPc
  <2>6. TableSound'
    BY <1>6 DEF Create, InsertDocument, TableSound, RequestsSound, JobsSound,
       LocksHeld, Queue!Owns, WorkersSound, Fits, Indexable, TryPc
  <2> QED BY <2>1, <2>2, <2>3, <2>4, <2>5, <2>6
<1>7. ASSUME NEW d \in Docs, CreateLost(d)
      PROVE  Indexed'
  <2>1. TypeOK'
    BY <1>7 DEF CreateLost, InsertDocument, TypeOK, Queue!TypeOK, Queue!JobStates,
       RequestPc, WorkerPc, TryPc, Statuses, Indexable
  <2>2. RequestsSound'
    BY <1>7 DEF CreateLost, InsertDocument, RequestsSound, JobsSound, LocksHeld,
       Queue!Owns, WorkersSound, Fits, TableSound, Indexable, TryPc
  <2>3. JobsSound'
    BY <1>7 DEF CreateLost, InsertDocument, JobsSound, RequestsSound, LocksHeld,
       Queue!Owns, WorkersSound, Fits, TableSound, Indexable, TryPc
  <2>4. LocksHeld'
    BY <1>7 DEF CreateLost, InsertDocument, LocksHeld, Queue!Owns, RequestsSound,
       JobsSound, WorkersSound, Fits, TableSound, Indexable, TryPc
  <2>5. WorkersSound'
    BY <1>7 DEF CreateLost, InsertDocument, WorkersSound, Fits, RequestsSound,
       JobsSound, LocksHeld, Queue!Owns, TableSound, Indexable, TryPc
  <2>6. TableSound'
    BY <1>7 DEF CreateLost, InsertDocument, TableSound, RequestsSound, JobsSound,
       LocksHeld, Queue!Owns, WorkersSound, Fits, Indexable, TryPc
  <2> QED BY <2>1, <2>2, <2>3, <2>4, <2>5, <2>6
<1>8. ASSUME NEW d \in Docs, Enqueue(d)
      PROVE  Indexed'
  <2>1. TypeOK'
    BY <1>8 DEF Enqueue, Queue!Add, TypeOK, Queue!TypeOK, Queue!JobStates, RequestPc,
       WorkerPc, TryPc, Statuses, Indexable
  <2>2. RequestsSound'
    BY <1>8 DEF Enqueue, Queue!Add, RequestsSound, JobsSound, LocksHeld, Queue!Owns,
       WorkersSound, Fits, TableSound, Indexable, TryPc
  <2>3. JobsSound'
    <3>1. status[d] # "NONE" /\ failures[d] = 0
      BY <1>8 DEF Enqueue, RequestsSound, JobsSound
    <3> QED BY <1>8, <3>1 DEF Enqueue, Queue!Add, Queue!Attempts, JobsSound
  <2>4. LocksHeld'
    BY <1>8 DEF Enqueue, Queue!Add, LocksHeld, Queue!Owns, RequestsSound, JobsSound,
       WorkersSound, Fits, TableSound, Indexable, TryPc
  <2>5. WorkersSound'
    BY <1>8 DEF Enqueue, Queue!Add, WorkersSound, Fits, RequestsSound, JobsSound,
       LocksHeld, Queue!Owns, TableSound, Indexable, TryPc
  <2>6. TableSound'
    BY <1>8 DEF Enqueue, Queue!Add, TableSound, RequestsSound, JobsSound, LocksHeld,
       Queue!Owns, WorkersSound, Fits, Indexable, TryPc
  <2> QED BY <2>1, <2>2, <2>3, <2>4, <2>5, <2>6
<1>9. ASSUME NEW d \in Docs, EnqueueFails(d)
      PROVE  Indexed'
  <2>1. TypeOK'
    BY <1>9 DEF EnqueueFails, TypeOK, Queue!TypeOK, Queue!JobStates, RequestPc,
       WorkerPc, TryPc, Statuses, Indexable
  <2>2. RequestsSound'
    BY <1>9 DEF EnqueueFails, RequestsSound, JobsSound, LocksHeld, Queue!Owns,
       WorkersSound, Fits, TableSound, Indexable, TryPc
  <2>3. JobsSound'
    BY <1>9 DEF EnqueueFails, JobsSound, RequestsSound, LocksHeld, Queue!Owns,
       WorkersSound, Fits, TableSound, Indexable, TryPc
  <2>4. LocksHeld'
    BY <1>9 DEF EnqueueFails, LocksHeld, Queue!Owns, RequestsSound, JobsSound,
       WorkersSound, Fits, TableSound, Indexable, TryPc
  <2>5. WorkersSound'
    BY <1>9 DEF EnqueueFails, WorkersSound, Fits, RequestsSound, JobsSound, LocksHeld,
       Queue!Owns, TableSound, Indexable, TryPc
  <2>6. TableSound'
    BY <1>9 DEF EnqueueFails, TableSound, RequestsSound, JobsSound, LocksHeld,
       Queue!Owns, WorkersSound, Fits, Indexable, TryPc
  <2> QED BY <2>1, <2>2, <2>3, <2>4, <2>5, <2>6
<1>10. ASSUME NEW d \in Docs, DeleteDocument(d)
       PROVE  Indexed'
  <2>1. TypeOK'
    BY <1>10 DEF DeleteDocument, TypeOK, Queue!TypeOK, Queue!JobStates, RequestPc,
       WorkerPc, TryPc, Statuses, Indexable
  <2>2. RequestsSound'
    BY <1>10 DEF DeleteDocument, RequestsSound, JobsSound, LocksHeld, Queue!Owns,
       WorkersSound, Fits, TableSound, Indexable, TryPc
  <2>3. JobsSound'
    BY <1>10 DEF DeleteDocument, JobsSound, RequestsSound, LocksHeld, Queue!Owns,
       WorkersSound, Fits, TableSound, Indexable, TryPc
  <2>4. LocksHeld'
    BY <1>10 DEF DeleteDocument, LocksHeld, Queue!Owns, RequestsSound, JobsSound,
       WorkersSound, Fits, TableSound, Indexable, TryPc
  <2>5. WorkersSound'
    BY <1>10 DEF DeleteDocument, WorkersSound, Fits, RequestsSound, JobsSound,
       LocksHeld, Queue!Owns, TableSound, Indexable, TryPc
  <2>6. TableSound'
    BY <1>10 DEF DeleteDocument, TableSound, RequestsSound, JobsSound, LocksHeld,
       Queue!Owns, WorkersSound, Fits, Indexable, TryPc
  <2> QED BY <2>1, <2>2, <2>3, <2>4, <2>5, <2>6
<1>11. ASSUME NEW w \in Workers, NEW d \in Docs, TakeJob(w, d)
       PROVE  Indexed'
  <2>1. TypeOK'
    BY <1>11 DEF TakeJob, Queue!Take, TypeOK, Queue!TypeOK, Queue!JobStates, RequestPc,
       WorkerPc, TryPc, Statuses, Indexable
  <2>2. RequestsSound'
    BY <1>11 DEF TakeJob, Queue!Take, RequestsSound, JobsSound, LocksHeld, Queue!Owns,
       WorkersSound, Fits, TableSound, Indexable, TryPc
  <2>3. JobsSound'
    BY <1>11 DEF TakeJob, Queue!Take, JobsSound, RequestsSound, LocksHeld, Queue!Owns,
       WorkersSound, Fits, TableSound, Indexable, TryPc
  <2>4. LocksHeld'
    BY <1>11 DEF TakeJob, Queue!Take, LocksHeld, Queue!Owns, RequestsSound, JobsSound,
       WorkersSound, Fits, TableSound, Indexable, TryPc
  <2>5. WorkersSound'
    BY <1>11 DEF TakeJob, Queue!Take, WorkersSound, Fits, RequestsSound, JobsSound,
       LocksHeld, Queue!Owns, TableSound, Indexable, TryPc
  <2>6. TableSound'
    BY <1>11 DEF TakeJob, Queue!Take, TableSound, RequestsSound, JobsSound, LocksHeld,
       Queue!Owns, WorkersSound, Fits, Indexable, TryPc
  <2> QED BY <2>1, <2>2, <2>3, <2>4, <2>5, <2>6
<1>12. ASSUME NEW w \in Workers, Begin(w)
       PROVE  Indexed'
  <2>1. TypeOK'
    <3>1. status' \in [Docs -> Statuses]
      BY <1>12 DEF Begin, Statuses, Indexable
    <3>2. pc' \in [Procs -> RequestPc \cup WorkerPc]
      <4>1. "config" \in WorkerPc /\ "catch" \in WorkerPc
        BY DEF WorkerPc, TryPc
      <4>2. pc' = [pc EXCEPT ![w] = "config"] \/ pc' = [pc EXCEPT ![w] = "catch"]
        BY <1>12 DEF Begin, Commits
      <4> QED BY <4>1, <4>2
    <3> QED BY <1>12, <3>1, <3>2 DEF Begin
  <2>2. RequestsSound'
    BY <1>12 DEF Begin, Commits, RequestsSound, JobsSound, LocksHeld, Queue!Owns,
       WorkersSound, Fits, TableSound, Indexable, TryPc
  <2>3. JobsSound'
    BY <1>12 DEF Begin, Commits, JobsSound, RequestsSound, LocksHeld, Queue!Owns,
       WorkersSound, Fits, TableSound, Indexable, TryPc
  <2>4. LocksHeld'
    BY <1>12 DEF Begin, Commits, LocksHeld, Queue!Owns, RequestsSound, JobsSound,
       WorkersSound, Fits, TableSound, Indexable, TryPc
  <2>5. WorkersSound'
    BY <1>12 DEF Begin, Commits, WorkersSound, Fits, RequestsSound, JobsSound,
       LocksHeld, Queue!Owns, TableSound, Indexable, TryPc
  <2>6. TableSound'
    BY <1>12 DEF Begin, Commits, TableSound, RequestsSound, JobsSound, LocksHeld,
       Queue!Owns, WorkersSound, Fits, Indexable, TryPc
  <2> QED BY <2>1, <2>2, <2>3, <2>4, <2>5, <2>6
<1>13. ASSUME NEW w \in Workers, LoadKb(w)
       PROVE  Indexed'
  <2>1. TypeOK'
    BY <1>13 DEF LoadKb, TypeOK, Queue!TypeOK, Queue!JobStates, RequestPc, WorkerPc,
       TryPc, Statuses, Indexable
  <2>2. RequestsSound'
    BY <1>13 DEF LoadKb, RequestsSound, JobsSound, LocksHeld, Queue!Owns, WorkersSound,
       Fits, TableSound, Indexable, TryPc
  <2>3. JobsSound'
    BY <1>13 DEF LoadKb, JobsSound, RequestsSound, LocksHeld, Queue!Owns, WorkersSound,
       Fits, TableSound, Indexable, TryPc
  <2>4. LocksHeld'
    BY <1>13 DEF LoadKb, LocksHeld, Queue!Owns, RequestsSound, JobsSound, WorkersSound,
       Fits, TableSound, Indexable, TryPc
  <2>5. WorkersSound'
    BY <1>13 DEF LoadKb, WorkersSound, Fits, RequestsSound, JobsSound, LocksHeld,
       Queue!Owns, TableSound, Indexable, TryPc
  <2>6. TableSound'
    BY <1>13 DEF LoadKb, TableSound, RequestsSound, JobsSound, LocksHeld, Queue!Owns,
       WorkersSound, Fits, Indexable, TryPc
  <2> QED BY <2>1, <2>2, <2>3, <2>4, <2>5, <2>6
<1>14. ASSUME NEW w \in Workers, Embed(w)
       PROVE  Indexed'
  <2>1. TypeOK'
    BY <1>14 DEF Embed, TypeOK, Queue!TypeOK, Queue!JobStates, RequestPc, WorkerPc,
       TryPc, Statuses, Indexable
  <2>2. RequestsSound'
    BY <1>14 DEF Embed, RequestsSound, JobsSound, LocksHeld, Queue!Owns, WorkersSound,
       Fits, TableSound, Indexable, TryPc
  <2>3. JobsSound'
    BY <1>14 DEF Embed, JobsSound, RequestsSound, LocksHeld, Queue!Owns, WorkersSound,
       Fits, TableSound, Indexable, TryPc
  <2>4. LocksHeld'
    BY <1>14 DEF Embed, LocksHeld, Queue!Owns, RequestsSound, JobsSound, WorkersSound,
       Fits, TableSound, Indexable, TryPc
  <2>5. WorkersSound'
    BY <1>14 DEF Embed, WorkersSound, Fits, RequestsSound, JobsSound, LocksHeld,
       Queue!Owns, TableSound, Indexable, TryPc
  <2>6. TableSound'
    BY <1>14 DEF Embed, TableSound, RequestsSound, JobsSound, LocksHeld, Queue!Owns,
       WorkersSound, Fits, Indexable, TryPc
  <2> QED BY <2>1, <2>2, <2>3, <2>4, <2>5, <2>6
<1>15. ASSUME NEW w \in Workers, Wipe(w)
       PROVE  Indexed'
  <2>1. TypeOK'
    <3>1. chunkSets' \in [Docs -> Nat]
      BY <1>15 DEF Wipe
    <3>2. pc' \in [Procs -> RequestPc \cup WorkerPc]
      BY <1>15 DEF Wipe, Commits, WorkerPc, TryPc
    <3> QED BY <1>15, <3>1, <3>2 DEF Wipe
  <2>2. RequestsSound'
    BY <1>15 DEF Wipe, Commits, RequestsSound, JobsSound, LocksHeld, Queue!Owns,
       WorkersSound, Fits, TableSound, Indexable, TryPc
  <2>3. JobsSound'
    BY <1>15 DEF Wipe, Commits, JobsSound, RequestsSound, LocksHeld, Queue!Owns,
       WorkersSound, Fits, TableSound, Indexable, TryPc
  <2>4. LocksHeld'
    BY <1>15 DEF Wipe, Commits, LocksHeld, Queue!Owns, RequestsSound, JobsSound,
       WorkersSound, Fits, TableSound, Indexable, TryPc
  <2>5. WorkersSound'
    BY <1>15 DEF Wipe, Commits, WorkersSound, Fits, RequestsSound, JobsSound,
       LocksHeld, Queue!Owns, TableSound, Indexable, TryPc
  <2>6. TableSound'
    BY <1>15 DEF Wipe, Commits, TableSound, RequestsSound, JobsSound, LocksHeld,
       Queue!Owns, WorkersSound, Fits, Indexable, TryPc
  <2> QED BY <2>1, <2>2, <2>3, <2>4, <2>5, <2>6
<1>16. ASSUME NEW w \in Workers, InsertChunks(w)
       PROVE  Indexed'
  <2>1. TypeOK'
    <3>1. chunkSets' \in [Docs -> Nat]
      <4>1. task[w] \in Docs /\ chunkSets[task[w]] + 1 \in Nat
        BY <1>16 DEF InsertChunks, LocksHeld
      <4> QED BY <1>16, <4>1 DEF InsertChunks
    <3>2. pc' \in [Procs -> RequestPc \cup WorkerPc]
      BY <1>16 DEF InsertChunks, Commits, WorkerPc, TryPc
    <3> QED BY <1>16, <3>1, <3>2 DEF InsertChunks
  <2>2. RequestsSound'
    BY <1>16 DEF InsertChunks, Commits, RequestsSound, JobsSound, LocksHeld,
       Queue!Owns, WorkersSound, Fits, TableSound, Indexable, TryPc
  <2>3. JobsSound'
    BY <1>16 DEF InsertChunks, Commits, JobsSound, RequestsSound, LocksHeld,
       Queue!Owns, WorkersSound, Fits, TableSound, Indexable, TryPc
  <2>4. LocksHeld'
    BY <1>16 DEF InsertChunks, Commits, LocksHeld, Queue!Owns, RequestsSound,
       JobsSound, WorkersSound, Fits, TableSound, Indexable, TryPc
  <2>5. WorkersSound'
    BY <1>16 DEF InsertChunks, Commits, WorkersSound, Fits, RequestsSound, JobsSound,
       LocksHeld, Queue!Owns, TableSound, Indexable, TryPc
  <2>6. TableSound'
    BY <1>16 DEF InsertChunks, Commits, TableSound, RequestsSound, JobsSound,
       LocksHeld, Queue!Owns, WorkersSound, Fits, Indexable, TryPc
  <2> QED BY <2>1, <2>2, <2>3, <2>4, <2>5, <2>6
<1>17. ASSUME NEW w \in Workers, Finish(w)
       PROVE  Indexed'
  <2>1. TypeOK'
    <3>1. status' \in [Docs -> Statuses]
      BY <1>17 DEF Finish, Statuses, Indexable
    <3>2. pc' \in [Procs -> RequestPc \cup WorkerPc]
      <4>1. "ack" \in WorkerPc /\ "catch" \in WorkerPc
        BY DEF WorkerPc, TryPc
      <4>2. pc' = [pc EXCEPT ![w] = "ack"] \/ pc' = [pc EXCEPT ![w] = "catch"]
        BY <1>17 DEF Finish, Commits
      <4> QED BY <4>1, <4>2
    <3> QED BY <1>17, <3>1, <3>2 DEF Finish
  <2>2. RequestsSound'
    BY <1>17 DEF Finish, Commits, RequestsSound, JobsSound, LocksHeld, Queue!Owns,
       WorkersSound, Fits, TableSound, Indexable, TryPc
  <2>3. JobsSound'
    BY <1>17 DEF Finish, Commits, JobsSound, RequestsSound, LocksHeld, Queue!Owns,
       WorkersSound, Fits, TableSound, Indexable, TryPc
  <2>4. LocksHeld'
    BY <1>17 DEF Finish, Commits, LocksHeld, Queue!Owns, RequestsSound, JobsSound,
       WorkersSound, Fits, TableSound, Indexable, TryPc
  <2>5. WorkersSound'
    BY <1>17 DEF Finish, Commits, WorkersSound, Fits, RequestsSound, JobsSound,
       LocksHeld, Queue!Owns, TableSound, Indexable, TryPc
  <2>6. TableSound'
    BY <1>17 DEF Finish, Commits, TableSound, RequestsSound, JobsSound, LocksHeld,
       Queue!Owns, WorkersSound, Fits, Indexable, TryPc
  <2> QED BY <2>1, <2>2, <2>3, <2>4, <2>5, <2>6
<1>18. ASSUME NEW w \in Workers, Throw(w)
       PROVE  Indexed'
  <2>1. TypeOK'
    BY <1>18 DEF Throw, TypeOK, Queue!TypeOK, Queue!JobStates, RequestPc, WorkerPc,
       TryPc, Statuses, Indexable
  <2>2. RequestsSound'
    BY <1>18 DEF Throw, RequestsSound, JobsSound, LocksHeld, Queue!Owns, WorkersSound,
       Fits, TableSound, Indexable, TryPc
  <2>3. JobsSound'
    BY <1>18 DEF Throw, JobsSound, RequestsSound, LocksHeld, Queue!Owns, WorkersSound,
       Fits, TableSound, Indexable, TryPc
  <2>4. LocksHeld'
    BY <1>18 DEF Throw, LocksHeld, Queue!Owns, RequestsSound, JobsSound, WorkersSound,
       Fits, TableSound, Indexable, TryPc
  <2>5. WorkersSound'
    BY <1>18 DEF Throw, WorkersSound, Fits, RequestsSound, JobsSound, LocksHeld,
       Queue!Owns, TableSound, Indexable, TryPc
  <2>6. TableSound'
    BY <1>18 DEF Throw, TableSound, RequestsSound, JobsSound, LocksHeld, Queue!Owns,
       WorkersSound, Fits, Indexable, TryPc
  <2> QED BY <2>1, <2>2, <2>3, <2>4, <2>5, <2>6
<1>19. ASSUME NEW w \in Workers, RecordFailure(w)
       PROVE  Indexed'
  <2>1. TypeOK'
    BY <1>19 DEF RecordFailure, TypeOK, Queue!TypeOK, Queue!JobStates, RequestPc,
       WorkerPc, TryPc, Statuses, Indexable
  <2>2. RequestsSound'
    BY <1>19 DEF RecordFailure, RequestsSound, JobsSound, LocksHeld, Queue!Owns,
       WorkersSound, Fits, TableSound, Indexable, TryPc
  <2>3. JobsSound'
    BY <1>19 DEF RecordFailure, JobsSound, RequestsSound, LocksHeld, Queue!Owns,
       WorkersSound, Fits, TableSound, Indexable, TryPc
  <2>4. LocksHeld'
    BY <1>19 DEF RecordFailure, LocksHeld, Queue!Owns, RequestsSound, JobsSound,
       WorkersSound, Fits, TableSound, Indexable, TryPc
  <2>5. WorkersSound'
    BY <1>19 DEF RecordFailure, WorkersSound, Fits, RequestsSound, JobsSound,
       LocksHeld, Queue!Owns, TableSound, Indexable, TryPc
  <2>6. TableSound'
    BY <1>19 DEF RecordFailure, TableSound, RequestsSound, JobsSound, LocksHeld,
       Queue!Owns, WorkersSound, Fits, Indexable, TryPc
  <2> QED BY <2>1, <2>2, <2>3, <2>4, <2>5, <2>6
<1>20. ASSUME NEW w \in Workers, Ack(w)
       PROVE  Indexed'
  <2>1. TypeOK'
    BY <1>20 DEF Ack, Release, Queue!Complete, Queue!Owns, Queue!jobs, TypeOK,
       Queue!TypeOK, Queue!JobStates, RequestPc, WorkerPc, TryPc, Statuses, Indexable
  <2>2. RequestsSound'
    BY <1>20 DEF Ack, Release, Queue!Complete, Queue!Owns, Queue!jobs, RequestsSound,
       JobsSound, LocksHeld, WorkersSound, Fits, TableSound, Indexable, TryPc
  <2>3. JobsSound'
    BY <1>20 DEF Ack, Release, Queue!Complete, Queue!Owns, Queue!jobs, JobsSound,
       RequestsSound, LocksHeld, WorkersSound, Fits, TableSound, Indexable, TryPc
  <2>4. LocksHeld'
    <3>1. task[w] \in Docs /\ jobState[task[w]] = "active" /\ owner[task[w]] = w
      BY <1>20 DEF Ack, LocksHeld, Queue!Owns
    <3>2. /\ jobState' = [jobState EXCEPT ![task[w]] = "completed"]
          /\ owner' = [owner EXCEPT ![task[w]] = None]
          /\ pc' = [pc EXCEPT ![w] = "idle"] /\ task' = [task EXCEPT ![w] = None]
      BY <1>20, <3>1 DEF Ack, Release, Queue!Complete, Queue!Owns
    <3>3. \A v \in Workers : v # w /\ pc[v] # "idle" =>
             /\ task[v] # task[w] /\ task[v] \in Docs
             /\ jobState[task[v]] = "active" /\ owner[task[v]] = v
      BY <3>1 DEF LocksHeld, Queue!Owns
    <3> QED BY <3>1, <3>2, <3>3 DEF LocksHeld, Queue!Owns
  <2>5. WorkersSound'
    BY <1>20 DEF Ack, Release, Queue!Complete, Queue!Owns, Queue!jobs, WorkersSound,
       Fits, RequestsSound, JobsSound, LocksHeld, TableSound, Indexable, TryPc
  <2>6. TableSound'
    BY <1>20 DEF Ack, Release, Queue!Complete, Queue!Owns, Queue!jobs, TableSound,
       RequestsSound, JobsSound, LocksHeld, WorkersSound, Fits, Indexable, TryPc
  <2> QED BY <2>1, <2>2, <2>3, <2>4, <2>5, <2>6
<1>21. ASSUME NEW w \in Workers, Nack(w)
       PROVE  Indexed'
  <2>1. TypeOK'
    <3>1. task[w] \in Docs /\ jobState[task[w]] = "active" /\ owner[task[w]] = w
      BY <1>21 DEF Nack, LocksHeld, Queue!Owns
    <3>2. failures[task[w]] + 1 \in 0..Queue!Attempts
      BY <3>1 DEF JobsSound, Queue!Attempts
    <3>3. failures' = [failures EXCEPT ![task[w]] = failures[task[w]] + 1]
      BY <1>21, <3>1 DEF Nack, Queue!Fail, Queue!Owns
    <3>4. failures' \in [Docs -> 0..Queue!Attempts]
      BY <3>2, <3>3
    <3>5. \E s \in {"delayed", "failed"} : jobState' = [jobState EXCEPT ![task[w]] = s]
      BY <1>21, <3>1 DEF Nack, Queue!Fail, Queue!Owns
    <3>6. jobState' \in [Docs -> Queue!JobStates]
      BY <3>5 DEF Queue!JobStates
    <3>7. owner' \in [Docs -> Workers \cup {None}] /\ UNCHANGED stalls
      BY <1>21, <3>1 DEF Nack, Queue!Fail, Queue!Owns
    <3>8. pc' \in [Procs -> RequestPc \cup WorkerPc] /\ task' \in [Workers -> Docs \cup {None}]
      BY <1>21 DEF Nack, Release, WorkerPc
    <3> QED BY <1>21, <3>4, <3>6, <3>7, <3>8 DEF Nack
  <2>2. RequestsSound'
    BY <1>21 DEF Nack, Release, Queue!Fail, Queue!Owns, Queue!jobs, RequestsSound,
       JobsSound, LocksHeld, WorkersSound, Fits, TableSound, Indexable, TryPc
  <2>3. JobsSound'
    BY <1>21 DEF Nack, Release, Queue!Fail, Queue!Owns, Queue!jobs, JobsSound,
       RequestsSound, LocksHeld, WorkersSound, Fits, TableSound, Indexable, TryPc
  <2>4. LocksHeld'
    <3>1. task[w] \in Docs /\ jobState[task[w]] = "active" /\ owner[task[w]] = w
      BY <1>21 DEF Nack, LocksHeld, Queue!Owns
    <3>2. /\ \A d \in Docs : d # task[w] => jobState'[d] = jobState[d] /\ owner'[d] = owner[d]
          /\ pc' = [pc EXCEPT ![w] = "idle"] /\ task' = [task EXCEPT ![w] = None]
      BY <1>21, <3>1 DEF Nack, Release, Queue!Fail, Queue!Owns
    <3>3. \A v \in Workers : v # w /\ pc[v] # "idle" =>
             /\ task[v] # task[w] /\ task[v] \in Docs
             /\ jobState[task[v]] = "active" /\ owner[task[v]] = v
      BY <3>1 DEF LocksHeld, Queue!Owns
    <3> QED BY <3>1, <3>2, <3>3 DEF LocksHeld, Queue!Owns
  <2>5. WorkersSound'
    BY <1>21 DEF Nack, Release, Queue!Fail, Queue!Owns, Queue!jobs, WorkersSound, Fits,
       RequestsSound, JobsSound, LocksHeld, TableSound, Indexable, TryPc
  <2>6. TableSound'
    BY <1>21 DEF Nack, Release, Queue!Fail, Queue!Owns, Queue!jobs, TableSound,
       RequestsSound, JobsSound, LocksHeld, WorkersSound, Fits, Indexable, TryPc
  <2> QED BY <2>1, <2>2, <2>3, <2>4, <2>5, <2>6
<1>22. ASSUME NEW w \in Workers, ResultLost(w)
       PROVE  Indexed'
  <2>1. TypeOK'
    BY <1>22 DEF ResultLost, Release, TypeOK, Queue!TypeOK, Queue!JobStates, RequestPc,
       WorkerPc, TryPc, Statuses, Indexable
  <2>2. RequestsSound'
    BY <1>22 DEF ResultLost, Release, RequestsSound, JobsSound, LocksHeld, Queue!Owns,
       WorkersSound, Fits, TableSound, Indexable, TryPc
  <2>3. JobsSound'
    BY <1>22 DEF ResultLost, Release, JobsSound, RequestsSound, LocksHeld, Queue!Owns,
       WorkersSound, Fits, TableSound, Indexable, TryPc
  <2>4. LocksHeld'
    BY <1>22 DEF ResultLost, Release, LocksHeld, Queue!Owns, RequestsSound, JobsSound,
       WorkersSound, Fits, TableSound, Indexable, TryPc
  <2>5. WorkersSound'
    BY <1>22 DEF ResultLost, Release, WorkersSound, Fits, RequestsSound, JobsSound,
       LocksHeld, Queue!Owns, TableSound, Indexable, TryPc
  <2>6. TableSound'
    BY <1>22 DEF ResultLost, Release, TableSound, RequestsSound, JobsSound, LocksHeld,
       Queue!Owns, WorkersSound, Fits, Indexable, TryPc
  <2> QED BY <2>1, <2>2, <2>3, <2>4, <2>5, <2>6
<1>23. ASSUME NEW d \in Docs, BackoffEnds(d)
       PROVE  Indexed'
  <2>1. TypeOK'
    BY <1>23 DEF BackoffEnds, Queue!BackoffEnds, TypeOK, Queue!TypeOK, Queue!JobStates,
       RequestPc, WorkerPc, TryPc, Statuses, Indexable
  <2>2. RequestsSound'
    BY <1>23 DEF BackoffEnds, Queue!BackoffEnds, RequestsSound, JobsSound, LocksHeld,
       Queue!Owns, WorkersSound, Fits, TableSound, Indexable, TryPc
  <2>3. JobsSound'
    BY <1>23 DEF BackoffEnds, Queue!BackoffEnds, JobsSound, RequestsSound, LocksHeld,
       Queue!Owns, WorkersSound, Fits, TableSound, Indexable, TryPc
  <2>4. LocksHeld'
    BY <1>23 DEF BackoffEnds, Queue!BackoffEnds, LocksHeld, Queue!Owns, RequestsSound,
       JobsSound, WorkersSound, Fits, TableSound, Indexable, TryPc
  <2>5. WorkersSound'
    BY <1>23 DEF BackoffEnds, Queue!BackoffEnds, WorkersSound, Fits, RequestsSound,
       JobsSound, LocksHeld, Queue!Owns, TableSound, Indexable, TryPc
  <2>6. TableSound'
    BY <1>23 DEF BackoffEnds, Queue!BackoffEnds, TableSound, RequestsSound, JobsSound,
       LocksHeld, Queue!Owns, WorkersSound, Fits, Indexable, TryPc
  <2> QED BY <2>1, <2>2, <2>3, <2>4, <2>5, <2>6
<1>24. ASSUME NEW d \in Docs, Stall(d)
       PROVE  Indexed'
  <2>1. TypeOK'
    <3>1. jobState' \in [Docs -> Queue!JobStates]
      BY <1>24 DEF Stall, Queue!Stall, Queue!JobStates
    <3>2. stalls' \in [Docs -> 0..Queue!MaxStalls]
      BY <1>24 DEF Stall, Queue!Stall, Queue!Redelivers, Queue!MaxStalls
    <3>3. owner' \in [Docs -> Workers \cup {None}] /\ UNCHANGED failures
      BY <1>24 DEF Stall, Queue!Stall
    <3> QED BY <1>24, <3>1, <3>2, <3>3 DEF Stall
  <2>2. RequestsSound'
    BY <1>24 DEF Stall, Queue!Stall, Queue!Redelivers, RequestsSound, JobsSound,
       LocksHeld, Queue!Owns, WorkersSound, Fits, TableSound, Indexable, TryPc
  <2>3. JobsSound'
    BY <1>24 DEF Stall, Queue!Stall, Queue!Redelivers, JobsSound, RequestsSound,
       LocksHeld, Queue!Owns, WorkersSound, Fits, TableSound, Indexable, TryPc
  <2>4. LocksHeld'
    <3>1. jobState[d] = "active" /\ task[owner[d]] # d
      BY <1>24 DEF Stall, Queue!Stall
    <3>2. \A v \in Workers : pc[v] # "idle" => task[v] # d
      BY <3>1 DEF LocksHeld, Queue!Owns
    <3>3. \A x \in Docs : x # d => jobState'[x] = jobState[x] /\ owner'[x] = owner[x]
      BY <1>24 DEF Stall, Queue!Stall
    <3> QED BY <1>24, <3>2, <3>3 DEF Stall, LocksHeld, Queue!Owns
  <2>5. WorkersSound'
    BY <1>24 DEF Stall, Queue!Stall, Queue!Redelivers, WorkersSound, Fits,
       RequestsSound, JobsSound, LocksHeld, Queue!Owns, TableSound, Indexable, TryPc
  <2>6. TableSound'
    BY <1>24 DEF Stall, Queue!Stall, Queue!Redelivers, TableSound, RequestsSound,
       JobsSound, LocksHeld, Queue!Owns, WorkersSound, Fits, Indexable, TryPc
  <2> QED BY <2>1, <2>2, <2>3, <2>4, <2>5, <2>6
<1>25. ASSUME NEW p \in Procs, Crash(p)
       PROVE  Indexed'
  <2>1. TypeOK'
    BY <1>25 DEF Crash, Release, TypeOK, Queue!TypeOK, Queue!JobStates, RequestPc,
       WorkerPc, TryPc, Statuses, Indexable
  <2>2. RequestsSound'
    BY <1>25 DEF Crash, Release, RequestsSound, JobsSound, LocksHeld, Queue!Owns,
       WorkersSound, Fits, TableSound, Indexable, TryPc
  <2>3. JobsSound'
    BY <1>25 DEF Crash, Release, JobsSound, RequestsSound, LocksHeld, Queue!Owns,
       WorkersSound, Fits, TableSound, Indexable, TryPc
  <2>4. LocksHeld'
    BY <1>25 DEF Crash, Release, LocksHeld, Queue!Owns, RequestsSound, JobsSound,
       WorkersSound, Fits, TableSound, Indexable, TryPc
  <2>5. WorkersSound'
    BY <1>25 DEF Crash, Release, WorkersSound, Fits, RequestsSound, JobsSound,
       LocksHeld, Queue!Owns, TableSound, Indexable, TryPc
  <2>6. TableSound'
    BY <1>25 DEF Crash, Release, TableSound, RequestsSound, JobsSound, LocksHeld,
       Queue!Owns, WorkersSound, Fits, Indexable, TryPc
  <2> QED BY <2>1, <2>2, <2>3, <2>4, <2>5, <2>6
<1>26. ASSUME UNCHANGED vars PROVE Indexed'
  BY <1>26
  DEF vars, RequestsSound, JobsSound, LocksHeld, Queue!Owns, WorkersSound, TableSound
<1> QED
  BY <1>1, <1>2, <1>3, <1>4, <1>5, <1>6, <1>7, <1>8, <1>9, <1>10, <1>11, <1>12, <1>13,
     <1>14, <1>15, <1>16, <1>17, <1>18, <1>19, <1>20, <1>21, <1>22, <1>23, <1>24,
     <1>25, <1>26
  DEF Next, Request, Work, Timers

\* The inductive invariant holds in every reachable state.
LEMMA IndexedAlways == "lockLoss" \notin Faults => (Spec => []Indexed)
<1> SUFFICES ASSUME "lockLoss" \notin Faults PROVE Spec => []Indexed
  OBVIOUS
<1>1. Init => Indexed
  BY IndexedInit
<1>2. Indexed /\ [Next]_vars => Indexed'
  BY IndexedStep
<1> QED BY <1>1, <1>2, PTL DEF Spec

\* Unless a live worker loses its lock, a search never finds a chunk twice, however
\* often the document's job fails, is retried or redelivered.
THEOREM ChunksOnce == "lockLoss" \notin Faults => (Spec => []NoDuplicateChunks)
<1> SUFFICES ASSUME "lockLoss" \notin Faults PROVE Spec => []NoDuplicateChunks
  OBVIOUS
<1>1. Spec => []Indexed
  BY IndexedAlways
<1>2. Indexed => NoDuplicateChunks
  BY DEF Indexed, TableSound, NoDuplicateChunks
<1> QED BY <1>1, <1>2, PTL

\* Under the same condition an INDEXED document has its chunks in the table.
THEOREM IndexedMeansSearchable == "lockLoss" \notin Faults => (Spec => []IndexedHasChunks)
<1> SUFFICES ASSUME "lockLoss" \notin Faults PROVE Spec => []IndexedHasChunks
  OBVIOUS
<1>1. Spec => []Indexed
  BY IndexedAlways
<1>2. Indexed => IndexedHasChunks
  BY DEF Indexed, TableSound, IndexedHasChunks
<1> QED BY <1>1, <1>2, PTL

\* ... and a completed job means that its document is INDEXED, or deleted.
THEOREM CompletedMeansIndexed == "lockLoss" \notin Faults => (Spec => []CompletedJobIndexed)
<1> SUFFICES ASSUME "lockLoss" \notin Faults PROVE Spec => []CompletedJobIndexed
  OBVIOUS
<1>1. Spec => []Indexed
  BY IndexedAlways
<1>2. Indexed => CompletedJobIndexed
  BY DEF Indexed, TableSound, CompletedJobIndexed
<1> QED BY <1>1, <1>2, PTL

-----------------------------------------------------------------------------
\* Every step of the pipeline is a step of the index it implements, or none.
LEMMA IndexStep ==
  ASSUME Indexed, [Next]_vars
  PROVE  [Index!Next]_(Index!vars)
<1> USE DEF Indexed, TypeOK, Goto, Turn, bases, docs, jobs, Procs, Present
<1>1. ASSUME NEW k \in KBs, CreateKb(k)
      PROVE  Index!Next \/ UNCHANGED Index!vars
  BY <1>1 DEF CreateKb, Index!vars
<1>2. ASSUME NEW k \in KBs, DeleteKb(k)
      PROVE  Index!Next \/ UNCHANGED Index!vars
  <2> DEFINE D == {d \in Docs : kbOf[d] = k /\ Present(d)}
  <2>1. \A d \in Docs : kbOf[d] = k /\ ~Present(d) => chunkSets[d] = 0
    BY DEF TableSound, RequestsSound, Statuses, Indexable
  <2>2. chunkSets' = [d \in Docs |-> IF d \in D THEN 0 ELSE chunkSets[d]]
    BY <1>2, <2>1 DEF DeleteKb
  <2>3. status' = [d \in Docs |-> IF d \in D THEN "GONE" ELSE status[d]]
    BY <1>2 DEF DeleteKb
  <2>4. D \in SUBSET Docs /\ \A d \in D : status[d] \in Index!Indexable
    BY DEF Indexable, Index!Indexable
  <2>5. Index!Delete(D)
    BY <2>2, <2>3, <2>4 DEF Index!Delete
  <2> QED BY <2>4, <2>5 DEF Index!Next
<1>3. ASSUME NEW d \in Docs, NEW k \in KBs, Submit(d, k)
      PROVE  Index!Next \/ UNCHANGED Index!vars
  BY <1>3 DEF Submit, Index!vars
<1>4. ASSUME NEW d \in Docs, RequireKb(d)
      PROVE  Index!Next \/ UNCHANGED Index!vars
  BY <1>4 DEF RequireKb, Index!vars
<1>5. ASSUME NEW d \in Docs, Reject(d)
      PROVE  Index!Next \/ UNCHANGED Index!vars
  BY <1>5 DEF Reject, Index!vars
<1>6. ASSUME NEW d \in Docs, Create(d)
      PROVE  Index!Next \/ UNCHANGED Index!vars
  <2>1. status[d] = "NONE"
    BY <1>6 DEF Create, InsertDocument, RequestsSound
  <2>2. Index!Create(d)
    BY <1>6, <2>1 DEF Create, InsertDocument, Index!Create, Index!Turn
  <2> QED BY <2>2 DEF Index!Next
<1>7. ASSUME NEW d \in Docs, CreateLost(d)
      PROVE  Index!Next \/ UNCHANGED Index!vars
  <2>1. status[d] = "NONE"
    BY <1>7 DEF CreateLost, InsertDocument, RequestsSound
  <2>2. Index!Create(d)
    BY <1>7, <2>1 DEF CreateLost, InsertDocument, Index!Create, Index!Turn
  <2> QED BY <2>2 DEF Index!Next
<1>8. ASSUME NEW d \in Docs, Enqueue(d)
      PROVE  Index!Next \/ UNCHANGED Index!vars
  BY <1>8 DEF Enqueue, Queue!Add, Index!vars
<1>9. ASSUME NEW d \in Docs, EnqueueFails(d)
      PROVE  Index!Next \/ UNCHANGED Index!vars
  BY <1>9 DEF EnqueueFails, Index!vars
<1>10. ASSUME NEW d \in Docs, DeleteDocument(d)
       PROVE  Index!Next \/ UNCHANGED Index!vars
  <2>1. status' = [x \in Docs |-> IF x \in {d} THEN "GONE" ELSE status[x]]
    BY <1>10 DEF DeleteDocument
  <2>2. chunkSets' = [x \in Docs |-> IF x \in {d} THEN 0 ELSE chunkSets[x]]
    BY <1>10 DEF DeleteDocument
  <2>3. Index!Delete({d})
    BY <1>10, <2>1, <2>2 DEF DeleteDocument, Index!Delete, Indexable, Index!Indexable
  <2> QED BY <2>3 DEF Index!Next
<1>11. ASSUME NEW w \in Workers, NEW d \in Docs, TakeJob(w, d)
       PROVE  Index!Next \/ UNCHANGED Index!vars
  BY <1>11 DEF TakeJob, Queue!Take, Index!vars
<1>12. ASSUME NEW w \in Workers, Begin(w)
       PROVE  Index!Next \/ UNCHANGED Index!vars
  <2>1. task[w] \in Docs /\ Fits(pc[w], status[task[w]], chunkSets[task[w]])
    BY <1>12 DEF Begin, LocksHeld, WorkersSound
  <2>2. Index!Begin(task[w])
    BY <1>12, <2>1 DEF Begin, Index!Begin, Index!Turn, Indexable, Index!Indexable
  <2> QED BY <2>1, <2>2 DEF Index!Next
<1>13. ASSUME NEW w \in Workers, LoadKb(w)
       PROVE  Index!Next \/ UNCHANGED Index!vars
  BY <1>13 DEF LoadKb, Index!vars
<1>14. ASSUME NEW w \in Workers, Embed(w)
       PROVE  Index!Next \/ UNCHANGED Index!vars
  BY <1>14 DEF Embed, Index!vars
<1>15. ASSUME NEW w \in Workers, Wipe(w)
       PROVE  Index!Next \/ UNCHANGED Index!vars
  <2>1. task[w] \in Docs /\ status[task[w]] \in {"PROCESSING", "GONE"}
    BY <1>15 DEF Wipe, LocksHeld, WorkersSound, Fits
  <2>2. CASE status[task[w]] = "PROCESSING"
    <3>1. Index!Clear(task[w])
      BY <1>15, <2>2 DEF Wipe, Index!Clear, Index!Show
    <3> QED BY <2>1, <3>1 DEF Index!Next
  <2>3. CASE status[task[w]] = "GONE"
    <3>1. chunkSets[task[w]] = 0
      BY <2>1, <2>3 DEF TableSound
    <3> QED BY <1>15, <3>1 DEF Wipe, Index!vars
  <2> QED BY <2>1, <2>2, <2>3
<1>16. ASSUME NEW w \in Workers, InsertChunks(w)
       PROVE  Index!Next \/ UNCHANGED Index!vars
  <2>1. /\ task[w] \in Docs
        /\ status[task[w]] = "PROCESSING" /\ chunkSets[task[w]] = 0
    BY <1>16 DEF InsertChunks, LocksHeld, WorkersSound, Fits, Indexable
  <2>2. Index!Publish(task[w])
    BY <1>16, <2>1 DEF InsertChunks, Index!Publish, Index!Show
  <2> QED BY <2>1, <2>2 DEF Index!Next
<1>17. ASSUME NEW w \in Workers, Finish(w)
       PROVE  Index!Next \/ UNCHANGED Index!vars
  <2>1. /\ task[w] \in Docs
        /\ status[task[w]] = "PROCESSING" /\ chunkSets[task[w]] = 1
    BY <1>17 DEF Finish, LocksHeld, WorkersSound, Fits, Indexable
  <2>2. Index!Finish(task[w])
    BY <1>17, <2>1 DEF Finish, Index!Finish, Index!Turn
  <2> QED BY <2>1, <2>2 DEF Index!Next
<1>18. ASSUME NEW w \in Workers, Throw(w)
       PROVE  Index!Next \/ UNCHANGED Index!vars
  BY <1>18 DEF Throw, Index!vars
<1>19. ASSUME NEW w \in Workers, RecordFailure(w)
       PROVE  Index!Next \/ UNCHANGED Index!vars
  <2>1. task[w] \in Docs
    BY <1>19 DEF RecordFailure, LocksHeld
  <2>2. CASE Present(task[w]) /\ Turn(task[w], "FAILED")
    <3>1. Index!Fail(task[w])
      BY <1>19, <2>2
      DEF RecordFailure, Index!Fail, Index!Turn, Indexable, Index!Indexable
    <3> QED BY <2>1, <3>1 DEF Index!Next
  <2>3. CASE UNCHANGED status
    BY <1>19, <2>3 DEF RecordFailure, Index!vars
  <2> QED BY <1>19, <2>2, <2>3 DEF RecordFailure
<1>20. ASSUME NEW w \in Workers, Ack(w)
       PROVE  Index!Next \/ UNCHANGED Index!vars
  BY <1>20 DEF Ack, Release, Queue!Complete, Queue!Owns, Queue!jobs, Index!vars
<1>21. ASSUME NEW w \in Workers, Nack(w)
       PROVE  Index!Next \/ UNCHANGED Index!vars
  BY <1>21 DEF Nack, Release, Queue!Fail, Queue!Owns, Queue!jobs, Index!vars
<1>22. ASSUME NEW w \in Workers, ResultLost(w)
       PROVE  Index!Next \/ UNCHANGED Index!vars
  BY <1>22 DEF ResultLost, Release, Index!vars
<1>23. ASSUME NEW d \in Docs, BackoffEnds(d)
       PROVE  Index!Next \/ UNCHANGED Index!vars
  BY <1>23 DEF BackoffEnds, Queue!BackoffEnds, Index!vars
<1>24. ASSUME NEW d \in Docs, Stall(d)
       PROVE  Index!Next \/ UNCHANGED Index!vars
  BY <1>24 DEF Stall, Queue!Stall, Queue!Redelivers, Index!vars
<1>25. ASSUME NEW p \in Procs, Crash(p)
       PROVE  Index!Next \/ UNCHANGED Index!vars
  BY <1>25 DEF Crash, Release, Index!vars
<1>26. ASSUME UNCHANGED vars PROVE UNCHANGED Index!vars
  BY <1>26 DEF vars, Index!vars
<1> QED
  BY <1>1, <1>2, <1>3, <1>4, <1>5, <1>6, <1>7, <1>8, <1>9, <1>10, <1>11, <1>12, <1>13,
     <1>14, <1>15, <1>16, <1>17, <1>18, <1>19, <1>20, <1>21, <1>22, <1>23, <1>24,
     <1>25, <1>26
  DEF Next, Request, Work, Timers

\* The pipeline keeps the promises of DocumentIndex: chunks come and go as one
\* set while the document is PROCESSING, and with the document.
THEOREM ImplementsIndex == "lockLoss" \notin Faults => (Spec => RefinesIndex)
<1> SUFFICES ASSUME "lockLoss" \notin Faults PROVE Spec => RefinesIndex
  OBVIOUS
<1>1. Init => Index!Init
  BY DEF Init, Index!Init
<1>2. Indexed /\ [Next]_vars => [Index!Next]_(Index!vars)
  BY IndexStep
<1>3. Spec => []Indexed
  BY IndexedAlways
<1> QED BY <1>1, <1>2, <1>3, PTL DEF Spec, RefinesIndex, Index!Spec
=================================================================================
