------------------------------ MODULE Chunking ------------------------------
(***************************************************************************)
(* How a worker turns one text into rows of the chunk table: chunkText     *)
(* cuts it into overlapping chunks, the embedding provider answers batch   *)
(* by batch, and row i pairs chunk i with vector i.                        *)
(*                                                                         *)
(* The text is abstracted to its length, a chunk to the half-open range of *)
(* characters it holds, and a vector to the index of the chunk it belongs  *)
(* to.  The knowledge base's overlap may be as large as its chunk size.    *)
(***************************************************************************)
EXTENDS Naturals, Sequences

CONSTANTS
    Lengths,    \* text.length
    ChunkSizes,      \* kb.chunkSize
    ChunkOverlaps,   \* kb.chunkOverlap
    Batch       \* texts per call of the embedding provider

ASSUME LengthsAssumption == Lengths \subseteq Nat \ {0}
ASSUME SizesAssumption == ChunkSizes \subseteq Nat \ {0}
ASSUME OverlapsAssumption == ChunkOverlaps \subseteq Nat
ASSUME BatchAssumption == Batch \in Nat \ {0}

VARIABLES
    len, size, overlap,     \* the arguments of chunkText
    start, chunks,          \* its loop
    vectors,                \* allVectors
    phase

input == <<len, size, overlap>>
chunkVars  == <<input, start, chunks, vectors, phase>>

Ranges == [from : 0..len, to : 0..len]

ChunkTypeOK ==
    /\ len \in Lengths /\ size \in ChunkSizes /\ overlap \in ChunkOverlaps
    /\ start \in Nat
    /\ chunks \in Seq(Ranges)
    /\ vectors \in Seq(Nat)
    /\ phase \in {"chunk", "embed", "done"}

Smaller(m, n) == IF m < n THEN m ELSE n
Greater(m, n) == IF m < n THEN n ELSE m

\* How far the next chunk starts behind the last one.  Mutant: no overlap.
StrideOfSize == size
Stride == Greater(1, IF overlap < size THEN size - overlap ELSE 0)

ChunkInit ==
    /\ len \in Lengths /\ size \in ChunkSizes /\ overlap \in ChunkOverlaps
    /\ start = 0
    /\ chunks = <<>>
    /\ vectors = <<>>
    /\ phase = "chunk"

\* A text that fits into one chunk is not cut.
KeepWhole ==
    /\ phase = "chunk" /\ len <= size
    /\ chunks' = <<[from |-> 0, to |-> len]>>
    /\ phase' = "embed"
    /\ UNCHANGED <<input, start, vectors>>

\* slice stops at the end of the text.
Piece == [from |-> start, to |-> Smaller(start + size, len)]

\* The loop breaks behind the chunk that reaches the end, so neither its condition
\* (start < text.length) nor the break for an empty piece ever ends it.  Mutants:
\* it breaks when another chunk would not be full, or only at the end of the text.
LastIfNotFull == start + Stride + size > len
LastAtEnd == start + Stride >= len
Last == start + size >= len

Cut ==
    /\ phase = "chunk" /\ len > size
    /\ start < len
    /\ chunks' = Append(chunks, Piece)
    /\ IF Last THEN phase' = "embed" /\ UNCHANGED start
               ELSE start' = start + Stride /\ UNCHANGED phase
    /\ UNCHANGED <<input, vectors>>

\* The provider may answer a batch of n texts in any order.
Orders(n) == {o \in [1..n -> 1..n] : \A k \in 1..n : \E i \in 1..n : o[i] = k}

\* The vectors of a batch, sorted by the index the provider gives them.
\* Mutant: in the order they arrive.
AsTheyArrive(o, n) == o
ByIndex(o, n) == [k \in 1..n |-> o[CHOOSE i \in 1..n : o[i] = k]]

EmbedBatch ==
    /\ phase = "embed" /\ Len(vectors) < Len(chunks)
    /\ LET done == Len(vectors)
           n == Smaller(Batch, Len(chunks) - done)
       IN  \E o \in Orders(n) :
              vectors' = vectors \o [k \in 1..n |-> done + ByIndex(o, n)[k]]
    /\ UNCHANGED <<input, start, chunks, phase>>

Store ==
    /\ phase = "embed" /\ Len(vectors) >= Len(chunks)
    /\ phase' = "done"
    /\ UNCHANGED <<input, start, chunks, vectors>>

ChunkNext == KeepWhole \/ Cut \/ EmbedBatch \/ Store

ChunkSpec == ChunkInit /\ [][ChunkNext]_chunkVars

-----------------------------------------------------------------------------
\* No character of the text is lost to the search, whatever the configuration.
WholeTextIsStored ==
    phase # "chunk" => \A x \in 0..(len - 1) :
        \E i \in DOMAIN chunks : chunks[i].from <= x /\ x < chunks[i].to

\* A chunk respects the chunk size, and each one adds characters that none before
\* it had: no row repeats what another holds.
ChunksAdvance ==
    \A i \in DOMAIN chunks :
        /\ chunks[i].from < chunks[i].to
        /\ chunks[i].to <= chunks[i].from + size
        /\ i > 1 => chunks[i - 1].to < chunks[i].to

\* Neighbours share exactly the configured overlap, where that is possible.
NeighboursOverlap ==
    overlap < size => \A i \in DOMAIN chunks :
        i > 1 => chunks[i - 1].to = chunks[i].from + overlap

\* Every chunk is stored with its own vector.
OwnVectors ==
    phase = "done" => /\ Len(vectors) = Len(chunks)
                   /\ \A i \in DOMAIN vectors : vectors[i] = i

\* The number of rows is the one a closed formula gives: one, and one more for
\* each stride that the text extends beyond the first chunk.
ChunkCount ==
    phase # "chunk" => Len(chunks) =
        1 + (IF len <= size THEN 0 ELSE (len - size + Stride - 1) \div Stride)
=============================================================================
