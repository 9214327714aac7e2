------------------------------ MODULE Indexing ------------------------------
(***************************************************************************)
(* From the text of a document to its chunks and their vectors: cleaning,  *)
(* the sliding window of ChunkerService over each page, the batches of     *)
(* EmbeddingService, the pairs that are stored (processDocument, steps 5   *)
(* to 10).                                                                 *)
(*                                                                         *)
(* A page is abstracted to its number of words and to whether any of them  *)
(* survives cleaning; a piece of text to the words it spans; a vector to   *)
(* the piece it was made of.                                               *)
(***************************************************************************)
EXTENDS Integers, Sequences, SequencesExt

CONSTANTS
    MaxSize,    \* bound: chunkSize, in tokens
    MaxWords,   \* bound: words of a page
    MaxPages,   \* bound: pages of a document
    BatchSize   \* texts of one embedding call

ASSUME IndexingAssumption ==
    /\ {MaxSize, BatchSize} \subseteq Nat \ {0}
    /\ {MaxWords, MaxPages} \subseteq Nat

VARIABLES
    size, overlap,  \* chunkSize and chunkOverlap, in tokens
    pages,          \* what the extractor returned
    run,            \* step of the run, page at hand, start of its next window
    pieces,         \* chunks, in the order of their chunkIndex
    vectors         \* embeddings

indexVars == <<size, overlap, pages, run, pieces, vectors>>
----------------------------------------------------------------------------

RawPage == [number : 1 .. MaxPages, words : 0 .. MaxWords, meaningful : BOOLEAN]
Piece == [page : 1 .. MaxPages, from : Nat, to : Nat]
RunSteps == {"clean", "chunk", "embed", "stored", "failed"}

Larger(a, b) == IF a < b THEN b ELSE a
Smaller(a, b) == IF a < b THEN a ELSE b

\* validateConfig
ValidConfig(s, o) == s > 0 /\ o >= 0 /\ s > o

\* Tokens to words, three for four, rounded down.
WordsPerChunk == Larger(1, (size * 3) \div 4)
WordsOverlap == (overlap * 3) \div 4
StepSize == Larger(1, WordsPerChunk - WordsOverlap)

Page == pages[run.page]

IndexInit ==
    /\ size \in 1 .. MaxSize /\ overlap \in 0 .. MaxSize - 1
    /\ ValidConfig(size, overlap)
    /\ pages \in {s \in BoundedSeq(RawPage, MaxPages) :
          \A i \in DOMAIN s : /\ s[i].number = i
                              /\ s[i].meaningful => s[i].words > 0}
    /\ run = [step |-> "clean", page |-> 1, from |-> 0]
    /\ pieces = <<>> /\ vectors = <<>>
----------------------------------------------------------------------------
\* cleanText and cleanPages: nothing left of the document fails the run,
\* nothing left of a page drops that page, the others keep their order.
CleanText ==
    /\ run.step = "clean"
    /\ pages' = CHOOSE s \in SetToSeqs({p \in Range(pages) : p.meaningful}) :
          \A i, j \in DOMAIN s : i < j => s[i].number < s[j].number
    /\ run' = [run EXCEPT !.step = IF pages' = <<>> THEN "failed" ELSE "chunk"]
    /\ UNCHANGED <<size, overlap, pieces, vectors>>

\* Mutant: the loop ends a step early.
ChunkTextShort ==
    /\ run.step = "chunk" /\ run.page <= Len(pages)
    /\ pieces' = Append(pieces, [page |-> Page.number, from |-> run.from,
                                 to |-> Smaller(run.from + WordsPerChunk, Page.words)])
    /\ run' = IF run.from + WordsPerChunk + StepSize > Page.words
              THEN [run EXCEPT !.page = @ + 1, !.from = 0]
              ELSE [run EXCEPT !.from = @ + StepSize]
    /\ UNCHANGED <<size, overlap, pages, vectors>>

\* One window of chunkText: slice(i, i + wordsPerChunk); the last one reaches
\* the end of the page and the next page starts.
ChunkText ==
    /\ run.step = "chunk" /\ run.page <= Len(pages)
    /\ pieces' = Append(pieces, [page |-> Page.number, from |-> run.from,
                                 to |-> Smaller(run.from + WordsPerChunk, Page.words)])
    /\ run' = IF run.from + WordsPerChunk >= Page.words
              THEN [run EXCEPT !.page = @ + 1, !.from = 0]
              ELSE [run EXCEPT !.from = @ + StepSize]
    /\ UNCHANGED <<size, overlap, pages, vectors>>

Chunked ==
    /\ run.step = "chunk" /\ run.page > Len(pages)
    /\ run' = [run EXCEPT !.step = "embed"]
    /\ UNCHANGED <<size, overlap, pages, pieces, vectors>>

\* One batch: the provider sorts what it got by index, the service counts it.
EmbedBatch ==
    /\ run.step = "embed" /\ Len(vectors) < Len(pieces)
    /\ LET n == Smaller(BatchSize, Len(pieces) - Len(vectors))
       IN  vectors' = vectors \o [i \in 1 .. n |-> pieces[Len(vectors) + i]]
    /\ UNCHANGED <<size, overlap, pages, run, pieces>>

\* No answer, too few vectors, or of another dimension.
EmbeddingFails ==
    /\ run.step = "embed" /\ Len(vectors) < Len(pieces)
    /\ run' = [run EXCEPT !.step = "failed"]
    /\ UNCHANGED <<size, overlap, pages, pieces, vectors>>

\* saveChunksWithEmbeddings, one transaction.
StorePieces ==
    /\ run.step = "embed" /\ Len(vectors) = Len(pieces)
    /\ run' = [run EXCEPT !.step = "stored"]
    /\ UNCHANGED <<size, overlap, pages, pieces, vectors>>

IndexNext ==
    CleanText \/ ChunkText \/ Chunked \/ EmbedBatch \/ EmbeddingFails \/ StorePieces

IndexSpec == IndexInit /\ [][IndexNext]_indexVars
----------------------------------------------------------------------------
IndexTypeOK ==
    /\ size \in 1 .. MaxSize /\ overlap \in 0 .. size - 1
    /\ \A i \in DOMAIN pages : pages[i] \in RawPage
    /\ run.step \in RunSteps /\ run.page \in 1 .. MaxPages + 1 /\ run.from \in Nat
    /\ \A i \in DOMAIN pieces : pieces[i] \in Piece
    /\ \A i \in DOMAIN vectors : vectors[i] \in Piece

\* What is stored is the document: every word of a page that has text is in a
\* chunk of that page, no chunk is empty or longer than allowed, each brings
\* words the ones before did not have, in the order of the text, and each has
\* its own vector. For every legal chunk size and overlap, however the rounding
\* falls, and across batches.
IndexIsWhole ==
    run.step = "stored" =>
        /\ \A i \in DOMAIN pages : \A w \in 0 .. pages[i].words - 1 :
              \E j \in DOMAIN pieces : /\ pieces[j].page = pages[i].number
                                       /\ w \in pieces[j].from .. pieces[j].to - 1
        /\ \A j \in DOMAIN pieces : pieces[j].to - pieces[j].from \in 1 .. WordsPerChunk
        /\ \A j, k \in DOMAIN pieces : j < k =>
              \/ pieces[j].page < pieces[k].page
              \/ pieces[j].page = pieces[k].page /\ pieces[j].to < pieces[k].to
        /\ vectors = pieces
=============================================================================
