------------------------------ MODULE Retrieval ------------------------------
(***************************************************************************)
(* How a question gets its context: two searches side by side, their ranks *)
(* fused, the fused list reranked, and chunks taken from it one by one     *)
(* within the limits of a prompt (QueryService.query, steps 4 to 7).       *)
(*                                                                         *)
(* What a search finds, and in which order, is any ranking of chunks: the  *)
(* documents it may look at are RagCache's and DocumentAccess's business.  *)
(* A similarity or lexical score is kept as a rank, the only thing fusion  *)
(* reads of it; a reranker, local or Cohere's, may return any order.       *)
(***************************************************************************)
EXTENDS Naturals, Sequences, SequencesExt

CONSTANTS
    Chunks,        \* chunks that may match
    DocumentOf,    \* the document of a chunk
    Snippet,       \* the first 150 normalized characters of a chunk
    Tokens,        \* its estimated tokens
    HalfTopK,      \* vectorTopK and keywordTopK
    FusedTopK,     \* topK of the question
    RrfK,          \* smoothing of the fusion (60 in the code)
    RerankTopK,    \* chunks a reranker keeps
    MaxChunks,     \* chunks of a prompt
    MaxTokens,     \* tokens of a prompt
    PerDocument,   \* chunks of one document before others go first (3)
    DiversityFrom  \* candidates up to which nobody goes first (5)

ASSUME RetrievalAssumption ==
    /\ Tokens \in [Chunks -> Nat \ {0}]
    /\ DOMAIN DocumentOf = Chunks
    /\ DOMAIN Snippet = Chunks
    /\ {HalfTopK, FusedTopK, RerankTopK, MaxChunks, MaxTokens} \subseteq Nat \ {0}
    /\ {RrfK, PerDocument, DiversityFrom} \subseteq Nat

VARIABLES
    step,    \* of query()
    hybrid,  \* enableHybrid
    halves,  \* what each search answered
    ranked,  \* rawChunks, then rerankedChunks
    next,    \* the candidate selectContext() looks at
    chosen,  \* selectedChunks
    spent   \* accumulatedTokens

retVars == <<step, hybrid, halves, ranked, next, chosen, spent>>
----------------------------------------------------------------------------

RetSteps == {"search", "rerank", "select", "answer", "failed"}
Halves == {"vector", "keyword"}
HalfStates == {"searching", "answered", "rejected"}

Unsearched == [h \in Halves |-> [pc |-> "searching", list |-> <<>>]]

\* Rankings of distinct chunks: rows of one SELECT, cut by its LIMIT.
IsRanking(s, n) == s \in Seq(Chunks) /\ Len(s) <= n /\ IsInjective(s)
Rankings(n) == {s \in BoundedSeq(Chunks, n) : IsInjective(s)}

Cut(s, n) == SubSeq(s, 1, IF Len(s) < n THEN Len(s) ELSE n)

IndexIn(s, c) == CHOOSE i \in 1 .. Len(s) : s[i] = c

\* a is placed, and b is placed later or not at all.
Leads(s, a, b) ==
    /\ a \in Range(s)
    /\ b \in Range(s) => IndexIn(s, a) < IndexIn(s, b)

\* 1 / (k + rank) as a fraction; nothing for a chunk the list lacks.
Share(s, c) == IF c \in Range(s) THEN <<1, RrfK + IndexIn(s, c)>> ELSE <<0, 1>>

Sum2(x, y) == <<x[1] * y[2] + y[1] * x[2], x[2] * y[2]>>

Greater(x, y) == x[1] * y[2] > y[1] * x[2]

\* Best score first; sort is stable and the Map holds the vector results before
\* the others, each in their order.
Earlier(v, k, a, b) == Leads(v, a, b) \/ ({a, b} \cap Range(v) = {} /\ Leads(k, a, b))

Precedes(v, k, score, a, b) ==
    \/ Greater(score[a], score[b])
    \/ ~Greater(score[b], score[a]) /\ Earlier(v, k, a, b)

BestFirst(v, k, score) ==
    CHOOSE s \in SetToSeqs(DOMAIN score) :
        \A i, j \in 1 .. Len(s) : i < j => Precedes(v, k, score, s[i], s[j])

\* Mutant: a chunk both searches found keeps the share of the first alone.
FuseWithoutAdding(v, k) ==
    LET score == [c \in Range(v) \cup Range(k) |->
                    IF c \in Range(v) THEN Share(v, c) ELSE Share(k, c)]
    IN  Cut(BestFirst(v, k, score), FusedTopK)

\* fuseResults: shares added per chunk.
FuseResults(v, k) ==
    LET score == [c \in Range(v) \cup Range(k) |-> Sum2(Share(v, c), Share(k, c))]
    IN  Cut(BestFirst(v, k, score), FusedTopK)

RetInit ==
    /\ step = "search"
    /\ hybrid \in BOOLEAN
    /\ halves = Unsearched
    /\ ranked = <<>> /\ chosen = <<>>
    /\ next = 1 /\ spent = 0
----------------------------------------------------------------------------
\* Retrieval

HalfAnswers(h, list) ==
    /\ step = "search" /\ halves[h].pc = "searching"
    /\ hybrid \/ h = "vector"
    /\ halves' = [halves EXCEPT ![h] = [pc |-> "answered", list |-> list]]
    /\ UNCHANGED <<step, hybrid, ranked, next, chosen, spent>>

\* A search alone takes the question with it, one of two is only logged.
HalfFails(h) ==
    /\ step = "search" /\ halves[h].pc = "searching"
    /\ hybrid \/ h = "vector"
    /\ halves' = [halves EXCEPT ![h].pc = "rejected"]
    /\ step' = IF hybrid THEN step ELSE "failed"
    /\ UNCHANGED <<hybrid, ranked, next, chosen, spent>>

\* What the two searches left, fused once both have settled; without the
\* keyword search the vector results as they are. Nothing found, or nothing
\* but failures: the answer that there is no context.
Retrieved(list) ==
    /\ ranked' = list
    /\ step' = IF list = <<>> THEN "answer" ELSE "rerank"
    /\ UNCHANGED <<hybrid, halves, next, chosen, spent>>

Fuse ==
    /\ step = "search" /\ hybrid
    /\ \A h \in Halves : halves[h].pc # "searching"
    /\ Retrieved(FuseResults(halves["vector"].list, halves["keyword"].list))

VectorOnly ==
    /\ step = "search" /\ ~hybrid /\ halves["vector"].pc = "answered"
    /\ Retrieved(halves["vector"].list)

\* Any order of the chunks found, cut; or, switched off, the list as it is.
\* What each search answered is not looked at again.
Rerank ==
    /\ step = "rerank"
    /\ \E order \in SetToSeqs(Range(ranked)) :
          ranked' \in {Cut(order, RerankTopK), ranked}
    /\ step' = "select"
    /\ halves' = Unsearched
    /\ UNCHANGED <<hybrid, next, chosen, spent>>
----------------------------------------------------------------------------
\* selectContext

Repeats(c) == \E d \in Range(chosen) : d = c \/ Snippet[d] = Snippet[c]

OverBudget(c) == chosen # <<>> /\ spent + Tokens[c] > MaxTokens

CountFor(document) == Cardinality({i \in DOMAIN chosen : DocumentOf[chosen[i]] = document})

\* Mutant: the slice before the chosen ones' number, not from it.
OthersPassed(c) ==
    \E j \in 1 .. Len(chosen) :
        /\ DocumentOf[ranked[j]] # DocumentOf[c]
        /\ ranked[j] \notin Range(chosen)

\* slice(selectedChunks.length), which holds every candidate still to come and
\* some that were skipped.
OthersWaiting(c) ==
    \E j \in Len(chosen) + 1 .. Len(ranked) :
        /\ DocumentOf[ranked[j]] # DocumentOf[c]
        /\ ranked[j] \notin Range(chosen)

Crowds(c) ==
    /\ CountFor(DocumentOf[c]) >= PerDocument
    /\ Len(ranked) > DiversityFrom
    /\ OthersWaiting(c)

Looking == step = "select" /\ next <= Len(ranked) /\ Len(chosen) < MaxChunks

\* The list is at its end, the context is full, or the next would not fit.
StopSelecting ==
    /\ step = "select"
    /\ Looking => ~Repeats(ranked[next]) /\ OverBudget(ranked[next])
    /\ step' = "answer"
    /\ UNCHANGED <<hybrid, halves, ranked, next, chosen, spent>>

SkipCandidate ==
    /\ Looking
    /\ LET c == ranked[next] IN Repeats(c) \/ (~OverBudget(c) /\ Crowds(c))
    /\ next' = next + 1
    /\ UNCHANGED <<step, hybrid, halves, ranked, chosen, spent>>

TakeCandidate ==
    /\ Looking
    /\ LET c == ranked[next] IN
          /\ ~Repeats(c) /\ ~OverBudget(c) /\ ~Crowds(c)
          /\ chosen' = Append(chosen, c)
          /\ spent' = spent + Tokens[c]
    /\ next' = next + 1
    /\ UNCHANGED <<step, hybrid, halves, ranked>>

RetNext ==
    \/ \E h \in Halves :
          \/ \E list \in Rankings(IF hybrid THEN HalfTopK ELSE FusedTopK) :
                HalfAnswers(h, list)
          \/ HalfFails(h)
    \/ Fuse \/ VectorOnly \/ Rerank
    \/ StopSelecting \/ SkipCandidate \/ TakeCandidate

RetSpec == RetInit /\ [][RetNext]_retVars
----------------------------------------------------------------------------
RetTypeOK ==
    /\ step \in RetSteps /\ hybrid \in BOOLEAN
    /\ DOMAIN halves = Halves
    /\ \A h \in Halves : /\ halves[h].pc \in HalfStates
                         /\ IsRanking(halves[h].list, HalfTopK + FusedTopK)
    /\ IsRanking(ranked, FusedTopK)
    /\ IsRanking(chosen, MaxChunks)
    /\ next \in 1 .. Len(ranked) + 1
    /\ spent \in Nat

\* Fusion loses nothing that fits, adds nothing and overrules nobody: a chunk
\* ahead of another in one list, and not behind it in the other, stays ahead;
\* and with one search failed the list is the other's. So a failure, which the
\* caller never learns of, costs that search's chunks and nothing more.
FusionIsFaithful ==
    step = "rerank" \/ (step = "answer" /\ ranked = <<>>) =>
        LET list == [h \in Halves |-> halves[h].list]
            found == Range(list["vector"]) \cup Range(list["keyword"])
        IN  /\ Range(ranked) \subseteq found
            /\ Len(ranked) = FusedTopK \/ Range(ranked) = found
            /\ IsInjective(ranked)
            /\ \A a \in found, b \in Range(ranked) :
                  (/\ \E h \in Halves : Leads(list[h], a, b)
                   /\ \A h \in Halves : ~Leads(list[h], b, a))
                  => Leads(ranked, a, b)
            /\ \A g, h \in Halves : g # h /\ list[g] = <<>> => ranked = Cut(list[h], FusedTopK)

\* The prompt's limits hold, but for a first chunk that alone is too long.
ContextFits ==
    /\ Len(chosen) <= MaxChunks
    /\ Len(chosen) > 1 => spent <= MaxTokens
    /\ \A i, j \in 1 .. Len(chosen) :
          Snippet[chosen[i]] = Snippet[chosen[j]] => i = j

\* A candidate left out repeats a chosen one, comes of a document that has its
\* share, or came when the context was full or the next did not fit.
NothingDroppedWithoutReason ==
    \A i \in 1 .. Len(ranked) :
        \/ Repeats(ranked[i])
        \/ CountFor(DocumentOf[ranked[i]]) >= PerDocument
        \/ Len(chosen) = MaxChunks
        \/ \E j \in 1 .. i : ~Repeats(ranked[j]) /\ OverBudget(ranked[j])

\* A document gets more than its share only when no candidate of another
\* document comes later.
OthersFirst ==
    Len(ranked) > DiversityFrom =>
        \A i \in 1 .. Len(ranked) :
            LET c == ranked[i]
                taken == {d \in Range(chosen) : /\ DocumentOf[d] = DocumentOf[c]
                                                /\ Leads(ranked, d, c)}
            IN  (c \in Range(chosen) /\ Cardinality(taken) >= PerDocument)
                => \A j \in i + 1 .. Len(ranked) : DocumentOf[ranked[j]] = DocumentOf[c]

\* The context a prompt is built from.
ContextIsFaithful ==
    step = "answer" => ContextFits /\ NothingDroppedWithoutReason /\ OthersFirst
=============================================================================
