---------------------------- MODULE AcquireProof ----------------------------
(* Proofs about Acquire: however often a run is paused, killed, throttled or *)
(* out of budget, no chunk is billed and no answer is paid for twice, no     *)
(* chunk stays on disk, the handoff is that of an uninterrupted run, and     *)
(* nothing that was paid for is left out of it and of the surplus.           *)
EXTENDS Acquire, SequenceTheorems, FiniteSetTheorems, WellFoundedInduction, TLAPS

\* A step that pays nothing, keeps the files the argument is about, and does not
\* arrive where something is in hand.
LEMMA Frame ==
  ASSUME IndInv, UNCHANGED <<tars, billed, paid, excused, cache, journal, asked>>,
         pc # "remember", pc' \notin {"remember", "download", "release"}
  PROVE  IndInv'
BY DEF IndInv, Shapes, InHand, Delivered, Due

\* The same of a step that stays where it is.
LEMMA Stays ==
  ASSUME IndInv, UNCHANGED <<tars, billed, paid, excused, cache, journal, asked, pc, chunk>>
  PROVE  IndInv'
BY DEF IndInv, Shapes, InHand, Delivered, Due

\* Where a run reads the listing or the index, nothing is paid and nothing is in hand.
LEMMA ListingSteps ==
  ASSUME IndInv, Start \/ Elapse \/ Replay \/ Query \/ ApiPaper \/ ApiFetch \/ Index
  PROVE  IndInv'
<1>1. CASE Start
  <2>1. pc' \in {"query", "index"} /\ pc = "idle"
        /\ UNCHANGED <<tars, billed, paid, excused, cache, journal, asked>>
    BY <1>1 DEF Start, history
  <2> QED
    BY <2>1, Frame
<1>2. CASE Elapse
  BY <1>2, Stays DEF Elapse, history
<1>3. CASE Replay
  BY <1>3, Frame DEF Replay, history, files
<1>4. CASE Query
  <2>1. /\ pc' \in {"write", "page", "idle"} /\ pc = "query"
        /\ UNCHANGED <<tars, billed, paid, excused, cache, journal, asked>>
    BY <1>4 DEF Query, Exhausted
  <2> QED
    BY <2>1, Frame
<1>5. CASE ApiPaper
  <2>1. /\ pc' \in {"query", "write", "page", "keep", "fetch"} /\ pc = "page"
        /\ UNCHANGED <<tars, billed, paid, excused, cache, journal, asked>>
    BY <1>5 DEF ApiPaper, files, history
  <2> QED
    BY <2>1, Frame
<1>6. CASE ApiFetch
  <2>1. /\ pc' \in {"write", "ask"} /\ pc = "fetch"
        /\ UNCHANGED <<tars, billed, paid, excused, cache, journal, asked>>
    BY <1>6 DEF ApiFetch, Exhausted
  <2> QED
    BY <2>1, Frame
<1>7. CASE Index
  <2>1. /\ pc' \in {"index", "chunk", "write", "idle"} /\ pc = "index"
        /\ UNCHANGED <<tars, billed, paid, excused, cache, journal, asked>>
    BY <1>7 DEF Index, Exhausted, OaiRequest
  <2> QED
    BY <2>1, Frame
<1> QED
  BY <1>1, <1>2, <1>3, <1>4, <1>5, <1>6, <1>7

\* NextChunk: what is whole is adopted, what is journaled is not looked for.
LEMMA ChunkStep ==
  ASSUME IndInv, NextChunk
  PROVE  IndInv'
<1> DEFINE c == Head(m.todo)
<1>1. /\ pc = "chunk" /\ UNCHANGED <<billed, paid, excused, cache, journal, asked>>
      /\ \/ UNCHANGED tars /\ pc' \in {"write", "page"}
         \/ /\ c \notin journal /\ tars[c] # "whole" /\ tars' = [tars EXCEPT ![c] = "partial"]
            /\ chunk' = c /\ pc' = "download"
  BY DEF NextChunk, Open, Exhausted, Adopted, history
<1>2. CASE UNCHANGED tars /\ pc' \in {"write", "page"}
  BY <1>1, <1>2, Frame
<1>3. CASE /\ c \notin journal /\ tars[c] # "whole" /\ tars' = [tars EXCEPT ![c] = "partial"]
           /\ chunk' = c /\ pc' = "download"
  <2> HIDE DEF c
  <2>1. tars' \in [Chunk -> {"none", "partial", "whole"}]
    BY <1>3 DEF IndInv, Shapes
  <2>2. \A d \in Chunk : Delivered(d)'
    BY <1>1, <1>3 DEF IndInv, Shapes, Delivered
  <2>3. InHand'
    BY <1>1, <1>3 DEF IndInv, Shapes, InHand
  <2> QED
    BY <1>1, <2>1, <2>2, <2>3 DEF IndInv, Shapes, Due
<1> QED
  BY <1>1, <1>2, <1>3

\* Download: only a chunk that nothing vouches for is billed.
LEMMA DownloadStep ==
  ASSUME IndInv, Download
  PROVE  IndInv'
<1>1. /\ pc = "download" /\ UNCHANGED <<paid, excused, cache, journal, asked>>
      /\ \/ /\ tars' = [tars EXCEPT ![chunk] = "whole"]
            /\ billed' = [billed EXCEPT ![chunk] = @ + 1] /\ pc' = "page"
         \/ /\ tars' = [tars EXCEPT ![chunk] = "none"] /\ UNCHANGED billed
            /\ pc' \in {"chunk", "idle"}
  BY DEF Download
<1>2. chunk \in Chunk => billed[chunk] = 0
  BY <1>1 DEF IndInv, Shapes, InHand, Delivered
<1>3. /\ tars' \in [Chunk -> {"none", "partial", "whole"}] /\ billed' \in [Chunk -> Nat]
  BY <1>1 DEF IndInv, Shapes
<1>4. \A d \in Chunk : Delivered(d)'
  BY <1>1, <1>2 DEF IndInv, Shapes, Delivered
<1>5. InHand'
  BY <1>1 DEF IndInv, InHand
<1> QED
  BY <1>1, <1>3, <1>4, <1>5 DEF IndInv, Shapes, Due

\* Where a run works on a paper or writes the handoff, no answer is asked for.
LEMMA PaperSteps ==
  ASSUME IndInv, BulkPaper \/ BulkFetch \/ CommitRows \/ CommitPaper \/ Keep
                 \/ WriteHandoff \/ WriteSurplus \/ Finish
  PROVE  IndInv'
<1>1. pc' \in {"mark", "page", "keep", "fetch", "ask", "settle", "query", "surplus", "finish", "idle"}
  BY DEF BulkPaper, BulkFetch, CommitRows, CommitPaper, Keep, WriteHandoff, WriteSurplus, Finish
<1>2. UNCHANGED <<tars, billed, paid, excused, cache, journal, asked>> /\ pc # "remember"
  BY DEF BulkPaper, BulkFetch, CommitRows, CommitPaper, Keep, WriteHandoff, WriteSurplus, Finish,
         files, history
<1> QED
  BY <1>1, <1>2, Frame

\* Mark, then Release: a tar goes only when the journal has its chunk.
LEMMA ReleaseSteps ==
  ASSUME IndInv, Mark \/ Release
  PROVE  IndInv'
<1>1. CASE Mark
  <2>1. /\ pc = "mark" /\ pc' = "release" /\ journal' = journal \cup {chunk}
        /\ UNCHANGED <<tars, billed, paid, excused, cache, asked, chunk>>
    BY <1>1 DEF Mark, history
  <2> QED
    BY <2>1 DEF IndInv, Shapes, InHand, Delivered, Due
<1>2. CASE Release
  <2>1. /\ pc = "release" /\ pc' \in {"write", "chunk"} /\ tars' = [tars EXCEPT ![chunk] = "none"]
        /\ UNCHANGED <<journal, billed, paid, excused, cache, asked>>
    BY <1>2 DEF Release, Freed, history
  <2>2. tars' \in [Chunk -> {"none", "partial", "whole"}]
    BY <2>1 DEF IndInv, Shapes
  <2>3. \A d \in Chunk : Delivered(d)'
    BY <2>1 DEF IndInv, Shapes, InHand, Delivered
  <2>4. InHand'
    BY <2>1 DEF IndInv, InHand
  <2> QED
    BY <2>1, <2>2, <2>3, <2>4 DEF IndInv, Shapes, Due
<1> QED
  BY <1>1, <1>2

\* Ask and Remember: an answer is in hand until the cache has it.
LEMMA AnswerSteps ==
  ASSUME IndInv, Ask \/ Remember
  PROVE  IndInv'
<1>1. CASE Ask
  <2> DEFINE t == Head(m.left)
  <2>1. /\ pc = "ask" /\ asked = NoTheorem
        /\ UNCHANGED <<tars, billed, cache, journal, chunk>>
        /\ \/ UNCHANGED <<asked, paid, excused>> /\ pc' \in {"commit", "ask", "write"}
           \/ /\ t \notin cache /\ asked' = t /\ paid' = [paid EXCEPT ![t] = @ + 1]
              /\ pc' = "remember" /\ UNCHANGED excused
           \/ /\ paid' = [paid EXCEPT ![t] = @ + 1] /\ excused' = [excused EXCEPT ![t] = @ + 1]
              /\ UNCHANGED <<pc, asked>>
    BY <1>1 DEF Ask, Exhausted, files, IndInv, InHand
  <2> HIDE DEF t
  <2>2. paid' \in [Thm -> Nat] /\ excused' \in [Thm -> Nat]
    BY <2>1 DEF IndInv, Shapes
  <2>3. \A u \in Thm : paid[u] <= excused[u] + (IF u \in cache THEN 1 ELSE 0)
    BY <2>1, NoTheoremAssumption DEF IndInv, Due
  <2>4. \A u \in Thm : paid'[u] <= excused'[u] + Due(u)'
    BY <2>1, <2>2, <2>3 DEF IndInv, Shapes, Due
  <2>5. InHand'
    BY <2>1 DEF IndInv, InHand
  <2> QED
    BY <2>1, <2>2, <2>4, <2>5 DEF IndInv, Shapes, Delivered
<1>2. CASE Remember
  <2>1. /\ pc' = "ask" /\ cache' = cache \cup {asked} /\ asked' = NoTheorem
        /\ UNCHANGED <<tars, billed, paid, excused, journal>>
    BY <1>2 DEF Remember, Remembered, history
  <2>2. \A u \in Thm : paid'[u] <= excused'[u] + Due(u)'
    BY <2>1, NoTheoremAssumption DEF IndInv, Shapes, Due
  <2> QED
    BY <2>1, <2>2 DEF IndInv, Shapes, InHand, Delivered
<1> QED
  BY <1>1, <1>2

\* A stop loses the answer in hand and excuses it; it may unlink a partial tar.
LEMMA StopSteps ==
  ASSUME IndInv, Pause \/ Kill
  PROVE  IndInv'
<1>1. /\ asked' = NoTheorem /\ pc' \in {"write", "idle"}
      /\ UNCHANGED <<journal, billed, paid, cache>>
      /\ excused' = IF asked = NoTheorem THEN excused ELSE [excused EXCEPT ![asked] = @ + 1]
      /\ \/ tars' = tars
         \/ pc = "download" /\ tars' = [tars EXCEPT ![chunk] = "none"]
  BY DEF Pause, Kill, Dies, Excuse, files
<1>2. /\ excused' \in [Thm -> Nat] /\ tars' \in [Chunk -> {"none", "partial", "whole"}]
  <2>1. excused' \in [Thm -> Nat]
    <3>1. CASE asked = NoTheorem
      BY <1>1, <3>1 DEF IndInv, Shapes
    <3>2. CASE asked # NoTheorem
      <4>1. excused' = [excused EXCEPT ![asked] = excused[asked] + 1]
        BY <1>1, <3>2
      <4>2. excused \in [Thm -> Nat]
        BY DEF IndInv, Shapes
      <4>3. CASE asked \in Thm
        <5>1. excused[asked] + 1 \in Nat
          BY <4>2, <4>3
        <5> QED
          BY <4>1, <4>2, <5>1
      <4>4. CASE asked \notin Thm
        BY <4>1, <4>2, <4>4
      <4> QED
        BY <4>3, <4>4
    <3> QED
      BY <3>1, <3>2
  <2>2. tars' \in [Chunk -> {"none", "partial", "whole"}]
    <3>1. [tars EXCEPT ![chunk] = "none"] \in [Chunk -> {"none", "partial", "whole"}]
      BY DEF IndInv, Shapes
    <3> QED
      BY <1>1, <3>1 DEF IndInv, Shapes
  <2> QED
    BY <2>1, <2>2
<1>3. \A d \in Chunk : Delivered(d)'
  BY <1>1 DEF IndInv, Shapes, InHand, Delivered
<1>4. \A u \in Thm : paid'[u] <= excused'[u] + Due(u)'
  BY <1>1, <1>2, NoTheoremAssumption DEF IndInv, Shapes, Due
<1>5. InHand'
  BY <1>1 DEF InHand
<1> QED
  BY <1>1, <1>2, <1>3, <1>4, <1>5 DEF IndInv, Shapes

\* Whatever stops the run, what was billed is whole on disk or journaled, and
\* what was paid is cached, in hand or excused.
THEOREM InvariantHolds == Spec => []IndInv
<1>1. Init => IndInv
  BY DEF Init, IndInv, Shapes, InHand, Delivered, Due
<1>2. IndInv /\ [Next]_vars => IndInv'
  <2> SUFFICES ASSUME IndInv, [Next]_vars PROVE IndInv'
    OBVIOUS
  <2>1. CASE UNCHANGED vars
    BY <2>1, Stays DEF vars, files, history
  <2>2. CASE Start \/ Elapse \/ Replay \/ Query \/ ApiPaper \/ ApiFetch \/ Index
    BY <2>2, ListingSteps
  <2>3. CASE NextChunk \/ Download \/ Mark \/ Release
    BY <2>3, ChunkStep, DownloadStep, ReleaseSteps
  <2>4. CASE BulkPaper \/ BulkFetch \/ CommitRows \/ CommitPaper \/ Keep
             \/ WriteHandoff \/ WriteSurplus \/ Finish
    BY <2>4, PaperSteps
  <2>5. CASE Ask \/ Remember
    BY <2>5, AnswerSteps
  <2>6. CASE Pause \/ Kill
    BY <2>6, StopSteps
  <2> QED
    BY <2>1, <2>2, <2>3, <2>4, <2>5, <2>6 DEF Next, Run
<1> QED
  BY <1>1, <1>2, PTL DEF Spec

\* The egress of a chunk is billed at most once, for every listing, layout of the
\* chunks, budget and number of stops.
THEOREM EgressOnce == Spec => []BilledOnce
<1>1. IndInv => BilledOnce
  BY DEF IndInv, Delivered, BilledOnce
<1> QED
  BY <1>1, InvariantHolds, PTL

\* A generator answer is paid for at most once, but for failed calls and answers
\* a stop lost, for every set of theorems, papers and stops.
THEOREM AnswersOnce == Spec => []PaidOnce
<1>1. IndInv => PaidOnce
  BY DEF IndInv, Shapes, Due, PaidOnce
<1> QED
  BY <1>1, InvariantHolds, PTL

-----------------------------------------------------------------------------
(* Operators: ordering a finite set, the path of a bulk run through the      *)
(* chunks, and how many rows the papers on the way offer.                    *)

\* As many members lie before a member as its place says, from none on.
LEMMA Ranks ==
  ASSUME NEW S \in SUBSET Nat, IsFiniteSet(S)
  PROVE  /\ Cardinality(S) \in Nat
         /\ \A x, y \in S : Cardinality({z \in S : z < x}) = Cardinality({z \in S : z < y}) => x = y
         /\ \A i \in 1..Cardinality(S) : \E x \in S : Cardinality({z \in S : z < x}) = i - 1
         /\ \A x \in S : Cardinality({z \in S : z < x}) + 1 \in 1..Cardinality(S)
<1> DEFINE before(x) == {z \in S : z < x}
           n == Cardinality(S)
           p == [x \in S |-> Cardinality(before(x))]
<1>1. n \in Nat
  BY FS_CardinalityType
<1>2. \A x \in S : IsFiniteSet(before(x)) /\ Cardinality(before(x)) \in 0..(n - 1)
  <2> SUFFICES ASSUME NEW x \in S PROVE IsFiniteSet(before(x)) /\ Cardinality(before(x)) \in 0..(n - 1)
    OBVIOUS
  <2>1. before(x) \in SUBSET (S \ {x})
    OBVIOUS
  <2>2. IsFiniteSet(S \ {x}) /\ Cardinality(S \ {x}) = n - 1
    BY FS_RemoveElement
  <2>3. IsFiniteSet(before(x)) /\ Cardinality(before(x)) <= n - 1
    <3> HIDE DEF before
    <3> QED
      BY <2>1, <2>2, FS_Subset
  <2>4. Cardinality(before(x)) \in Nat
    BY <2>3, FS_CardinalityType
  <2> HIDE DEF before, n
  <2> QED
    BY <1>1, <2>3, <2>4
<1>3. \A x, y \in S : x < y => Cardinality(before(x)) # Cardinality(before(y))
  <2> SUFFICES ASSUME NEW x \in S, NEW y \in S, x < y, Cardinality(before(x)) = Cardinality(before(y))
               PROVE  FALSE
    OBVIOUS
  <2>1. x \in Nat /\ y \in Nat /\ \A z \in S : z \in Nat
    OBVIOUS
  <2>2. \A z \in S : z < x => z < y
    BY <2>1
  <2>3. before(x) \in SUBSET before(y)
    BY <2>2
  <2>4. x \in before(y) /\ x \notin before(x)
    <3>1. ~(x < x)
      BY <2>1
    <3> QED
      BY <3>1
  <2> HIDE DEF before
  <2>5. before(x) = before(y)
    BY <1>2, <2>3, FS_Subset
  <2> QED
    BY <2>4, <2>5
<1>4. \A x, y \in S : p[x] = p[y] => x = y
  BY <1>3
<1>5. p \in [S -> 0..(n - 1)]
  BY <1>2
<1>6. IsFiniteSet(0..(n - 1)) /\ Cardinality(0..(n - 1)) = n
  <2> HIDE DEF n
  <2> QED
    BY <1>1, FS_Interval
<1>7. p \in Surjection(S, 0..(n - 1))
  <2>1. p \in Injection(S, 0..(n - 1))
    BY <1>4, <1>5 DEF Injection, IsInjective
  <2> HIDE DEF p
  <2> QED
    BY <1>6, <2>1, FS_Injection
<1>8. \A i \in 1..n : \E x \in S : Cardinality(before(x)) = i - 1
  <2> SUFFICES ASSUME NEW i \in 1..n PROVE \E x \in S : p[x] = i - 1
    OBVIOUS
  <2>1. i - 1 \in 0..(n - 1)
    <3> HIDE DEF n
    <3> QED
      BY <1>1
  <2> HIDE DEF p
  <2> QED
    BY <1>7, <2>1 DEF Surjection
<1>9. \A x \in S : Cardinality(before(x)) + 1 \in 1..n
  <2> HIDE DEF before, n
  <2> QED
    BY <1>1, <1>2
<1> QED
  BY <1>1, <1>4, <1>8, <1>9

\* InOrder lists the members of a finite set of numbers, each once.
LEMMA OrderIs ==
  ASSUME NEW S \in SUBSET Nat, IsFiniteSet(S)
  PROVE  /\ InOrder(S) \in Seq(S)
         /\ ToSet(InOrder(S)) = S
         /\ \A i, j \in 1..Len(InOrder(S)) : InOrder(S)[i] = InOrder(S)[j] => i = j
<1> DEFINE n == Cardinality(S)
           rank(x) == Cardinality({z \in S : z < x})
           at(i) == CHOOSE x \in S : rank(x) = i - 1
           s == [i \in 1..n |-> at(i)]
<1>1. n \in Nat
  BY Ranks
<1>2. \A i \in 1..n : at(i) \in S /\ rank(at(i)) = i - 1
  <2>1. \A i \in 1..n : \E x \in S : rank(x) = i - 1
    BY Ranks
  <2> HIDE DEF n, rank
  <2> QED
    BY <2>1
<1>3. s \in Seq(S) /\ Len(s) = n
  <2> HIDE DEF n, rank
  <2>1. s \in [1..n -> S]
    BY <1>2
  <2> HIDE DEF s
  <2> QED
    BY <1>1, <2>1
<1>4. \A x \in S : \E i \in 1..n : s[i] = x
  <2> SUFFICES ASSUME NEW x \in S PROVE \E i \in 1..n : s[i] = x
    OBVIOUS
  <2>1. rank(x) + 1 \in 1..n /\ \A y \in S : rank(x) = rank(y) => x = y
    BY Ranks
  <2> HIDE DEF n, rank
  <2>2. rank(at(rank(x) + 1)) = rank(x)
    <3>1. rank(at(rank(x) + 1)) = (rank(x) + 1) - 1
      BY <1>2, <2>1
    <3>2. rank(x) \in Int
      <4>1. rank(x) + 1 \in 1..n
        BY <2>1
      <4> QED
        BY FS_CardinalityType, FS_Subset DEF rank
    <3> QED
      BY <3>1, <3>2
  <2>3. at(rank(x) + 1) = x
    BY <1>2, <2>1, <2>2
  <2> QED
    BY <2>1, <2>3
<1>5. \A i, j \in 1..n : s[i] = s[j] => i = j
  <2> HIDE DEF n, rank
  <2> SUFFICES ASSUME NEW i \in 1..n, NEW j \in 1..n, at(i) = at(j) PROVE i = j
    OBVIOUS
  <2>1. i - 1 = j - 1
    BY <1>2
  <2> QED
    BY <1>1, <2>1
<1>6. InOrder(S) = s
  BY DEF InOrder
<1>7. ToSet(s) = S
  <2> HIDE DEF s, n
  <2>1. DOMAIN s = 1..n /\ \A i \in 1..n : s[i] \in S
    BY <1>1, <1>3
  <2>2. ToSet(s) = {s[i] : i \in 1..n}
    BY <2>1 DEF ToSet
  <2> QED
    BY <1>4, <2>1, <2>2
<1> HIDE DEF s, n
<1> QED
  BY <1>3, <1>5, <1>6, <1>7

\* What the numbering of papers and chunks gives: lists of papers, and a path that
\* meets no chunk twice.
LEMMA PathIs ==
  /\ ToSet(Wanted) \subseteq Paper /\ IsFiniteSet(ToSet(Wanted))
  /\ \A c \in Chunk : PapersOf(c) \in Seq(Paper) /\ ToSet(PapersOf(c)) \subseteq ToSet(Wanted)
  /\ Needed \in Seq(Chunk) /\ Len(Needed) \in Nat
  /\ \A i \in 1..Len(Needed) : Needed[i] \in Chunk
  /\ \A i, j \in 1..Len(Needed) : Needed[i] = Needed[j] => i = j
<1>1. /\ Paper \subseteq Nat /\ InScope \in SUBSET Nat /\ InScope \subseteq Paper
      /\ IsFiniteSet(InScope) /\ MaxPapers \in Nat
  BY PapersAssumption, CapsAssumption
<1>2. Ids \in Seq(InScope) /\ ToSet(Ids) = InScope
  BY <1>1, OrderIs DEF Ids
<1>3. ToSet(Wanted) \subseteq InScope
  <2> DEFINE n == IF Len(Ids) < MaxPapers THEN Len(Ids) ELSE MaxPapers
  <2>1. n \in 0..Len(Ids)
    BY <1>1, <1>2
  <2>2. Wanted = SubSeq(Ids, 1, n)
    BY DEF Wanted, FirstOf
  <2>3. Wanted \in Seq(InScope)
    <3> HIDE DEF n
    <3> QED
      BY <1>2, <2>1, <2>2, SubSeqProperties
  <2> QED
    BY <2>3 DEF ToSet
<1>4. ToSet(Wanted) \subseteq Paper /\ IsFiniteSet(ToSet(Wanted))
  BY <1>1, <1>3, FS_Subset
<1>5. ASSUME NEW c \in Chunk
      PROVE  PapersOf(c) \in Seq(Paper) /\ ToSet(PapersOf(c)) \subseteq ToSet(Wanted)
  <2> DEFINE S == ToSet(Wanted) \cap Members[c]
  <2>1. S \in SUBSET Nat /\ IsFiniteSet(S) /\ S \subseteq Paper
    BY <1>1, <1>4, FS_Intersection
  <2>2. PapersOf(c) = InOrder(S)
    BY DEF PapersOf
  <2> HIDE DEF S
  <2>3. PapersOf(c) \in Seq(S) /\ ToSet(PapersOf(c)) = S
    BY <2>1, <2>2, OrderIs
  <2>4. PapersOf(c) \in Seq(Paper)
    BY <2>1, <2>3, SeqMonotonic
  <2> QED
    BY <2>3, <2>4 DEF S
<1>6. /\ Needed \in Seq(Chunk)
      /\ \A i, j \in 1..Len(Needed) : Needed[i] = Needed[j] => i = j
  <2> DEFINE S == {c \in DOMAIN Members : Members[c] \cap ToSet(Wanted) # {}}
  <2>1. DOMAIN Members = 1..Len(Members) /\ Len(Members) \in Nat
    BY PapersAssumption
  <2>2. IsFiniteSet(1..Len(Members))
    BY <2>1, FS_Interval
  <2>3. S \in SUBSET Nat /\ S \in SUBSET (1..Len(Members)) /\ S \subseteq Chunk
    BY <2>1 DEF Chunk
  <2>4. Needed = InOrder(S)
    BY DEF Needed, ChunksForIds
  <2> HIDE DEF S
  <2>5. IsFiniteSet(S)
    BY <2>2, <2>3, FS_Subset
  <2>6. /\ Needed \in Seq(S)
        /\ \A i, j \in 1..Len(Needed) : Needed[i] = Needed[j] => i = j
    BY <2>3, <2>4, <2>5, OrderIs
  <2> QED
    BY <2>3, <2>6, SeqMonotonic
<1>7. Len(Needed) \in Nat /\ \A i \in 1..Len(Needed) : Needed[i] \in Chunk
  <2> HIDE DEF Needed
  <2> QED
    BY <1>6, ElementOfSeq, LenProperties
<1> QED
  BY <1>4, <1>5, <1>6, <1>7

\* The papers of the first chunks: more with every chunk.
LEMMA UptoIs ==
  /\ Upto(0) = {}
  /\ \A n \in 0..Len(Needed) : Upto(n) \subseteq Paper /\ IsFiniteSet(Upto(n))
  /\ \A n \in 0..Len(Needed) : n < Len(Needed) => Upto(n + 1) = Upto(n) \cup ToSet(PapersOf(Needed[n + 1]))
  /\ \A n, k \in 0..Len(Needed) : n <= k => Upto(n) \subseteq Upto(k)
<1>1. Len(Needed) \in Nat /\ ToSet(Wanted) \subseteq Paper /\ IsFiniteSet(ToSet(Wanted))
  BY PathIs
<1>2. \A i \in 1..Len(Needed) : ToSet(PapersOf(Needed[i])) \subseteq ToSet(Wanted)
  BY PathIs
<1> DEFINE P(i) == ToSet(PapersOf(Needed[i]))
           W == ToSet(Wanted)
           L == Len(Needed)
           U(n) == UNION {P(i) : i \in 1..n}
<1> HIDE DEF P, W, L
<1>3. \A n \in 0..L : U(n) \subseteq W
  BY <1>1, <1>2 DEF P, W, L
<1>4. U(0) = {}
  OBVIOUS
<1>5. \A n \in 0..L : U(n + 1) = U(n) \cup P(n + 1)
  <2> SUFFICES ASSUME NEW n \in 0..L PROVE U(n + 1) = U(n) \cup P(n + 1)
    OBVIOUS
  <2>1. 1..(n + 1) = (1..n) \cup {n + 1}
    BY <1>1 DEF L
  <2> QED
    BY <2>1
<1>6. \A n, k \in 0..L : n <= k => U(n) \subseteq U(k)
  <2> SUFFICES ASSUME NEW n \in 0..L, NEW k \in 0..L, n <= k PROVE U(n) \subseteq U(k)
    OBVIOUS
  <2>1. 1..n \subseteq 1..k
    BY <1>1 DEF L
  <2> QED
    BY <2>1
<1>7. \A n : Upto(n) = U(n)
  BY DEF Upto, P
<1> HIDE DEF U
<1>8. \A n \in 0..L : IsFiniteSet(U(n)) /\ U(n) \subseteq Paper
  BY <1>1, <1>3, FS_Subset DEF W
<1> QED
  BY <1>4, <1>5, <1>6, <1>7, <1>8 DEF L, P

Offers(lines, papers) == UNION {{p} \X (1..Quota(lines[p])) : p \in papers}

\* The rows that finitely many papers offer are finitely many.
LEMMA OffersFinite ==
  ASSUME NEW lines \in [Paper -> Seq(Thm)], NEW S \in SUBSET Paper, IsFiniteSet(S)
  PROVE  IsFiniteSet(Offers(lines, S)) /\ Cardinality(Offers(lines, S)) \in Nat
<1> DEFINE offer(p) == {p} \X (1..Quota(lines[p]))
           f == [p \in S |-> offer(p)]
           all == {offer(p) : p \in S}
<1>1. f \in Surjection(S, all)
  BY DEF Surjection
<1>2. IsFiniteSet(all)
  <2> HIDE DEF f, all
  <2> QED
    BY <1>1, FS_Surjection
<1>3. ASSUME NEW p \in S PROVE IsFiniteSet(offer(p))
  <2> DEFINE q == Quota(lines[p])
  <2>1. q \in Nat
    BY CapsAssumption DEF Quota
  <2> HIDE DEF q
  <2>2. IsFiniteSet(1..q)
    BY <2>1, FS_Interval
  <2>3. IsFiniteSet({p})
    BY FS_Singleton
  <2>4. IsFiniteSet({p} \X (1..q))
    BY <2>2, <2>3, FS_Product
  <2> QED
    BY <2>4 DEF q
<1>4. \A T \in all : IsFiniteSet(T)
  BY <1>3
<1>5. IsFiniteSet(UNION all)
  <2> HIDE DEF all
  <2> QED
    BY <1>2, <1>4, FS_UNION
<1> QED
  BY <1>5, FS_CardinalityType DEF Offers

\* More papers offer more; one more offers its own share more.
LEMMA OfferedIs ==
  ASSUME NEW lines \in [Paper -> Seq(Thm)], NEW S \in SUBSET Paper, IsFiniteSet(S)
  PROVE  /\ Offered(lines, {}) = 0 /\ Offered(lines, S) \in Nat
         /\ \A T \in SUBSET S : Offered(lines, T) <= Offered(lines, S)
         /\ \A p \in Paper \ S : Offered(lines, S \cup {p}) = Offered(lines, S) + Quota(lines[p])
<1>1. \A T : Offered(lines, T) = Cardinality(Offers(lines, T))
  BY DEF Offered, Offers
<1>2. IsFiniteSet(Offers(lines, S)) /\ Cardinality(Offers(lines, S)) \in Nat
  BY OffersFinite
<1>3. Cardinality(Offers(lines, {})) = 0
  <2>1. Offers(lines, {}) = {}
    BY DEF Offers
  <2> QED
    BY <2>1, FS_EmptySet
<1>4. ASSUME NEW T \in SUBSET S PROVE Cardinality(Offers(lines, T)) <= Cardinality(Offers(lines, S))
  <2>1. Offers(lines, T) \in SUBSET Offers(lines, S)
    BY DEF Offers
  <2> QED
    BY <1>2, <2>1, FS_Subset
<1>5. ASSUME NEW p \in Paper \ S
      PROVE  Cardinality(Offers(lines, S \cup {p})) = Cardinality(Offers(lines, S)) + Quota(lines[p])
  <2> DEFINE own == {p} \X (1..Quota(lines[p]))
             q == Quota(lines[p])
  <2>1. q \in Nat
    BY CapsAssumption DEF Quota
  <2>2. IsFiniteSet(own) /\ Cardinality(own) = q
    <3>1. IsFiniteSet({p}) /\ Cardinality({p}) = 1
      BY FS_Singleton
    <3>2. IsFiniteSet(1..q) /\ Cardinality(1..q) = q
      <4> HIDE DEF q
      <4> QED
        BY <2>1, FS_Interval
    <3>3. IsFiniteSet(own) /\ Cardinality(own) = 1 * q
      <4> HIDE DEF q
      <4> QED
        BY <3>1, <3>2, FS_Product DEF q
    <3> HIDE DEF q, own
    <3> QED
      BY <2>1, <3>3
  <2>3. Offers(lines, S \cup {p}) = Offers(lines, S) \cup own
    BY DEF Offers
  <2>4. Offers(lines, S) \cap own = {}
    <3> SUFFICES ASSUME NEW x \in Offers(lines, S), x \in own PROVE FALSE
      OBVIOUS
    <3>1. PICK s \in S : x \in {s} \X (1..Quota(lines[s]))
      BY DEF Offers
    <3>2. x[1] = s /\ x[1] = p
      BY <3>1
    <3> QED
      BY <3>2
  <2>5. Cardinality(Offers(lines, S \cup {p})) = Cardinality(Offers(lines, S)) + q - Cardinality(Offers(lines, S) \cap own)
    <3> HIDE DEF own, q
    <3> QED
      BY <1>2, <2>2, <2>3, FS_Union
  <2>6. Cardinality(Offers(lines, S) \cap own) = 0
    BY <2>4, FS_EmptySet
  <2> HIDE DEF q, own
  <2>7. Cardinality(Offers(lines, S \cup {p})) = Cardinality(Offers(lines, S)) + q
    BY <1>2, <2>1, <2>5, <2>6
  <2> QED
    BY <2>7 DEF q
<1> QED
  BY <1>1, <1>2, <1>3, <1>4, <1>5

\* Rows of other papers do not matter.
LEMMA OfferedSame ==
  ASSUME NEW lines, NEW more, NEW S, \A p \in S : more[p] = lines[p]
  PROVE  Offered(more, S) = Offered(lines, S)
<1>1. {{p} \X (1..Quota(more[p])) : p \in S} = {{p} \X (1..Quota(lines[p])) : p \in S}
  OBVIOUS
<1> QED
  BY <1>1 DEF Offered

-----------------------------------------------------------------------------
(* The chunks of a bulk run. k counts the journaled chunks, j those this     *)
(* process has gone through.                                                 *)

Unharmed == corrupt = {} /\ twice = {}

\* A step that journals nothing, commits nothing and leaves no more tars.
LEMMA DiskKept ==
  ASSUME NEW k \in 0..Len(Needed), OnDisk(k), UNCHANGED <<journal, done>>,
         \A p \in done : rows'[p] = rows[p],
         \A c \in Chunk : tars'[c] # "none" => tars[c] # "none",
         marker' \/ NoTar'
  PROVE  OnDisk(k)'
<1>1. Len(Needed) \in Nat /\ \A i \in 1..Len(Needed) : Needed[i] \in Chunk
  BY PathIs
<1> DEFINE L == Len(Needed)
<1> HIDE DEF L
<1>2. \A n \in 0..k : IsPassed(n, k)' => IsPassed(n, k)
  <2> SUFFICES ASSUME NEW n \in 0..k, n = k, n < L, tars'[Needed[n + 1]] # "none"
               PROVE  tars[Needed[n + 1]] # "none"
    BY DEF IsPassed, L
  <2>1. n + 1 \in 1..L
    BY <1>1 DEF L
  <2> QED
    BY <1>1, <2>1 DEF L
<1>3. \A n : Offered(rows, done \cap Upto(n)) = Offered(rows', done' \cap Upto(n))
  <2> SUFFICES ASSUME NEW n PROVE Offered(rows, done \cap Upto(n)) = Offered(rows', done \cap Upto(n))
    OBVIOUS
  <2>1. \A p \in done \cap Upto(n) : rows'[p] = rows[p]
    OBVIOUS
  <2> QED
    BY <2>1, OfferedSame
<1>4. \A n \in 0..k : IsPassed(n, k)' => Offered(rows', done' \cap Upto(n)) < Target
  BY <1>2, <1>3 DEF OnDisk
<1>5. OnlyTar'
  BY DEF OnDisk, OnlyTar
<1> QED
  BY <1>4, <1>5 DEF OnDisk

\* What the process holds stays in step with the checkpoint when neither changes.
LEMMA HeldStays ==
  ASSUME Held, DOMAIN m' = DOMAIN m, UNCHANGED done,
         \A f \in {"store", "page", "left", "got", "cands"} : m'[f] = m[f],
         \A p \in done : rows'[p] = rows[p]
  PROVE  Held'
BY DEF Held

\* Whatever ends the loop: the process is gone, or it writes what it has.
LEMMA Stopped ==
  ASSUME Bulk, pc # "idle", UNCHANGED <<rows, done, journal, marker>>,
         \A c \in Chunk : tars'[c] # "none" => tars[c] # "none",
         pc' = "idle" \/ (pc' = "write" /\ m' = [m EXCEPT !.over = TRUE])
  PROVE  Bulk'
<1>1. PICK k \in 0..Len(Needed) : OnDisk(k) /\ InMemory(k)
  BY DEF Bulk
<1>2. Held /\ marker
  BY <1>1 DEF InMemory
<1>3. OnDisk(k)'
  BY <1>1, <1>2, DiskKept
<1>4. CASE pc' = "idle"
  <2>1. InMemory(k)'
    BY <1>4 DEF InMemory, Walking, InChunk, OnPaper
  <2> QED
    BY <1>3, <1>4, <2>1 DEF Bulk
<1>5. CASE pc' = "write" /\ m' = [m EXCEPT !.over = TRUE]
  <2>1. DOMAIN m' = DOMAIN m /\ \A f \in {"store", "page", "left", "got", "cands"} : m'[f] = m[f]
    BY <1>5
  <2>2. Held'
    BY <1>2, <2>1, HeldStays
  <2>3. m'.over
    BY <1>2, <1>5 DEF Held, NoRun
  <2>4. InMemory(k)'
    BY <1>2, <1>5, <2>2, <2>3 DEF InMemory, Walking, InChunk, OnPaper
  <2> QED
    BY <1>3, <1>5, <2>4 DEF Bulk
<1> QED
  BY <1>4, <1>5

\* On its way through a paper a process only changes what the paper yields.
LEMMA PaperGoesOn ==
  ASSUME Bulk, pc \in {"fetch", "ask", "remember"}, pc' \in {"ask", "remember", "commit"},
         UNCHANGED <<chunk, marker, rows, done, journal, tars>>,
         DOMAIN m' = DOMAIN m, m'.left \in Seq(Thm), m'.got \in Seq(Thm),
         \A f \in {"store", "page", "cands", "full", "seen", "todo", "bytes", "paper"} : m'[f] = m[f],
         pc' = "remember" => asked' \in Thm /\ m'.left # <<>>
  PROVE  Bulk'
<1>1. PICK k \in 0..Len(Needed) : OnDisk(k) /\ InMemory(k)
  BY DEF Bulk
<1>2. Held /\ marker
  BY <1>1 DEF InMemory
<1>3. PICK j \in 0..k : AtChunk(j, k) /\ Seen(j) /\ InWork(j, k) /\ Count(j)
  BY <1>1 DEF InMemory, Walking, InChunk, OnPaper
<1>4. OnDisk(k)'
  BY <1>1, <1>2, DiskKept
<1>5. Held'
  BY <1>2 DEF Held
<1>6. AtChunk(j, k)' /\ Seen(j)' /\ InWork(j, k)'
  BY <1>3 DEF AtChunk, Seen, InWork, OnPaper, InChunk
<1>7. Count(j)'
  <2>1. Visited' = Visited
    BY DEF Visited
  <2> QED
    BY <1>3, <2>1 DEF Count
<1>8. InMemory(k)'
  BY <1>2, <1>5, <1>6, <1>7 DEF InMemory
<1> QED
  BY <1>4, <1>8 DEF Bulk, Walking, InChunk, OnPaper

\* Start: what an earlier process left is read, and the papers excluded are seen.
LEMMA BulkStart ==
  ASSUME Bulk, Start, adapter = "bulk"
  PROVE  Bulk'
<1>1. /\ pc = "idle" /\ pc' = "index" /\ marker' = TRUE
      /\ m' = [NoRun EXCEPT !.store = [p \in Paper |-> rows[p]], !.seen = Exclude]
      /\ UNCHANGED <<rows, done, journal, tars>>
  BY DEF Start, Loaded
<1>2. PICK k \in 0..Len(Needed) : OnDisk(k) /\ InMemory(k)
  BY DEF Bulk
<1>3. OnDisk(k)'
  BY <1>1, <1>2, DiskKept
<1>4. /\ DOMAIN m' = DOMAIN NoRun /\ m'.store = [p \in Paper |-> rows[p]] /\ m'.seen = Exclude
      /\ m'.page = <<>> /\ m'.left = <<>> /\ m'.got = <<>> /\ m'.cands = <<>> /\ ~m'.full
  BY <1>1 DEF NoRun
<1>5. Held'
  <2>1. m'.store \in [Paper -> Seq(Thm)]
    BY <1>4 DEF Bulk
  <2>2. \A p \in done : m'.store[p] = rows[p]
    BY <1>4 DEF Bulk
  <2>3. /\ m'.page \in Seq(Paper) /\ m'.left \in Seq(Thm)
        /\ m'.got \in Seq(Thm) /\ m'.cands \in Seq(Thm)
    BY <1>4
  <2>4. (DOMAIN NoRun)' = DOMAIN NoRun
    BY DEF NoRun
  <2> QED
    BY <1>1, <1>4, <2>1, <2>2, <2>3, <2>4 DEF Held
<1>6. InMemory(k)'
  BY <1>1, <1>4, <1>5 DEF InMemory, Walking, InChunk, OnPaper
<1> QED
  BY <1>1, <1>3, <1>6 DEF Bulk

\* Index: the path begins with every paper of it still to see.
LEMMA BulkIndex ==
  ASSUME Bulk, Index
  PROVE  Bulk'
<1>1. PICK k \in 0..Len(Needed) : OnDisk(k) /\ InMemory(k)
  BY DEF Bulk
<1>2. /\ pc = "index" /\ UNCHANGED <<chunk, marker, rows, done, journal, tars>>
      /\ Held /\ marker /\ m.seen = Exclude /\ m.cands = <<>> /\ ~m.full
  BY <1>1 DEF Index, InMemory
<1>3. OnDisk(k)'
  BY <1>1, <1>2, DiskKept
<1>4. CASE pc' = "write" /\ m' = [m EXCEPT !.over = TRUE]
  BY <1>2, <1>4, Stopped
<1>5. CASE pc' = "idle"
  BY <1>2, <1>5, Stopped
<1>6. CASE /\ pc' = "index" /\ DOMAIN m' = DOMAIN m
           /\ \A f \in {"store", "page", "left", "got", "cands", "seen", "full"} : m'[f] = m[f]
  <2>1. Held'
    BY <1>2, <1>6, HeldStays
  <2>2. InMemory(k)'
    BY <1>2, <1>6, <2>1 DEF InMemory, Walking, InChunk, OnPaper
  <2> QED
    BY <1>2, <1>3, <1>6, <2>2 DEF Bulk
<1>7. CASE pc' = "chunk" /\ m' = [m EXCEPT !.todo = Needed]
  <2>1. DOMAIN m' = DOMAIN m /\ \A f \in {"store", "page", "left", "got", "cands", "seen", "full"} : m'[f] = m[f]
    BY <1>7
  <2>2. m'.todo = Needed
    BY <1>2, <1>7 DEF Held, NoRun
  <2>3. Held'
    BY <1>2, <2>1, HeldStays
  <2>4. Needed = SubSeq(Needed, 0 + 1, Len(Needed))
    BY PathIs, SubSeqFull
  <2>5. AtChunk(0, k)'
    BY <1>7, <2>2, <2>4 DEF AtChunk, InChunk, OnPaper
  <2>6. Seen(0)' /\ InWork(0, k)'
    BY <1>2, <1>7, <2>1, UptoIs DEF Seen, InWork, InChunk, OnPaper
  <2>7. Count(0)'
    <3>1. Visited' = {}
      BY <1>2, <1>7, <2>1 DEF Visited, Bulk
    <3>2. Offered(rows, {}) = 0 /\ rows' = rows
      BY <1>2, FS_EmptySet, OfferedIs DEF Bulk
    <3>3. Offered(rows, Visited)' = 0
      BY <3>1, <3>2
    <3> QED
      BY <1>2, <1>7, <2>1, <3>3 DEF Count
  <2>8. InMemory(k)'
    BY <1>2, <1>7, <2>3, <2>5, <2>6, <2>7 DEF InMemory
  <2> QED
    BY <1>2, <1>3, <1>7, <2>8 DEF Bulk, Walking
<1>8. \/ pc' = "write" /\ m' = [m EXCEPT !.over = TRUE]
      \/ pc' = "idle"
      \/ pc' = "chunk" /\ m' = [m EXCEPT !.todo = Needed]
      \/ pc' = "index" /\ m' = [m EXCEPT !.walked = oai]
      \/ pc' = "index" /\ m' = Charged("oai_requests")
      \/ pc' = "index" /\ m' = [Charged("oai_requests") EXCEPT !.walked = @ + 1]
  BY <1>2 DEF Index, Exhausted, OaiRequest, Needed
<1>9. CASE pc' = "index" /\ \/ m' = [m EXCEPT !.walked = oai]
                            \/ m' = Charged("oai_requests")
                            \/ m' = [Charged("oai_requests") EXCEPT !.walked = @ + 1]
  <2>1. DOMAIN m' = DOMAIN m /\ \A f \in {"store", "page", "left", "got", "cands", "seen", "full"} : m'[f] = m[f]
    <3>1. CASE m' = [m EXCEPT !.walked = oai]
      BY <3>1
    <3>2. CASE m' = Charged("oai_requests")
      BY <3>2 DEF Charged
    <3>3. CASE m' = [Charged("oai_requests") EXCEPT !.walked = @ + 1]
      BY <3>3 DEF Charged
    <3> QED
      BY <1>9, <3>1, <3>2, <3>3
  <2> QED
    BY <1>6, <1>9, <2>1
<1> QED
  BY <1>4, <1>5, <1>7, <1>8, <1>9

\* At the head of the loop: which tar may lie on disk, and what was offered so far.
LEMMA AtHead ==
  ASSUME Bulk, pc = "chunk", NEW k \in 0..Len(Needed), OnDisk(k), NEW j \in 0..k,
         AtChunk(j, k), Seen(j), Count(j)
  PROVE  /\ Len(m.cands) = Offered(rows, done \cap Upto(j))
         /\ m.todo # <<>> <=> j < Len(Needed)
         /\ j < Len(Needed) => Head(m.todo) = Needed[j + 1] /\ Needed[j + 1] \in Chunk
         /\ j < Len(Needed) => (Needed[j + 1] \in journal <=> j < k)
         /\ \A c \in Chunk : tars[c] # "none" /\ j = k => k < Len(Needed) /\ c = Needed[k + 1]
<1>1. Len(Needed) \in Nat /\ Needed \in Seq(Chunk) /\ \A i \in 1..Len(Needed) : Needed[i] \in Chunk
  BY PathIs
<1>2. \A i, l \in 1..Len(Needed) : Needed[i] = Needed[l] => i = l
  BY PathIs
<1>3. Len(m.cands) = Offered(rows, done \cap Upto(j))
  <2>1. Visited = done \cap Upto(j)
    BY DEF Seen, Visited, Bulk
  <2> QED
    BY <2>1 DEF Count
<1>4. m.todo = SubSeq(Needed, j + 1, Len(Needed))
  BY DEF AtChunk
<1>5. ASSUME j < Len(Needed)
      PROVE  m.todo # <<>> /\ Head(m.todo) = Needed[j + 1] /\ Needed[j + 1] \in Chunk
  <2>1. j + 1 \in 1..Len(Needed) /\ Len(Needed) \in (j + 1)..Len(Needed)
    BY <1>1, <1>5
  <2>2. Head(m.todo) = Needed[j + 1]
    BY <1>1, <1>4, <2>1, HeadTailOfSubSeq
  <2>3. \A i \in (j + 1)..Len(Needed) : Needed[i] \in Chunk
    BY <1>1
  <2>4. Len(m.todo) = Len(Needed) - (j + 1) + 1
    BY <1>1, <1>4, <2>1, <2>3, SubSeqProperties
  <2>5. m.todo # <<>>
    BY <1>1, <1>5, <2>4, EmptySeq
  <2> QED
    BY <1>1, <2>1, <2>2, <2>5
<1>6. ASSUME ~(j < Len(Needed)) PROVE m.todo = <<>>
  BY <1>1, <1>4, <1>6, SubSeqEmpty
<1>7. ASSUME j < Len(Needed) PROVE Needed[j + 1] \in journal <=> j < k
  <2>1. j + 1 \in 1..Len(Needed)
    BY <1>1, <1>7
  <2>2. \A i \in 1..k : Needed[i] = Needed[j + 1] => i = j + 1
    BY <1>1, <1>2, <2>1
  <2>3. journal = {Needed[i] : i \in 1..k}
    BY DEF OnDisk
  <2> QED
    BY <1>1, <2>1, <2>2, <2>3
<1>8. ASSUME NEW c \in Chunk, tars[c] # "none", j = k PROVE k < Len(Needed) /\ c = Needed[k + 1]
  <2>1. PICK i \in {k, k + 1} \cap (1..Len(Needed)) : c = Needed[i]
    BY <1>8 DEF OnDisk
  <2>2. ~(i \in 1..j)
    BY <1>8, <2>1 DEF AtChunk
  <2>3. i = k + 1
    BY <1>1, <1>8, <2>1, <2>2
  <2> QED
    BY <1>1, <2>1, <2>3
<1> QED
  BY <1>3, <1>5, <1>6, <1>7, <1>8

\* What was offered up to here reaches the target: nothing lies beyond.
LEMMA TargetStops ==
  ASSUME NEW k \in 0..Len(Needed), OnDisk(k), NEW j \in 0..k,
         ~(Offered(rows, done \cap Upto(j)) < Target)
  PROVE  j = k /\ (k < Len(Needed) => tars[Needed[k + 1]] = "none")
<1>1. ~IsPassed(j, k)
  BY DEF OnDisk
<1> QED
  BY <1>1, PathIs DEF IsPassed

\* NextChunk: a journaled chunk is gone through again; another is adopted or
\* fetched, and only when the journaled ones did not reach the target.
LEMMA BulkNextChunk ==
  ASSUME IndInv, Bulk, NextChunk
  PROVE  Bulk'
<1>1. PICK k \in 0..Len(Needed) : OnDisk(k) /\ InMemory(k)
  BY DEF Bulk
<1>2. /\ pc = "chunk" /\ UNCHANGED <<marker, rows, done, journal>> /\ Held /\ marker
  BY <1>1 DEF NextChunk, InMemory
<1>3. PICK j \in 0..k : AtChunk(j, k) /\ Seen(j) /\ InWork(j, k) /\ Count(j)
  BY <1>1, <1>2 DEF InMemory, Walking
<1>4. Len(Needed) \in Nat /\ Target \in Nat /\ Len(m.cands) \in Nat
  BY <1>2, PathIs, CapsAssumption DEF Held
<1>5. /\ Len(m.cands) = Offered(rows, done \cap Upto(j))
      /\ m.todo # <<>> <=> j < Len(Needed)
      /\ j < Len(Needed) => Head(m.todo) = Needed[j + 1] /\ Needed[j + 1] \in Chunk
      /\ j < Len(Needed) => (Needed[j + 1] \in journal <=> j < k)
      /\ \A c \in Chunk : tars[c] # "none" /\ j = k => k < Len(Needed) /\ c = Needed[k + 1]
  BY <1>1, <1>2, <1>3, AtHead
<1> DEFINE c == Needed[j + 1]
<1>6. \/ /\ Len(m.cands) >= Target \/ m.todo = <<>>
         /\ pc' = "write" /\ UNCHANGED <<m, tars>>
      \/ /\ Len(m.cands) < Target /\ j < Len(Needed)
         /\ \/ pc' = "write" /\ m' = [m EXCEPT !.over = TRUE] /\ UNCHANGED tars
            \/ /\ pc' = "page" /\ chunk' = c /\ UNCHANGED tars
               /\ m' = [m EXCEPT !.bytes = (j = k), !.page = PapersOf(c)]
            \/ /\ pc' = "download" /\ chunk' = c /\ UNCHANGED m /\ j = k
               /\ tars' = [tars EXCEPT ![c] = "partial"]
  <2>1. ASSUME ~(Len(m.cands) >= Target \/ m.todo = <<>>)
        PROVE  /\ Len(m.cands) < Target /\ j < Len(Needed) /\ Head(m.todo) = c
               /\ c \in journal => ~(j = k)
               /\ c \notin journal => j = k
    BY <1>4, <1>5, <2>1
  <2>2. CASE ~(Len(m.cands) >= Target \/ m.todo = <<>>)
    <3> HIDE DEF c
    <3>1. (j = k) = (c \notin journal)
      BY <2>1, <2>2
    <3>2. \/ c \in journal /\ m' = [m EXCEPT !.bytes = FALSE, !.page = PapersOf(c)]
             /\ pc' = "page" /\ chunk' = c /\ UNCHANGED tars
          \/ c \notin journal /\ m' = [m EXCEPT !.bytes = TRUE, !.page = PapersOf(c)]
             /\ pc' = "page" /\ chunk' = c /\ UNCHANGED tars
          \/ pc' = "write" /\ m' = [m EXCEPT !.over = TRUE] /\ UNCHANGED tars
          \/ /\ pc' = "download" /\ chunk' = c /\ UNCHANGED m /\ c \notin journal
             /\ tars' = [tars EXCEPT ![c] = "partial"]
      BY <2>1, <2>2 DEF NextChunk, Open, Exhausted
    <3>3. c \in journal => (j = k) = FALSE
      BY <3>1
    <3>4. c \notin journal => (j = k) = TRUE
      BY <3>1
    <3> QED
      BY <2>1, <2>2, <3>2, <3>3, <3>4
  <2>3. CASE Len(m.cands) >= Target \/ m.todo = <<>>
    BY <2>3 DEF NextChunk
  <2> QED
    BY <2>2, <2>3
<1>7. CASE /\ Len(m.cands) >= Target \/ m.todo = <<>>
           /\ pc' = "write" /\ UNCHANGED <<m, tars>>
  <2>1. OnDisk(k)'
    BY <1>1, <1>2, <1>7, DiskKept
  <2>2. j = k /\ (k < Len(Needed) => tars[Needed[k + 1]] = "none")
    <3>1. CASE Len(m.cands) >= Target
      <4>1. ~(Offered(rows, done \cap Upto(j)) < Target)
        BY <1>4, <1>5, <3>1
      <4> QED
        BY <1>1, <4>1, TargetStops
    <3>2. CASE m.todo = <<>>
      BY <1>4, <1>5, <3>2
    <3> QED
      BY <1>7, <3>1, <3>2
  <2>3. NoTar'
    BY <1>5, <1>7, <2>2 DEF NoTar
  <2>4. Held'
    BY <1>2, <1>7, HeldStays
  <2>5. InMemory(k)'
    BY <1>2, <1>7, <2>3, <2>4 DEF InMemory, Walking, InChunk, OnPaper
  <2> QED
    BY <1>2, <1>7, <2>1, <2>5 DEF Bulk
<1>8. CASE pc' = "write" /\ m' = [m EXCEPT !.over = TRUE] /\ UNCHANGED tars
  BY <1>2, <1>8, Stopped
<1>9. CASE /\ Len(m.cands) < Target /\ j < Len(Needed) /\ pc' = "page" /\ chunk' = c /\ UNCHANGED tars
           /\ m' = [m EXCEPT !.bytes = (j = k), !.page = PapersOf(c)]
  <2>1. OnDisk(k)'
    BY <1>1, <1>2, <1>9, DiskKept
  <2>2. /\ DOMAIN m' = DOMAIN m /\ m'.bytes = (j = k) /\ m'.page = PapersOf(c)
        /\ \A f \in {"store", "left", "got", "cands", "seen", "full", "todo"} : m'[f] = m[f]
    BY <1>2, <1>9 DEF Held, NoRun
  <2>3. PapersOf(c) \in Seq(Paper) /\ Upto(j + 1) = Upto(j) \cup ToSet(PapersOf(c))
    BY <1>4, <1>5, <1>9, PathIs, UptoIs
  <2>4. Held'
    BY <1>2, <2>2, <2>3 DEF Held
  <2>5. AtChunk(j, k)'
    BY <1>2, <1>3, <1>9, <2>2 DEF AtChunk, InChunk, OnPaper
  <2>6. Seen(j)' /\ InWork(j, k)'
    BY <1>2, <1>3, <1>9, <2>2, <2>3 DEF Seen, InWork, InChunk, OnPaper
  <2>7. Count(j)'
    <3>1. Visited' = Visited
      BY <1>2, <1>9, <2>2 DEF Visited
    <3> QED
      BY <1>2, <1>3, <1>5, <1>9, <2>2, <3>1 DEF Count
  <2>8. InMemory(k)'
    BY <1>2, <1>9, <2>4, <2>5, <2>6, <2>7 DEF InMemory
  <2> QED
    BY <1>2, <1>9, <2>1, <2>8 DEF Bulk, Walking, InChunk
<1>10. CASE /\ Len(m.cands) < Target /\ j < Len(Needed)
            /\ pc' = "download" /\ chunk' = c /\ UNCHANGED m /\ j = k
            /\ tars' = [tars EXCEPT ![c] = "partial"]
  <2>1. c \in Chunk /\ tars'[c] = "partial" /\ \A d \in Chunk : d # c => tars'[d] = tars[d] /\ tars[d] = "none"
    BY <1>5, <1>10 DEF IndInv, Shapes
  <2>2. OnDisk(k)'
    <3>1. k + 1 \in 1..Len(Needed)
      BY <1>4, <1>10
    <3>2. \A d \in Chunk : tars'[d] # "none" => \E i \in {k, k + 1} \cap (1..Len(Needed)) : d = Needed[i]
      BY <1>10, <2>1, <3>1
    <3>3. OnlyTar'
      BY <2>1 DEF OnlyTar
    <3>4. \A n \in 0..k : IsPassed(n, k)' => Offered(rows', done' \cap Upto(n)) < Target
      BY <1>1, <1>2, <1>5, <1>10 DEF IsPassed, OnDisk
    <3> QED
      BY <1>1, <1>2, <3>2, <3>3, <3>4 DEF OnDisk
  <2>3. Held'
    BY <1>2, <1>10, HeldStays
  <2>4. AtChunk(j, k)'
    <3>1. \A i \in 1..j : Needed[i] \in Chunk /\ Needed[i] # c
      BY <1>4, <1>10, PathIs
    <3> QED
      BY <1>2, <1>3, <1>10, <2>1, <3>1 DEF AtChunk, InChunk, OnPaper
  <2>5. Seen(j)' /\ InWork(j, k)'
    BY <1>2, <1>3, <1>10 DEF Seen, InWork, InChunk, OnPaper
  <2>6. Count(j)'
    <3>1. Visited' = Visited
      BY <1>2, <1>10 DEF Visited
    <3> QED
      BY <1>2, <1>3, <1>5, <1>10, <3>1 DEF Count
  <2>7. InMemory(k)'
    BY <1>2, <1>10, <2>3, <2>4, <2>5, <2>6 DEF InMemory
  <2> QED
    BY <1>2, <1>10, <2>2, <2>7 DEF Bulk, Walking
<1> QED
  BY <1>6, <1>7, <1>8, <1>9, <1>10

\* Download: the tar is whole, or the process is gone (a corrupt chunk is excepted).
LEMMA BulkDownload ==
  ASSUME IndInv, Bulk, Download, Unharmed'
  PROVE  Bulk'
<1>1. PICK k \in 0..Len(Needed) : OnDisk(k) /\ InMemory(k)
  BY DEF Bulk
<1>2. /\ pc = "download" /\ UNCHANGED <<marker, rows, done, journal>> /\ Held /\ marker
  BY <1>1 DEF Download, InMemory
<1>3. PICK j \in 0..k : AtChunk(j, k) /\ Seen(j) /\ InWork(j, k) /\ Count(j)
  BY <1>1, <1>2 DEF InMemory, Walking
<1>4. /\ j < Len(Needed) /\ chunk = Needed[j + 1] /\ tars[chunk] # "none"
      /\ j + 1 \in 1..Len(Needed) /\ chunk \in Chunk
  BY <1>2, <1>3, PathIs DEF AtChunk
<1>5. \/ tars' = [tars EXCEPT ![chunk] = "none"] /\ pc' = "idle"
      \/ /\ tars' = [tars EXCEPT ![chunk] = "whole"] /\ pc' = "page" /\ UNCHANGED chunk
         /\ m' = [Charged("chunk_downloads") EXCEPT !.bytes = TRUE, !.page = PapersOf(chunk)]
  BY DEF Download, Unharmed
<1>6. \A c \in Chunk : tars'[c] # "none" => tars[c] # "none"
  BY <1>4, <1>5 DEF IndInv, Shapes
<1>7. CASE pc' = "idle"
  BY <1>2, <1>6, <1>7, Stopped
<1>8. CASE /\ tars' = [tars EXCEPT ![chunk] = "whole"] /\ pc' = "page" /\ UNCHANGED chunk
           /\ m' = [Charged("chunk_downloads") EXCEPT !.bytes = TRUE, !.page = PapersOf(chunk)]
  <2>1. OnDisk(k)'
    BY <1>1, <1>2, <1>6, DiskKept
  <2>2. /\ DOMAIN m' = DOMAIN m /\ m'.bytes /\ m'.page = PapersOf(chunk)
        /\ \A f \in {"store", "left", "got", "cands", "seen", "full", "todo"} : m'[f] = m[f]
    BY <1>2, <1>8 DEF Held, NoRun, Charged
  <2>3. PapersOf(chunk) \in Seq(Paper) /\ Upto(j + 1) = Upto(j) \cup ToSet(PapersOf(chunk))
    <3>1. j \in 0..Len(Needed)
      BY PathIs
    <3>2. Upto(j + 1) = Upto(j) \cup ToSet(PapersOf(Needed[j + 1]))
      BY <1>4, <3>1, UptoIs
    <3> QED
      BY <1>4, <3>2, PathIs
  <2>4. Held'
    BY <1>2, <2>2, <2>3 DEF Held
  <2>5. AtChunk(j, k)'
    <3>1. \A i \in 1..j : Needed[i] \in Chunk
      BY <1>4, PathIs
    <3>2. \A i \in 1..j : tars'[Needed[i]] = "none"
      BY <1>2, <1>3, <1>6, <3>1 DEF AtChunk, IndInv, Shapes
    <3> QED
      BY <1>2, <1>3, <1>8, <2>2, <3>2 DEF AtChunk, InChunk, OnPaper
  <2>6. Seen(j)' /\ InWork(j, k)'
    BY <1>2, <1>3, <1>8, <2>2, <2>3 DEF Seen, InWork, InChunk, OnPaper
  <2>7. Count(j)'
    <3>1. Visited' = Visited
      BY <1>2, <1>8, <2>2 DEF Visited
    <3> QED
      BY <1>2, <1>3, <1>8, <2>2, <3>1 DEF Count
  <2>8. InMemory(k)'
    BY <1>2, <1>8, <2>4, <2>5, <2>6, <2>7 DEF InMemory
  <2> QED
    BY <1>2, <1>8, <2>1, <2>8 DEF Bulk, Walking, InChunk
<1> QED
  BY <1>5, <1>7, <1>8

\* BulkPaper: each paper of the chunk is seen once; one that is done is kept, one
\* that is not is mined while the tar is there.
LEMMA BulkBulkPaper ==
  ASSUME Bulk, BulkPaper
  PROVE  Bulk'
<1>1. PICK k \in 0..Len(Needed) : OnDisk(k) /\ InMemory(k)
  BY DEF Bulk
<1>2. /\ pc = "page" /\ UNCHANGED <<chunk, marker, rows, done, journal, tars>> /\ Held /\ marker
  BY <1>1 DEF BulkPaper, InMemory, files
<1>3. PICK j \in 0..k : AtChunk(j, k) /\ Seen(j) /\ InWork(j, k) /\ Count(j)
  BY <1>1, <1>2 DEF InMemory, Walking, InChunk
<1>4. OnDisk(k)'
  BY <1>1, <1>2, DiskKept
<1>5. CASE m.page = <<>>
  <2>1. pc' = "mark" /\ UNCHANGED m
    BY <1>5 DEF BulkPaper
  <2>2. Held'
    BY <1>2, <2>1, HeldStays
  <2>3. AtChunk(j, k)' /\ Seen(j)' /\ InWork(j, k)'
    BY <1>2, <1>3, <1>5, <2>1 DEF AtChunk, Seen, InWork, InChunk, OnPaper
  <2>4. Count(j)'
    <3>1. Visited' = Visited
      BY <1>2, <2>1 DEF Visited
    <3> QED
      BY <1>2, <1>3, <2>1, <3>1 DEF Count
  <2>5. InMemory(k)'
    BY <1>2, <2>1, <2>2, <2>3, <2>4 DEF InMemory
  <2> QED
    BY <1>2, <1>4, <2>1, <2>5 DEF Bulk, Walking, InChunk
<1>6. CASE m.page # <<>>
  <2> DEFINE p == Head(m.page)
             r == [m EXCEPT !.page = Tail(@), !.seen = @ \cup {p}]
  <2>1. p \in Paper /\ Tail(m.page) \in Seq(Paper) /\ ToSet(m.page) = {p} \cup ToSet(Tail(m.page))
    <3>1. m.page \in Seq(Paper)
      BY <1>2 DEF Held
    <3>2. /\ Head(m.page) \in Paper /\ Tail(m.page) \in Seq(Paper)
          /\ Len(Tail(m.page)) = Len(m.page) - 1 /\ Len(m.page) \in Nat \ {0}
          /\ \A i \in 1..Len(Tail(m.page)) : Tail(m.page)[i] = m.page[i + 1]
      BY <1>6, <3>1, HeadTailProperties, EmptySeq
    <3>3. DOMAIN m.page = 1..Len(m.page) /\ DOMAIN Tail(m.page) = 1..(Len(m.page) - 1)
      BY <3>1, <3>2, LenProperties
    <3>4. Head(m.page) = m.page[1]
      OBVIOUS
    <3>5. ASSUME NEW i \in 1..Len(m.page) PROVE m.page[i] \in {p} \cup ToSet(Tail(m.page))
      <4>1. CASE i = 1
        BY <3>4, <4>1
      <4>2. CASE i # 1
        <5>1. i - 1 \in 1..(Len(m.page) - 1) /\ (i - 1) + 1 = i
          BY <3>2, <4>2
        <5>2. m.page[i] = Tail(m.page)[i - 1]
          BY <3>2, <5>1
        <5> QED
          BY <3>3, <5>1, <5>2 DEF ToSet
      <4> QED
        BY <4>1, <4>2
    <3>6. ASSUME NEW i \in 1..(Len(m.page) - 1) PROVE Tail(m.page)[i] \in ToSet(m.page)
      <4>1. i + 1 \in 1..Len(m.page) /\ Tail(m.page)[i] = m.page[i + 1]
        BY <3>2
      <4> QED
        BY <3>3, <4>1 DEF ToSet
    <3>7. p \in ToSet(m.page)
      <4>1. 1 \in 1..Len(m.page)
        BY <3>2
      <4> QED
        BY <3>3, <3>4, <4>1 DEF ToSet
    <3> QED
      BY <3>2, <3>3, <3>5, <3>6, <3>7 DEF ToSet
  <2>2. \/ /\ p \in m.seen \/ (p \notin done /\ (~m.bytes \/ p \in Absent))
           /\ m' = r /\ pc' = "page"
        \/ /\ p \notin m.seen /\ p \in done /\ pc' = "keep"
           /\ m' = [r EXCEPT !.paper = p, !.got = m.store[p]]
        \/ /\ p \notin m.seen /\ p \notin done /\ m.bytes /\ pc' = "fetch"
           /\ m' = [r EXCEPT !.paper = p, !.got = <<>>]
    BY <1>6 DEF BulkPaper
  <2>3. /\ DOMAIN m' = DOMAIN m /\ m'.page = Tail(m.page) /\ m'.seen = m.seen \cup {p}
        /\ \A f \in {"store", "left", "cands", "full", "todo", "bytes"} : m'[f] = m[f]
        /\ pc' \in {"keep", "fetch"} => m'.paper = p
        /\ pc' = "keep" => m'.got = m.store[p]
        /\ pc' = "fetch" => m'.got = <<>>
        /\ pc' = "page" => m'.got = m.got
    <3> HIDE DEF p
    <3>1. DOMAIN m = DOMAIN NoRun
      BY <1>2 DEF Held
    <3> QED
      BY <2>2, <3>1 DEF NoRun
  <2> HIDE DEF p, r
  <2>4. Held'
    <3>1. m'.got \in Seq(Thm)
      <4>1. <<>> \in Seq(Thm) /\ m.got \in Seq(Thm) /\ m.store[p] \in Seq(Thm)
        BY <1>2, <2>1 DEF Held
      <4> QED
        BY <2>2, <2>3, <4>1
    <3> QED
      BY <1>2, <2>1, <2>3, <3>1 DEF Held
  <2>5. AtChunk(j, k)'
    BY <1>2, <1>3, <2>2, <2>3 DEF AtChunk, InChunk, OnPaper
  <2>6. Seen(j)'
    <3>1. m'.seen \cup ToSet(m'.page) = m.seen \cup ToSet(m.page)
      BY <2>1, <2>3
    <3> QED
      BY <1>2, <1>3, <2>2, <2>3, <3>1 DEF Seen, InChunk, OnPaper
  <2>7. InWork(j, k)'
    <3>1. p \notin m.seen => p \notin Exclude \cup Upto(j)
      BY <1>3 DEF Seen
    <3>2. pc' = "keep" => m'.got = rows[p]
      BY <1>2, <2>2, <2>3 DEF Held
    <3> QED
      BY <1>2, <2>1, <2>2, <2>3, <3>1, <3>2 DEF InWork, OnPaper
  <2>8. Count(j)'
    <3>1. Visited' = Visited
      BY <1>2, <2>2, <2>3 DEF Visited
    <3> QED
      BY <1>2, <1>3, <2>2, <2>3, <3>1 DEF Count
  <2>9. InMemory(k)'
    BY <1>2, <2>2, <2>4, <2>5, <2>6, <2>7, <2>8 DEF InMemory
  <2> QED
    BY <1>2, <1>4, <2>2, <2>9 DEF Bulk, Walking, InChunk, OnPaper
<1> QED
  BY <1>5, <1>6

\* BulkFetch, Ask, Remember: what is asked and answered moves no chunk.
LEMMA BulkAnswers ==
  ASSUME Bulk, BulkFetch \/ Ask \/ Remember
  PROVE  Bulk'
<1>1. PICK k \in 0..Len(Needed) : OnDisk(k) /\ InMemory(k)
  BY DEF Bulk
<1>2. /\ pc \in {"fetch", "ask", "remember"} /\ Held
      /\ UNCHANGED <<chunk, marker, rows, done, journal, tars>>
  BY <1>1 DEF BulkFetch, Ask, Remember, InMemory, files
<1>3. PICK j \in 0..k : InWork(j, k)
  BY <1>1, <1>2 DEF InMemory, Walking, InChunk, OnPaper
<1>4. m.paper \in Paper /\ (pc = "remember" => asked \in Thm /\ m.left # <<>>)
  BY <1>2, <1>3 DEF InWork, OnPaper, Bulk
<1> DEFINE Kept == /\ DOMAIN m' = DOMAIN m /\ m'.left \in Seq(Thm) /\ m'.got \in Seq(Thm)
                   /\ \A f \in {"store", "page", "cands", "full", "seen", "todo", "bytes", "paper"} :
                        m'[f] = m[f]
<1>5. ASSUME NEW t \in Thm, NEW r, DOMAIN r = DOMAIN m, m' = Consumed(r, t), m.left # <<>>,
             \A f \in DOMAIN m : r[f] = m[f]
      PROVE  Kept
  <2>1. Tail(m.left) \in Seq(Thm) /\ Append(m.got, t) \in Seq(Thm) /\ m.got \in Seq(Thm)
    BY <1>2, <1>5, HeadTailProperties, AppendProperties DEF Held
  <2> DEFINE same == {"store", "page", "cands", "full", "seen", "todo", "bytes", "paper"}
  <2>2. /\ DOMAIN r = DOMAIN NoRun /\ r.left = m.left /\ r.got = m.got
        /\ \A f \in same : r[f] = m[f]
    BY <1>2, <1>5 DEF Held, NoRun
  <2>3. \/ m' = [r EXCEPT !.left = Tail(m.left), !.got = Append(m.got, t)]
        \/ m' = [r EXCEPT !.left = Tail(m.left), !.got = m.got]
    BY <1>5, <2>2 DEF Consumed
  <2>4. /\ DOMAIN m' = DOMAIN r /\ m'.left = Tail(m.left) /\ m'.got \in {m.got, Append(m.got, t)}
        /\ \A f \in same : m'[f] = r[f]
    BY <2>2, <2>3 DEF NoRun
  <2> QED
    BY <1>5, <2>1, <2>2, <2>4
<1>6. CASE BulkFetch
  <2>1. pc' = "ask" /\ m' = [m EXCEPT !.left = Theorems[m.paper]]
    BY <1>6 DEF BulkFetch
  <2>2. Theorems[m.paper] \in Seq(Thm)
    BY <1>4, PapersAssumption
  <2>3. Kept
    BY <1>2, <2>1, <2>2 DEF Held, NoRun
  <2> QED
    BY <1>2, <2>1, <2>3, PaperGoesOn
<1>7. CASE Ask
  <2>1. \/ pc' = "commit" /\ UNCHANGED m
        \/ pc' = pc /\ pc = "ask" /\ m.left # <<>> /\ m' = Consumed(m, Head(m.left))
        \/ pc' = "write" /\ m' = [m EXCEPT !.over = TRUE]
        \/ pc' = "remember" /\ m.left # <<>> /\ m' = Charged("qa_calls") /\ asked' = Head(m.left)
        \/ pc' = pc /\ pc = "ask" /\ m.left # <<>> /\ m' = [Charged("qa_calls") EXCEPT !.left = Tail(@)]
    BY <1>7 DEF Ask, Exhausted
  <2>2. m.left # <<>> => Head(m.left) \in Thm /\ Tail(m.left) \in Seq(Thm)
    BY <1>2, HeadTailProperties DEF Held
  <2>3. CASE pc' = "write" /\ m' = [m EXCEPT !.over = TRUE]
    BY <1>2, <2>3, Stopped
  <2>4. CASE pc' = "commit" /\ UNCHANGED m
    <3>1. Kept
      BY <1>2, <2>4 DEF Held
    <3> QED
      BY <1>2, <2>4, <3>1, PaperGoesOn
  <2>5. CASE pc' = pc /\ pc = "ask" /\ m.left # <<>> /\ m' = Consumed(m, Head(m.left))
    <3>1. Kept
      BY <1>5, <2>2, <2>5
    <3> QED
      BY <1>2, <2>5, <3>1, PaperGoesOn
  <2>6. CASE pc' = "remember" /\ m.left # <<>> /\ m' = Charged("qa_calls") /\ asked' = Head(m.left)
    <3>1. Kept /\ m'.left = m.left
      BY <1>2, <2>6 DEF Held, NoRun, Charged
    <3> QED
      BY <1>2, <2>2, <2>6, <3>1, PaperGoesOn
  <2>7. CASE pc' = pc /\ pc = "ask" /\ m.left # <<>> /\ m' = [Charged("qa_calls") EXCEPT !.left = Tail(@)]
    <3>1. Kept
      BY <1>2, <2>2, <2>7 DEF Held, NoRun, Charged
    <3> QED
      BY <1>2, <2>7, <3>1, PaperGoesOn
  <2> QED
    BY <2>1, <2>3, <2>4, <2>5, <2>6, <2>7
<1>8. CASE Remember
  <2>1. pc' = "ask" /\ pc = "remember" /\ m' = Consumed(m, asked)
    BY <1>8 DEF Remember
  <2>2. Kept
    BY <1>4, <1>5, <2>1
  <2> QED
    BY <1>2, <2>1, <2>2, PaperGoesOn
<1> QED
  BY <1>6, <1>7, <1>8

\* CommitRows: the paper had no rows, doubled ones are excepted.
LEMMA BulkCommitRows ==
  ASSUME Bulk, CommitRows, Unharmed'
  PROVE  Bulk'
<1>1. PICK k \in 0..Len(Needed) : OnDisk(k) /\ InMemory(k)
  BY DEF Bulk
<1>2. /\ pc = "commit" /\ pc' = "settle" /\ UNCHANGED <<m, chunk, marker, done, journal, tars>>
      /\ Held /\ marker /\ rows' = [rows EXCEPT ![m.paper] = @ \o m.got] /\ rows[m.paper] = <<>>
  BY <1>1 DEF CommitRows, InMemory, Unharmed
<1>3. PICK j \in 0..k : AtChunk(j, k) /\ Seen(j) /\ InWork(j, k) /\ Count(j)
  BY <1>1, <1>2 DEF InMemory, Walking, InChunk, OnPaper
<1>4. m.paper \in Paper /\ m.paper \notin done
  BY <1>2, <1>3 DEF InWork, OnPaper
<1>5. /\ rows' \in [Paper -> Seq(Thm)] /\ rows'[m.paper] = m.got
      /\ \A p \in Paper : p # m.paper => rows'[p] = rows[p]
  <2>1. rows[m.paper] \o m.got = m.got /\ m.got \in Seq(Thm)
    BY <1>2, ConcatEmptySeq DEF Held
  <2> QED
    BY <1>2, <1>4, <2>1 DEF Bulk
<1>6. \A p \in done : rows'[p] = rows[p]
  BY <1>4, <1>5 DEF Bulk
<1>7. OnDisk(k)'
  BY <1>1, <1>2, <1>6, DiskKept
<1>8. Held'
  BY <1>2, <1>6, HeldStays
<1>9. AtChunk(j, k)' /\ Seen(j)' /\ InWork(j, k)'
  BY <1>2, <1>3, <1>5 DEF AtChunk, Seen, InWork, InChunk, OnPaper
<1>10. Count(j)'
  <2>1. Visited' = Visited /\ Visited \subseteq done
    BY <1>2 DEF Visited
  <2>2. Offered(rows', Visited) = Offered(rows, Visited)
    BY <1>6, <2>1, OfferedSame
  <2>3. Offered(rows', done \cap Upto(j)) = Offered(rows, done \cap Upto(j))
    <3>1. \A p \in done \cap Upto(j) : rows'[p] = rows[p]
      BY <1>6
    <3> QED
      BY <3>1, OfferedSame
  <2> QED
    BY <1>2, <1>3, <2>1, <2>2, <2>3 DEF Count
<1>11. InMemory(k)'
  BY <1>2, <1>8, <1>9, <1>10 DEF InMemory
<1> QED
  BY <1>2, <1>5, <1>7, <1>11 DEF Bulk, Walking, InChunk, OnPaper

\* CommitPaper: the paper belongs to the chunk in hand, which is not journaled.
LEMMA BulkCommitPaper ==
  ASSUME Bulk, CommitPaper
  PROVE  Bulk'
<1>1. PICK k \in 0..Len(Needed) : OnDisk(k) /\ InMemory(k)
  BY DEF Bulk
<1>2. /\ pc = "settle" /\ pc' = "keep" /\ UNCHANGED <<chunk, marker, rows, journal, tars>>
      /\ Held /\ marker /\ done' = done \cup {m.paper} /\ m' = [m EXCEPT !.store[m.paper] = m.got]
  BY <1>1 DEF CommitPaper, InMemory
<1>3. PICK j \in 0..k : AtChunk(j, k) /\ Seen(j) /\ InWork(j, k) /\ Count(j)
  BY <1>1, <1>2 DEF InMemory, Walking, InChunk, OnPaper
<1>4. /\ m.paper \in Paper \cap m.seen /\ m.paper \notin done \cup Exclude \cup Upto(j)
      /\ rows[m.paper] = m.got /\ j = k
  BY <1>2, <1>3 DEF InWork, AtChunk, InChunk, OnPaper
<1>5. \A n \in 0..k : done' \cap Upto(n) = done \cap Upto(n)
  <2>1. \A n \in 0..k : Upto(n) \subseteq Upto(k)
    BY PathIs, UptoIs
  <2> QED
    BY <1>2, <1>4, <2>1
<1>6. OnDisk(k)'
  <2>1. \A n \in 0..k : IsPassed(n, k)' <=> IsPassed(n, k)
    BY <1>2 DEF IsPassed
  <2>2. \A n \in 0..k : IsPassed(n, k)' => Offered(rows', done' \cap Upto(n)) < Target
    BY <1>1, <1>2, <1>5, <2>1 DEF OnDisk
  <2>3. OnlyTar'
    BY <1>1, <1>2 DEF OnDisk, OnlyTar
  <2> QED
    BY <1>1, <1>2, <2>2, <2>3 DEF OnDisk
<1>7. /\ DOMAIN m' = DOMAIN m /\ m'.store = [m.store EXCEPT ![m.paper] = m.got]
      /\ \A f \in {"page", "left", "got", "cands", "seen", "full", "todo", "bytes", "paper"} : m'[f] = m[f]
  BY <1>2 DEF Held, NoRun
<1>8. Held'
  <2>1. m.store \in [Paper -> Seq(Thm)] /\ m.got \in Seq(Thm) /\ done \subseteq Paper
        /\ \A p \in done : m.store[p] = rows[p]
    BY <1>2 DEF Held, Bulk
  <2> DEFINE store == m.store
  <2> HIDE DEF store
  <2>2. [store EXCEPT ![m.paper] = m.got] \in [Paper -> Seq(Thm)]
    BY <2>1 DEF store
  <2>3. m'.store \in [Paper -> Seq(Thm)]
    BY <1>7, <2>2 DEF store
  <2>4. \A p \in done' : m'.store[p] = rows[p]
    BY <1>2, <1>4, <1>7, <2>1
  <2> QED
    BY <1>2, <1>7, <2>3, <2>4 DEF Held
<1>9. AtChunk(j, k)' /\ Seen(j)' /\ InWork(j, k)'
  BY <1>2, <1>3, <1>4, <1>7 DEF AtChunk, Seen, InWork, InChunk, OnPaper
<1>10. Count(j)'
  <2>1. Visited' = Visited
    BY <1>2, <1>4, <1>7 DEF Visited
  <2> QED
    BY <1>2, <1>3, <1>4, <1>5, <1>7, <2>1 DEF Count
<1>11. InMemory(k)'
  BY <1>2, <1>8, <1>9, <1>10 DEF InMemory
<1>12. done' \subseteq Paper \ Exclude /\ IsFiniteSet(done')
  BY <1>2, <1>4, FS_AddElement DEF Bulk
<1> QED
  BY <1>2, <1>6, <1>11, <1>12 DEF Bulk, Walking, InChunk

\* Keep: the candidates count what the papers visited offer, until the target cuts
\* a paper short.
LEMMA BulkKeep ==
  ASSUME Bulk, Keep, adapter = "bulk"
  PROVE  Bulk'
<1>1. PICK k \in 0..Len(Needed) : OnDisk(k) /\ InMemory(k)
  BY DEF Bulk
<1>2. pc = "keep" /\ UNCHANGED <<chunk, marker, rows, done, journal, tars>> /\ Held /\ marker
  BY <1>1 DEF Keep, InMemory, files
<1>3. PICK j \in 0..k : AtChunk(j, k) /\ Seen(j) /\ InWork(j, k) /\ Count(j)
  BY <1>1, <1>2 DEF InMemory, Walking, InChunk
<1>4. OnDisk(k)'
  BY <1>1, <1>2, DiskKept
<1>5. /\ m.paper \in done \cap m.seen /\ m.got = rows[m.paper] /\ m.paper \in Paper
      /\ ~m.full /\ Len(m.cands) = Offered(rows, Visited) /\ Visited = (done \cap m.seen) \ {m.paper}
  BY <1>2, <1>3 DEF InWork, Count, Visited, Bulk
<1>6. /\ Target \in Nat /\ MaxPerPaper \in Nat
      /\ m.got \in Seq(Thm) /\ m.cands \in Seq(Thm) /\ Len(m.got) \in Nat /\ Len(m.cands) \in Nat
  BY <1>2, CapsAssumption DEF Held
<1> DEFINE room == Target - Len(m.cands)
           n == Len(FirstOf(m.got, IF room < MaxPerPaper THEN room ELSE MaxPerPaper))
           hit == Len(m.cands) + n >= Target
<1>7. /\ n \in 0..Len(m.got) /\ n <= Quota(m.got)
      /\ ~hit => n = Quota(m.got)
  <2> DEFINE cap == IF room < MaxPerPaper THEN room ELSE MaxPerPaper
             e == IF Len(m.got) < cap THEN Len(m.got) ELSE cap
  <2>1. cap \in Int /\ e \in Int /\ e <= Len(m.got)
    BY <1>6
  <2>2. Len(SubSeq(m.got, 1, e)) = IF 1 <= e THEN e ELSE 0
    <3>1. \A i \in 1..e : m.got[i] \in Thm
      BY <1>6, <2>1
    <3>2. Len(SubSeq(m.got, 1, e)) = IF 1 <= e THEN e - 1 + 1 ELSE 0
      <4> HIDE DEF e
      <4> QED
        BY <2>1, <3>1, SubSeqProperties
    <3> QED
      BY <2>1, <3>2
  <2>3. n = IF 1 <= e THEN e ELSE 0
    BY <2>2 DEF FirstOf
  <2> HIDE DEF n
  <2>4. n \in 0..Len(m.got) /\ n <= Quota(m.got)
    BY <1>6, <2>1, <2>3 DEF Quota
  <2>5. ASSUME Len(m.cands) + n < Target PROVE n = Quota(m.got)
    <3>1. room \in Int /\ n \in Nat /\ n < room
      BY <1>6, <2>4, <2>5
    <3> HIDE DEF room
    <3>2. e # room
      <4> HIDE DEF e
      <4> QED
        BY <2>1, <2>3, <3>1
    <3>3. e = Quota(m.got) /\ e >= 0
      BY <1>6, <3>1, <3>2 DEF Quota
    <3> HIDE DEF e
    <3> QED
      BY <2>1, <2>3, <3>3
  <2> QED
    BY <1>6, <2>4, <2>5
<1>8. /\ m' = [m EXCEPT !.cands = @ \o SubSeq(m.got, 1, n), !.surplus = @ \o Overflow(n), !.full = hit]
      /\ pc' = IF ~hit THEN "page" ELSE "mark"
  BY DEF Keep
<1>9. SubSeq(m.got, 1, n) \in Seq(Thm) /\ Len(SubSeq(m.got, 1, n)) = n
  <2> HIDE DEF n
  <2>1. \A i \in 1..n : m.got[i] \in Thm
    BY <1>6, <1>7
  <2> QED
    BY <1>6, <1>7, <2>1, SubSeqProperties
<1>10. /\ DOMAIN m' = DOMAIN m /\ m'.cands \in Seq(Thm) /\ Len(m'.cands) = Len(m.cands) + n /\ m'.full = hit
       /\ \A f \in {"store", "page", "left", "got", "seen", "todo", "bytes", "paper"} : m'[f] = m[f]
  <2> HIDE DEF n, hit
  <2>1. /\ DOMAIN m' = DOMAIN m /\ m'.cands = m.cands \o SubSeq(m.got, 1, n) /\ m'.full = hit
        /\ \A f \in {"store", "page", "left", "got", "seen", "todo", "bytes", "paper"} : m'[f] = m[f]
    BY <1>2, <1>8 DEF Held, NoRun
  <2> QED
    BY <1>6, <1>9, <2>1, ConcatProperties
<1>11. Held'
  BY <1>2, <1>10 DEF Held
<1>12. Offered(rows, Visited)' = Offered(rows, Visited) + Quota(m.got)
       /\ Offered(rows, Visited) \in Nat /\ Quota(m.got) \in Nat
  <2>1. Visited' = Visited \cup {m.paper}
    BY <1>2, <1>5, <1>8, <1>10 DEF Visited
  <2>2. Visited \in SUBSET Paper /\ IsFiniteSet(Visited) /\ m.paper \in Paper \ Visited
    <3>1. Visited \in SUBSET done
      BY <1>5
    <3> QED
      BY <1>5, <3>1, FS_Subset DEF Bulk
  <2>3. Offered(rows, Visited \cup {m.paper}) = Offered(rows, Visited) + Quota(rows[m.paper])
        /\ Offered(rows, Visited) \in Nat
    BY <2>2, OfferedIs DEF Bulk
  <2>4. Offered(rows, Visited)' = Offered(rows, Visited \cup {m.paper})
    BY <1>2, <2>1
  <2> QED
    BY <1>5, <1>6, <2>3, <2>4 DEF Quota
<1>13. Count(j)'
  <2> HIDE DEF n
  <2>1. IF hit THEN Offered(rows, Visited)' >= Target ELSE Len(m'.cands) = Offered(rows, Visited)'
    <3>1. n \in Nat /\ n <= Quota(m.got) /\ (~hit => n = Quota(m.got))
      BY <1>6, <1>7
    <3>2. Len(m'.cands) = Offered(rows, Visited) + n
      BY <1>5, <1>10
    <3>3. hit <=> Offered(rows, Visited) + n >= Target
      BY <1>5
    <3> HIDE DEF hit
    <3> QED
      BY <1>6, <1>12, <3>1, <3>2, <3>3
  <2>2. Offered(rows, done \cap Upto(j))' < Target
    BY <1>2, <1>3 DEF Count
  <2> HIDE DEF hit
  <2>3. hit \in BOOLEAN
    BY DEF hit
  <2> QED
    BY <1>8, <1>10, <2>1, <2>2, <2>3 DEF Count
<1>14. AtChunk(j, k)' /\ Seen(j)' /\ InWork(j, k)'
  <2> HIDE DEF n, hit
  <2>1. hit \in BOOLEAN
    BY DEF hit
  <2> QED
    BY <1>2, <1>3, <1>8, <1>10, <2>1 DEF AtChunk, Seen, InWork, InChunk, OnPaper
<1> HIDE DEF n, hit
<1>15. InMemory(k)'
  BY <1>2, <1>8, <1>11, <1>13, <1>14 DEF InMemory
<1> QED
  BY <1>2, <1>4, <1>8, <1>15 DEF Bulk, Walking, InChunk

\* Mark: the chunk in hand is journaled, and is the next of the path if it was not.
LEMMA BulkMark ==
  ASSUME Bulk, Mark
  PROVE  Bulk'
<1>1. PICK k \in 0..Len(Needed) : OnDisk(k) /\ InMemory(k)
  BY DEF Bulk
<1>2. /\ pc = "mark" /\ pc' = "release" /\ journal' = journal \cup {chunk}
      /\ UNCHANGED <<m, chunk, marker, rows, done, tars>> /\ Held /\ marker
  BY <1>1 DEF Mark, InMemory
<1>3. PICK j \in 0..k : AtChunk(j, k) /\ Seen(j) /\ InWork(j, k) /\ Count(j)
  BY <1>1, <1>2 DEF InMemory, Walking, InChunk
<1>4. j < Len(Needed) /\ chunk = Needed[j + 1] /\ Len(Needed) \in Nat
  BY <1>2, <1>3, PathIs DEF AtChunk
<1>5. Held'
  BY <1>2, HeldStays
<1>6. Visited' = Visited
  BY <1>2 DEF Visited
<1>7. ASSUME NEW l \in 0..Len(Needed), j < l PROVE AtChunk(j, l)' /\ Seen(j)' /\ InWork(j, l)' /\ Count(j)'
  BY <1>2, <1>3, <1>6, <1>7 DEF AtChunk, Seen, InWork, Count, InChunk, OnPaper
<1>8. CASE j < k
  <2>1. journal' = journal
    BY <1>1, <1>2, <1>4, <1>8 DEF OnDisk
  <2>2. OnDisk(k)'
    BY <1>1, <1>2, <2>1, DiskKept
  <2>3. AtChunk(j, k)' /\ Seen(j)' /\ InWork(j, k)' /\ Count(j)'
    BY <1>7, <1>8
  <2>4. InMemory(k)'
    BY <1>2, <1>5, <2>3 DEF InMemory
  <2> QED
    BY <1>2, <2>2, <2>4 DEF Bulk, Walking
<1>9. CASE j = k
  <2>1. k + 1 \in 0..Len(Needed) /\ j \in 0..(k + 1)
    BY <1>4, <1>9
  <2>2. journal' = {Needed[i] : i \in 1..(k + 1)}
    <3>1. 1..(k + 1) = (1..k) \cup {k + 1}
      OBVIOUS
    <3> QED
      BY <1>1, <1>2, <1>4, <1>9, <3>1 DEF OnDisk
  <2>3. \A c \in Chunk : tars[c] # "none" => c = Needed[k + 1]
    BY <1>1, <1>3, <1>4, <1>9 DEF OnDisk, AtChunk
  <2>4. \A c \in Chunk : tars[c] # "none" => \E i \in {k + 1, (k + 1) + 1} \cap (1..Len(Needed)) : c = Needed[i]
    BY <1>4, <1>9, <2>3
  <2>5. \A n \in 0..(k + 1) : IsPassed(n, k + 1)' => Offered(rows, done \cap Upto(n)) < Target
    <3>1. ~IsPassed(k + 1, k + 1)'
      <4>1. (k + 1) + 1 <= Len(Needed) => Needed[(k + 1) + 1] \in Chunk /\ Needed[(k + 1) + 1] # Needed[k + 1]
        BY <1>4, <1>9, PathIs
      <4> QED
        BY <1>2, <1>4, <2>3, <4>1 DEF IsPassed
    <3>2. \A n \in 0..k : n < k => Offered(rows, done \cap Upto(n)) < Target
      BY <1>1 DEF OnDisk, IsPassed
    <3>3. Offered(rows, done \cap Upto(k)) < Target
      BY <1>2, <1>3, <1>9 DEF Count
    <3> QED
      BY <3>1, <3>2, <3>3
  <2>6. OnDisk(k + 1)'
    <3>1. OnlyTar'
      BY <1>2, <2>3 DEF OnlyTar
    <3> QED
      BY <1>2, <2>2, <2>4, <2>5, <3>1 DEF OnDisk
  <2>7. AtChunk(j, k + 1)' /\ Seen(j)' /\ InWork(j, k + 1)' /\ Count(j)'
    BY <1>7, <1>9, <2>1
  <2>8. InMemory(k + 1)'
    BY <1>2, <1>5, <2>1, <2>7 DEF InMemory
  <2> QED
    BY <1>2, <2>1, <2>6, <2>8 DEF Bulk, Walking
<1> QED
  BY <1>8, <1>9

\* Release: with the target reached, the chunk in hand was the last one to lie on
\* disk; otherwise its papers are behind.
LEMMA BulkRelease ==
  ASSUME IndInv, Bulk, Release
  PROVE  Bulk'
<1>1. PICK k \in 0..Len(Needed) : OnDisk(k) /\ InMemory(k)
  BY DEF Bulk
<1>2. /\ pc = "release" /\ tars' = [tars EXCEPT ![chunk] = "none"]
      /\ m' = [m EXCEPT !.todo = Tail(@)] /\ pc' = IF m.full THEN "write" ELSE "chunk"
      /\ UNCHANGED <<marker, rows, done, journal>> /\ Held /\ marker
  BY <1>1 DEF Release, Freed, InMemory
<1>3. PICK j \in 0..k : AtChunk(j, k) /\ Seen(j) /\ InWork(j, k) /\ Count(j)
  BY <1>1, <1>2 DEF InMemory, Walking
<1>4. /\ Len(Needed) \in Nat /\ j < k /\ chunk = Needed[j + 1] /\ chunk \in Chunk
      /\ j + 1 \in 0..k /\ j + 1 \in 0..Len(Needed)
  <2>1. j < k /\ chunk = Needed[j + 1]
    BY <1>2, <1>3 DEF AtChunk
  <2>2. Len(Needed) \in Nat /\ \A i \in 1..Len(Needed) : Needed[i] \in Chunk
    BY PathIs
  <2>3. j + 1 \in 1..Len(Needed) /\ j + 1 \in 0..k
    BY <2>1, <2>2
  <2> QED
    BY <2>1, <2>2, <2>3
<1>5. tars'[chunk] = "none" /\ \A c \in Chunk : c # chunk => tars'[c] = tars[c]
  BY <1>2, <1>4 DEF IndInv, Shapes
<1>6. OnDisk(k)'
  BY <1>1, <1>2, <1>5, DiskKept
<1>7. /\ DOMAIN m' = DOMAIN m /\ m'.todo = Tail(m.todo)
      /\ \A f \in {"store", "page", "left", "got", "cands", "seen", "full"} : m'[f] = m[f]
  BY <1>2 DEF Held, NoRun
<1>8. Held'
  BY <1>2, <1>7, HeldStays
<1>9. Upto(j + 1) = Upto(j) \cup ToSet(PapersOf(Needed[j + 1]))
  BY <1>4, UptoIs
<1>10. CASE m.full
  <2>1. Visited \in SUBSET (done \cap Upto(j + 1))
    BY <1>2, <1>3 DEF Visited, Seen, Bulk
  <2>2. ~(Offered(rows, done \cap Upto(j + 1)) < Target)
    <3>1. done \cap Upto(j + 1) \in SUBSET Paper /\ IsFiniteSet(done \cap Upto(j + 1))
      BY FS_Intersection DEF Bulk
    <3>2. /\ Offered(rows, Visited) <= Offered(rows, done \cap Upto(j + 1))
          /\ Offered(rows, done \cap Upto(j + 1)) \in Nat
      BY <2>1, <3>1, OfferedIs DEF Bulk
    <3>3. Offered(rows, Visited) >= Target /\ Target \in Nat
      BY <1>2, <1>3, <1>10, CapsAssumption DEF Count
    <3>4. Offered(rows, Visited) \in Nat
      <4>1. Visited \in SUBSET Paper /\ IsFiniteSet(Visited)
        BY <2>1, <3>1, FS_Subset
      <4> QED
        BY <4>1, OfferedIs DEF Bulk
    <3> QED
      BY <3>2, <3>3, <3>4
  <2>3. j + 1 = k /\ (k < Len(Needed) => tars[Needed[k + 1]] = "none")
    BY <1>1, <1>4, <2>2, TargetStops
  <2>4. NoTar'
    <3> SUFFICES ASSUME NEW c \in Chunk, tars'[c] # "none" PROVE FALSE
      BY DEF NoTar
    <3>1. tars[c] # "none" /\ c # Needed[k]
      BY <1>4, <1>5, <2>3
    <3>2. PICK i \in {k, k + 1} \cap (1..Len(Needed)) : c = Needed[i]
      BY <1>1, <3>1 DEF OnDisk
    <3> QED
      BY <1>4, <2>3, <3>1, <3>2
  <2>5. InMemory(k)'
    BY <1>2, <1>8, <1>10, <2>4 DEF InMemory, Walking, InChunk, OnPaper
  <2> QED
    BY <1>2, <1>6, <1>10, <2>5 DEF Bulk
<1>11. CASE ~m.full
  <2>1. m.todo = SubSeq(Needed, j + 1, Len(Needed))
    BY <1>3 DEF AtChunk
  <2>2. Tail(m.todo) = SubSeq(Needed, (j + 1) + 1, Len(Needed))
    <3>1. j + 1 \in 1..Len(Needed) /\ Len(Needed) \in (j + 1)..Len(Needed)
      BY <1>4
    <3> QED
      BY <2>1, <3>1, PathIs, HeadTailOfSubSeq
  <2>3. AtChunk(j + 1, k)'
    <3>1. \A i \in 1..(j + 1) : tars'[Needed[i]] = "none"
      <4>1. \A i \in 1..j : Needed[i] \in Chunk /\ tars[Needed[i]] = "none"
        BY <1>3, <1>4, PathIs DEF AtChunk
      <4> QED
        BY <1>4, <1>5, <4>1
    <3> QED
      BY <1>2, <1>7, <1>11, <2>2, <3>1 DEF AtChunk, InChunk, OnPaper
  <2>4. m.page = <<>> /\ m.seen \cup ToSet(m.page) = Exclude \cup Upto(j + 1)
    BY <1>2, <1>3, <1>11 DEF Seen
  <2>5. Seen(j + 1)' /\ InWork(j + 1, k)'
    <3>1. m.seen = Exclude \cup Upto(j + 1)
      BY <2>4 DEF ToSet
    <3> QED
      BY <1>2, <1>7, <1>11, <3>1 DEF Seen, InWork, InChunk, OnPaper
  <2>6. Count(j + 1)'
    <3>1. Visited' = Visited
      BY <1>2, <1>7, <1>11 DEF Visited
    <3> QED
      BY <1>2, <1>3, <1>7, <1>11, <3>1 DEF Count
  <2>7. InMemory(k)'
    BY <1>2, <1>4, <1>8, <1>11, <2>3, <2>5, <2>6 DEF InMemory
  <2> QED
    BY <1>2, <1>6, <1>11, <2>7 DEF Bulk, Walking
<1> QED
  BY <1>10, <1>11

\* WriteHandoff, WriteSurplus, Finish: a run that was not cut short has no tar.
LEMMA BulkWrites ==
  ASSUME Bulk, WriteHandoff \/ WriteSurplus \/ Finish
  PROVE  Bulk'
<1>1. PICK k \in 0..Len(Needed) : OnDisk(k) /\ InMemory(k)
  BY DEF Bulk
<1>2. /\ pc \in {"write", "surplus", "finish"} /\ UNCHANGED <<rows, done, journal, tars>>
      /\ Held /\ marker /\ (~m.over => NoTar)
  BY <1>1 DEF WriteHandoff, WriteSurplus, Finish, InMemory
<1>3. \/ pc' \in {"surplus", "finish"} /\ UNCHANGED <<m, marker>>
      \/ pc' = "idle" /\ marker' = (IF ~m.over THEN FALSE ELSE marker)
  BY DEF WriteHandoff, WriteSurplus, Finish, Completed
<1>4. OnDisk(k)'
  <2>1. marker' \/ NoTar'
    BY <1>2, <1>3 DEF NoTar
  <2> QED
    BY <1>1, <1>2, <2>1, DiskKept
<1>5. InMemory(k)'
  <2>1. CASE pc' \in {"surplus", "finish"} /\ UNCHANGED <<m, marker>>
    <3>1. Held'
      BY <1>2, <2>1, HeldStays
    <3> QED
      BY <1>2, <2>1, <3>1 DEF InMemory, Walking, InChunk, OnPaper, NoTar
  <2>2. CASE pc' = "idle"
    BY <2>2 DEF InMemory, Walking, InChunk, OnPaper
  <2> QED
    BY <1>3, <2>1, <2>2
<1> QED
  BY <1>2, <1>3, <1>4, <1>5 DEF Bulk

\* Pause and Kill, with no commit half done: the chunks on disk stay as they are.
LEMMA BulkStops ==
  ASSUME IndInv, Bulk, Pause \/ Kill
  PROVE  Bulk'
<1>1. /\ pc # "idle" /\ UNCHANGED <<rows, done, journal, marker>>
      /\ pc' = "idle" \/ (pc' = "write" /\ m' = [m EXCEPT !.over = TRUE])
  BY DEF Pause, Kill, Dies, files
<1>2. tars' = tars \/ tars' = [tars EXCEPT ![chunk] = "none"]
  BY DEF Pause, Kill, files
<1>3. \A c \in Chunk : tars'[c] # "none" => tars[c] # "none"
  BY <1>2 DEF IndInv, Shapes
<1> QED
  BY <1>1, <1>3, Stopped

\* The cooldown, and a step that changes nothing here.
LEMMA BulkStays ==
  ASSUME Bulk, UNCHANGED <<pc, m, chunk, asked, marker, rows, done, journal, tars>>
  PROVE  Bulk'
<1>1. PICK k \in 0..Len(Needed) : OnDisk(k) /\ InMemory(k)
  BY DEF Bulk
<1>2. OnDisk(k)'
  BY <1>1 DEF OnDisk, OnlyTar, NoTar, IsPassed
<1>3. pc # "idle" => Held'
  BY <1>1, HeldStays DEF InMemory
<1>4. ASSUME NEW j \in 0..k, AtChunk(j, k), Seen(j), InWork(j, k), Count(j)
      PROVE  AtChunk(j, k)' /\ Seen(j)' /\ InWork(j, k)' /\ Count(j)'
  BY <1>4 DEF AtChunk, Seen, InWork, Count, Visited
<1>5. InMemory(k)'
  BY <1>1, <1>3, <1>4 DEF InMemory, NoTar
<1> QED
  BY <1>2, <1>5 DEF Bulk

\* The api and the fixture never have a chunk.
LEMMA OthersStep ==
  ASSUME GoneInv, [Next]_vars, adapter # "bulk"
  PROVE  /\ NoTar' /\ pc' \notin {"index", "chunk", "download", "mark", "release"}
         /\ adapter = "fixture" => pc' \in {"idle", "write", "surplus", "finish"}
<1>1. /\ NoTar /\ pc \notin {"index", "chunk", "download", "mark", "release"}
      /\ adapter = "fixture" => pc \in {"idle", "write", "surplus", "finish"}
      /\ adapter \in {"api", "fixture"}
  BY JobsAssumption DEF GoneInv, adapter, Adapters
<1> USE DEF files, history
<1>2. CASE UNCHANGED vars
  BY <1>1, <1>2 DEF vars, NoTar
<1>3. CASE Start \/ Elapse \/ Replay
  BY <1>1, <1>3 DEF Start, Elapse, Replay, NoTar
<1>4. CASE Query \/ ApiPaper \/ ApiFetch
  BY <1>1, <1>4 DEF Query, ApiPaper, ApiFetch, Exhausted, NoTar
<1>5. CASE Index \/ NextChunk \/ Download \/ BulkPaper \/ BulkFetch \/ Mark \/ Release
  BY <1>1, <1>5 DEF Index, NextChunk, Download, BulkPaper, BulkFetch, Mark, Release
<1>6. CASE Ask \/ Remember \/ CommitRows \/ CommitPaper
  BY <1>1, <1>6 DEF Ask, Remember, CommitRows, CommitPaper, Exhausted, NoTar
<1>7. CASE Keep
  <2>1. pc = "keep" /\ pc' \in {"page", "query"} /\ UNCHANGED tars
    BY <1>1, <1>7 DEF Keep
  <2> QED
    BY <1>1, <2>1 DEF NoTar
<1>8. CASE WriteHandoff \/ WriteSurplus \/ Finish
  BY <1>1, <1>8 DEF WriteHandoff, WriteSurplus, Finish, NoTar
<1>9. CASE Pause \/ Kill
  BY <1>1, <1>9 DEF Pause, Kill, Dies, NoTar
<1> QED
  BY <1>2, <1>3, <1>4, <1>5, <1>6, <1>7, <1>8, <1>9 DEF Next, Run

\* Every step of a bulk run keeps the chunks on its path.
LEMMA BulkStep ==
  ASSUME IndInv, GoneInv, [Next]_vars, adapter = "bulk", Unharmed, Unharmed'
  PROVE  Bulk'
<1>1. Bulk
  BY DEF GoneInv, Unharmed
<1>2. CASE UNCHANGED vars \/ Elapse
  <2>1. UNCHANGED <<pc, m, chunk, asked, marker, rows, done, journal, tars>>
    BY <1>2 DEF Elapse, vars, files
  <2> QED
    BY <1>1, <2>1, BulkStays
<1>3. CASE Replay \/ Query \/ ApiPaper \/ ApiFetch
  BY <1>1, <1>3 DEF Replay, Query, ApiPaper, ApiFetch, Bulk, Walking, InChunk, OnPaper
<1>4. CASE Start \/ Index \/ NextChunk \/ Download
  BY <1>1, <1>4, BulkStart, BulkIndex, BulkNextChunk, BulkDownload
<1>5. CASE BulkPaper \/ BulkFetch \/ Ask \/ Remember
  BY <1>1, <1>5, BulkBulkPaper, BulkAnswers
<1>6. CASE CommitRows \/ CommitPaper \/ Keep
  BY <1>1, <1>6, BulkCommitRows, BulkCommitPaper, BulkKeep
<1>7. CASE Mark \/ Release \/ WriteHandoff \/ WriteSurplus \/ Finish
  BY <1>1, <1>7, BulkMark, BulkRelease, BulkWrites
<1>8. CASE Pause \/ Kill
  BY <1>1, <1>8, BulkStops
<1> QED
  BY <1>2, <1>3, <1>4, <1>5, <1>6, <1>7, <1>8 DEF Next, Run

\* Nothing heals a checksum that failed or rows that were doubled, and no command
\* becomes another.
LEMMA HarmStays ==
  ASSUME [Next]_vars
  PROVE  job' = job /\ (Unharmed' => Unharmed)
<1> USE DEF files, history, Unharmed
<1>1. CASE UNCHANGED vars \/ Start \/ Elapse \/ Replay \/ Query \/ ApiPaper \/ ApiFetch \/ Index
  BY <1>1 DEF vars, Start, Elapse, Replay, Query, ApiPaper, ApiFetch, Index
<1>2. CASE NextChunk \/ Download \/ BulkPaper \/ BulkFetch \/ Ask \/ Remember
  BY <1>2 DEF NextChunk, Download, BulkPaper, BulkFetch, Ask, Remember
<1>3. CASE CommitRows \/ CommitPaper \/ Keep \/ Mark \/ Release
  BY <1>3 DEF CommitRows, CommitPaper, Keep, Mark, Release
<1>4. CASE WriteHandoff \/ WriteSurplus \/ Finish \/ Pause \/ Kill
  BY <1>4 DEF WriteHandoff, WriteSurplus, Finish, Pause, Kill
<1> QED
  BY <1>1, <1>2, <1>3, <1>4 DEF Next, Run

\* GoneInv holds at the start.
LEMMA GoneBegins == Init => GoneInv
<1> SUFFICES ASSUME Init PROVE GoneInv
  OBVIOUS
<1>1. NoTar /\ pc = "idle" /\ job \in Jobs
  BY DEF Init, NoTar
<1>2. OnDisk(0)
  <2>1. ~IsPassed(0, 0)
    <3>1. 0 < Len(Needed) => Needed[0 + 1] \in Chunk
      BY PathIs
    <3> QED
      BY <1>1, <3>1 DEF IsPassed, NoTar
  <2>2. journal = {Needed[i] : i \in 1..0}
    BY DEF Init
  <2> QED
    BY <1>1, <2>1, <2>2 DEF OnDisk, OnlyTar, NoTar
<1>3. InMemory(0)
  BY <1>1 DEF InMemory, Walking, InChunk, OnPaper
<1>4. Bulk
  <2>1. 0 \in 0..Len(Needed)
    BY PathIs
  <2>2. rows \in [Paper -> Seq(Thm)] /\ done = {} /\ IsFiniteSet(done)
    BY FS_EmptySet DEF Init
  <2> QED
    BY <1>1, <1>2, <1>3, <2>1, <2>2 DEF Bulk
<1> QED
  BY <1>1, <1>4 DEF GoneInv

\* Every step keeps GoneInv.
LEMMA GoneNext ==
  ASSUME IndInv, GoneInv, [Next]_vars
  PROVE  GoneInv'
<1>1. job' = job /\ adapter' = adapter /\ (Unharmed' => Unharmed) /\ job \in Jobs
  BY HarmStays DEF adapter, GoneInv
<1>2. CASE adapter = "bulk"
  <2>1. Unharmed' => Bulk'
    BY <1>1, <1>2, BulkStep
  <2> QED
    BY <1>1, <1>2, <2>1 DEF GoneInv, Unharmed
<1>3. CASE adapter # "bulk"
  <2>1. /\ NoTar' /\ pc' \notin {"index", "chunk", "download", "mark", "release"}
        /\ adapter = "fixture" => pc' \in {"idle", "write", "surplus", "finish"}
    BY <1>3, OthersStep
  <2> QED
    BY <1>1, <1>3, <2>1 DEF GoneInv
<1> QED
  BY <1>2, <1>3

\* Theorem. A complete run leaves no chunk in _chunks/, and no run ever more than
\* the one in hand, for every listing, layout of the chunks, cap and number of
\* stops: a chunk journaled but not yet released when the process stopped is
\* released by the rerun, because what lies before it never reached the target.
THEOREM ChunksAreReleased == Spec => []ChunksGone
<1>1. IndInv /\ GoneInv /\ [Next]_vars => GoneInv'
  BY GoneNext
<1>2. GoneInv => ChunksGone
  <2> SUFFICES ASSUME GoneInv, Unharmed
               PROVE  (Final => NoTar) /\ OnlyTar
    BY DEF ChunksGone, NoTar, OnlyTar, Unharmed
  <2>1. CASE adapter = "bulk"
    <3>1. PICK k \in 0..Len(Needed) : OnDisk(k)
      BY <2>1 DEF GoneInv, Bulk, Unharmed
    <3> QED
      BY <3>1 DEF OnDisk, Final
  <2>2. CASE adapter # "bulk"
    BY <2>2 DEF GoneInv, NoTar, OnlyTar
  <2> QED
    BY <2>1, <2>2
<1> QED
  BY <1>1, <1>2, GoneBegins, InvariantHolds, PTL DEF Spec

-----------------------------------------------------------------------------
(* Operators of the handoff: sublists, concatenations, normalise.            *)

Less == {ss \in Nat \X Nat : ss[1] < ss[2]}

\* The order of the natural numbers is well founded.
LEMMA LessWF == IsWellFoundedOn(Less, Nat)
BY NatLessThanWellFounded, Zenon DEF OpToRel, Less

\* A set of naturals that is not empty has a least one.
LEMMA LeastNat ==
  ASSUME NEW S, S \subseteq Nat, S # {}
  PROVE  \E n \in S : \A k \in S : n <= k
<1>1. PICK n \in S : \A k \in S : ~(<<k, n>> \in Less)
  BY LessWF, WFMin, Zenon
<1>2. ASSUME NEW k \in S, ~(n <= k) PROVE FALSE
  <2>1. k \in Nat /\ n \in Nat /\ k < n
    BY <1>2
  <2>2. <<k, n>> \in Less
    BY <2>1 DEF Less
  <2> QED
    BY <1>1, <2>2
<1> QED
  BY <1>2

\* A set with 0 that is closed under the successor, up to N.
LEMMA UpTo ==
  ASSUME NEW N \in Nat, NEW T, 0 \in T, \A n \in 1..N : n - 1 \in T => n \in T
  PROVE  0..N \subseteq T
<1>1. SUFFICES ASSUME (0..N) \ T # {} PROVE FALSE
  OBVIOUS
<1> DEFINE Left == (0..N) \ T
<1>0. Left \subseteq Nat /\ Left # {}
  BY <1>1
<1> HIDE DEF Left
<1>2. PICK n \in Left : \A k \in Left : n <= k
  BY <1>0, LeastNat
<1> USE DEF Left
<1>3. n \in 1..N /\ n - 1 \in 0..N /\ ~(n <= n - 1)
  BY <1>2
<1> QED
  BY <1>2, <1>3

\* Lesser members come first.
LEMMA OrderRises ==
  ASSUME NEW S \in SUBSET Nat, IsFiniteSet(S),
         NEW i \in 1..Len(InOrder(S)), NEW j \in 1..Len(InOrder(S)), i < j
  PROVE  InOrder(S)[i] < InOrder(S)[j]
<1> DEFINE s == InOrder(S)
           below(x) == {z \in S : z < x}
           n == Cardinality(S)
<1>2. n \in Nat /\ Len(s) = n
  BY Ranks DEF InOrder
<1>3. \A k \in 1..n : s[k] \in S /\ Cardinality(below(s[k])) = k - 1
  <2> SUFFICES ASSUME NEW k \in 1..n PROVE s[k] \in S /\ Cardinality(below(s[k])) = k - 1
    OBVIOUS
  <2>1. \E x \in S : Cardinality(below(x)) = k - 1
    BY <1>2, Ranks, ZenonT(40)
  <2>2. s[k] = CHOOSE x \in S : Cardinality(below(x)) = k - 1
    BY <1>2 DEF InOrder
  <2> HIDE DEF below, s, n
  <2> QED
    BY <2>1, <2>2
<1>8. i \in 1..n /\ j \in 1..n
  BY <1>2
<1>1. s[i] \in Nat /\ s[j] \in Nat
  <2> HIDE DEF s, n, below
  <2> QED
    BY <1>3, <1>8
<1>4. SUFFICES ASSUME s[j] <= s[i] PROVE FALSE
  <2> HIDE DEF n, below
  <2>1. s[i] < s[j] \/ s[j] <= s[i]
    <3> HIDE DEF s
    <3> QED
      BY <1>1
  <2> QED
    BY <2>1
<1>5. below(s[j]) \in SUBSET below(s[i])
  <2>1. \A z \in S : z < s[j] => z < s[i]
    <3> HIDE DEF s, n, below
    <3> QED
      BY <1>1, <1>4
  <2> HIDE DEF s
  <2> QED
    BY <2>1
<1>6. IsFiniteSet(below(s[i]))
  BY FS_Subset
<1> HIDE DEF below, s, n
<1>7. Cardinality(below(s[j])) <= Cardinality(below(s[i]))
  BY <1>5, <1>6, FS_Subset
<1>9. Cardinality(below(s[j])) = j - 1 /\ Cardinality(below(s[i])) = i - 1
  BY <1>3, <1>8
<1> QED
  BY <1>7, <1>8, <1>9

\* The order of a set whose one part lies below the other.
LEMMA OrderSplit ==
  ASSUME NEW A \in SUBSET Nat, IsFiniteSet(A), NEW B \in SUBSET Nat, IsFiniteSet(B),
         \A a \in A, b \in B : a < b
  PROVE  InOrder(A \cup B) = InOrder(A) \o InOrder(B)
<1> DEFINE S == A \cup B
           below(x, X) == {z \in X : z < x}
           at(X) == InOrder(X)
           size(X) == Cardinality(X)
<1>1. S \in SUBSET Nat /\ IsFiniteSet(S) /\ A \cap B = {}
  <2>1. A \cap B = {}
    <3>1. SUFFICES ASSUME NEW x \in A, x \in B PROVE FALSE
      OBVIOUS
    <3>2. x \in Nat /\ x < x
      BY <3>1
    <3> QED
      BY <3>2
  <2> QED
    BY <2>1, FS_Union
<1>2. /\ size(A) \in Nat /\ size(B) \in Nat
      /\ size(S) = size(A) + size(B)
  <2>1. Cardinality(A \cap B) = 0
    BY <1>1, FS_EmptySet
  <2>2. size(A) \in Nat /\ size(B) \in Nat
    BY FS_CardinalityType
  <2>3. size(S) = size(A) + size(B) - Cardinality(A \cap B)
    BY FS_Union
  <2> HIDE DEF size, S
  <2> QED
    BY <2>1, <2>2, <2>3
<1>3. ASSUME NEW X \in {A, B, S}
      PROVE  /\ at(X) \in Seq(X) /\ Len(at(X)) = size(X) /\ size(X) \in Nat
             /\ \A k \in 1..size(X) : at(X)[k] \in X /\ size(below(at(X)[k], X)) = k - 1
  <2>1. X \in SUBSET Nat /\ IsFiniteSet(X)
    <3> HIDE DEF S
    <3> QED
      BY <1>1
  <2>2. at(X) \in Seq(X) /\ size(X) \in Nat
    BY <2>1, OrderIs, FS_CardinalityType
  <2>3. Len(at(X)) = size(X)
    BY <2>2 DEF InOrder
  <2>4. ASSUME NEW k \in 1..size(X)
        PROVE  at(X)[k] \in X /\ size(below(at(X)[k], X)) = k - 1
    <3>1. \E x \in X : size(below(x, X)) = k - 1
      BY <2>1, Ranks
    <3>2. at(X)[k] = CHOOSE x \in X : size(below(x, X)) = k - 1
      BY <2>1 DEF InOrder
    <3> HIDE DEF below, at, size
    <3> QED
      BY <3>1, <3>2
  <2> QED
    BY <2>2, <2>3, <2>4
<1>4. \A x, y \in S : size(below(x, S)) = size(below(y, S)) => x = y
  BY <1>1, Ranks
<1>5. \A a \in A : below(a, S) = below(a, A)
  <2> SUFFICES ASSUME NEW a \in A, NEW b \in B, b < a PROVE FALSE
    OBVIOUS
  <2>1. a < b /\ a \in Nat /\ b \in Nat
    OBVIOUS
  <2> QED
    BY <2>1
<1>6. \A b \in B : size(below(b, S)) = size(A) + size(below(b, B))
  <2> SUFFICES ASSUME NEW b \in B PROVE size(below(b, S)) = size(A) + size(below(b, B))
    OBVIOUS
  <2>1. below(b, S) = A \cup below(b, B)
    OBVIOUS
  <2>2. IsFiniteSet(below(b, B)) /\ A \cap below(b, B) = {} /\ size(below(b, B)) \in Nat
    <3>1. below(b, B) \in SUBSET B
      OBVIOUS
    <3> HIDE DEF below
    <3> QED
      BY <1>1, <3>1, FS_Subset, FS_CardinalityType
  <2> HIDE DEF below
  <2>3. size(A \cap below(b, B)) = 0
    BY <2>2, FS_EmptySet
  <2>4. size(A \cup below(b, B)) = size(A) + size(below(b, B)) - size(A \cap below(b, B))
    BY <2>2, FS_Union
  <2> HIDE DEF size, S
  <2> QED
    BY <1>2, <2>1, <2>2, <2>3, <2>4
<1> DEFINE r == at(A) \o at(B)
<1>8. Len(r) = size(S) /\ r \in Seq(S)
  <2> HIDE DEF size, at, below
  <2>1. at(A) \in Seq(A) /\ Len(at(A)) = size(A) /\ at(B) \in Seq(B) /\ Len(at(B)) = size(B)
    BY <1>3
  <2>2. at(A) \in Seq(S) /\ at(B) \in Seq(S)
    BY <2>1, SeqMonotonic
  <2> HIDE DEF S
  <2> QED
    BY <1>2, <2>1, <2>2, ConcatProperties
<1> HIDE DEF below, at, size, S
<1>0. S = A \cup B
  BY DEF S
<1>10. at(A) \in Seq(S) /\ at(B) \in Seq(S) /\ Len(at(A)) = size(A) /\ Len(at(B)) = size(B)
  BY <1>0, <1>3, SeqMonotonic
<1>11. \A k \in 1..(size(A) + size(B)) : r[k] = IF k <= size(A) THEN at(A)[k] ELSE at(B)[k - size(A)]
  <2>1. \A k \in 1..(Len(at(A)) + Len(at(B))) :
          r[k] = IF k <= Len(at(A)) THEN at(A)[k] ELSE at(B)[k - Len(at(A))]
    BY <1>10, ConcatProperties
  <2> HIDE DEF r
  <2> QED
    BY <1>10, <2>1
<1>7. \A k \in 1..size(S) : at(S)[k] = r[k]
  <2> SUFFICES ASSUME NEW k \in 1..size(S) PROVE at(S)[k] = r[k]
    OBVIOUS
  <2>0. at(S)[k] \in S /\ size(below(at(S)[k], S)) = k - 1
    BY <1>3
  <2>3. r[k] = IF k <= size(A) THEN at(A)[k] ELSE at(B)[k - size(A)]
    BY <1>2, <1>11
  <2> HIDE DEF r
  <2>1. CASE k <= size(A)
    <3>1. k \in 1..size(A) /\ r[k] = at(A)[k]
      BY <1>2, <2>1, <2>3
    <3>2. r[k] \in A /\ size(below(r[k], A)) = k - 1
      BY <1>3, <3>1
    <3>3. r[k] \in S /\ size(below(r[k], S)) = k - 1
      BY <1>0, <1>5, <3>2
    <3> QED
      BY <1>4, <2>0, <3>3
  <2>2. CASE k > size(A)
    <3> DEFINE h == k - size(A)
    <3>1. h \in 1..size(B) /\ r[k] = at(B)[h]
      BY <1>2, <2>2, <2>3
    <3> HIDE DEF h
    <3>2. r[k] \in B /\ size(below(r[k], B)) = h - 1
      BY <1>3, <3>1
    <3>4. r[k] \in S /\ size(below(r[k], S)) = size(A) + (h - 1)
      BY <1>0, <1>6, <3>2
    <3>5. size(A) + (h - 1) = k - 1
      BY <1>2, <3>1 DEF h
    <3>3. r[k] \in S /\ size(below(r[k], S)) = k - 1
      BY <3>4, <3>5
    <3> QED
      BY <1>4, <2>0, <3>3
  <2> QED
    <3>1. k <= size(A) \/ k > size(A)
      BY <1>2
    <3> QED
      BY <2>1, <2>2, <3>1
<1>9. at(S) \in Seq(S) /\ Len(at(S)) = size(S)
  BY <1>3
<1>12. at(S) = r
  <2> HIDE DEF r
  <2> QED
    BY <1>7, <1>8, <1>9, SeqEqual
<1> QED
  BY <1>12 DEF at, S

\* InOrder of nothing.
LEMMA EmptyOrder == InOrder({}) = <<>>
<1>1. Cardinality({}) = 0
  BY FS_EmptySet
<1>2. 1..0 = {}
  OBVIOUS
<1> QED
  BY <1>1, <1>2 DEF InOrder

\* What is picked are the members at the places, as many as there are places.
LEMMA PickedIs ==
  ASSUME NEW T, NEW s \in Seq(T), NEW places \in SUBSET (DOMAIN s)
  PROVE  /\ IsFiniteSet(places) /\ places \in SUBSET Nat
         /\ Picked(s, places) \in Seq(T)
         /\ Len(Picked(s, places)) = Cardinality(places)
         /\ ToSet(Picked(s, places)) = {s[i] : i \in places}
<1> DEFINE o == InOrder(places)
           q == [k \in DOMAIN o |-> s[o[k]]]
<1>1. Len(s) \in Nat /\ DOMAIN s = 1..Len(s) /\ \A i \in DOMAIN s : s[i] \in T
  OBVIOUS
<1>2. IsFiniteSet(places) /\ places \in SUBSET Nat
  <2>1. IsFiniteSet(1..Len(s))
    BY <1>1, FS_Interval
  <2> QED
    BY <1>1, <2>1, FS_Subset
<1>3. o \in Seq(places) /\ ToSet(o) = places
  BY <1>2, OrderIs
<1>4. Len(o) = Cardinality(places)
  BY <1>2, FS_CardinalityType DEF InOrder
<1> HIDE DEF o
<1>5. Len(o) \in Nat /\ DOMAIN o = 1..Len(o) /\ \A k \in 1..Len(o) : o[k] \in places
  BY <1>3
<1>6. q \in Seq(T) /\ Len(q) = Len(o)
  <2>1. q \in [1..Len(o) -> T]
    BY <1>1, <1>5
  <2> HIDE DEF q
  <2> QED
    BY <1>5, <2>1
<1>7. Picked(s, places) = q
  BY DEF Picked, o
<1>8. ToSet(q) = {s[i] : i \in places}
  <2>1. ToSet(q) = {s[o[k]] : k \in DOMAIN o}
    BY DEF ToSet
  <2>2. places = {o[k] : k \in DOMAIN o}
    BY <1>3 DEF ToSet
  <2> QED
    BY <2>1, <2>2
<1> HIDE DEF q
<1> QED
  BY <1>2, <1>4, <1>6, <1>7, <1>8

\* What is picked at places of which some come before the others.
LEMMA PickedSplit ==
  ASSUME NEW T, NEW s \in Seq(T), NEW A \in SUBSET (DOMAIN s), NEW B \in SUBSET (DOMAIN s),
         \A a \in A, b \in B : a < b
  PROVE  Picked(s, A \cup B) = Picked(s, A) \o Picked(s, B)
<1> DEFINE a == InOrder(A)
           b == InOrder(B)
           S == A \cup B
           at(o) == [k \in DOMAIN o |-> s[o[k]]]
<1>1. /\ IsFiniteSet(A) /\ A \in SUBSET Nat /\ IsFiniteSet(B) /\ B \in SUBSET Nat
      /\ S \in SUBSET (DOMAIN s)
  BY PickedIs
<1>2. InOrder(S) = a \o b
  BY <1>1, OrderSplit
<1>3. a \in Seq(A) /\ b \in Seq(B) /\ a \in Seq(S) /\ b \in Seq(S)
  <2>1. a \in Seq(A) /\ b \in Seq(B)
    BY <1>1, OrderIs
  <2> HIDE DEF a, b
  <2> QED
    BY <2>1, SeqMonotonic
<1>4. Picked(s, A) = at(a) /\ Picked(s, B) = at(b) /\ Picked(s, S) = at(a \o b)
  BY <1>2 DEF Picked
<1>5. at(a) \in Seq(T) /\ at(b) \in Seq(T) /\ at(a \o b) \in Seq(T)
  <2>1. Picked(s, A) \in Seq(T) /\ Picked(s, B) \in Seq(T)
    BY PickedIs
  <2> HIDE DEF S
  <2>2. Picked(s, S) \in Seq(T)
    BY <1>1, PickedIs
  <2> HIDE DEF at
  <2> QED
    BY <1>4, <2>1, <2>2
<1> HIDE DEF a, b
<1>6. at(a \o b) = at(a) \o at(b)
  <2>1. Len(a) \in Nat /\ DOMAIN a = 1..Len(a) /\ Len(b) \in Nat /\ DOMAIN b = 1..Len(b)
    BY <1>3
  <2>2. Len(at(a)) = Len(a) /\ Len(at(b)) = Len(b)
    BY <2>1
  <2> DEFINE ab == a \o b
  <2>3. /\ Len(ab) = Len(a) + Len(b) /\ DOMAIN ab = 1..(Len(a) + Len(b))
        /\ \A k \in 1..(Len(a) + Len(b)) : ab[k] = IF k <= Len(a) THEN a[k] ELSE b[k - Len(a)]
    BY <1>3, ConcatProperties
  <2>4. Len(at(ab)) = Len(a) + Len(b)
    <3> HIDE DEF ab
    <3> QED
      BY <2>1, <2>3
  <2>5. /\ Len(at(a) \o at(b)) = Len(a) + Len(b)
        /\ at(a) \o at(b) \in Seq(T)
        /\ \A k \in 1..(Len(a) + Len(b)) :
             (at(a) \o at(b))[k] = IF k <= Len(a) THEN at(a)[k] ELSE at(b)[k - Len(a)]
    <3> DEFINE p == at(a)
               q == at(b)
    <3>1. p \in Seq(T) /\ q \in Seq(T) /\ Len(p) = Len(a) /\ Len(q) = Len(b)
      BY <1>5, <2>2
    <3> HIDE DEF p, q
    <3>3. /\ Len(p \o q) = Len(p) + Len(q) /\ p \o q \in Seq(T)
          /\ \A k \in 1..(Len(p) + Len(q)) : (p \o q)[k] = IF k <= Len(p) THEN p[k] ELSE q[k - Len(p)]
      BY <3>1, ConcatProperties
    <3>2. /\ Len(p \o q) = Len(a) + Len(b) /\ p \o q \in Seq(T)
          /\ \A k \in 1..(Len(a) + Len(b)) : (p \o q)[k] = IF k <= Len(a) THEN p[k] ELSE q[k - Len(a)]
      BY <3>1, <3>3
    <3> QED
      BY <3>2 DEF p, q
  <2>6. ASSUME NEW k \in 1..(Len(a) + Len(b))
        PROVE  at(ab)[k] = (at(a) \o at(b))[k]
    <3> HIDE DEF ab
    <3>1. at(ab)[k] = s[ab[k]]
      BY <2>3
    <3>2. CASE k <= Len(a)
      <4>1. k \in DOMAIN a /\ ab[k] = a[k] /\ (at(a) \o at(b))[k] = at(a)[k]
        BY <2>1, <2>3, <2>5, <3>2
      <4> QED
        BY <3>1, <4>1
    <3>3. CASE k > Len(a)
      <4>1. k - Len(a) \in DOMAIN b /\ ab[k] = b[k - Len(a)] /\ (at(a) \o at(b))[k] = at(b)[k - Len(a)]
        BY <2>1, <2>3, <2>5, <3>3
      <4> QED
        BY <3>1, <4>1
    <3> QED
      BY <2>1, <3>2, <3>3
  <2> HIDE DEF at, ab
  <2>7. at(ab) \in Seq(T)
    BY <1>5 DEF ab
  <2>8. at(ab) = at(a) \o at(b)
    BY <2>4, <2>5, <2>6, <2>7, SeqEqual
  <2> QED
    BY <2>8 DEF ab
<1> HIDE DEF at
<1> QED
  BY <1>4, <1>6

\* A sequence picked at all places up to one; one place more.
LEMMA PickedMore ==
  ASSUME NEW T, NEW s \in Seq(T), NEW A \in SUBSET (DOMAIN s), NEW n \in DOMAIN s, \A a \in A : a < n
  PROVE  Picked(s, A \cup {n}) = Append(Picked(s, A), s[n])
<1>1. Picked(s, A \cup {n}) = Picked(s, A) \o Picked(s, {n})
  <2>1. {n} \in SUBSET (DOMAIN s) /\ \A a \in A, b \in {n} : a < b
    OBVIOUS
  <2> QED
    BY <2>1, PickedSplit
<1>2. Picked(s, A) \in Seq(T) /\ s[n] \in T
  BY PickedIs
<1>3. Picked(s, {n}) = <<s[n]>>
  <2> DEFINE q == Picked(s, {n})
  <2>1. q \in Seq(T) /\ Len(q) = 1 /\ ToSet(q) = {s[n]}
    <3>1. Cardinality({n}) = 1
      BY FS_Singleton
    <3>2. {n} \in SUBSET (DOMAIN s)
      OBVIOUS
    <3>3. q \in Seq(T) /\ Len(q) = Cardinality({n}) /\ ToSet(q) = {s[i] : i \in {n}}
      BY <3>2, PickedIs
    <3>4. {s[i] : i \in {n}} = {s[n]}
      OBVIOUS
    <3> HIDE DEF q
    <3> QED
      BY <3>1, <3>3, <3>4
  <2> HIDE DEF q
  <2>2. DOMAIN q = 1..1 /\ q[1] \in ToSet(q)
    BY <2>1 DEF ToSet
  <2>3. q[1] = s[n]
    BY <2>1, <2>2
  <2>4. q = <<q[1]>>
    BY <2>1
  <2> QED
    BY <2>3, <2>4 DEF q
<1> QED
  BY <1>1, <1>2, <1>3, AppendIsConcat

\* Nothing picked.
LEMMA PickedNone == \A s : Picked(s, {}) = <<>>
<1>1. DOMAIN <<>> = {}
  OBVIOUS
<1> QED
  BY <1>1, EmptyOrder DEF Picked

\* FlattenSeq is the end of a recursion over the prefixes.
Joins(f, ss) == f[0] = <<>> /\ \A n \in 1..Len(ss) : f[n] = f[n - 1] \o ss[n]

\* FlattenSeq joins from the left.
LEMMA FlatJoins ==
  ASSUME NEW T, NEW ss \in Seq(Seq(T))
  PROVE  \E f : Joins(f, ss) /\ FlattenSeq(ss) = f[Len(ss)]
<1> DEFINE N == Len(ss)
           step(f, k) == [n \in 1..k |-> IF n = 1 THEN ss[n] ELSE f[n - 1] \o ss[n]]
           K == {k \in 0..N : \E f : f = step(f, k)}
<1>0. N \in Nat /\ \A n \in 1..N : ss[n] \in Seq(T)
  OBVIOUS
<1>1. 0 \in K
  <2> DEFINE f == [n \in 1..0 |-> <<>>]
  <2>1. f = step(f, 0)
    OBVIOUS
  <2>2. \E h : h = step(h, 0)
    BY <2>1
  <2> HIDE DEF step
  <2> QED
    BY <1>0, <2>2
<1>2. ASSUME NEW n \in 1..N, n - 1 \in K PROVE n \in K
  <2>1. PICK f : f = step(f, n - 1)
    BY <1>2
  <2> DEFINE g == [k \in 1..n |-> IF k < n THEN f[k] ELSE IF n = 1 THEN ss[n] ELSE f[n - 1] \o ss[n]]
  <2>2. \A k \in 1..n : g[k] = step(g, n)[k]
    <3> SUFFICES ASSUME NEW k \in 1..n PROVE g[k] = step(g, n)[k]
      OBVIOUS
    <3>1. k > 1 => k - 1 \in 1..n /\ k - 1 < n /\ g[k - 1] = f[k - 1]
      OBVIOUS
    <3>2. CASE k = n
      BY <3>1, <3>2
    <3>3. CASE k < n
      <4>1. k \in 1..(n - 1) /\ g[k] = f[k]
        BY <3>3
      <4>2. f[k] = step(f, n - 1)[k]
        BY <2>1
      <4>3. step(f, n - 1)[k] = IF k = 1 THEN ss[k] ELSE f[k - 1] \o ss[k]
        BY <4>1
      <4>4. step(g, n)[k] = IF k = 1 THEN ss[k] ELSE g[k - 1] \o ss[k]
        OBVIOUS
      <4> QED
        BY <3>1, <4>1, <4>2, <4>3, <4>4
    <3> QED
      BY <3>2, <3>3
  <2>3. g = step(g, n)
    BY <2>2
  <2> HIDE DEF g
  <2>4. \E h : h = step(h, n)
    BY <2>3
  <2>5. n \in 0..N
    OBVIOUS
  <2> HIDE DEF step
  <2> QED
    BY <2>4, <2>5
<1>3. N \in K
  <2>1. 0..N \subseteq K
    BY <1>0, <1>1, <1>2, UpTo
  <2> HIDE DEF K, N
  <2> QED
    BY <1>0, <2>1
<1> DEFINE first == CHOOSE f : f = step(f, N)
<1>4. first = step(first, N)
  BY <1>3
<1>5. FlattenSeq(ss) = IF N = 0 THEN ss ELSE first[N]
  BY DEF FlattenSeq
<1> HIDE DEF first
<1>6. \A n \in 1..N : first[n] = IF n = 1 THEN ss[n] ELSE first[n - 1] \o ss[n]
  <2>1. \A n \in 1..N : first[n] = step(first, N)[n]
    BY <1>4
  <2>2. \A n \in 1..N : step(first, N)[n] = IF n = 1 THEN ss[n] ELSE first[n - 1] \o ss[n]
    OBVIOUS
  <2> HIDE DEF step
  <2> QED
    BY <2>1, <2>2
<1> DEFINE whole == [n \in 0..N |-> IF n = 0 THEN <<>> ELSE first[n]]
<1>7. Joins(whole, ss)
  <2>1. whole[0] = <<>>
    BY <1>0
  <2>2. ASSUME NEW n \in 1..N PROVE whole[n] = whole[n - 1] \o ss[n]
    <3>1. whole[n] = first[n] /\ n - 1 \in 0..N
      BY <1>0
    <3>2. CASE n = 1
      <4>1. whole[n - 1] = <<>> /\ first[n] = ss[n]
        BY <1>6, <3>2
      <4>2. <<>> \o ss[n] = ss[n]
        BY <1>0, ConcatEmptySeq
      <4> HIDE DEF whole
      <4> QED
        BY <3>1, <4>1, <4>2
    <3>3. CASE n # 1
      <4>1. whole[n - 1] = first[n - 1]
        BY <3>3
      <4> HIDE DEF whole
      <4> QED
        BY <1>6, <3>1, <3>3, <4>1
    <3> QED
      BY <3>2, <3>3
  <2> HIDE DEF whole
  <2> QED
    BY <2>1, <2>2 DEF Joins
<1>8. FlattenSeq(ss) = whole[N]
  <2>1. N = 0 => ss = <<>>
    OBVIOUS
  <2> QED
    BY <1>0, <1>5, <2>1
<1> HIDE DEF whole
<1> QED
  BY <1>7, <1>8

\* Two lists with the same first parts join to the same up to there.
LEMMA JoinAlike ==
  ASSUME NEW T, NEW ss \in Seq(Seq(T)), NEW tt \in Seq(Seq(T)), NEW N \in Nat,
         N <= Len(ss), N <= Len(tt), \A n \in 1..N : ss[n] = tt[n],
         NEW f, NEW g, Joins(f, ss), Joins(g, tt)
  PROVE  f[N] = g[N]
<1> DEFINE K == {n \in 0..N : f[n] = g[n]}
<1>1. 0 \in K
  BY DEF Joins
<1>2. ASSUME NEW n \in 1..N, n - 1 \in K PROVE n \in K
  <2>1. f[n - 1] = g[n - 1] /\ n \in 0..N /\ n \in 1..Len(ss) /\ n \in 1..Len(tt) /\ ss[n] = tt[n]
    BY <1>2
  <2>2. f[n] = f[n - 1] \o ss[n] /\ g[n] = g[n - 1] \o tt[n]
    BY <2>1 DEF Joins
  <2>3. f[n] = g[n]
    BY <2>1, <2>2
  <2> QED
    BY <2>1, <2>3
<1>3. 0..N \subseteq K
  BY <1>1, <1>2, UpTo
<1> QED
  BY <1>3

\* FlattenSeq is a sequence, and joins: nothing, one more part, two sequences of parts.
LEMMA FlatType ==
  ASSUME NEW T, NEW ss \in Seq(Seq(T))
  PROVE  FlattenSeq(ss) \in Seq(T)
<1> DEFINE N == Len(ss)
<1>1. N \in Nat /\ \A n \in 1..N : ss[n] \in Seq(T)
  OBVIOUS
<1>2. PICK f : Joins(f, ss) /\ FlattenSeq(ss) = f[N]
  BY FlatJoins
<1> DEFINE K == {n \in 0..N : f[n] \in Seq(T)}
<1>3. 0 \in K
  <2>1. f[0] = <<>> /\ f[0] \in Seq(T)
    BY <1>2, EmptySeq DEF Joins
  <2>2. 0 \in 0..N
    BY <1>1
  <2> QED
    BY <2>1, <2>2
<1>4. ASSUME NEW n \in 1..N, n - 1 \in K PROVE n \in K
  <2>1. f[n] = f[n - 1] \o ss[n] /\ f[n - 1] \in Seq(T) /\ ss[n] \in Seq(T)
    BY <1>1, <1>2, <1>4 DEF Joins
  <2>2. f[n] \in Seq(T)
    BY <2>1, ConcatProperties
  <2> QED
    BY <2>2
<1>5. 0..N \subseteq K
  BY <1>1, <1>3, <1>4, UpTo
<1> HIDE DEF N
<1> QED
  BY <1>1, <1>2, <1>5

\* FlattenSeq of nothing, of a concatenation and of one list more.
LEMMA FlatNone == FlattenSeq(<<>>) = <<>>
BY DEF FlattenSeq

LEMMA FlatConcat ==
  ASSUME NEW T, NEW ss \in Seq(Seq(T)), NEW tt \in Seq(Seq(T))
  PROVE  FlattenSeq(ss \o tt) = FlattenSeq(ss) \o FlattenSeq(tt)
<1> DEFINE M == Len(ss)
           N == Len(tt)
           st == ss \o tt
<1>1. M \in Nat /\ N \in Nat /\ st \in Seq(Seq(T)) /\ Len(st) = M + N
  BY ConcatProperties
<1>2. /\ \A n \in 1..M : st[n] = ss[n]
      /\ \A n \in 1..N : st[M + n] = tt[n]
  <2>1. \A i \in 1..(M + N) : st[i] = IF i <= M THEN ss[i] ELSE tt[i - M]
    BY ConcatProperties
  <2> HIDE DEF st, M, N
  <2>2. ASSUME NEW n \in 1..N PROVE M + n \in 1..(M + N) /\ ~(M + n <= M) /\ (M + n) - M = n
    BY <1>1
  <2>3. \A n \in 1..M : n \in 1..(M + N) /\ n <= M
    BY <1>1
  <2>4. \A n \in 1..N : st[M + n] = tt[n]
    BY <2>1, <2>2
  <2> QED
    BY <2>1, <2>3, <2>4
<1> HIDE DEF st
<1>3. PICK f : Joins(f, st) /\ FlattenSeq(st) = f[M + N]
  BY <1>1, FlatJoins
<1>4. PICK g : Joins(g, ss) /\ FlattenSeq(ss) = g[M]
  BY FlatJoins
<1>5. PICK h : Joins(h, tt) /\ FlattenSeq(tt) = h[N]
  BY FlatJoins
<1>6. f[M] = FlattenSeq(ss) /\ FlattenSeq(ss) \in Seq(T)
  <2>1. M <= Len(ss) /\ M <= Len(st)
    BY <1>1
  <2>2. f[M] = g[M]
    <3>1. \A n \in 1..M : st[n] = ss[n]
      BY <1>2
    <3>2. M \in Nat /\ st \in Seq(Seq(T)) /\ Joins(f, st) /\ Joins(g, ss)
      BY <1>1, <1>3, <1>4
    <3> HIDE DEF M
    <3> QED
      BY <2>1, <3>1, <3>2, JoinAlike
  <2> QED
    BY <1>4, <2>2, FlatType
<1> HIDE DEF M, N
<1> DEFINE s == f[M]
           K == {n \in 0..N : h[n] \in Seq(T) /\ f[M + n] = s \o h[n]}
<1>7. 0 \in K
  <2>1. h[0] = <<>> /\ s \o <<>> = s
    BY <1>5, <1>6, ConcatEmptySeq DEF Joins
  <2>2. M + 0 = M
    BY <1>1
  <2> HIDE DEF s
  <2>3. f[M + 0] = s
    BY <2>2 DEF s
  <2>4. h[0] \in Seq(T) /\ f[M + 0] = s \o h[0]
    BY <2>1, <2>3, EmptySeq
  <2>5. 0 \in 0..N
    BY <1>1
  <2> QED
    BY <2>4, <2>5
<1>8. ASSUME NEW n \in 1..N, n - 1 \in K PROVE n \in K
  <2>1. h[n - 1] \in Seq(T) /\ f[M + (n - 1)] = s \o h[n - 1]
    BY <1>8
  <2>2. h[n] = h[n - 1] \o tt[n] /\ tt[n] \in Seq(T)
    <3>1. n \in 1..Len(tt) /\ tt[n] \in Seq(T)
      BY DEF N
    <3> QED
      BY <1>5, <3>1 DEF Joins
  <2>3. M + n \in 1..Len(st) /\ (M + n) - 1 = M + (n - 1)
    BY <1>1
  <2>4. f[M + n] = f[M + (n - 1)] \o tt[n]
    BY <1>2, <1>3, <2>3 DEF Joins
  <2>5. f[M + n] = s \o h[n] /\ h[n] \in Seq(T)
    <3> HIDE DEF s
    <3>1. s \in Seq(T)
      BY <1>6 DEF s
    <3>2. (s \o h[n - 1]) \o tt[n] = s \o (h[n - 1] \o tt[n])
      <4> DEFINE x == h[n - 1]
                 y == tt[n]
      <4>1. x \in Seq(T) /\ y \in Seq(T)
        BY <2>1, <2>2
      <4> HIDE DEF x, y
      <4>2. (s \o x) \o y = s \o (x \o y)
        BY <3>1, <4>1, ConcatAssociative, SMTT(30)
      <4> QED
        BY <4>2 DEF x, y
    <3>3. h[n] \in Seq(T)
      BY <2>1, <2>2, ConcatProperties
    <3> QED
      BY <2>1, <2>2, <2>4, <3>2, <3>3
  <2>6. n \in 0..N
    OBVIOUS
  <2> HIDE DEF s
  <2> QED
    BY <2>5, <2>6
<1>9. 0..N \subseteq K
  <2> HIDE DEF K
  <2> QED
    BY <1>1, <1>7, <1>8, UpTo
<1>10. f[M + N] = s \o h[N]
  <2>1. N \in K
    <3> HIDE DEF K
    <3> QED
      BY <1>1, <1>9
  <2> QED
    BY <2>1
<1> QED
  BY <1>3, <1>5, <1>6, <1>10 DEF st

LEMMA FlatMore ==
  ASSUME NEW T, NEW ss \in Seq(Seq(T)), NEW t \in Seq(T)
  PROVE  FlattenSeq(Append(ss, t)) = FlattenSeq(ss) \o t
<1>1. Append(ss, t) = ss \o <<t>> /\ <<t>> \in Seq(Seq(T))
  BY AppendIsConcat
<1>2. FlattenSeq(<<t>>) = t
  <2>1. <<t>> = Append(<<>>, t)
    OBVIOUS
  <2>2. PICK f : Joins(f, <<t>>) /\ FlattenSeq(<<t>>) = f[1]
    <3>1. Len(<<t>>) = 1
      OBVIOUS
    <3> QED
      BY <1>1, <3>1, FlatJoins
  <2>3. f[1] = f[0] \o t /\ f[0] = <<>>
    <3>1. 1 \in 1..Len(<<t>>) /\ 1 - 1 = 0 /\ <<t>>[1] = t
      OBVIOUS
    <3> QED
      BY <2>2, <3>1 DEF Joins
  <2> QED
    BY <2>2, <2>3, ConcatEmptySeq
<1> QED
  BY <1>1, <1>2, FlatConcat

\* FirstOf: its length, its elements, and that it is the whole of a short list.
LEMMA FirstOfIs ==
  ASSUME NEW T, NEW s \in Seq(T), NEW n \in Nat
  PROVE  /\ FirstOf(s, n) \in Seq(T)
         /\ Len(FirstOf(s, n)) = IF Len(s) < n THEN Len(s) ELSE n
         /\ \A i \in 1..Len(FirstOf(s, n)) : FirstOf(s, n)[i] = s[i]
         /\ Len(s) <= n => FirstOf(s, n) = s
<1> DEFINE k == IF Len(s) < n THEN Len(s) ELSE n
<1>1. Len(s) \in Nat /\ \A i \in 1..Len(s) : s[i] \in T
  OBVIOUS
<1>2. k \in 0..Len(s) /\ (Len(s) <= n => k = Len(s))
  BY <1>1
<1>3. FirstOf(s, n) = SubSeq(s, 1, k)
  BY DEF FirstOf
<1> HIDE DEF k
<1>4. /\ SubSeq(s, 1, k) \in Seq(T) /\ Len(SubSeq(s, 1, k)) = k
      /\ \A i \in 1..k : SubSeq(s, 1, k)[i] = s[i]
  BY <1>1, <1>2
<1>5. Len(s) <= n => SubSeq(s, 1, k) = s
  BY <1>2, SubSeqFull
<1> QED
  BY <1>2, <1>3, <1>4, <1>5 DEF k

\* The first n members of a sequence that goes on.
LEMMA FirstOfConcat ==
  ASSUME NEW T, NEW s \in Seq(T), NEW t \in Seq(T), NEW n \in Nat, n <= Len(s)
  PROVE  FirstOf(s \o t, n) = FirstOf(s, n)
<1>1. s \o t \in Seq(T) /\ Len(s \o t) = Len(s) + Len(t) /\ Len(s) \in Nat /\ Len(t) \in Nat
  BY ConcatProperties
<1>2. /\ FirstOf(s \o t, n) \in Seq(T) /\ Len(FirstOf(s \o t, n)) = n
      /\ \A i \in 1..n : FirstOf(s \o t, n)[i] = (s \o t)[i]
  <2> DEFINE st == s \o t
  <2>1. st \in Seq(T) /\ Len(st) \in Nat /\ n <= Len(st)
    BY <1>1
  <2> HIDE DEF st
  <2>2. /\ FirstOf(st, n) \in Seq(T) /\ Len(FirstOf(st, n)) = IF Len(st) < n THEN Len(st) ELSE n
        /\ \A i \in 1..Len(FirstOf(st, n)) : FirstOf(st, n)[i] = st[i]
    BY <2>1, FirstOfIs
  <2>3. Len(FirstOf(st, n)) = n
    BY <2>1, <2>2
  <2>4. /\ FirstOf(st, n) \in Seq(T) /\ Len(FirstOf(st, n)) = n
        /\ \A i \in 1..n : FirstOf(st, n)[i] = st[i]
    BY <2>2, <2>3
  <2> QED
    BY <2>4 DEF st
<1>3. /\ FirstOf(s, n) \in Seq(T) /\ Len(FirstOf(s, n)) = n
      /\ \A i \in 1..n : FirstOf(s, n)[i] = s[i]
  BY <1>1, FirstOfIs
<1>4. \A i \in 1..n : (s \o t)[i] = s[i]
  BY <1>1
<1> QED
  BY <1>2, <1>3, <1>4, SeqEqual

Caps == Target \in Nat \ {0} /\ MaxPapers \in Nat \ {0} /\ MaxPerPaper \in Nat \ {0}
\* The caps are natural numbers.
LEMMA CapsHold == Caps
BY CapsAssumption DEF Caps

\* The rows of papers in order: of none, of two lists, of one paper more.
Parts(papers, lines) == [i \in DOMAIN papers |-> FirstOf(lines[papers[i]], MaxPerPaper)]

\* The capped rows of each paper.
LEMMA PartsAre ==
  ASSUME NEW lines \in [Paper -> Seq(Thm)], NEW papers \in Seq(Paper)
  PROVE  /\ Parts(papers, lines) \in Seq(Seq(Thm)) /\ Len(Parts(papers, lines)) = Len(papers)
         /\ \A i \in 1..Len(papers) : Parts(papers, lines)[i] = FirstOf(lines[papers[i]], MaxPerPaper)
<1>1. \A i \in DOMAIN papers : FirstOf(lines[papers[i]], MaxPerPaper) \in Seq(Thm)
  <2> SUFFICES ASSUME NEW i \in DOMAIN papers PROVE FirstOf(lines[papers[i]], MaxPerPaper) \in Seq(Thm)
    OBVIOUS
  <2>1. lines[papers[i]] \in Seq(Thm) /\ MaxPerPaper \in Nat
    BY CapsHold DEF Caps
  <2> QED
    BY <2>1, FirstOfIs
<1>2. Len(papers) \in Nat /\ DOMAIN papers = 1..Len(papers)
  OBVIOUS
<1>3. Parts(papers, lines) \in [1..Len(papers) -> Seq(Thm)]
  BY <1>1, <1>2 DEF Parts
<1>4. Parts(papers, lines) \in Seq(Seq(Thm)) /\ Len(Parts(papers, lines)) = Len(papers)
  BY <1>2, <1>3
<1> QED
  BY <1>2, <1>4 DEF Parts

\* RowsInOrder: its type, and of nothing, of a concatenation and of one paper more.
LEMMA RowsType ==
  ASSUME NEW lines \in [Paper -> Seq(Thm)], NEW papers \in Seq(Paper)
  PROVE  RowsInOrder(papers, lines, MaxPerPaper) \in Seq(Thm)
BY PartsAre, FlatType DEF RowsInOrder, Parts

LEMMA RowsNone == \A lines : RowsInOrder(<<>>, lines, MaxPerPaper) = <<>>
<1>1. \A lines : Parts(<<>>, lines) = <<>>
  BY DEF Parts
<1> QED
  BY <1>1, FlatNone DEF RowsInOrder, Parts

LEMMA RowsConcat ==
  ASSUME NEW lines \in [Paper -> Seq(Thm)], NEW papers \in Seq(Paper), NEW more \in Seq(Paper)
  PROVE  RowsInOrder(papers \o more, lines, MaxPerPaper)
           = RowsInOrder(papers, lines, MaxPerPaper) \o RowsInOrder(more, lines, MaxPerPaper)
<1> DEFINE both == papers \o more
           p == Parts(papers, lines)
           q == Parts(more, lines)
           pq == Parts(both, lines)
<1>1. /\ both \in Seq(Paper) /\ Len(both) = Len(papers) + Len(more)
      /\ Len(papers) \in Nat /\ Len(more) \in Nat
      /\ \A i \in 1..(Len(papers) + Len(more)) :
           both[i] = IF i <= Len(papers) THEN papers[i] ELSE more[i - Len(papers)]
  BY ConcatProperties
<1> HIDE DEF both
<1>2. /\ p \in Seq(Seq(Thm)) /\ Len(p) = Len(papers)
      /\ \A i \in 1..Len(papers) : p[i] = FirstOf(lines[papers[i]], MaxPerPaper)
  BY PartsAre
<1>3. /\ q \in Seq(Seq(Thm)) /\ Len(q) = Len(more)
      /\ \A i \in 1..Len(more) : q[i] = FirstOf(lines[more[i]], MaxPerPaper)
  BY PartsAre
<1>4. /\ pq \in Seq(Seq(Thm)) /\ Len(pq) = Len(both)
      /\ \A i \in 1..Len(both) : pq[i] = FirstOf(lines[both[i]], MaxPerPaper)
  BY <1>1, PartsAre
<1> HIDE DEF p, q, pq
<1>5. /\ p \o q \in Seq(Seq(Thm)) /\ Len(p \o q) = Len(papers) + Len(more)
      /\ \A i \in 1..(Len(papers) + Len(more)) :
           (p \o q)[i] = IF i <= Len(papers) THEN p[i] ELSE q[i - Len(papers)]
  <2>1. /\ p \o q \in Seq(Seq(Thm)) /\ Len(p \o q) = Len(p) + Len(q)
        /\ \A i \in 1..(Len(p) + Len(q)) : (p \o q)[i] = IF i <= Len(p) THEN p[i] ELSE q[i - Len(p)]
    <3>1. p \in Seq(Seq(Thm)) /\ q \in Seq(Seq(Thm))
      BY <1>2, <1>3
    <3> QED
      BY <3>1, ConcatProperties
  <2> DEFINE r == p \o q
  <2> HIDE DEF r
  <2>2. /\ r \in Seq(Seq(Thm)) /\ Len(r) = Len(p) + Len(q)
        /\ \A i \in 1..(Len(p) + Len(q)) : r[i] = IF i <= Len(p) THEN p[i] ELSE q[i - Len(p)]
    BY <2>1 DEF r
  <2>3. Len(p) = Len(papers) /\ Len(q) = Len(more)
    BY <1>2, <1>3
  <2>4. /\ r \in Seq(Seq(Thm)) /\ Len(r) = Len(papers) + Len(more)
        /\ \A i \in 1..(Len(papers) + Len(more)) :
             r[i] = IF i <= Len(papers) THEN p[i] ELSE q[i - Len(papers)]
    BY <2>2, <2>3
  <2> QED
    BY <2>4 DEF r
<1>6. ASSUME NEW i \in 1..Len(pq) PROVE pq[i] = (p \o q)[i]
  <2> DEFINE r == p \o q
             n == Len(papers)
  <2>0. i \in 1..(Len(papers) + Len(more)) /\ i \in 1..Len(both)
    BY <1>1, <1>4
  <2>3. r[i] = IF i <= n THEN p[i] ELSE q[i - n]
    BY <1>5, <2>0
  <2>4. both[i] = IF i <= n THEN papers[i] ELSE more[i - n]
    BY <1>1, <2>0
  <2>5. pq[i] = FirstOf(lines[both[i]], MaxPerPaper)
    BY <1>4
  <2> HIDE DEF r
  <2>1. CASE i <= n
    <3>1. i \in 1..Len(papers)
      BY <1>1, <2>0, <2>1
    <3>2. p[i] = FirstOf(lines[papers[i]], MaxPerPaper)
      BY <1>2, <3>1
    <3> QED
      BY <2>1, <2>3, <2>4, <2>5, <3>2 DEF r
  <2>2. CASE ~(i <= n)
    <3>1. i - n \in 1..Len(more)
      BY <1>1, <2>0, <2>2
    <3>2. q[i - n] = FirstOf(lines[more[i - n]], MaxPerPaper)
      BY <1>3, <3>1
    <3> QED
      BY <2>2, <2>3, <2>4, <2>5, <3>2 DEF r
  <2> QED
    BY <2>1, <2>2
<1>7. pq = p \o q
  <2>1. pq \in Seq(Seq(Thm)) /\ p \o q \in Seq(Seq(Thm)) /\ Len(pq) = Len(p \o q)
    BY <1>1, <1>4, <1>5
  <2> DEFINE r == p \o q
  <2>2. \A i \in 1..Len(pq) : pq[i] = r[i]
    BY <1>6
  <2> HIDE DEF r
  <2>3. pq = r
    BY <2>1, <2>2, SeqEqual DEF r
  <2> QED
    BY <2>3 DEF r
<1>8. FlattenSeq(pq) = FlattenSeq(p) \o FlattenSeq(q)
  BY <1>2, <1>3, <1>7, FlatConcat
<1> QED
  BY <1>8 DEF p, q, pq, both, Parts, RowsInOrder

LEMMA RowsMore ==
  ASSUME NEW lines \in [Paper -> Seq(Thm)], NEW papers \in Seq(Paper), NEW p \in Paper
  PROVE  RowsInOrder(Append(papers, p), lines, MaxPerPaper)
           = RowsInOrder(papers, lines, MaxPerPaper) \o FirstOf(lines[p], MaxPerPaper)
<1>1. Append(papers, p) = papers \o <<p>> /\ <<p>> \in Seq(Paper)
  BY AppendIsConcat
<1>2. RowsInOrder(<<p>>, lines, MaxPerPaper) = FirstOf(lines[p], MaxPerPaper)
  <2> DEFINE one == FirstOf(lines[p], MaxPerPaper)
             parts == Parts(<<p>>, lines)
  <2>1. parts \in Seq(Seq(Thm)) /\ Len(parts) = 1 /\ parts[1] = one
    <3>1. Len(<<p>>) = 1 /\ <<p>>[1] = p
      OBVIOUS
    <3>2. /\ parts \in Seq(Seq(Thm)) /\ Len(parts) = Len(<<p>>)
          /\ \A i \in 1..Len(<<p>>) : parts[i] = FirstOf(lines[<<p>>[i]], MaxPerPaper)
      BY <1>1, PartsAre
    <3> HIDE DEF parts
    <3> QED
      BY <3>1, <3>2
  <2> HIDE DEF parts
  <2>2. parts[1] \in Seq(Thm)
    <3>1. 1 \in 1..Len(parts)
      BY <2>1
    <3> QED
      BY <2>1, <3>1, ElementOfSeq
  <2>3. parts = Append(<<>>, parts[1]) /\ <<>> \in Seq(Seq(Thm))
    BY <2>1
  <2>4. FlattenSeq(parts) = FlattenSeq(<<>>) \o parts[1]
    BY <2>2, <2>3, FlatMore
  <2>5. FlattenSeq(parts) = parts[1]
    BY <2>2, <2>4, FlatNone, ConcatEmptySeq
  <2> QED
    BY <2>1, <2>5 DEF parts, Parts, RowsInOrder
<1> QED
  BY <1>1, <1>2, RowsConcat

\* RowsInOrder reads the rows of its papers only.
LEMMA RowsSame ==
  ASSUME NEW lines, NEW other, NEW papers \in Seq(Paper), \A p \in ToSet(papers) : lines[p] = other[p]
  PROVE  RowsInOrder(papers, lines, MaxPerPaper) = RowsInOrder(papers, other, MaxPerPaper)
<1>1. \A i \in DOMAIN papers : lines[papers[i]] = other[papers[i]]
  BY DEF ToSet
<1>2. Parts(papers, lines) = Parts(papers, other)
  BY <1>1 DEF Parts
<1> QED
  BY <1>2 DEF RowsInOrder, Parts

\* Normalise is the end of a recursion over the prefixes.
EmptyAccount == [records |-> <<>>, quarantined |-> <<>>, dropped |-> 0]
Accepts(f, s) == f[0] = EmptyAccount /\ \A n \in 1..Len(s) : f[n] = Accept(f[n - 1], s[n])

\* Normalise accepts its records from the left.
LEMMA NormaliseAccepts ==
  ASSUME NEW s \in Seq(Thm)
  PROVE  \E f : Accepts(f, s) /\ Normalise(s) = f[Len(s)]
<1> DEFINE N == Len(s)
           step(f, k) == [n \in 0..k |-> IF n = 0 THEN EmptyAccount ELSE Accept(f[n - 1], s[n])]
           K == {k \in 0..N : \E f : f = step(f, k)}
<1>0. N \in Nat
  OBVIOUS
<1>1. 0 \in K
  <2> DEFINE f == [n \in 0..0 |-> EmptyAccount]
  <2>1. f = step(f, 0)
    OBVIOUS
  <2>2. \E h : h = step(h, 0)
    BY <2>1
  <2> HIDE DEF step
  <2> QED
    BY <1>0, <2>2
<1>2. ASSUME NEW n \in 1..N, n - 1 \in K PROVE n \in K
  <2>1. PICK f : f = step(f, n - 1)
    BY <1>2
  <2> DEFINE g == [k \in 0..n |-> IF k < n THEN f[k] ELSE Accept(f[n - 1], s[n])]
  <2>2. \A k \in 0..n : g[k] = step(g, n)[k]
    <3> SUFFICES ASSUME NEW k \in 0..n PROVE g[k] = step(g, n)[k]
      OBVIOUS
    <3>1. k > 0 => k - 1 \in 0..n /\ k - 1 < n /\ g[k - 1] = f[k - 1]
      OBVIOUS
    <3>2. CASE k = n
      BY <3>1, <3>2
    <3>3. CASE k < n
      <4>1. k \in 0..(n - 1) /\ g[k] = f[k]
        BY <3>3
      <4>2. f[k] = step(f, n - 1)[k]
        BY <2>1
      <4>3. step(f, n - 1)[k] = IF k = 0 THEN EmptyAccount ELSE Accept(f[k - 1], s[k])
        BY <4>1
      <4>4. step(g, n)[k] = IF k = 0 THEN EmptyAccount ELSE Accept(g[k - 1], s[k])
        OBVIOUS
      <4> QED
        BY <3>1, <4>1, <4>2, <4>3, <4>4
    <3> QED
      BY <3>2, <3>3
  <2>3. g = step(g, n)
    BY <2>2
  <2> HIDE DEF g
  <2>4. \E h : h = step(h, n)
    BY <2>3
  <2>5. n \in 0..N
    OBVIOUS
  <2> HIDE DEF step
  <2> QED
    BY <2>4, <2>5
<1>3. N \in K
  <2>1. 0..N \subseteq K
    BY <1>0, <1>1, <1>2, UpTo
  <2> HIDE DEF K, N
  <2> QED
    BY <1>0, <2>1
<1> DEFINE first == CHOOSE f : f = step(f, N)
<1>4. first = step(first, N)
  BY <1>3
<1>5. Normalise(s) = first[N]
  BY DEF Normalise, EmptyAccount
<1> HIDE DEF first
<1>6. Accepts(first, s)
  <2>1. \A n \in 0..N : first[n] = step(first, N)[n]
    BY <1>4
  <2>2. \A n \in 0..N : step(first, N)[n] = IF n = 0 THEN EmptyAccount ELSE Accept(first[n - 1], s[n])
    OBVIOUS
  <2>3. 0 \in 0..N /\ \A n \in 1..N : n \in 0..N /\ n # 0
    BY <1>0
  <2> HIDE DEF step
  <2> QED
    BY <2>1, <2>2, <2>3 DEF Accepts
<1> QED
  BY <1>5, <1>6

Account == [records : Seq(Thm), quarantined : Seq(Thm), dropped : Nat]

\* What is accepted stays, nothing else comes in, and the record is accounted for.
LEMMA AcceptIs ==
  ASSUME NEW acc \in Account, NEW t \in Thm
  PROVE  /\ Accept(acc, t) \in Account
         /\ ToSet(acc.records) \subseteq ToSet(Accept(acc, t).records)
         /\ ToSet(Accept(acc, t).records) \subseteq ToSet(acc.records) \cup {t}
         /\ AccountedFor(t, ToSet(Accept(acc, t).records))
<1> DEFINE r == acc.records
           q == acc.quarantined
           more == Append(r, t)
<1>1. r \in Seq(Thm) /\ q \in Seq(Thm) /\ acc.dropped \in Nat
  BY DEF Account
<1>2. acc = [records |-> r, quarantined |-> q, dropped |-> acc.dropped]
  BY DEF Account
<1>3. more \in Seq(Thm) /\ Append(q, t) \in Seq(Thm)
  BY <1>1
<1>4. ToSet(more) = ToSet(r) \cup {t}
  <2> HIDE DEF r
  <2>1. DOMAIN r = 1..Len(r) /\ DOMAIN more = 1..(Len(r) + 1) /\ Len(r) \in Nat
    BY <1>1
  <2>2. more[Len(r) + 1] = t /\ \A i \in 1..Len(r) : more[i] = r[i]
    BY <1>1
  <2>3. 1..(Len(r) + 1) = 1..Len(r) \cup {Len(r) + 1}
    BY <2>1
  <2> HIDE DEF more
  <2> QED
    BY <2>1, <2>2, <2>3 DEF ToSet
<1>5. {Key[r[i]] : i \in DOMAIN r} = {Key[u] : u \in ToSet(r)}
  BY DEF ToSet
<1> DEFINE known == Key[t] \in {Key[r[i]] : i \in DOMAIN r}
           bad == t \in BadField \/ (Flagged(t) /\ Guard = "strict")
<1>6. CASE t \in NoStatement
  <2>1. Accept(acc, t) = [records |-> r, quarantined |-> Append(q, t), dropped |-> acc.dropped]
    BY <1>2, <1>6 DEF Accept
  <2> HIDE DEF r, q
  <2>3. Accept(acc, t).records = r /\ Accept(acc, t) \in Account
    BY <1>1, <1>3, <2>1 DEF Account
  <2> QED
    BY <1>6, <2>3 DEF AccountedFor, r
<1>7. CASE t \notin NoStatement /\ known
  <2>1. Accept(acc, t) = [records |-> r, quarantined |-> q, dropped |-> acc.dropped + 1]
    BY <1>2, <1>7 DEF Accept
  <2>2. Key[t] \in {Key[u] : u \in ToSet(r)}
    BY <1>5, <1>7
  <2> HIDE DEF r, q
  <2>3. Accept(acc, t).records = r /\ Accept(acc, t) \in Account
    BY <1>1, <2>1 DEF Account
  <2> QED
    BY <2>2, <2>3 DEF AccountedFor, r
<1>8. CASE t \notin NoStatement /\ ~known /\ bad
  <2>1. Accept(acc, t) = [records |-> r, quarantined |-> Append(q, t), dropped |-> acc.dropped]
    BY <1>2, <1>8 DEF Accept
  <2>2. t \in BadField \/ (Guard = "strict" /\ t \in Dangling)
    BY <1>8 DEF Flagged
  <2> HIDE DEF r, q
  <2>3. Accept(acc, t).records = r /\ Accept(acc, t) \in Account
    BY <1>1, <1>3, <2>1 DEF Account
  <2> QED
    BY <2>2, <2>3 DEF AccountedFor, r
<1>9. CASE t \notin NoStatement /\ ~known /\ ~bad
  <2>1. Accept(acc, t) = [records |-> more, quarantined |-> q, dropped |-> acc.dropped]
    BY <1>2, <1>9 DEF Accept
  <2> HIDE DEF r, q, more
  <2>3. Accept(acc, t).records = more /\ Accept(acc, t) \in Account
    BY <1>1, <1>3, <2>1 DEF Account
  <2>4. Key[t] \in {Key[u] : u \in ToSet(more)}
    BY <1>4
  <2> QED
    BY <1>4, <2>3, <2>4 DEF AccountedFor, r
<1> QED
  BY <1>6, <1>7, <1>8, <1>9

\* Every row that goes in has its statement in what comes out, or a reason not to.
LEMMA NormaliseKeeps ==
  ASSUME NEW s \in Seq(Thm)
  PROVE  /\ Normalise(s) \in Account
         /\ ToSet(Normalise(s).records) \subseteq ToSet(s)
         /\ \A t \in ToSet(s) : AccountedFor(t, ToSet(Normalise(s).records))
<1> DEFINE N == Len(s)
<1>1. N \in Nat /\ \A n \in 1..N : s[n] \in Thm /\ s[n] \in ToSet(s)
  BY DEF ToSet
<1>2. PICK f : Accepts(f, s) /\ Normalise(s) = f[N]
  BY NormaliseAccepts
<1> DEFINE Fine(n) == /\ f[n] \in Account /\ ToSet(f[n].records) \subseteq ToSet(s)
                      /\ \A i \in 1..n : AccountedFor(s[i], ToSet(f[n].records))
           K == {n \in 0..N : Fine(n)}
<1>3. 0 \in K
  <2>1. f[0] = EmptyAccount
    BY <1>2 DEF Accepts
  <2>2. EmptyAccount \in Account /\ ToSet(EmptyAccount.records) = {}
    BY DEF EmptyAccount, Account, ToSet
  <2>3. 0 \in 0..N /\ 1..0 = {}
    BY <1>1
  <2> QED
    BY <2>1, <2>2, <2>3
<1>4. ASSUME NEW n \in 1..N, n - 1 \in K PROVE n \in K
  <2> DEFINE acc == f[n - 1]
             new == f[n]
  <2>1. /\ acc \in Account /\ ToSet(acc.records) \subseteq ToSet(s)
        /\ \A i \in 1..(n - 1) : AccountedFor(s[i], ToSet(acc.records))
    BY <1>4
  <2>2. new = Accept(acc, s[n]) /\ s[n] \in Thm /\ s[n] \in ToSet(s)
    BY <1>1, <1>2 DEF Accepts
  <2> HIDE DEF acc, new
  <2>3. /\ new \in Account /\ ToSet(acc.records) \subseteq ToSet(new.records)
        /\ ToSet(new.records) \subseteq ToSet(acc.records) \cup {s[n]}
        /\ AccountedFor(s[n], ToSet(new.records))
    BY <2>1, <2>2, AcceptIs
  <2>4. ASSUME NEW i \in 1..n PROVE AccountedFor(s[i], ToSet(new.records))
    <3>1. CASE i = n
      BY <2>3, <3>1
    <3>2. CASE i # n
      <4>1. i \in 1..(n - 1)
        BY <3>2
      <4>2. AccountedFor(s[i], ToSet(acc.records))
        BY <2>1, <4>1
      <4> QED
        BY <2>3, <4>2 DEF AccountedFor
    <3> QED
      BY <3>1, <3>2
  <2>5. ToSet(new.records) \subseteq ToSet(s)
    BY <2>1, <2>2, <2>3
  <2>6. Fine(n)
    BY <2>3, <2>4, <2>5 DEF new
  <2>7. n \in 0..N
    OBVIOUS
  <2> HIDE DEF Fine
  <2> QED
    BY <2>6, <2>7
<1>5. Fine(N)
  <2> HIDE DEF Fine, N
  <2>1. 0..N \subseteq K
    <3> HIDE DEF K
    <3> QED
      BY <1>1, <1>3, <1>4, UpTo
  <2>2. N \in 0..N
    BY <1>1
  <2> QED
    BY <2>1, <2>2
<1>6. ToSet(s) = {s[i] : i \in 1..N}
  BY DEF ToSet
<1> QED
  BY <1>2, <1>5, <1>6

\* The surplus: what normalise keeps of it, less what the handoff has.
LEMMA SurplusIs ==
  ASSUME NEW handoff, NEW s \in Seq(Thm)
  PROVE  ToSet(SurplusRecords(handoff, s)) = ToSet(Normalise(s).records) \ ToSet(handoff)
<1> DEFINE pool == Normalise(s).records
           places == {i \in DOMAIN pool : pool[i] \notin ToSet(handoff)}
<1>1. pool \in Seq(Thm)
  BY NormaliseKeeps DEF Account
<1>2. SurplusRecords(handoff, s) = Picked(pool, places)
  BY DEF SurplusRecords
<1> HIDE DEF pool
<1>3. places \in SUBSET (DOMAIN pool)
  OBVIOUS
<1>4. ToSet(Picked(pool, places)) = {pool[i] : i \in places}
  <2> HIDE DEF places
  <2> QED
    BY <1>1, <1>3, PickedIs
<1>5. {pool[i] : i \in places} = ToSet(pool) \ ToSet(handoff)
  <2>1. ToSet(pool) = {pool[i] : i \in DOMAIN pool}
    BY DEF ToSet
  <2> QED
    BY <2>1
<1> QED
  BY <1>2, <1>4, <1>5 DEF pool

-----------------------------------------------------------------------------
(* The listing: what counts of it up to a place.                             *)

\* What the constants of the listing are.
LEMMA ListingIs ==
  /\ Listing \in Seq(Paper) /\ Len(Listing) \in Nat /\ DOMAIN Listing = 1..Len(Listing)
  /\ Counted \in SUBSET (DOMAIN Listing)
  /\ \A i \in DOMAIN Listing : Listing[i] \in Paper
<1>1. Listing \in Seq(Paper)
  BY ListingAssumption
<1>2. Counted \in SUBSET (DOMAIN Listing)
  BY DEF Counted, Counting
<1> HIDE DEF Counted
<1> QED
  BY <1>1, <1>2

\* The papers that count up to a place: how many, and which at either end.
LEMMA BehindIs ==
  ASSUME NEW n \in Int
  PROVE  /\ Behind(n) \in SUBSET (DOMAIN Listing) /\ IsFiniteSet(Behind(n))
         /\ Cardinality(Behind(n)) \in Nat
         /\ Picked(Listing, Behind(n)) \in Seq(Paper)
         /\ Len(Picked(Listing, Behind(n))) = Cardinality(Behind(n))
         /\ ToSet(Picked(Listing, Behind(n))) = {Listing[i] : i \in Behind(n)}
         /\ n <= 0 => Behind(n) = {}
         /\ n >= Len(Listing) => Behind(n) = Counted
<1>1. Listing \in Seq(Paper) /\ Counted \in SUBSET (DOMAIN Listing) /\ DOMAIN Listing = 1..Len(Listing)
      /\ Len(Listing) \in Nat
  BY ListingIs
<1>2. Behind(n) \in SUBSET (DOMAIN Listing)
  BY <1>1 DEF Behind
<1>3. n <= 0 => Behind(n) = {}
  BY <1>1 DEF Behind
<1>4. n >= Len(Listing) => Behind(n) = Counted
  <2>1. \A i \in Counted : i \in 1..Len(Listing)
    BY <1>1
  <2> HIDE DEF Counted
  <2> QED
    BY <1>1, <2>1 DEF Behind
<1>5. /\ IsFiniteSet(Behind(n)) /\ Picked(Listing, Behind(n)) \in Seq(Paper)
      /\ Len(Picked(Listing, Behind(n))) = Cardinality(Behind(n))
      /\ ToSet(Picked(Listing, Behind(n))) = {Listing[i] : i \in Behind(n)}
  <2> DEFINE B == Behind(n)
  <2> HIDE DEF B
  <2> SUFFICES /\ IsFiniteSet(B) /\ Picked(Listing, B) \in Seq(Paper)
               /\ Len(Picked(Listing, B)) = Cardinality(B)
               /\ ToSet(Picked(Listing, B)) = {Listing[i] : i \in B}
    BY DEF B
  <2>1. B \in SUBSET (DOMAIN Listing)
    BY <1>2 DEF B
  <2> QED
    BY <1>1, <2>1, PickedIs
<1>6. Cardinality(Behind(n)) \in Nat
  BY <1>5, FS_CardinalityType
<1> QED
  BY <1>2, <1>3, <1>4, <1>5, <1>6

\* One place further.
LEMMA BehindMore ==
  ASSUME NEW n \in Nat
  PROVE  /\ n + 1 \notin Counted => Behind(n + 1) = Behind(n)
         /\ n + 1 \in Counted =>
              /\ Cardinality(Behind(n + 1)) = Cardinality(Behind(n)) + 1
              /\ Picked(Listing, Behind(n + 1)) = Append(Picked(Listing, Behind(n)), Listing[n + 1])
<1> DEFINE B == Behind(n)
           k == n + 1
<1>1. Counted \in SUBSET Nat /\ Counted \in SUBSET (DOMAIN Listing)
  BY ListingIs
<1>2. k \notin Counted => Behind(k) = B
  <2> HIDE DEF Counted
  <2>1. \A i \in Counted : i # k => (i <= k <=> i <= n)
    BY <1>1
  <2> QED
    BY <2>1 DEF Behind
<1>3. k \in Counted => Behind(k) = B \cup {k}
  <2> HIDE DEF Counted
  <2>1. \A i \in Counted : i # k => (i <= k <=> i <= n)
    BY <1>1
  <2> QED
    BY <2>1 DEF Behind
<1>4. \A i \in B : i < k /\ i \in Nat
  BY <1>1 DEF Behind
<1>5. B \in SUBSET (DOMAIN Listing) /\ IsFiniteSet(B) /\ k \notin B
  BY <1>4, BehindIs
<1> HIDE DEF B
<1>6. ASSUME k \in Counted
      PROVE  /\ Cardinality(Behind(k)) = Cardinality(B) + 1
             /\ Picked(Listing, Behind(k)) = Append(Picked(Listing, B), Listing[k])
  <2>1. k \in DOMAIN Listing /\ Listing \in Seq(Paper)
    BY <1>1, <1>6, ListingIs
  <2> HIDE DEF k
  <2>2. Cardinality(B \cup {k}) = Cardinality(B) + 1
    BY <1>5, FS_AddElement
  <2>3. Picked(Listing, B \cup {k}) = Append(Picked(Listing, B), Listing[k])
    BY <1>4, <1>5, <2>1, PickedMore
  <2> QED
    BY <1>3, <1>6, <2>2, <2>3
<1> QED
  BY <1>2, <1>6 DEF B

\* What is mined begins with what counts up to a place, as long as that fits the cap,
\* and is just that at the cap and at the end of the listing.
LEMMA MinedBegins ==
  ASSUME adapter = "api", NEW n \in Nat, Cardinality(Behind(n)) <= MaxPapers
  PROVE  \E rest \in Seq(Paper) :
           /\ \A skipped : Mined(skipped) = Picked(Listing, Behind(n)) \o rest
           /\ Cardinality(Behind(n)) >= MaxPapers \/ n >= Len(Listing) => rest = <<>>
<1> DEFINE A == Behind(n)
           B == Counted \ A
           a == Picked(Listing, A)
           b == Picked(Listing, B)
           c == Picked(Listing, Counted)
<1>1. Listing \in Seq(Paper) /\ Counted \in SUBSET (DOMAIN Listing) /\ DOMAIN Listing = 1..Len(Listing)
      /\ Len(Listing) \in Nat /\ MaxPapers \in Nat
  BY ListingIs, CapsHold DEF Caps
<1>2. A \in SUBSET (DOMAIN Listing) /\ B \in SUBSET (DOMAIN Listing) /\ A \cup B = Counted
  <2> HIDE DEF Counted
  <2> QED
    BY <1>1 DEF Behind
<1>3. \A i \in A, j \in B : i < j
  <2> SUFFICES ASSUME NEW i \in A, NEW j \in B PROVE i < j
    OBVIOUS
  <2>1. i <= n /\ ~(j <= n) /\ i \in Nat /\ j \in Nat
    <3> HIDE DEF Counted
    <3> QED
      BY <1>1 DEF Behind
  <2> QED
    BY <2>1
<1>4. c = a \o b
  <2> HIDE DEF A, B, Counted
  <2>1. Picked(Listing, A \cup B) = Picked(Listing, A) \o Picked(Listing, B)
    BY <1>1, <1>2, <1>3, PickedSplit
  <2> QED
    BY <1>2, <2>1
<1>5. a \in Seq(Paper) /\ Len(a) = Cardinality(A) /\ Cardinality(A) \in Nat
  BY BehindIs
<1>6. b \in Seq(Paper) /\ (n >= Len(Listing) => b = <<>>)
  <2>1. b \in Seq(Paper)
    <3> HIDE DEF B
    <3> QED
      BY <1>1, <1>2, PickedIs
  <2>2. n >= Len(Listing) => B = {}
    BY BehindIs
  <2> HIDE DEF B
  <2> QED
    BY <2>1, <2>2, PickedNone
<1>7. \A skipped : Mined(skipped) = FirstOf(c, MaxPapers)
  BY DEF Mined
<1> HIDE DEF c, a, b, A, B
<1>8. c \in Seq(Paper) /\ Len(c) = Len(a) + Len(b) /\ Len(a) \in Nat /\ Len(b) \in Nat
      /\ \A i \in 1..(Len(a) + Len(b)) : c[i] = IF i <= Len(a) THEN a[i] ELSE b[i - Len(a)]
  <2>1. /\ a \o b \in Seq(Paper) /\ Len(a \o b) = Len(a) + Len(b)
        /\ \A i \in 1..(Len(a) + Len(b)) : (a \o b)[i] = IF i <= Len(a) THEN a[i] ELSE b[i - Len(a)]
    BY <1>5, <1>6, ConcatProperties
  <2> QED
    BY <1>4, <1>5, <1>6, <2>1
<1> DEFINE most == MaxPapers - Len(a)
           rest == FirstOf(b, most)
           first == FirstOf(c, MaxPapers)
<1>9. most \in Nat /\ Len(a) <= MaxPapers
  BY <1>1, <1>5 DEF A
<1> HIDE DEF most
<1>10. rest \in Seq(Paper) /\ Len(rest) = (IF Len(b) < most THEN Len(b) ELSE most)
       /\ \A i \in 1..Len(rest) : rest[i] = b[i]
  BY <1>6, <1>9, FirstOfIs
<1>11. first \in Seq(Paper) /\ Len(first) = (IF Len(c) < MaxPapers THEN Len(c) ELSE MaxPapers)
       /\ \A i \in 1..Len(first) : first[i] = c[i]
  BY <1>1, <1>8, FirstOfIs
<1> HIDE DEF rest, first
<1>12. most = MaxPapers - Len(a)
  BY DEF most
<1>13. a \o rest \in Seq(Paper) /\ Len(a \o rest) = Len(a) + Len(rest)
       /\ \A i \in 1..(Len(a) + Len(rest)) : (a \o rest)[i] = IF i <= Len(a) THEN a[i] ELSE rest[i - Len(a)]
  BY <1>5, <1>10, ConcatProperties
<1>14. Len(first) = Len(a) + Len(rest)
  BY <1>1, <1>8, <1>9, <1>10, <1>11, <1>12
<1>15. ASSUME NEW i \in 1..Len(first) PROVE first[i] = (a \o rest)[i]
  <2>1. Len(rest) \in Nat /\ Len(rest) <= Len(b)
    BY <1>8, <1>9, <1>10
  <2>2. i \in 1..(Len(a) + Len(rest)) /\ i \in 1..(Len(a) + Len(b))
    BY <1>8, <1>14, <2>1
  <2>3. ~(i <= Len(a)) => i - Len(a) \in 1..Len(rest)
    BY <1>8, <2>1, <2>2
  <2> QED
    BY <1>8, <1>10, <1>11, <1>13, <2>2, <2>3
<1>16. first = a \o rest
  BY <1>11, <1>13, <1>14, <1>15, SeqEqual
<1>17. Cardinality(A) >= MaxPapers \/ n >= Len(Listing) => rest = <<>>
  <2>1. Cardinality(A) >= MaxPapers => Len(rest) = 0
    BY <1>1, <1>5, <1>8, <1>9, <1>10, <1>12
  <2>2. n >= Len(Listing) => Len(rest) = 0
    BY <1>6, <1>9, <1>10
  <2> QED
    BY <1>10, <2>1, <2>2, EmptySeq
<1> QED
  BY <1>7, <1>10, <1>16, <1>17 DEF first, a, A

-----------------------------------------------------------------------------
(* The path of a bulk run, with the chunks it skipped.                       *)

\* The papers of a chunk rise, and so do the chunks of the path.
LEMMA PapersRise ==
  ASSUME NEW c \in Chunk
  PROVE  /\ PapersOf(c) \in Seq(Paper) /\ Len(PapersOf(c)) \in Nat
         /\ ToSet(PapersOf(c)) = {PapersOf(c)[i] : i \in 1..Len(PapersOf(c))}
         /\ ToSet(PapersOf(c)) \subseteq ToSet(Wanted)
         /\ \A i \in 1..Len(PapersOf(c)) : PapersOf(c)[i] \in Paper /\ PapersOf(c)[i] \in Nat
         /\ \A i, j \in 1..Len(PapersOf(c)) : i < j => PapersOf(c)[i] < PapersOf(c)[j]
<1> DEFINE S == ToSet(Wanted) \cap Members[c]
           s == PapersOf(c)
<1>1. S \in SUBSET Nat /\ IsFiniteSet(S)
  BY PathIs, PapersAssumption, FS_Intersection
<1>2. s = InOrder(S)
  BY DEF PapersOf
<1>3. s \in Seq(Paper) /\ ToSet(s) \subseteq ToSet(Wanted)
  BY PathIs
<1>4. ASSUME NEW i \in 1..Len(s), NEW j \in 1..Len(s), i < j PROVE s[i] < s[j]
  <2> HIDE DEF S, s
  <2> QED
    BY <1>1, <1>2, <1>4, OrderRises
<1> HIDE DEF s
<1>5. Len(s) \in Nat /\ DOMAIN s = 1..Len(s) /\ \A i \in 1..Len(s) : s[i] \in Paper
  BY <1>3
<1>6. ToSet(s) = {s[i] : i \in 1..Len(s)}
  BY <1>5 DEF ToSet
<1> QED
  BY <1>3, <1>4, <1>5, <1>6, PapersAssumption DEF s

\* The needed chunks are in order.
LEMMA NeededRises ==
  \A i, j \in 1..Len(Needed) : i < j => Needed[i] < Needed[j]
<1> DEFINE S == {c \in DOMAIN Members : Members[c] \cap ToSet(Wanted) # {}}
<1>1. DOMAIN Members = 1..Len(Members) /\ Len(Members) \in Nat
  BY PapersAssumption
<1>2. IsFiniteSet(1..Len(Members)) /\ S \in SUBSET (1..Len(Members)) /\ S \in SUBSET Nat
  BY <1>1, FS_Interval, SMTT(30)
<1>3. Needed = InOrder(S)
  BY DEF Needed, ChunksForIds
<1> HIDE DEF S
<1>4. IsFiniteSet(S)
  BY <1>2, FS_Subset
<1> QED
  BY <1>2, <1>3, <1>4, OrderRises

\* What is met: nothing at first, the papers of each chunk that is not skipped.
LEMMA MetIs ==
  ASSUME NEW skipped
  PROVE  /\ Met(0, skipped) = {}
         /\ \A n \in 0..Len(Needed) : Met(n, skipped) \subseteq ToSet(Wanted)
         /\ \A n \in 1..Len(Needed) :
              Met(n, skipped) = Met(n - 1, skipped) \cup
                (IF Needed[n] \in skipped THEN {} ELSE ToSet(PapersOf(Needed[n])))
<1> DEFINE L == Len(Needed)
           P(i) == ToSet(PapersOf(Needed[i]))
           W == ToSet(Wanted)
           At(n) == {i \in 1..n : Needed[i] \notin skipped}
           U(n) == UNION {P(i) : i \in At(n)}
<1>1. L \in Nat /\ \A i \in 1..L : P(i) \subseteq W
  BY PathIs
<1>2. \A n : Met(n, skipped) = U(n)
  BY DEF Met
<1> HIDE DEF L, P, W
<1>3. U(0) = {} /\ \A n \in 0..L : U(n) \subseteq W
  BY <1>1
<1>4. ASSUME NEW n \in 1..L
      PROVE  U(n) = U(n - 1) \cup (IF Needed[n] \in skipped THEN {} ELSE P(n))
  <2>1. 1..n = (1..(n - 1)) \cup {n}
    BY <1>1
  <2>2. CASE Needed[n] \in skipped
    <3>1. At(n) = At(n - 1)
      BY <2>1, <2>2
    <3> HIDE DEF At
    <3> QED
      BY <2>2, <3>1
  <2>3. CASE Needed[n] \notin skipped
    <3>1. At(n) = At(n - 1) \cup {n}
      BY <2>1, <2>3
    <3> HIDE DEF At
    <3> QED
      BY <2>3, <3>1
  <2> QED
    BY <2>2, <2>3
<1> HIDE DEF U
<1> QED
  BY <1>2, <1>3, <1>4 DEF L, P, W

\* What is new in a chunk.
LEMMA FreshIs ==
  ASSUME NEW skipped, NEW n \in 1..Len(Needed)
  PROVE  /\ Fresh(n, skipped) = IF Needed[n] \in skipped THEN {}
              ELSE ToSet(PapersOf(Needed[n])) \ (Met(n - 1, skipped) \cup Exclude \cup Absent)
         /\ Fresh(n, skipped) \in SUBSET Paper /\ Fresh(n, skipped) \in SUBSET Nat
         /\ IsFiniteSet(Fresh(n, skipped))
         /\ InOrder(Fresh(n, skipped)) \in Seq(Paper)
         /\ ToSet(InOrder(Fresh(n, skipped))) = Fresh(n, skipped)
<1> DEFINE F == Fresh(n, skipped)
<1>0. Len(Needed) \in Nat
  BY PathIs
<1>1. F = IF Needed[n] \in skipped THEN {}
          ELSE ToSet(PapersOf(Needed[n])) \ (Met(n - 1, skipped) \cup Exclude \cup Absent)
  <2>1. Met(n, skipped) = Met(n - 1, skipped) \cup
          (IF Needed[n] \in skipped THEN {} ELSE ToSet(PapersOf(Needed[n])))
    BY MetIs
  <2> QED
    BY <2>1 DEF Fresh
<1>2. n \in 0..Len(Needed)
  BY <1>0
<1>3. F \subseteq ToSet(Wanted)
  BY <1>2, MetIs DEF Fresh
<1> HIDE DEF F
<1>4. F \in SUBSET Paper /\ F \in SUBSET Nat /\ IsFiniteSet(F)
  BY <1>3, PathIs, PapersAssumption, FS_Subset
<1>5. InOrder(F) \in Seq(F) /\ ToSet(InOrder(F)) = F
  BY <1>4, OrderIs
<1>6. InOrder(F) \in Seq(Paper)
  BY <1>4, <1>5, SeqMonotonic
<1> QED
  BY <1>1, <1>4, <1>5, <1>6 DEF F

Lists(n, skipped) == [i \in 1..n |-> InOrder(Fresh(i, skipped))]

\* One chunk more is mined.
LEMMA MinedInIs ==
  ASSUME NEW skipped
  PROVE  /\ MinedIn(0, skipped) = <<>>
         /\ \A n \in 0..Len(Needed) : MinedIn(n, skipped) \in Seq(Paper)
         /\ \A n \in 1..Len(Needed) :
              MinedIn(n, skipped) = MinedIn(n - 1, skipped) \o InOrder(Fresh(n, skipped))
<1>0. Len(Needed) \in Nat
  BY PathIs
<1>1. \A n : MinedIn(n, skipped) = FlattenSeq(Lists(n, skipped))
  BY DEF MinedIn, Lists
<1>2. \A n \in 0..Len(Needed) : Lists(n, skipped) \in Seq(Seq(Paper)) /\ Len(Lists(n, skipped)) = n
  <2> SUFFICES ASSUME NEW n \in 0..Len(Needed)
               PROVE  Lists(n, skipped) \in Seq(Seq(Paper)) /\ Len(Lists(n, skipped)) = n
    OBVIOUS
  <2>1. \A i \in 1..n : i \in 1..Len(Needed)
    BY <1>0
  <2>2. \A i \in 1..n : InOrder(Fresh(i, skipped)) \in Seq(Paper)
    BY <2>1, FreshIs
  <2>3. Lists(n, skipped) \in [1..n -> Seq(Paper)]
    BY <2>2 DEF Lists
  <2> QED
    BY <1>0, <2>3
<1>3. ASSUME NEW n \in 1..Len(Needed)
      PROVE  Lists(n, skipped) = Append(Lists(n - 1, skipped), InOrder(Fresh(n, skipped)))
  <2> DEFINE f == Lists(n - 1, skipped)
             g == Lists(n, skipped)
             last == InOrder(Fresh(n, skipped))
  <2>1. n - 1 \in 0..Len(Needed) /\ n \in 0..Len(Needed)
    BY <1>0
  <2>2. f \in Seq(Seq(Paper)) /\ Len(f) = n - 1 /\ g \in Seq(Seq(Paper)) /\ Len(g) = n
    BY <1>2, <2>1
  <2>3. last \in Seq(Paper)
    BY FreshIs
  <2>4. (\A i \in 1..(n - 1) : f[i] = InOrder(Fresh(i, skipped))) /\ \A i \in 1..n : g[i] = InOrder(Fresh(i, skipped))
    BY DEF Lists
  <2>5. last = g[n]
    BY <2>4
  <2> HIDE DEF f, g, last
  <2>6. Append(f, last) \in Seq(Seq(Paper)) /\ Len(Append(f, last)) = n
        /\ \A i \in 1..n : Append(f, last)[i] = IF i <= n - 1 THEN f[i] ELSE last
    BY <2>1, <2>2, <2>3
  <2>7. ASSUME NEW i \in 1..n PROVE g[i] = Append(f, last)[i]
    <3>1. i <= n - 1 => i \in 1..(n - 1)
      BY <2>1
    <3>2. ~(i <= n - 1) => i = n
      BY <2>1
    <3> QED
      BY <2>4, <2>5, <2>6, <3>1, <3>2
  <2>8. g = Append(f, last)
    BY <2>2, <2>6, <2>7, SeqEqual
  <2> QED
    BY <2>8 DEF f, g, last
<1>4. Lists(0, skipped) = <<>>
  BY DEF Lists
<1>5. ASSUME NEW n \in 1..Len(Needed)
      PROVE  MinedIn(n, skipped) = MinedIn(n - 1, skipped) \o InOrder(Fresh(n, skipped))
  <2>1. n - 1 \in 0..Len(Needed)
    BY <1>0
  <2>2. Lists(n - 1, skipped) \in Seq(Seq(Paper)) /\ InOrder(Fresh(n, skipped)) \in Seq(Paper)
    BY <1>2, <2>1, FreshIs
  <2> DEFINE f == Lists(n - 1, skipped)
             last == InOrder(Fresh(n, skipped))
  <2> HIDE DEF f, last
  <2>3. f \in Seq(Seq(Paper)) /\ last \in Seq(Paper)
    BY <2>2 DEF f, last
  <2>4. FlattenSeq(Append(f, last)) = FlattenSeq(f) \o last
    BY <2>3, FlatMore
  <2> QED
    BY <1>1, <1>3, <2>4 DEF f, last
<1> QED
  BY <1>1, <1>2, <1>4, <1>5, FlatType, FlatNone

\* Only the chunks up to n tell what is mined in them.
LEMMA MinedAlike ==
  ASSUME NEW s, NEW t, NEW n \in 0..Len(Needed), \A i \in 1..n : Needed[i] \in s <=> Needed[i] \in t
  PROVE  MinedIn(n, s) = MinedIn(n, t) /\ Met(n, s) = Met(n, t)
<1>1. \A k : {i \in 1..k : Needed[i] \notin s} = {i \in 1..k : Needed[i] \notin t}
             \/ ~(k \in 0..n)
  OBVIOUS
<1>2. \A k \in 0..n : Met(k, s) = Met(k, t)
  BY <1>1 DEF Met
<1>3. \A i \in 1..n : Fresh(i, s) = Fresh(i, t)
  <2>1. \A i \in 1..n : i \in 0..n /\ i - 1 \in 0..n
    BY PathIs
  <2> QED
    BY <1>2, <2>1 DEF Fresh
<1>4. [i \in 1..n |-> InOrder(Fresh(i, s))] = [i \in 1..n |-> InOrder(Fresh(i, t))]
  BY <1>3
<1>5. n \in 0..n
  BY PathIs
<1> QED
  BY <1>2, <1>4, <1>5 DEF MinedIn

\* What is mined begins with what is mined in the first chunks.
LEMMA MinedInBegins ==
  ASSUME NEW skipped, NEW n \in 0..Len(Needed)
  PROVE  \E rest \in Seq(Paper) : MinedIn(Len(Needed), skipped) = MinedIn(n, skipped) \o rest
<1> DEFINE L == Len(Needed)
           A(k) == MinedIn(n + k, skipped)
           K == {k \in 0..(L - n) : \E rest \in Seq(Paper) : A(k) = MinedIn(n, skipped) \o rest}
           N == L - n
<1>0. L \in Nat /\ N \in Nat /\ n + N = L
  BY PathIs
<1>1. 0 \in K
  <2>1. A(0) = MinedIn(n, skipped)
    <3>1. n + 0 = n
      BY <1>0
    <3> QED
      BY <3>1
  <2>2. MinedIn(n, skipped) = MinedIn(n, skipped) \o <<>> /\ <<>> \in Seq(Paper)
    BY MinedInIs, ConcatEmptySeq
  <2>3. 0 \in 0..(L - n)
    BY <1>0
  <2> HIDE DEF A, L
  <2> QED
    BY <2>1, <2>2, <2>3
<1>2. ASSUME NEW k \in 1..N, k - 1 \in K PROVE k \in K
  <2>1. PICK rest \in Seq(Paper) : A(k - 1) = MinedIn(n, skipped) \o rest
    BY <1>2
  <2>2. n + k \in 1..L /\ n + (k - 1) = (n + k) - 1
    BY <1>0
  <2> DEFINE more == InOrder(Fresh(n + k, skipped))
  <2>3. A(k) = A(k - 1) \o more
    BY <2>2, MinedInIs
  <2>4. more \in Seq(Paper) /\ MinedIn(n, skipped) \in Seq(Paper)
    BY <2>2, FreshIs, MinedInIs
  <2> DEFINE base == MinedIn(n, skipped)
  <2>7. base \in Seq(Paper) /\ more \in Seq(Paper) /\ A(k - 1) = base \o rest
    BY <2>1, <2>4
  <2> HIDE DEF more, A, base
  <2>8. /\ (base \o rest) \o more = base \o (rest \o more)
        /\ rest \o more \in Seq(Paper)
    <3>1. rest \in Seq(Paper) /\ base \in Seq(Paper) /\ more \in Seq(Paper)
      BY <2>7
    <3>2. rest \o more \in Seq(Paper)
      BY <3>1, ConcatProperties
    <3>3. (base \o rest) \o more = base \o (rest \o more)
      BY <3>1, ConcatAssociative, SMTT(30)
    <3> QED
      BY <3>2, <3>3
  <2>5. A(k) = MinedIn(n, skipped) \o (rest \o more) /\ rest \o more \in Seq(Paper)
    BY <2>3, <2>7, <2>8 DEF base
  <2>6. k \in 0..(L - n)
    BY <1>0
  <2> HIDE DEF L
  <2> QED
    BY <2>5, <2>6
<1>3. N \in K
  <2> HIDE DEF K, N
  <2>1. 0..N \subseteq K
    BY <1>0, <1>1, <1>2, UpTo
  <2>2. N \in 0..N
    BY <1>0
  <2> QED
    BY <2>1, <2>2
<1> QED
  BY <1>0, <1>3

-----------------------------------------------------------------------------
(* Where a run is: what it has passed, with the paper in hand or without.    *)

Kinds == adapter \in {"api", "bulk"}
OnItsWay == pc \in Walking \cup {"query"}

\* What the invariant says on the way.
LEMMA Facts ==
  ASSUME Retracing, Kinds, OnItsWay
  PROVE  /\ Held /\ marker /\ m.surplus \in Seq(Thm) /\ OnFile /\ Tally /\ Extracting
         /\ adapter = "api" => ApiWalk /\ pc \in OnPaper \cup {"query", "page", "keep"}
         /\ adapter = "bulk" => BulkWalk /\ pc \in Walking
BY DEF Retracing, Working, Kinds, OnItsWay, Walking, InChunk, OnPaper

\* Where in the listing.
LEMMA ApiPlace ==
  ASSUME Held, ApiWalk
  PROVE  /\ Limit \in 0..Len(Listing) /\ Reached \in 0..Limit /\ Len(m.page) \in Nat
         /\ Reached + Len(m.page) = Limit /\ Len(Listing) \in Nat
         /\ m.start \in Nat /\ (m.start <= Len(Listing) => Limit = m.start)
         /\ (m.start >= Len(Listing) => Limit = Len(Listing))
<1>1. Len(Listing) \in Nat /\ m.start \in Nat /\ Len(m.page) \in Nat /\ Len(m.page) <= Limit
  BY ListingIs DEF ApiWalk, Held
<1> QED
  BY <1>1 DEF Limit, Reached

\* Where on the path.
LEMMA BulkPlace ==
  ASSUME OnPath
  PROVE  /\ Len(Needed) \in Nat /\ Gone \in 0..Len(Needed) /\ Len(m.todo) = Len(Needed) - Gone
         /\ pc # "chunk" => /\ Gone + 1 \in 1..Len(Needed) /\ Gone < Len(Needed)
                            /\ chunk = Needed[Gone + 1] /\ chunk \in Chunk
                            /\ chunk \notin m.skipped /\ m.skipped \cap journal = {}
                            /\ \A i \in 1..Gone : Needed[i] # chunk /\ Needed[i] < chunk
<1>1. Len(Needed) \in Nat /\ \A i \in 1..Len(Needed) : Needed[i] \in Chunk
  BY PathIs
<1>2. \A i, j \in 1..Len(Needed) : i < j => Needed[i] < Needed[j]
  BY NeededRises
<1>7. \A i, j \in 1..Len(Needed) : Needed[i] = Needed[j] => i = j
  BY PathIs
<1>3. m.todo \in Seq(Chunk) /\ Len(m.todo) <= Len(Needed)
  BY DEF OnPath
<1>4. Len(m.todo) \in Nat
  BY <1>3
<1>5. Gone \in 0..Len(Needed) /\ Len(m.todo) = Len(Needed) - Gone
  BY <1>1, <1>3, <1>4 DEF Gone
<1>6. ASSUME pc # "chunk"
      PROVE  /\ Gone + 1 \in 1..Len(Needed) /\ Gone < Len(Needed)
             /\ chunk = Needed[Gone + 1] /\ chunk \in Chunk
             /\ chunk \notin m.skipped /\ m.skipped \cap journal = {}
             /\ \A i \in 1..Gone : Needed[i] # chunk /\ Needed[i] < chunk
  <2>1. Gone < Len(Needed) /\ chunk = Needed[Gone + 1] /\ m.skipped \subseteq {Needed[i] : i \in 1..Gone} \ journal
    BY <1>6 DEF OnPath
  <2>2. Gone + 1 \in 1..Len(Needed) /\ \A i \in 1..Gone : i \in 1..Len(Needed) /\ i < Gone + 1
    BY <1>1, <1>5, <2>1
  <2>3. \A i \in 1..Gone : Needed[i] # Needed[Gone + 1] /\ Needed[i] < Needed[Gone + 1]
    BY <1>2, <1>7, <2>2
  <2>4. chunk \notin m.skipped /\ m.skipped \cap journal = {}
    BY <2>1, <2>3
  <2> QED
    BY <1>1, <2>1, <2>2, <2>3, <2>4
<1> QED
  BY <1>1, <1>5, <1>6

\* What is left of a sequence from a place on, up to an end.
LEMMA Slice ==
  ASSUME NEW T, NEW s \in Seq(T), NEW e \in 0..Len(s), NEW i \in 0..e
  PROVE  /\ SubSeq(s, i + 1, e) \in Seq(T) /\ Len(SubSeq(s, i + 1, e)) = e - i
         /\ SubSeq(s, i + 1, e) = <<>> <=> i = e
         /\ i < e => /\ Head(SubSeq(s, i + 1, e)) = s[i + 1] /\ s[i + 1] \in T
                     /\ Tail(SubSeq(s, i + 1, e)) = SubSeq(s, (i + 1) + 1, e)
                     /\ Len(Tail(SubSeq(s, i + 1, e))) = e - (i + 1)
         /\ ToSet(SubSeq(s, i + 1, e)) = {s[k] : k \in (i + 1)..e}
<1> DEFINE x == SubSeq(s, i + 1, e)
<1>1. Len(s) \in Nat /\ e \in Nat /\ i \in Nat /\ e <= Len(s) /\ i <= e
  BY LenProperties
<1>2. \A k \in (i + 1)..e : s[k] \in T
  <2>1. \A k \in (i + 1)..e : k \in 1..Len(s)
    BY <1>1
  <2> QED
    BY <2>1, ElementOfSeq
<1>3. /\ x \in Seq(T) /\ Len(x) = (IF i + 1 <= e THEN e - (i + 1) + 1 ELSE 0)
      /\ \A k \in 1..(e - (i + 1) + 1) : x[k] = s[(i + 1) + k - 1]
  BY <1>1, <1>2, SubSeqProperties
<1>4. Len(x) = e - i
  BY <1>1, <1>3
<1>5. i < e => Head(x) = s[i + 1] /\ s[i + 1] \in T /\ Tail(x) = SubSeq(s, (i + 1) + 1, e)
  <2> SUFFICES ASSUME i < e PROVE Head(x) = s[i + 1] /\ s[i + 1] \in T /\ Tail(x) = SubSeq(s, (i + 1) + 1, e)
    OBVIOUS
  <2>1. i + 1 \in 1..Len(s) /\ e \in (i + 1)..Len(s)
    BY <1>1
  <2> QED
    BY <2>1, HeadTailOfSubSeq, ElementOfSeq
<1> HIDE DEF x
<1>6. x = <<>> <=> i = e
  <2>1. x = <<>> <=> Len(x) = 0
    BY <1>3, EmptySeq
  <2> QED
    BY <1>1, <1>4, <2>1
<1>7. i < e => Len(Tail(x)) = e - (i + 1)
  <2>1. i < e => x # <<>>
    BY <1>1, <1>6
  <2>2. x # <<>> => Len(Tail(x)) = Len(x) - 1
    BY <1>3, HeadTailProperties
  <2> QED
    BY <1>1, <1>4, <2>1, <2>2
<1>8. ToSet(x) = {s[k] : k \in (i + 1)..e}
  <2>1. DOMAIN x = 1..(e - i)
    BY <1>3, <1>4, LenProperties
  <2>2. \A k \in 1..(e - i) : k + i \in (i + 1)..e /\ x[k] = s[k + i]
    <3>1. \A k \in 1..(e - i) : k + i \in (i + 1)..e /\ k \in 1..(e - (i + 1) + 1) /\ (i + 1) + k - 1 = k + i
      BY <1>1
    <3> QED
      BY <1>3, <3>1
  <2>3. \A k \in (i + 1)..e : k - i \in 1..(e - i) /\ x[k - i] = s[k]
    <3>1. \A k \in (i + 1)..e : k - i \in 1..(e - i) /\ (k - i) + i = k
      BY <1>1
    <3> QED
      BY <2>2, <3>1
  <2> QED
    BY <2>1, <2>2, <2>3 DEF ToSet
<1> QED
  BY <1>3, <1>4, <1>5, <1>6, <1>7, <1>8 DEF x

\* The elements of a slice.
LEMMA SliceSet ==
  ASSUME NEW T, NEW s \in Seq(T), NEW e \in 0..Len(s), NEW i \in 0..e
  PROVE  \A x : x \in ToSet(SubSeq(s, i + 1, e)) <=> \E k \in (i + 1)..e : x = s[k]
<1> DEFINE S == {s[k] : k \in (i + 1)..e}
           P == ToSet(SubSeq(s, i + 1, e))
<1>1. P = S
  BY Slice
<1> HIDE DEF P
<1>2. \A x : x \in P <=> \E k \in (i + 1)..e : x = s[k]
  BY <1>1
<1> QED
  BY <1>2 DEF P

Novel == Fresh(Gone + 1, m.skipped)
AtChunkPage == pc \in InChunk \cup {"release"}

\* The chunk in hand: what of it is behind lies before what is ahead.
LEMMA PageIs ==
  ASSUME Held, OnPath, OnPage, pc # "chunk"
  PROVE  /\ Turn \in 0..Len(PapersOf(chunk)) /\ Len(PapersOf(chunk)) \in Nat
         /\ m.page = SubSeq(PapersOf(chunk), Turn + 1, Len(PapersOf(chunk)))
         /\ ToSet(m.page) = {PapersOf(chunk)[k] : k \in (Turn + 1)..Len(PapersOf(chunk))}
         /\ m.page = <<>> <=> Turn = Len(PapersOf(chunk))
         /\ Novel = ToSet(PapersOf(chunk)) \ (Met(Gone, m.skipped) \cup Exclude \cup Absent)
         /\ Novel \ ToSet(m.page) \subseteq {PapersOf(chunk)[k] : k \in 1..Turn}
         /\ {PapersOf(chunk)[k] : k \in 1..Turn} = ToSet(PapersOf(chunk)) \ ToSet(m.page)
         /\ \A a \in Novel \ ToSet(m.page), b \in Novel \cap ToSet(m.page) : a < b
<1> DEFINE S == PapersOf(chunk)
           L == Len(S)
<1>1. /\ Gone + 1 \in 1..Len(Needed) /\ chunk = Needed[Gone + 1] /\ chunk \in Chunk
      /\ chunk \notin m.skipped /\ (Gone + 1) - 1 = Gone
  BY BulkPlace
<1>2. /\ S \in Seq(Paper) /\ L \in Nat /\ ToSet(S) = {S[i] : i \in 1..L}
      /\ \A i, j \in 1..L : i < j => S[i] < S[j]
      /\ \A i \in 1..L : S[i] \in Nat
  BY <1>1, PapersRise
<1>3. Len(m.page) \in Nat /\ Len(m.page) <= L /\ m.page = SubSeq(S, Turn + 1, L)
  BY DEF OnPage, Held
<1>4. Novel = ToSet(S) \ (Met(Gone, m.skipped) \cup Exclude \cup Absent)
  BY <1>1, FreshIs DEF Novel
<1>5. Turn = L - Len(m.page)
  BY DEF Turn
<1> HIDE DEF S
<1>6. Turn \in 0..L
  BY <1>2, <1>3, <1>5
<1>7. ToSet(m.page) = {S[k] : k \in (Turn + 1)..L} /\ (m.page = <<>> <=> Turn = L)
  <2>1. L \in 0..Len(S)
    BY <1>2
  <2> HIDE DEF L
  <2>2. /\ SubSeq(S, Turn + 1, L) = <<>> <=> Turn = L
        /\ \A x : x \in ToSet(SubSeq(S, Turn + 1, L)) <=> \E k \in (Turn + 1)..L : x = S[k]
    <3>1. S \in Seq(Paper) /\ L \in 0..Len(S) /\ Turn \in 0..L
      BY <1>2, <1>6, <2>1
    <3>2. SubSeq(S, Turn + 1, L) = <<>> <=> Turn = L
      BY <3>1, Slice
    <3>3. \A x : x \in ToSet(SubSeq(S, Turn + 1, L)) <=> \E k \in (Turn + 1)..L : x = S[k]
      BY <3>1, SliceSet
    <3> QED
      BY <3>2, <3>3
  <2> QED
    BY <1>3, <2>2
<1> HIDE DEF L
<1>8. \A i \in 1..Turn, k \in (Turn + 1)..L : i \in 1..L /\ k \in 1..L /\ i < k
  BY <1>2, <1>6
<1>9. \A i \in 1..L : i \in 1..Turn \/ i \in (Turn + 1)..L
  BY <1>2, <1>6
<1>10. {S[k] : k \in 1..Turn} = ToSet(S) \ ToSet(m.page)
  <2>1. \A i \in 1..Turn, k \in (Turn + 1)..L : S[i] # S[k]
    <3> SUFFICES ASSUME NEW i \in 1..Turn, NEW k \in (Turn + 1)..L, S[i] = S[k] PROVE FALSE
      OBVIOUS
    <3>1. S[i] < S[k] /\ S[i] \in Nat
      BY <1>2, <1>8
    <3> QED
      BY <3>1
  <2>2. \A i \in 1..Turn : i \in 1..L
    BY <1>2, <1>6
  <2> QED
    BY <1>2, <1>7, <1>9, <2>1, <2>2
<1>11. \A a \in Novel \ ToSet(m.page), b \in Novel \cap ToSet(m.page) : a < b
  <2> SUFFICES ASSUME NEW a \in Novel \ ToSet(m.page), NEW b \in Novel \cap ToSet(m.page) PROVE a < b
    OBVIOUS
  <2>1. a \in {S[k] : k \in 1..Turn} /\ b \in {S[k] : k \in (Turn + 1)..L}
    BY <1>4, <1>7, <1>10
  <2> QED
    BY <1>2, <1>8, <2>1
<1> QED
  BY <1>2, <1>3, <1>4, <1>6, <1>7, <1>10, <1>11 DEF S, L

\* What is passed once the paper in hand, if any, is kept.
Covered ==
  IF adapter = "api" THEN Picked(Listing, Behind(Reached))
  ELSE IF AtChunkPage THEN MinedIn(Gone, m.skipped) \o InOrder(Novel \ ToSet(m.page))
  ELSE MinedIn(Gone, m.skipped)

\* What is covered is what is passed, and the paper in hand.
LEMMA CoveredIs ==
  ASSUME Held, Kinds, OnItsWay, adapter = "api" => ApiWalk,
         adapter = "bulk" => OnPath /\ (AtChunkPage => OnPage) /\ pc \in Walking
  PROVE  /\ ~InPaper => Covered = Passed
         /\ InPaper => m.paper \in Paper /\ Covered = Append(Passed, m.paper)
         /\ Passed \in Seq(Paper) /\ Covered \in Seq(Paper)
<1>1. CASE adapter = "api"
  <2>1. Reached \in Nat /\ (InPaper => Reached \in Counted /\ m.paper = Listing[Reached])
    BY <1>1, ApiPlace DEF ApiWalk
  <2>2. Counted \in SUBSET (1..Len(Listing)) /\ Len(Listing) \in Nat
    BY ListingIs
  <2>3. InPaper => Reached - 1 \in Nat /\ (Reached - 1) + 1 = Reached /\ m.paper \in Paper
    <3> HIDE DEF Counted
    <3>1. InPaper => Reached \in 1..Len(Listing)
      BY <2>1, <2>2
    <3> QED
      BY <2>1, <2>2, <3>1, ListingIs
  <2>4. /\ Covered = Picked(Listing, Behind(Reached))
        /\ ~InPaper => Passed = Picked(Listing, Behind(Reached))
        /\ InPaper => Passed = Picked(Listing, Behind(Reached - 1))
    BY <1>1 DEF Covered, Passed, ApiPassed
  <2>5. InPaper => Covered = Append(Passed, m.paper)
    BY <2>1, <2>3, <2>4, BehindMore
  <2>6. Picked(Listing, Behind(Reached)) \in Seq(Paper) /\ Picked(Listing, Behind(Reached - 1)) \in Seq(Paper)
    <3>1. Reached \in Int /\ Reached - 1 \in Int
      BY <2>1
    <3> QED
      BY <3>1, BehindIs
  <2> QED
    BY <2>3, <2>4, <2>5, <2>6
<1>2. CASE adapter = "bulk"
  <2> DEFINE M == MinedIn(Gone, m.skipped)
             A == Novel \ ToSet(m.page)
             B == Novel \ (ToSet(m.page) \cup Current)
  <2>0. pc \in Walking /\ OnPath /\ (AtChunkPage => OnPage) /\ adapter # "api"
    BY <1>2
  <2>1. M \in Seq(Paper) /\ Gone \in 0..Len(Needed) /\ (pc # "chunk" => Gone + 1 \in 1..Len(Needed))
    BY <2>0, BulkPlace, MinedInIs
  <2>2. AtChunkPage => /\ Novel \in SUBSET Paper /\ Novel \in SUBSET Nat /\ IsFiniteSet(Novel) /\ pc # "chunk"
    BY <2>1, FreshIs DEF Novel, AtChunkPage, InChunk, OnPaper
  <2>3. InPaper => AtChunkPage
    BY DEF InPaper, AtChunkPage, InChunk
  <2>4. /\ Covered = IF AtChunkPage THEN M \o InOrder(A) ELSE M
        /\ Passed = IF AtChunkPage THEN M \o InOrder(B) ELSE M
    BY <2>0 DEF Covered, Passed, BulkPassed, Novel, AtChunkPage
  <2>5. ~InPaper => B = A
    BY DEF Current
  <2> HIDE DEF M
  <2>6. AtChunkPage => InOrder(A) \in Seq(Paper) /\ InOrder(B) \in Seq(Paper)
    <3>1. ASSUME AtChunkPage, NEW X \in SUBSET Novel PROVE InOrder(X) \in Seq(Paper)
      <4>1. X \in SUBSET Nat /\ IsFiniteSet(X) /\ X \in SUBSET Paper
        BY <2>2, <3>1, FS_Subset
      <4>2. InOrder(X) \in Seq(X)
        BY <4>1, OrderIs
      <4> QED
        BY <4>1, <4>2, SeqMonotonic
    <3>2. A \in SUBSET Novel /\ B \in SUBSET Novel
      OBVIOUS
    <3> HIDE DEF A, B
    <3> QED
      BY <3>1, <3>2
  <2>7. ASSUME InPaper PROVE m.paper \in Paper /\ M \o InOrder(A) = Append(M \o InOrder(B), m.paper)
    <3>1. /\ Turn >= 1 /\ m.paper = PapersOf(chunk)[Turn] /\ m.paper \in Novel
          /\ OnPage /\ pc # "chunk"
      BY <2>0, <2>2, <2>3, <2>7 DEF OnPage, Novel
    <3>2. /\ Turn \in 0..Len(PapersOf(chunk)) /\ Len(PapersOf(chunk)) \in Nat
          /\ {PapersOf(chunk)[k] : k \in 1..Turn} = ToSet(PapersOf(chunk)) \ ToSet(m.page)
          /\ A \subseteq {PapersOf(chunk)[k] : k \in 1..Turn}
      BY <2>0, <3>1, PageIs
    <3>3. m.paper \in A
      <4>1. Turn \in 1..Turn
        BY <3>1, <3>2
      <4> QED
        BY <3>1, <3>2, <4>1
    <3>4. \A b \in B : b < m.paper
      <4> SUFFICES ASSUME NEW b \in B PROVE b < m.paper
        OBVIOUS
      <4>1. b \in A /\ b # m.paper
        BY <2>7 DEF Current
      <4>2. PICK k \in 1..Turn : b = PapersOf(chunk)[k]
        BY <3>2, <4>1
      <4>3. k # Turn
        BY <3>1, <4>1, <4>2
      <4>4. k \in 1..Len(PapersOf(chunk)) /\ Turn \in 1..Len(PapersOf(chunk)) /\ k < Turn
        BY <3>1, <3>2, <4>3
      <4>5. chunk \in Chunk
        BY <2>0, <3>1, BulkPlace
      <4> QED
        BY <3>1, <4>2, <4>4, <4>5, PapersRise
    <3>5. A = B \cup {m.paper}
      BY <2>7, <3>3 DEF Current
    <3> DEFINE p == m.paper
    <3>6. B \in SUBSET Nat /\ IsFiniteSet(B) /\ p \in Nat /\ p \in Paper
      <4>1. AtChunkPage /\ B \in SUBSET Novel
        BY <2>3, <2>7
      <4> QED
        BY <2>2, <3>1, <4>1, FS_Subset
    <3> HIDE DEF A, B, p
    <3>7. InOrder(B \cup {p}) = InOrder(B) \o InOrder({p})
      <4>1. {p} \in SUBSET Nat /\ IsFiniteSet({p}) /\ \A b \in B, x \in {p} : b < x
        BY <3>4, <3>6, FS_Singleton DEF p
      <4> QED
        BY <3>6, <4>1, OrderSplit
    <3>8. InOrder({p}) = <<p>>
      <4> DEFINE q == InOrder({p})
      <4>1. {p} \in SUBSET Nat /\ IsFiniteSet({p}) /\ Cardinality({p}) = 1
        BY <3>6, FS_Singleton
      <4>4. Len(q) = 1
        BY <4>1 DEF InOrder
      <4>2. q \in Seq({p}) /\ Len(q) = 1
        BY <4>1, <4>4, OrderIs
      <4> HIDE DEF q
      <4>3. q[1] = p
        BY <4>2
      <4> QED
        BY <4>2, <4>3 DEF q
    <3> DEFINE b == InOrder(B)
    <3>9. b \in Seq(Paper) /\ M \in Seq(Paper) /\ <<p>> \in Seq(Paper) /\ M \o b \in Seq(Paper)
      <4>1. b \in Seq(Paper)
        BY <2>3, <2>6, <2>7
      <4> HIDE DEF b
      <4> QED
        BY <2>1, <3>6, <4>1, ConcatProperties
    <3> HIDE DEF b
    <3>10. M \o (b \o <<p>>) = (M \o b) \o <<p>>
      BY <3>9, ConcatAssociative
    <3>11. (M \o b) \o <<p>> = Append(M \o b, p)
      BY <3>6, <3>9, AppendIsConcat
    <3> QED
      BY <3>5, <3>6, <3>7, <3>8, <3>10, <3>11 DEF b, p
  <2> HIDE DEF A, B
  <2>8. AtChunkPage => M \o InOrder(A) \in Seq(Paper) /\ M \o InOrder(B) \in Seq(Paper)
    BY <2>1, <2>6, ConcatProperties
  <2> QED
    BY <2>1, <2>3, <2>4, <2>5, <2>7, <2>8
<1> QED
  BY <1>1, <1>2 DEF Kinds

AtEnd ==
  IF adapter = "api" THEN m.taken >= MaxPapers \/ Reached >= Len(Listing)
  ELSE ~AtChunkPage /\ Gone = Len(Needed)

OnItsPath ==
  /\ Held /\ Kinds /\ OnItsWay
  /\ adapter = "api" => ApiWalk
  /\ adapter = "bulk" => OnPath /\ (AtChunkPage => OnPage) /\ pc \in Walking

\* On its way a run is on its path.
LEMMA Along ==
  ASSUME Retracing, Kinds, OnItsWay
  PROVE  OnItsPath
<1>1. Held
  BY Facts
<1>2. adapter = "api" => ApiWalk
  BY Facts
<1>3. adapter = "bulk" => BulkWalk /\ pc \in Walking
  BY Facts
<1>4. adapter = "bulk" => OnPath /\ (AtChunkPage => OnPage) /\ pc \in Walking
  BY <1>3 DEF BulkWalk, AtChunkPage
<1> QED
  BY <1>1, <1>2, <1>4 DEF OnItsPath

\* What is mined begins with what is covered, and at the end is just that.
LEMMA CoveredBegins ==
  ASSUME OnItsPath
  PROVE  \E rest \in Seq(Paper) :
           Mined(m.skipped) = Covered \o rest /\ (AtEnd => rest = <<>>)
<1>1. CASE adapter = "api"
  <2>1. Reached \in Nat /\ m.taken = Cardinality(Behind(Reached)) /\ m.taken <= MaxPapers
    BY <1>1, ApiPlace, SMTT(30) DEF ApiWalk, OnItsPath
  <2>2. PICK rest \in Seq(Paper) :
           /\ \A skipped : Mined(skipped) = Picked(Listing, Behind(Reached)) \o rest
           /\ Cardinality(Behind(Reached)) >= MaxPapers \/ Reached >= Len(Listing) => rest = <<>>
    BY <1>1, <2>1, MinedBegins
  <2>3. Covered = Picked(Listing, Behind(Reached))
    BY <1>1 DEF Covered
  <2>4. AtEnd => rest = <<>>
    BY <1>1, <2>1, <2>2 DEF AtEnd
  <2> QED
    BY <2>2, <2>3, <2>4
<1>2. CASE adapter = "bulk"
  <2> DEFINE M == MinedIn(Gone, m.skipped)
             L == Len(Needed)
             A == Novel \ ToSet(m.page)
             B == Novel \cap ToSet(m.page)
  <2>0. Held /\ OnPath /\ (AtChunkPage => OnPage) /\ pc \in Walking /\ adapter # "api"
    BY <1>2 DEF OnItsPath
  <2>1. /\ L \in Nat /\ Gone \in 0..L /\ M \in Seq(Paper)
        /\ Mined(m.skipped) = MinedIn(L, m.skipped)
    BY <2>0, BulkPlace, MinedInIs DEF Mined
  <2>2. CASE ~AtChunkPage
    <3>1. PICK rest \in Seq(Paper) : MinedIn(L, m.skipped) = M \o rest
      BY <2>1, MinedInBegins
    <3>2. Covered = M
      BY <2>0, <2>2 DEF Covered
    <3>3. Gone = L => MinedIn(L, m.skipped) = M \o <<>> /\ <<>> \in Seq(Paper)
      BY <2>1, ConcatEmptySeq
    <3>4. CASE Gone = L
      BY <2>1, <3>2, <3>3, <3>4
    <3>5. CASE Gone # L
      <4>1. ~AtEnd
        BY <2>0, <3>5 DEF AtEnd
      <4> QED
        BY <2>1, <3>1, <3>2, <4>1
    <3> QED
      BY <3>4, <3>5
  <2>3. CASE AtChunkPage
    <3>1. Gone + 1 \in 1..L /\ Gone + 1 \in 0..L /\ (Gone + 1) - 1 = Gone /\ pc # "chunk"
      <4>1. pc # "chunk"
        BY <2>3 DEF AtChunkPage, InChunk, OnPaper
      <4> QED
        BY <2>0, <2>1, <4>1, BulkPlace
    <3>2. MinedIn(Gone + 1, m.skipped) = M \o InOrder(Novel)
      BY <3>1, MinedInIs DEF Novel
    <3>3. PICK rest \in Seq(Paper) : MinedIn(L, m.skipped) = MinedIn(Gone + 1, m.skipped) \o rest
      BY <3>1, MinedInBegins
    <3>4. Novel \in SUBSET Nat /\ Novel \in SUBSET Paper /\ IsFiniteSet(Novel)
      BY <3>1, FreshIs DEF Novel
    <3>5. \A a \in A, b \in B : a < b
      BY <2>0, <2>3, <3>1, PageIs
    <3>6. /\ A \in SUBSET Nat /\ IsFiniteSet(A) /\ A \in SUBSET Paper
          /\ B \in SUBSET Nat /\ IsFiniteSet(B) /\ B \in SUBSET Paper
          /\ A \cup B = Novel
      <4>1. A \in SUBSET Novel /\ B \in SUBSET Novel /\ A \cup B = Novel
        OBVIOUS
      <4> HIDE DEF A, B
      <4> QED
        BY <3>4, <4>1, FS_Subset
    <3>7. Covered = M \o InOrder(A)
      BY <2>0, <2>3 DEF Covered
    <3> HIDE DEF A, B, M, L
    <3>8. InOrder(Novel) = InOrder(A) \o InOrder(B)
      BY <3>5, <3>6, OrderSplit
    <3> DEFINE a == InOrder(A)
               b == InOrder(B)
    <3>9. a \in Seq(Paper) /\ b \in Seq(Paper)
      <4>1. a \in Seq(A) /\ b \in Seq(B)
        BY <3>6, OrderIs
      <4> HIDE DEF a, b
      <4> QED
        BY <3>6, <4>1, SeqMonotonic
    <3> HIDE DEF a, b
    <3>14. M \in Seq(Paper)
      BY <2>1
    <3>15. M \o a \in Seq(Paper) /\ b \o rest \in Seq(Paper)
      BY <3>3, <3>9, <3>14, ConcatProperties
    <3>10. M \o (a \o b) = (M \o a) \o b
      BY <3>9, <3>14, ConcatAssociative, SMTT(30)
    <3> DEFINE w == M \o a
    <3>18. w \in Seq(Paper) /\ b \in Seq(Paper) /\ rest \in Seq(Paper)
      BY <3>3, <3>9, <3>15
    <3> HIDE DEF w
    <3>19. (w \o b) \o rest = w \o (b \o rest)
      BY <3>18, ConcatAssociative
    <3>11. ((M \o a) \o b) \o rest = (M \o a) \o (b \o rest)
      BY <3>19 DEF w
    <3>16. Mined(m.skipped) = (M \o (a \o b)) \o rest
      BY <2>1, <3>2, <3>3, <3>8 DEF a, b
    <3>17. Covered = M \o a
      BY <3>7 DEF a
    <3>12. Mined(m.skipped) = Covered \o (b \o rest)
      BY <3>10, <3>11, <3>16, <3>17
    <3>13. ~AtEnd
      BY <2>0, <2>3 DEF AtEnd
    <3> QED
      BY <3>12, <3>13, <3>15
  <2> QED
    BY <2>2, <2>3
<1> QED
  BY <1>1, <1>2 DEF OnItsPath, Kinds

\* What a paper yields.
LEMMA YieldIs ==
  /\ Yield \in [Paper -> Seq(Thm)]
  /\ \A p \in Paper : Yield[p] = RowsOf(p) /\ Theorems[p] \in Seq(Thm)
                      /\ Yielding(p) \in SUBSET (DOMAIN Theorems[p])
<1>1. ASSUME NEW p \in Paper
      PROVE  RowsOf(p) \in Seq(Thm) /\ Theorems[p] \in Seq(Thm) /\ Yielding(p) \in SUBSET (DOMAIN Theorems[p])
  <2>1. Theorems[p] \in Seq(Thm)
    BY PapersAssumption
  <2>2. Yielding(p) \in SUBSET (DOMAIN Theorems[p])
    BY DEF Yielding
  <2> QED
    BY <2>1, <2>2, PickedIs DEF RowsOf
<1> QED
  BY <1>1 DEF Yield

\* What is passed, with the target reached or nothing after it, gives the rows of an
\* uninterrupted run.
LEMMA Ends ==
  ASSUME OnFile, NEW passed \in Seq(Paper), ToSet(passed) \subseteq done, NEW rest \in Seq(Paper),
         NEW skipped, Mined(skipped) = passed \o rest,
         NEW cands, cands = FirstOf(RowsInOrder(passed, rows, MaxPerPaper), Target),
         rest = <<>> \/ Len(cands) >= Target
  PROVE  cands = Uninterrupted(skipped)
<1> DEFINE r == RowsInOrder(passed, rows, MaxPerPaper)
           y == RowsInOrder(passed, Yield, MaxPerPaper)
           z == RowsInOrder(rest, Yield, MaxPerPaper)
           all == RowsInOrder(passed \o rest, Yield, MaxPerPaper)
<1>1. r = y
  <2>1. \A p \in ToSet(passed) : rows[p] = Yield[p]
    BY YieldIs DEF OnFile, AllThere
  <2> QED
    BY <2>1, RowsSame
<1>2. all = y \o z
  BY YieldIs, RowsConcat
<1>3. y \in Seq(Thm) /\ z \in Seq(Thm) /\ Target \in Nat
  BY YieldIs, RowsType, CapsHold DEF Caps
<1>4. Uninterrupted(skipped) = FirstOf(all, Target)
  BY DEF Uninterrupted, Selected
<1>5. rest = <<>> => passed \o rest = passed
  BY ConcatEmptySeq
<1>6. cands = FirstOf(r, Target)
  OBVIOUS
<1>7. rest = <<>> => all = y
  BY <1>5
<1> HIDE DEF r, y, z, all
<1>8. ASSUME Len(cands) >= Target PROVE FirstOf(all, Target) = FirstOf(y, Target)
  <2>1. Target <= Len(y)
    <3>1. Len(FirstOf(y, Target)) = IF Len(y) < Target THEN Len(y) ELSE Target
      BY <1>3, FirstOfIs
    <3>2. Len(y) \in Nat /\ Len(FirstOf(y, Target)) >= Target
      BY <1>1, <1>3, <1>6, <1>8
    <3> QED
      BY <1>3, <3>1, <3>2
  <2>2. FirstOf(y \o z, Target) = FirstOf(y, Target)
    BY <1>3, <2>1, FirstOfConcat
  <2> QED
    BY <1>2, <2>2
<1> QED
  BY <1>1, <1>4, <1>6, <1>7, <1>8

-----------------------------------------------------------------------------
(* The steps: first what most of them have in common.                        *)

\* What is done keeps its rows, and more papers may be done.
LEMMA OnFileKept ==
  ASSUME OnFile, UNCHANGED <<job, done, journal>>, rows' \in [Paper -> Seq(Thm)],
         \A p \in done : rows'[p] = rows[p],
         \A p \in done : \A i : <<p, i>> \in missed' <=> <<p, i>> \in missed
  PROVE  OnFile'
<1>1. \A p \in done : RowsOf(p)' = RowsOf(p)
  <2> SUFFICES ASSUME NEW p \in done PROVE RowsOf(p)' = RowsOf(p)
    OBVIOUS
  <2>1. \A i : (i \in Yielding(p))' <=> i \in Yielding(p)
    BY DEF Yielding, Usable, mode
  <2>2. Yielding(p)' \subseteq DOMAIN Theorems[p] /\ Yielding(p) \subseteq DOMAIN Theorems[p]
    BY DEF Yielding
  <2>3. Yielding(p)' = Yielding(p)
    BY <2>1, <2>2
  <2> QED
    BY <2>3 DEF RowsOf
<1>2. AllThere'
  BY <1>1 DEF OnFile, AllThere, adapter
<1>3. adapter = "bulk" => Journaled'
  <2>1. \A c, p : Before(c, p)' = Before(c, p)
    BY DEF Before
  <2>2. \A c, p : Offered(rows, done \cap Before(c, p)) = Offered(rows', done \cap Before(c, p))
    <3> SUFFICES ASSUME NEW c, NEW p
                 PROVE  Offered(rows, done \cap Before(c, p)) = Offered(rows', done \cap Before(c, p))
      OBVIOUS
    <3>1. \A q \in done \cap Before(c, p) : rows'[q] = rows[q]
      OBVIOUS
    <3> QED
      BY <3>1, OfferedSame
  <2>3. \A c, p : Offered(rows, done \cap Before(c, p))' = Offered(rows', done \cap Before(c, p))
    BY <2>1
  <2> SUFFICES ASSUME adapter = "bulk" PROVE Journaled'
    OBVIOUS
  <2>4. /\ journal \subseteq ToSet(Needed)
        /\ \A c \in journal : \A p \in ToSet(PapersOf(c)) \ (done \cup Exclude \cup Absent) :
             Offered(rows, done \cap Before(c, p)) >= Target
    BY DEF OnFile, Journaled
  <2>5. /\ journal \subseteq ToSet(Needed)
        /\ \A c \in journal : \A p \in ToSet(PapersOf(c)) \ (done \cup Exclude \cup Absent) :
             Offered(rows, done \cap Before(c, p))' >= Target
    <3> SUFFICES ASSUME NEW c \in journal, NEW p \in ToSet(PapersOf(c)) \ (done \cup Exclude \cup Absent)
                 PROVE  Offered(rows, done \cap Before(c, p))' >= Target
      BY <2>4
    <3>1. Offered(rows, done \cap Before(c, p)) >= Target
      BY <2>4
    <3>2. Offered(rows, done \cap Before(c, p))' = Offered(rows, done \cap Before(c, p))
      BY <2>2, <2>3
    <3> QED
      BY <3>1, <3>2
  <2> QED
    BY <2>5 DEF Journaled
<1> QED
  BY <1>2, <1>3 DEF OnFile, adapter

\* The process is gone.
LEMMA Ended ==
  ASSUME Retracing, pc # "idle", pc' = "idle",
         UNCHANGED <<job, marker, rows, done, journal, out, missed>>
  PROVE  Retracing'
<1>1. OnFile'
  BY OnFileKept DEF Retracing, OnFile
<1>2. marker'
  BY DEF Retracing, Working
<1>3. Working' /\ Ending'
  BY <1>2 DEF Working, Ending, Final, OnPaper, Walking, InChunk
<1> QED
  BY <1>1, <1>3 DEF Retracing

\* The process writes what it has and leaves the marker.
LEMMA BrokenOff ==
  ASSUME Retracing, pc # "idle", pc' = "write", m' = [m EXCEPT !.over = TRUE],
         UNCHANGED <<job, marker, rows, done, journal, out, missed>>
  PROVE  Retracing'
<1>1. OnFile'
  BY OnFileKept DEF Retracing, OnFile
<1>2. marker /\ Held /\ m.surplus \in Seq(Thm)
  BY DEF Retracing, Working
<1>3. /\ DOMAIN m' = DOMAIN m /\ m'.over /\ m'.surplus = m.surplus
      /\ \A f \in {"store", "page", "left", "got", "cands"} : m'[f] = m[f]
  BY <1>2 DEF Held, NoRun
<1>4. \A p \in done : rows'[p] = rows[p]
  OBVIOUS
<1>5. Held'
  BY <1>2, <1>3, <1>4, HeldStays
<1>6. Working' /\ Ending'
  BY <1>2, <1>3, <1>5 DEF Working, Ending, Final, OnPaper, Walking, InChunk
<1> QED
  BY <1>1, <1>6 DEF Retracing

\* The process is on its way.
LEMMA OnTheWay ==
  ASSUME OnFile', Kinds, marker', OnItsWay', Held', m'.surplus \in Seq(Thm), Tally', Extracting',
         adapter' = adapter,
         adapter = "api" => ApiWalk' /\ pc' \in OnPaper \cup {"query", "page", "keep"},
         adapter = "bulk" => BulkWalk' /\ pc' \in Walking
  PROVE  Retracing'
<1>1. pc' \notin {"idle", "index", "write", "surplus", "finish"}
  BY DEF OnItsWay, Walking, InChunk, OnPaper
<1>2. Working'
  BY <1>1 DEF Working
<1>3. Ending'
  BY <1>1 DEF Ending, Final
<1> QED
  BY <1>2, <1>3 DEF Retracing, Walking, InChunk, OnPaper

\* The tally stays when nothing is passed and nothing passed changes.
LEMMA TallyStays ==
  ASSUME Tally, Passed \in Seq(Paper), Passed' = Passed, done \subseteq done',
         \A p \in ToSet(Passed) : rows'[p] = rows[p],
         \A f \in {"cands", "surplus", "full"} : m'[f] = m[f],
         m.full => pc' \in {"query", "mark", "release"}
  PROVE  Tally'
<1>1. RowsInOrder(Passed, rows, MaxPerPaper) = RowsInOrder(Passed, rows', MaxPerPaper)
  BY RowsSame
<1> QED
  BY <1>1 DEF Tally

\* Through a paper only what it yields changes.
Way == {"page", "seen", "titles", "taken", "start", "queries", "todo", "bytes",
        "skipped", "paper", "cands", "surplus", "full"}

\* A step that only moves on with the paper in hand.
LEMMA PaperOn ==
  ASSUME Retracing, Kinds, OnFile', pc \in OnPaper, pc' \in OnPaper \cup {"keep"},
         UNCHANGED <<job, chunk, marker, journal>>, done \subseteq done',
         \A p \in done : rows'[p] = rows[p],
         Held', \A f \in Way : m'[f] = m[f],
         adapter = "api" => m'.size \in Nat /\ m'.size >= PageFloor,
         Extracting'
  PROVE  Retracing'
<1>1. OnItsWay /\ OnItsWay' /\ InPaper /\ InPaper'
  BY DEF OnItsWay, Walking, InChunk, OnPaper, InPaper
<1>2. /\ Held /\ marker /\ m.surplus \in Seq(Thm) /\ Tally
      /\ adapter = "api" => ApiWalk
      /\ adapter = "bulk" => BulkWalk
  BY <1>1, Facts
<1>3. Passed \in Seq(Paper)
  BY <1>1, Along, CoveredIs DEF OnItsPath
<1>4. Limit' = Limit /\ Reached' = Reached /\ Gone' = Gone /\ Turn' = Turn /\ Current' = Current
  BY <1>1 DEF Way, Limit, Reached, Gone, Turn, Current
<1>5. Passed' = Passed
  BY <1>1, <1>4 DEF Way, Passed, ApiPassed, BulkPassed, adapter, InPaper, InChunk
<1>6. \A p \in ToSet(Passed) : rows'[p] = rows[p]
  BY <1>2 DEF Tally
<1>7. Tally'
  <2>1. ~m.full
    BY <1>2 DEF Tally, OnPaper
  <2>2. \A f \in {"cands", "surplus", "full"} : m'[f] = m[f]
    BY DEF Way
  <2> QED
    BY <1>2, <1>3, <1>5, <1>6, <2>1, <2>2, TallyStays
<1>8. adapter = "api" => ApiWalk'
  BY <1>1, <1>2, <1>4 DEF ApiWalk, Way, OnPaper
<1>9. adapter = "bulk" => BulkWalk'
  <2> SUFFICES ASSUME adapter = "bulk" PROVE BulkWalk'
    OBVIOUS
  <2>1. OnPath /\ OnPage
    BY <1>2 DEF BulkWalk, OnPaper, InChunk
  <2>2. OnPath'
    BY <1>4, <2>1 DEF OnPath, Way, OnPaper
  <2>8. /\ m'.page = m.page /\ m'.seen = m.seen /\ m'.skipped = m.skipped
        /\ m'.bytes = m.bytes /\ m'.paper = m.paper
    BY DEF Way
  <2>9. pc \notin {"mark", "release"} /\ pc' \notin {"mark", "release"}
    BY DEF OnPaper
  <2>3. OnPage'
    <3>1. {PapersOf(chunk)[i] : i \in 1..Turn}' = {PapersOf(chunk)[i] : i \in 1..Turn}
      BY <1>4
    <3>2. Met(Gone, m.skipped)' = Met(Gone, m.skipped)
      BY <1>4, <2>8
    <3>3. (m.seen = Exclude \cup Met(Gone, m.skipped) \cup {PapersOf(chunk)[i] : i \in 1..Turn})'
      BY <2>1, <2>8, <3>1, <3>2 DEF OnPage
    <3>4. (InPaper => Turn >= 1 /\ m.paper = PapersOf(chunk)[Turn] /\ m.paper \in Fresh(Gone + 1, m.skipped))'
      BY <1>1, <1>4, <2>1, <2>8 DEF OnPage
    <3>5. (/\ Len(m.page) <= Len(PapersOf(chunk))
           /\ m.page = SubSeq(PapersOf(chunk), Turn + 1, Len(PapersOf(chunk))))'
      BY <1>4, <2>1, <2>8 DEF OnPage
    <3>6. (/\ pc # "release" => (m.bytes <=> chunk \notin journal)
           /\ pc \in {"mark", "release"} /\ ~m.full => m.page = <<>>)'
      BY <2>1, <2>8, <2>9 DEF OnPage
    <3> QED
      BY <3>3, <3>4, <3>5, <3>6 DEF OnPage
  <2>4. RowsInOrder(Passed, rows, MaxPerPaper) = RowsInOrder(Passed, rows', MaxPerPaper)
    BY <1>3, <1>6, RowsSame
  <2>5. Offered(rows', ToSet(Passed)) = Offered(rows, ToSet(Passed))
    BY <1>6, OfferedSame
  <2>6. /\ ToSet(Passed) = m.seen \ (Exclude \cup Absent \cup Current)
        /\ Len(RowsInOrder(Passed, rows, MaxPerPaper)) = Offered(rows, ToSet(Passed))
    BY <1>2 DEF BulkWalk
  <2>7. m'.seen = m.seen
    BY DEF Way
  <2> QED
    BY <1>4, <1>5, <2>2, <2>3, <2>4, <2>5, <2>6, <2>7 DEF BulkWalk, OnPaper, InChunk
<1>10. adapter' = adapter /\ marker' /\ m'.surplus \in Seq(Thm)
  BY <1>2 DEF adapter, Way
<1>11. adapter = "bulk" => pc' \in Walking
  BY DEF Walking, InChunk
<1>12. pc' \in OnPaper \cup {"query", "page", "keep"}
  OBVIOUS
<1> QED
  BY <1>1, <1>7, <1>8, <1>9, <1>10, <1>11, <1>12, OnTheWay

\* What an exchange with arXiv does to the memory: its page size stays in bounds.
Rest == DOMAIN NoRun \ {"halve", "streak", "size"}

\* A clean answer and a throttled one change the paging state only.
LEMMA CleanIs ==
  ASSUME NEW r, DOMAIN r = DOMAIN NoRun, r.size \in Nat, r.size >= PageFloor
  PROVE  /\ DOMAIN Clean(r) = DOMAIN NoRun /\ Clean(r).size \in Nat /\ Clean(r).size >= PageFloor
         /\ \A f \in Rest : Clean(r)[f] = r[f]
<1> DEFINE half == IF r.size \div 2 < PageFloor THEN PageFloor ELSE r.size \div 2
           more == IF 2 * r.size < PageSize THEN 2 * r.size ELSE PageSize
<1>0. half \in Nat /\ half >= PageFloor /\ more \in Nat /\ more >= PageFloor
  <2>1. PageFloor \in Nat /\ PageSize \in Nat /\ PageFloor <= PageSize
    BY PagesAssumption
  <2>2. r.size \div 2 \in Nat /\ 2 * r.size \in Nat /\ 2 * r.size >= r.size
    OBVIOUS
  <2> QED
    BY <2>1, <2>2
<1>1. \/ Clean(r) = [r EXCEPT !.halve = FALSE, !.streak = 0, !.size = half]
      \/ Clean(r) = [r EXCEPT !.streak = r.streak + 1]
      \/ Clean(r) = [r EXCEPT !.streak = 0, !.size = more]
      \/ Clean(r) = r
  BY DEF Clean
<1> HIDE DEF half, more
<1>2. CASE Clean(r) = [r EXCEPT !.halve = FALSE, !.streak = 0, !.size = half]
  BY <1>0, <1>2 DEF NoRun, Rest
<1>3. CASE Clean(r) = [r EXCEPT !.streak = r.streak + 1]
  BY <1>3 DEF NoRun, Rest
<1>4. CASE Clean(r) = [r EXCEPT !.streak = 0, !.size = more]
  BY <1>0, <1>4 DEF NoRun, Rest
<1>5. CASE Clean(r) = r
  BY <1>5 DEF NoRun, Rest
<1> QED
  BY <1>1, <1>2, <1>3, <1>4, <1>5

LEMMA ThrottledIs ==
  ASSUME NEW r, DOMAIN r = DOMAIN NoRun
  PROVE  /\ DOMAIN Throttled(r) = DOMAIN NoRun /\ Throttled(r).size = r.size
         /\ \A f \in Rest : Throttled(r)[f] = r[f]
BY DEF Throttled, NoRun, Rest

-----------------------------------------------------------------------------
(* The theorems of a paper.                                                  *)

\* The place in the theorems of the paper in hand.
LEMMA Places ==
  ASSUME m.paper \in Paper, m.left \in Seq(Thm), Mining
  PROVE  /\ Len(Theorems[m.paper]) \in Nat /\ Theorems[m.paper] \in Seq(Thm)
         /\ DOMAIN Theorems[m.paper] = 1..Len(Theorems[m.paper])
         /\ Place(m) \in 1..(Len(Theorems[m.paper]) + 1)
         /\ m.left = <<>> <=> Place(m) = Len(Theorems[m.paper]) + 1
         /\ m.left # <<>> => /\ Place(m) \in DOMAIN Theorems[m.paper]
                             /\ Head(m.left) = Theorems[m.paper][Place(m)]
                             /\ Head(m.left) \in Thm /\ Tail(m.left) \in Seq(Thm)
                             /\ Len(Tail(m.left)) = Len(m.left) - 1
                             /\ Tail(m.left) = SubSeq(Theorems[m.paper], Place(m) + 1,
                                                      Len(Theorems[m.paper]))
<1> DEFINE s == Theorems[m.paper]
           L == Len(s)
           i == L - Len(m.left)
<1>14. s \in Seq(Thm)
  BY PapersAssumption
<1>3. Len(m.left) <= L /\ Place(m) = i + 1 /\ m.left = SubSeq(s, i + 1, L)
  BY DEF Mining, Place
<1>8. L = Len(s) /\ i = L - Len(m.left)
  OBVIOUS
<1> HIDE DEF s, i, L
<1>15. Len(m.left) \in Nat /\ Len(s) \in Nat
  BY <1>14
<1>1. s \in Seq(Thm) /\ L \in Nat /\ Len(m.left) \in Nat
  BY <1>8, <1>14, <1>15
<1>2. DOMAIN s = 1..L
  BY <1>1, <1>8, LenProperties
<1>4. i \in 0..L /\ i \in Nat /\ L \in 0..L /\ L \in 0..Len(s)
  BY <1>1, <1>3, <1>8
<1>9. Len(m.left) = L - i
  BY <1>1, <1>8
<1>5. SubSeq(s, i + 1, L) = <<>> <=> i = L
  BY <1>1, <1>4, Slice
<1>6. i < L => Head(SubSeq(s, i + 1, L)) = s[i + 1] /\ s[i + 1] \in Thm
               /\ Tail(SubSeq(s, i + 1, L)) = SubSeq(s, (i + 1) + 1, L)
  BY <1>1, <1>4, Slice
<1>7. m.left # <<>> => Tail(m.left) \in Seq(Thm) /\ Len(Tail(m.left)) = Len(m.left) - 1
  BY HeadTailProperties
<1>10. m.left = <<>> <=> i = L
  BY <1>3, <1>5
<1>11. Place(m) \in 1..(L + 1) /\ (i = L <=> Place(m) = L + 1)
  BY <1>1, <1>3, <1>4
<1>12. m.left # <<>> => i < L /\ Place(m) \in 1..L
  BY <1>1, <1>3, <1>4, <1>10
<1>13. m.left # <<>> => /\ Head(m.left) = s[Place(m)] /\ Head(m.left) \in Thm
                        /\ Tail(m.left) = SubSeq(s, Place(m) + 1, L)
  BY <1>3, <1>6, <1>12
<1> QED
  BY <1>1, <1>2, <1>7, <1>10, <1>11, <1>12, <1>13 DEF s, L

\* A paper is mined from its first theorem.
LEMMA MiningBegins ==
  ASSUME m'.paper \in Paper, m'.got = <<>>, m'.left = Theorems[m'.paper],
         \A i : <<m'.paper, i>> \notin missed'
  PROVE  Mining'
<1> DEFINE s == Theorems[m'.paper]
<1>1. s \in Seq(Thm)
  BY PapersAssumption
<1> HIDE DEF s
<1>2. Len(s) \in Nat /\ FirstOf(s, Len(s)) = s /\ DOMAIN s = 1..Len(s)
  BY <1>1, FirstOfIs, LenProperties
<1>3. FirstOf(s, Len(s)) = SubSeq(s, 1, Len(s))
  BY <1>2 DEF FirstOf
<1>4. Place(m)' = 1
  <2>1. Place(m)' = Len(s) - Len(s) + 1
    BY DEF Place, s
  <2> QED
    BY <1>2, <2>1
<1>5. {i \in Yielding(m.paper) : i < Place(m)}' = {}
  <2>1. Yielding(m.paper)' \subseteq 1..Len(s)
    BY <1>2 DEF Yielding, s
  <2>2. \A i \in 1..Len(s) : ~(i < 1)
    BY <1>2
  <2> QED
    BY <1>4, <2>1, <2>2
<1>6. (m.got = Picked(Theorems[m.paper], {i \in Yielding(m.paper) : i < Place(m)}))'
  BY <1>5, PickedNone
<1>7. (/\ Len(m.left) <= Len(Theorems[m.paper])
       /\ m.left = SubSeq(Theorems[m.paper], Place(m), Len(Theorems[m.paper])))'
  BY <1>2, <1>3, <1>4 DEF s
<1> QED
  BY <1>6, <1>7 DEF Mining

\* The source could not be fetched: the paper is one without theorems.
LEMMA MiningFails ==
  ASSUME m'.paper \in Paper, m'.got = <<>>, m'.left = <<>>,
         \A i \in DOMAIN Theorems[m'.paper] : <<m'.paper, i>> \in missed'
  PROVE  Mining'
<1> DEFINE s == Theorems[m'.paper]
<1>1. s \in Seq(Thm)
  BY PapersAssumption
<1> HIDE DEF s
<1>2. Len(s) \in Nat /\ DOMAIN s = 1..Len(s) /\ Len(<<>>) = 0
  BY <1>1, LenProperties
<1>4. Place(m)' = Len(s) + 1
  <2>1. Place(m)' = Len(s) - 0 + 1
    BY <1>2 DEF Place, s
  <2> QED
    BY <1>2, <2>1
<1>3. SubSeq(s, Len(s) + 1, Len(s)) = <<>>
  <2>1. Len(s) \in 0..Len(s)
    BY <1>2
  <2> DEFINE L == Len(s)
  <2>2. L \in 0..L
    BY <2>1
  <2>3. SubSeq(s, L + 1, L) = <<>> <=> L = L
    BY <1>1, <2>2, Slice
  <2> QED
    BY <2>3
<1>5. {i \in Yielding(m.paper) : i < Place(m)}' = {}
  BY DEF Yielding
<1>6. (m.got = Picked(Theorems[m.paper], {i \in Yielding(m.paper) : i < Place(m)}))'
  BY <1>5, PickedNone
<1>9. Len(m'.left) = 0 /\ 0 <= Len(s)
  BY <1>2
<1>7. (/\ Len(m.left) <= Len(Theorems[m.paper])
       /\ m.left = SubSeq(Theorems[m.paper], Place(m), Len(Theorems[m.paper])))'
  BY <1>3, <1>4, <1>9 DEF s
<1>8. (\A i \in DOMAIN Theorems[m.paper] : <<m.paper, i>> \in missed => i < Place(m))'
  BY <1>2, <1>4 DEF s
<1> QED
  BY <1>6, <1>7, <1>8 DEF Mining

\* The theorem in hand is used, passed over, or given up.
LEMMA MiningOn ==
  ASSUME m.paper \in Paper, m.left \in Seq(Thm), Mining, m.left # <<>>, job' = job,
         m'.paper = m.paper, m'.left = Tail(m.left),
         \/ /\ m'.got = IF Usable(Head(m.left)) THEN Append(m.got, Head(m.left)) ELSE m.got
            /\ missed' = missed
         \/ m'.got = m.got /\ missed' = missed \cup {<<m.paper, Place(m)>>}
  PROVE  Mining'
<1> DEFINE s == Theorems[m.paper]
           L == Len(s)
           k == Place(m)
           A == {i \in Yielding(m.paper) : i < k}
           B == {i \in Yielding(m.paper) : i < Place(m)}'
<1>1. /\ L \in Nat /\ s \in Seq(Thm) /\ DOMAIN s = 1..L
      /\ k \in 1..L /\ Head(m.left) = s[k] /\ Head(m.left) \in Thm
      /\ Tail(m.left) \in Seq(Thm) /\ Len(Tail(m.left)) = Len(m.left) - 1
      /\ Tail(m.left) = SubSeq(s, k + 1, L)
  BY Places
<1>2. Len(m.left) \in Nat /\ k = L - Len(m.left) + 1 /\ Len(m.left) <= L
  BY DEF Place, Mining
<1>3. Place(m)' = k + 1
  <2>1. Place(m)' = L - (Len(m.left) - 1) + 1
    BY <1>1 DEF Place
  <2> QED
    BY <1>1, <1>2, <2>1
<1>4. m.got = Picked(s, A) /\ \A i \in DOMAIN s : <<m.paper, i>> \in missed => i < k
  BY DEF Mining
<1>5. \A i : i \in Yielding(m.paper) <=> i \in 1..L /\ Usable(s[i]) /\ <<m.paper, i>> \notin missed
  BY <1>1 DEF Yielding
<1>6. \A i : i \in Yielding(m.paper)' <=> i \in 1..L /\ Usable(s[i]) /\ <<m.paper, i>> \notin missed'
  BY <1>1 DEF Yielding, Usable, mode
<1>7. \A i : i \in B <=> i \in Yielding(m.paper)' /\ i < k + 1
  BY <1>3
<1>8. A \in SUBSET (DOMAIN s) /\ \A a \in A : a < k
  BY <1>1, <1>5
<1>14. B = {i \in Yielding(m.paper)' : i < k + 1}
  BY <1>3
<1> HIDE DEF B
<1>9. \A i \in 1..L : i < k + 1 <=> i < k \/ i = k
  BY <1>1
<1>10. m'.got = Picked(s, B)
  <2>1. CASE missed' = missed /\ Usable(s[k]) /\ m'.got = Append(m.got, s[k])
    <3>1. <<m.paper, k>> \notin missed
      BY <1>1, <1>4
    <3>2. B = A \cup {k}
      BY <1>1, <1>5, <1>6, <1>7, <1>9, <2>1, <3>1
    <3> HIDE DEF A, k
    <3>3. Picked(s, A \cup {k}) = Append(Picked(s, A), s[k])
      BY <1>1, <1>8, PickedMore
    <3> QED
      BY <1>4, <2>1, <3>2, <3>3
  <2>2. CASE missed' = missed /\ ~Usable(s[k]) /\ m'.got = m.got
    <3>1. B = A
      BY <1>1, <1>5, <1>6, <1>7, <1>9, <2>2
    <3> QED
      BY <1>4, <2>2, <3>1
  <2>3. CASE missed' = missed \cup {<<m.paper, k>>} /\ m'.got = m.got
    <3>1. \A i : <<m.paper, i>> \in missed' <=> <<m.paper, i>> \in missed \/ i = k
      BY <2>3
    <3> HIDE DEF k, s, L
    <3>4. \A i \in 1..L : i < k + 1 /\ i # k <=> i < k
      BY <1>1
    <3>5. \A i : i \in B <=> i \in 1..L /\ Usable(s[i]) /\ <<m.paper, i>> \notin missed' /\ i < k + 1
      BY <1>6, <1>7
    <3>6. \A i : i \in B <=> i \in 1..L /\ Usable(s[i]) /\ <<m.paper, i>> \notin missed /\ i # k /\ i < k + 1
      BY <3>1, <3>5
    <3>2. \A i : i \in B <=> i \in Yielding(m.paper) /\ i < k
      BY <1>5, <3>4, <3>6
    <3>3. B = A
      <4>1. B \subseteq A
        BY <3>2
      <4>2. A \subseteq B
        BY <3>2
      <4> QED
        BY <4>1, <4>2
    <3> QED
      BY <1>4, <2>3, <3>3
  <2> QED
    BY <1>1, <2>1, <2>2, <2>3
<1>11. (/\ Len(m.left) <= Len(Theorems[m.paper])
        /\ m.left = SubSeq(Theorems[m.paper], Place(m), Len(Theorems[m.paper])))'
  <2>1. Len(m'.left) <= L
    BY <1>1, <1>2
  <2> QED
    BY <1>1, <1>3, <2>1
<1>12. (\A i \in DOMAIN Theorems[m.paper] : <<m.paper, i>> \in missed => i < Place(m))'
  <2>1. \A i \in DOMAIN s : <<m.paper, i>> \in missed' => i < k \/ i = k
    BY <1>4
  <2> QED
    BY <1>1, <1>3, <1>9, <2>1
<1>13. (m.got = Picked(Theorems[m.paper], {i \in Yielding(m.paper) : i < Place(m)}))'
  BY <1>10 DEF B
<1> QED
  BY <1>11, <1>12, <1>13 DEF Mining

\* What the invariant says with a paper in hand.
LEMMA AtPaper ==
  ASSUME Retracing, Kinds, pc \in OnPaper
  PROVE  /\ Held /\ marker /\ OnFile /\ m.surplus \in Seq(Thm) /\ Extracting /\ Tally
         /\ m.paper \in Paper /\ m.paper \notin done \cup Exclude
         /\ m.left \in Seq(Thm) /\ m.got \in Seq(Thm)
         /\ adapter = "api" => m.size \in Nat /\ m.size >= PageFloor
         /\ adapter = "bulk" => m.paper \notin Absent
         /\ DOMAIN m = DOMAIN NoRun
<1>1. OnItsWay /\ InPaper /\ AtChunkPage
  BY DEF OnItsWay, Walking, InChunk, OnPaper, InPaper, AtChunkPage
<1>2. /\ Held /\ marker /\ m.surplus \in Seq(Thm) /\ OnFile /\ Tally /\ Extracting
  BY <1>1, Facts
<1>3. adapter = "api" => ApiWalk
  BY <1>1, Facts
<1>4. adapter = "bulk" => BulkWalk
  BY <1>1, Facts
<1>5. m.paper \in Paper
  BY <1>1, Along, CoveredIs DEF OnItsPath
<1>6. m.paper \notin done /\ m.left \in Seq(Thm) /\ m.got \in Seq(Thm) /\ DOMAIN m = DOMAIN NoRun
  BY <1>2 DEF Extracting, Held
<1>7. adapter = "api" => m.size \in Nat /\ m.size >= PageFloor /\ m.paper \notin Exclude
  BY <1>1, <1>3 DEF ApiWalk, Counted, Counting
<1>8. adapter = "bulk" => m.paper \notin Exclude \cup Absent
  BY <1>1, <1>4 DEF BulkWalk, OnPage, AtChunkPage, Fresh
<1> QED
  BY <1>2, <1>5, <1>6, <1>7, <1>8 DEF Kinds

\* A step from one theorem of the paper in hand to the next.
LEMMA PaperMoves ==
  ASSUME Retracing, Kinds, pc \in {"fetch", "ask", "remember"}, pc' \in {"ask", "remember", "commit"},
         UNCHANGED <<job, chunk, marker, rows, done, journal>>,
         DOMAIN m' = DOMAIN m, m'.left \in Seq(Thm), m'.got \in Seq(Thm), \A f \in Way \cup {"store"} : m'[f] = m[f],
         m'.size = m.size \/ (m'.size \in Nat /\ m'.size >= PageFloor),
         \A p : p # m.paper => \A i : <<p, i>> \in missed' <=> <<p, i>> \in missed,
         Mining', pc' = "remember" => m'.left # <<>> /\ asked' = Head(m'.left),
         pc' = "commit" => m'.left = <<>>
  PROVE  Retracing'
<1>1. pc \in OnPaper /\ pc' \in OnPaper \cup {"keep"} /\ pc' \notin {"fetch", "settle", "keep"}
  BY DEF OnPaper
<1>2. /\ Held /\ OnFile /\ m.paper \notin done
      /\ adapter = "api" => m.size \in Nat /\ m.size >= PageFloor
  BY <1>1, AtPaper
<1>3. rows \in [Paper -> Seq(Thm)] /\ rows' = rows /\ done' = done /\ job' = job /\ journal' = journal
  BY <1>2 DEF OnFile
<1>4. \A p \in done : \A i : <<p, i>> \in missed' <=> <<p, i>> \in missed
  BY <1>2
<1>5. OnFile'
  BY <1>2, <1>3, <1>4, OnFileKept
<1>6. m'.store = m.store /\ m'.page = m.page /\ m'.cands = m.cands /\ m'.paper = m.paper
  BY DEF Way
<1>7. Held'
  BY <1>2, <1>6 DEF Held
<1>8. Extracting'
  BY <1>1, <1>2, <1>6 DEF Extracting
<1>9. done \subseteq done' /\ \A p \in done : rows'[p] = rows[p]
  OBVIOUS
<1>10. adapter = "api" => m'.size \in Nat /\ m'.size >= PageFloor
  BY <1>2
<1> QED
  BY <1>1, <1>5, <1>7, <1>8, <1>9, <1>10, PaperOn

\* ApiFetch, BulkFetch.
LEMMA RetraceFetches ==
  ASSUME Retracing, Kinds, ApiFetch \/ BulkFetch
  PROVE  Retracing'
<1>1. pc = "fetch" /\ UNCHANGED <<job, chunk, marker, rows, done, journal, out>>
  BY DEF ApiFetch, BulkFetch, files
<1>2. pc \in OnPaper
  BY <1>1 DEF OnPaper
<1>3. /\ Held /\ m.paper \in Paper /\ DOMAIN m = DOMAIN NoRun /\ Extracting /\ m.got \in Seq(Thm)
      /\ adapter = "api" => m.size \in Nat /\ m.size >= PageFloor
  BY <1>2, AtPaper
<1>4. m.got = <<>> /\ Theorems[m.paper] \in Seq(Thm) /\ <<>> \in Seq(Thm)
  BY <1>1, <1>3, PapersAssumption DEF Extracting
<1> DEFINE known == {u \in missed : u[1] # m.paper}
<1>5. ASSUME pc' = "ask", DOMAIN m' = DOMAIN m, \A f \in Way \cup {"store"} : m'[f] = m[f], m'.got = m.got,
             m'.size = m.size \/ (m'.size \in Nat /\ m'.size >= PageFloor),
             \/ m'.left = Theorems[m.paper] /\ missed' = known
             \/ m'.left = <<>> /\ missed' = known \cup ({m.paper} \X DOMAIN Theorems[m.paper])
      PROVE  Retracing'
  <2>1. m'.paper = m.paper
    BY <1>5 DEF Way
  <2>2. \A p : p # m.paper => \A i : <<p, i>> \in missed' <=> <<p, i>> \in missed
    BY <1>5
  <2>3. Mining'
    <3>1. CASE m'.left = Theorems[m.paper] /\ missed' = known
      BY <1>3, <1>4, <1>5, <2>1, <3>1, MiningBegins
    <3>2. CASE m'.left = <<>> /\ missed' = known \cup ({m.paper} \X DOMAIN Theorems[m.paper])
      BY <1>3, <1>4, <1>5, <2>1, <3>2, MiningFails
    <3> QED
      BY <1>5, <3>1, <3>2
  <2>4. m'.left \in Seq(Thm) /\ m'.got \in Seq(Thm) /\ pc' # "remember" /\ pc' # "commit"
    BY <1>4, <1>5
  <2> QED
    BY <1>1, <1>5, <2>2, <2>3, <2>4, PaperMoves
<1>6. CASE BulkFetch
  <2>1. pc' = "ask" /\ m' = [m EXCEPT !.left = Theorems[m.paper]] /\ missed' = known
    BY <1>6 DEF BulkFetch
  <2>2. /\ DOMAIN m' = DOMAIN m /\ m'.got = m.got /\ m'.size = m.size /\ m'.left = Theorems[m.paper]
        /\ \A f \in Way \cup {"store"} : m'[f] = m[f]
    BY <1>3, <2>1 DEF NoRun, Way
  <2> HIDE DEF known
  <2> QED
    BY <1>5, <2>1, <2>2
<1>7. CASE ApiFetch
  <2>1. \/ pc' = "write" /\ m' = [m EXCEPT !.over = TRUE] /\ UNCHANGED missed
        \/ /\ pc' = "ask" /\ missed' = known
           /\ \/ m' = [Clean(Charged("latex_fetches")) EXCEPT !.left = Theorems[m.paper]]
              \/ m' = [Clean(Throttled(Charged("latex_fetches"))) EXCEPT !.left = Theorems[m.paper]]
        \/ /\ pc' = "ask" /\ missed' = known \cup ({m.paper} \X DOMAIN Theorems[m.paper])
           /\ m' = [Throttled(Charged("latex_fetches")) EXCEPT !.left = <<>>]
    BY <1>7 DEF ApiFetch, Exhausted
  <2>2. CASE pc' = "write" /\ m' = [m EXCEPT !.over = TRUE] /\ UNCHANGED missed
    BY <1>1, <2>2, BrokenOff
  <2> DEFINE r == Charged("latex_fetches")
             Kept(x) == /\ DOMAIN x = DOMAIN NoRun /\ x.size \in Nat /\ x.size >= PageFloor
                        /\ \A f \in Rest : x[f] = r[f]
  <2>3. DOMAIN r = DOMAIN NoRun /\ r.size = m.size /\ \A f \in Way \cup {"store", "got"} : r[f] = m[f]
    BY <1>3 DEF Charged, NoRun, Way
  <2>4. r.size \in Nat /\ r.size >= PageFloor
    BY <1>3, <1>7, <2>3 DEF ApiFetch
  <2> HIDE DEF r, known
  <2>5. Kept(Clean(r)) /\ Kept(Throttled(r))
    BY <2>3, <2>4, CleanIs, ThrottledIs
  <2>6. Kept(Clean(Throttled(r)))
    <3> DEFINE t == Throttled(r)
    <3>1. DOMAIN t = DOMAIN NoRun /\ t.size \in Nat /\ t.size >= PageFloor /\ \A f \in Rest : t[f] = r[f]
      BY <2>5
    <3> HIDE DEF t
    <3>2. /\ DOMAIN Clean(t) = DOMAIN NoRun /\ Clean(t).size \in Nat /\ Clean(t).size >= PageFloor
          /\ \A f \in Rest : Clean(t)[f] = t[f]
      BY <3>1, CleanIs
    <3> QED
      BY <3>1, <3>2 DEF t
  <2>7. ASSUME NEW x, Kept(x), NEW left, m' = [x EXCEPT !.left = left]
        PROVE  /\ DOMAIN m' = DOMAIN m /\ \A f \in Way \cup {"store"} : m'[f] = m[f]
               /\ m'.got = m.got /\ m'.left = left /\ m'.size \in Nat /\ m'.size >= PageFloor
    <3>1. Way \cup {"store", "got"} \subseteq Rest /\ "left" \in DOMAIN NoRun
      BY DEF Way, Rest, NoRun
    <3>2. \A f \in Way \cup {"store", "got"} : x[f] = m[f]
      BY <2>3, <2>7, <3>1
    <3>3. /\ DOMAIN m' = DOMAIN x /\ m'.left = left /\ m'.size = x.size
          /\ \A f \in Way \cup {"store", "got"} : m'[f] = x[f]
      BY <2>7 DEF NoRun, Way
    <3> QED
      BY <1>3, <2>7, <3>2, <3>3
  <2> HIDE DEF Kept
  <2>8. CASE /\ pc' = "ask" /\ missed' = known
             /\ \/ m' = [Clean(r) EXCEPT !.left = Theorems[m.paper]]
                \/ m' = [Clean(Throttled(r)) EXCEPT !.left = Theorems[m.paper]]
    <3>1. /\ DOMAIN m' = DOMAIN m /\ \A f \in Way \cup {"store"} : m'[f] = m[f]
          /\ m'.got = m.got /\ m'.left = Theorems[m.paper] /\ m'.size \in Nat /\ m'.size >= PageFloor
      BY <2>5, <2>6, <2>7, <2>8
    <3> QED
      BY <1>5, <2>8, <3>1
  <2>9. CASE /\ pc' = "ask" /\ missed' = known \cup ({m.paper} \X DOMAIN Theorems[m.paper])
             /\ m' = [Throttled(r) EXCEPT !.left = <<>>]
    <3>1. /\ DOMAIN m' = DOMAIN m /\ \A f \in Way \cup {"store"} : m'[f] = m[f]
          /\ m'.got = m.got /\ m'.left = <<>> /\ m'.size \in Nat /\ m'.size >= PageFloor
      BY <2>5, <2>7, <2>9
    <3> QED
      BY <1>5, <2>9, <3>1
  <2> QED
    BY <2>1, <2>2, <2>8, <2>9 DEF r
<1> QED
  BY <1>6, <1>7

\* Ask, Remember.
LEMMA RetraceAnswers ==
  ASSUME Retracing, Kinds, Ask \/ Remember
  PROVE  Retracing'
<1>1. pc \in {"ask", "remember"} /\ UNCHANGED <<job, chunk, marker, rows, done, journal, out>>
  BY DEF Ask, Remember, files
<1>2. pc \in OnPaper
  BY <1>1 DEF OnPaper
<1>3. /\ Held /\ m.paper \in Paper /\ DOMAIN m = DOMAIN NoRun /\ m.left \in Seq(Thm) /\ m.got \in Seq(Thm)
      /\ Extracting
  BY <1>2, AtPaper
<1>4. Mining /\ (pc = "remember" => m.left # <<>> /\ asked = Head(m.left))
  BY <1>1, <1>3 DEF Extracting
<1>5. m.left # <<>> => Head(m.left) \in Thm /\ Tail(m.left) \in Seq(Thm)
  BY <1>3, HeadTailProperties
<1>6. ASSUME pc' = "ask", DOMAIN m' = DOMAIN m, \A f \in Way \cup {"store"} : m'[f] = m[f], m'.size = m.size,
             m.left # <<>>, m'.left = Tail(m.left),
             \/ /\ m'.got = IF Usable(Head(m.left)) THEN Append(m.got, Head(m.left)) ELSE m.got
                /\ missed' = missed
             \/ m'.got = m.got /\ missed' = missed \cup {<<m.paper, Place(m)>>}
      PROVE  Retracing'
  <2>1. m'.paper = m.paper /\ job' = job
    BY <1>1, <1>6 DEF Way
  <2>2. Mining'
    BY <1>3, <1>4, <1>6, <2>1, MiningOn
  <2>3. m'.left \in Seq(Thm) /\ m'.got \in Seq(Thm)
    <3>1. Append(m.got, Head(m.left)) \in Seq(Thm)
      BY <1>3, <1>5, <1>6, AppendProperties
    <3> QED
      BY <1>3, <1>5, <1>6, <3>1
  <2>4. \A p : p # m.paper => \A i : <<p, i>> \in missed' <=> <<p, i>> \in missed
    BY <1>6
  <2>5. pc \in {"fetch", "ask", "remember"} /\ pc' \in {"ask", "remember", "commit"}
        /\ pc' # "remember" /\ pc' # "commit"
    BY <1>1, <1>6
  <2> QED
    BY <1>1, <1>6, <2>2, <2>3, <2>4, <2>5, PaperMoves
<1>7. ASSUME pc' \in {"remember", "commit"}, DOMAIN m' = DOMAIN m, \A f \in Way \cup {"store"} : m'[f] = m[f],
             m'.size = m.size, m'.left = m.left, m'.got = m.got, UNCHANGED missed,
             pc' = "remember" => m.left # <<>> /\ asked' = Head(m.left),
             pc' = "commit" => m.left = <<>>
      PROVE  Retracing'
  <2>1. m'.paper = m.paper /\ job' = job
    BY <1>1, <1>7 DEF Way
  <2>2. Mining'
    <3>1. Place(m)' = Place(m) /\ Yielding(m.paper)' = Yielding(m.paper)
      BY <1>7, <2>1 DEF Place, Yielding, Usable, mode
    <3>2. {i \in Yielding(m.paper) : i < Place(m)}' = {i \in Yielding(m.paper) : i < Place(m)}
      BY <3>1
    <3> QED
      BY <1>4, <1>7, <2>1, <3>1, <3>2 DEF Mining
  <2>3. pc \in {"fetch", "ask", "remember"} /\ pc' \in {"ask", "remember", "commit"}
    BY <1>1, <1>7
  <2>4. \A p : p # m.paper => \A i : <<p, i>> \in missed' <=> <<p, i>> \in missed
    BY <1>7
  <2> QED
    BY <1>1, <1>3, <1>7, <2>2, <2>3, <2>4, PaperMoves
<1>8. ASSUME m.left # <<>>, m' = Consumed(m, Head(m.left))
      PROVE  /\ DOMAIN m' = DOMAIN m /\ m'.size = m.size /\ m'.left = Tail(m.left)
             /\ \A f \in Way \cup {"store"} : m'[f] = m[f]
             /\ m'.got = IF Usable(Head(m.left)) THEN Append(m.got, Head(m.left)) ELSE m.got
  <2> DEFINE got == IF Usable(Head(m.left)) THEN Append(m.got, Head(m.left)) ELSE m.got
  <2>1. m' = [m EXCEPT !.left = Tail(m.left), !.got = got]
    BY <1>8 DEF Consumed
  <2> HIDE DEF got
  <2>2. /\ DOMAIN m' = DOMAIN m /\ m'.size = m.size /\ m'.left = Tail(m.left)
        /\ m'.got = got /\ \A f \in Way \cup {"store"} : m'[f] = m[f]
    BY <1>3, <2>1 DEF NoRun, Way
  <2> QED
    BY <2>2 DEF got
<1>9. CASE Remember
  <2>1. pc = "remember" /\ pc' = "ask" /\ m' = Consumed(m, Head(m.left)) /\ m.left # <<>> /\ missed' = missed
    BY <1>4, <1>9 DEF Remember, history
  <2> QED
    BY <1>6, <1>8, <2>1
<1>10. CASE Ask
  <2>1. \/ pc' = "commit" /\ UNCHANGED <<m, missed>> /\ m.left = <<>>
        \/ pc' = "ask" /\ m.left # <<>> /\ m' = Consumed(m, Head(m.left)) /\ missed' = missed
        \/ pc' = "write" /\ m' = [m EXCEPT !.over = TRUE] /\ missed' = missed
        \/ /\ pc' = "remember" /\ m.left # <<>> /\ m' = Charged("qa_calls") /\ asked' = Head(m.left)
           /\ missed' = missed
        \/ /\ pc' = "ask" /\ m.left # <<>> /\ m' = [Charged("qa_calls") EXCEPT !.left = Tail(@)]
           /\ missed' = missed \cup {<<m.paper, Place(m)>>}
    BY <1>10 DEF Ask, Exhausted
  <2>2. CASE pc' = "commit" /\ UNCHANGED <<m, missed>> /\ m.left = <<>>
    BY <1>7, <2>2
  <2>3. CASE pc' = "ask" /\ m.left # <<>> /\ m' = Consumed(m, Head(m.left)) /\ missed' = missed
    BY <1>6, <1>8, <2>3
  <2>4. CASE pc' = "write" /\ m' = [m EXCEPT !.over = TRUE] /\ missed' = missed
    BY <1>1, <2>4, BrokenOff
  <2> DEFINE r == Charged("qa_calls")
  <2>5. /\ DOMAIN r = DOMAIN NoRun /\ r.size = m.size /\ r.left = m.left /\ r.got = m.got
        /\ \A f \in Way \cup {"store"} : r[f] = m[f]
    BY <1>3 DEF Charged, NoRun, Way
  <2> HIDE DEF r
  <2>6. CASE /\ pc' = "remember" /\ m.left # <<>> /\ m' = r /\ asked' = Head(m.left)
             /\ missed' = missed
    BY <1>3, <1>7, <2>5, <2>6
  <2>7. CASE /\ pc' = "ask" /\ m.left # <<>> /\ m' = [r EXCEPT !.left = Tail(@)]
             /\ missed' = missed \cup {<<m.paper, Place(m)>>}
    <3>1. /\ DOMAIN m' = DOMAIN NoRun /\ m'.size = m.size /\ m'.left = Tail(m.left) /\ m'.got = m.got
          /\ \A f \in Way \cup {"store"} : m'[f] = m[f]
      <4>1. /\ DOMAIN m' = DOMAIN r /\ m'.size = r.size /\ m'.left = Tail(r.left) /\ m'.got = r.got
            /\ \A f \in Way \cup {"store"} : m'[f] = r[f]
        BY <2>5, <2>7 DEF NoRun, Way
      <4> QED
        BY <2>5, <4>1
    <3> QED
      BY <1>3, <1>6, <2>7, <3>1
  <2> QED
    BY <2>1, <2>2, <2>3, <2>4, <2>6, <2>7 DEF r
<1> QED
  BY <1>9, <1>10

\* CommitRows: the first append of a commit.
LEMMA RetraceCommitRows ==
  ASSUME Retracing, Kinds, CommitRows, twice' = {}
  PROVE  Retracing'
<1>1. /\ pc = "commit" /\ pc' = "settle" /\ UNCHANGED <<job, m, chunk, marker, done, journal, out, missed>>
      /\ rows' = [rows EXCEPT ![m.paper] = @ \o m.got] /\ rows[m.paper] = <<>>
  BY DEF CommitRows
<1>2. pc \in OnPaper /\ pc' \in OnPaper
  BY <1>1 DEF OnPaper
<1>3. /\ Held /\ OnFile /\ m.paper \in Paper /\ m.paper \notin done /\ m.got \in Seq(Thm)
      /\ m.left \in Seq(Thm) /\ Extracting
      /\ adapter = "api" => m.size \in Nat /\ m.size >= PageFloor
  BY <1>2, AtPaper
<1>4. rows \in [Paper -> Seq(Thm)]
  BY <1>3 DEF OnFile
<1>5. rows' \in [Paper -> Seq(Thm)] /\ rows'[m.paper] = m.got /\ \A p \in done : rows'[p] = rows[p]
  <2>1. <<>> \o m.got = m.got
    BY <1>3, ConcatEmptySeq
  <2>2. rows' = [rows EXCEPT ![m.paper] = m.got]
    BY <1>1, <1>4, <2>1
  <2> QED
    BY <1>3, <1>4, <2>2
<1>6. OnFile'
  <2>1. \A p \in done : \A i : <<p, i>> \in missed' <=> <<p, i>> \in missed
    BY <1>1
  <2> QED
    BY <1>1, <1>3, <1>5, <2>1, OnFileKept
<1>7. m.got = RowsOf(m.paper)
  <2>1. Mining /\ m.left = <<>>
    BY <1>1, <1>3 DEF Extracting
  <2>2. /\ Place(m) = Len(Theorems[m.paper]) + 1 /\ Len(Theorems[m.paper]) \in Nat
        /\ DOMAIN Theorems[m.paper] = 1..Len(Theorems[m.paper])
    BY <1>3, <2>1, Places
  <2>3. \A i \in DOMAIN Theorems[m.paper] : i < Place(m)
    BY <2>2
  <2>4. {i \in Yielding(m.paper) : i < Place(m)} = Yielding(m.paper)
    BY <2>3 DEF Yielding
  <2> QED
    BY <2>1, <2>4 DEF Mining, RowsOf
<1>8. RowsOf(m.paper)' = RowsOf(m.paper)
  <2>1. Yielding(m.paper)' = Yielding(m.paper)
    BY <1>1 DEF Yielding, Usable, mode
  <2> QED
    BY <1>1, <2>1 DEF RowsOf
<1>9. Held'
  BY <1>1, <1>3, <1>5 DEF Held
<1>10. Extracting'
  BY <1>1, <1>2, <1>3, <1>5, <1>7, <1>8 DEF Extracting
<1>11. \A f \in Way : m'[f] = m[f]
  BY <1>1
<1> QED
  BY <1>1, <1>2, <1>3, <1>5, <1>6, <1>9, <1>10, <1>11, PaperOn

\* CommitPaper: the paper is done.
LEMMA RetraceCommitPaper ==
  ASSUME Retracing, Kinds, CommitPaper
  PROVE  Retracing'
<1>1. /\ pc = "settle" /\ pc' = "keep" /\ UNCHANGED <<job, chunk, marker, rows, journal, out, missed>>
      /\ done' = done \cup {m.paper} /\ m' = [m EXCEPT !.store[m.paper] = m.got]
  BY DEF CommitPaper, history
<1>2. pc \in OnPaper
  BY <1>1 DEF OnPaper
<1>3. /\ Held /\ OnFile /\ m.paper \in Paper /\ m.paper \notin done /\ m.paper \notin Exclude
      /\ m.got \in Seq(Thm) /\ Extracting /\ DOMAIN m = DOMAIN NoRun
      /\ adapter = "api" => m.size \in Nat /\ m.size >= PageFloor
      /\ adapter = "bulk" => m.paper \notin Absent
  BY <1>2, AtPaper
<1>4. m.got = RowsOf(m.paper) /\ rows[m.paper] = m.got
  BY <1>1, <1>3 DEF Extracting
<1>5. \A p : RowsOf(p)' = RowsOf(p)
  <2> SUFFICES ASSUME NEW p PROVE RowsOf(p)' = RowsOf(p)
    OBVIOUS
  <2>1. Yielding(p)' = Yielding(p)
    BY <1>1 DEF Yielding, Usable, mode
  <2> QED
    BY <2>1 DEF RowsOf
<1>6. rows \in [Paper -> Seq(Thm)] /\ done \subseteq Paper /\ AllThere
  BY <1>3 DEF OnFile
<1>7. AllThere'
  BY <1>1, <1>3, <1>4, <1>5, <1>6 DEF AllThere, adapter
<1>8. adapter = "bulk" => Journaled'
  <2> SUFFICES ASSUME adapter = "bulk" PROVE Journaled'
    OBVIOUS
  <2>1. /\ journal \subseteq ToSet(Needed)
        /\ \A c \in journal : \A p \in ToSet(PapersOf(c)) \ (done \cup Exclude \cup Absent) :
             Offered(rows, done \cap Before(c, p)) >= Target
    BY <1>3 DEF OnFile, Journaled
  <2>2. ASSUME NEW c \in journal, NEW p \in ToSet(PapersOf(c)) \ (done \cup Exclude \cup Absent)
        PROVE  Offered(rows, done' \cap Before(c, p)) >= Target
    <3> DEFINE A == done \cap Before(c, p)
               B == done' \cap Before(c, p)
    <3>1. Before(c, p) \subseteq ToSet(Wanted)
      <4>1. \A d \in Chunk : ToSet(PapersOf(d)) \subseteq ToSet(Wanted)
        BY PathIs
      <4>2. journal \subseteq Chunk
        <5>1. ToSet(Needed) \subseteq Chunk
          BY PathIs DEF ToSet
        <5> QED
          BY <2>1, <5>1
      <4> QED
        BY <4>1, <4>2 DEF Before
    <3>2. B \in SUBSET Paper /\ IsFiniteSet(B) /\ A \in SUBSET B
      <4>1. IsFiniteSet(ToSet(Wanted)) /\ B \subseteq ToSet(Wanted) /\ ToSet(Wanted) \subseteq Paper
        BY <3>1, PathIs
      <4> QED
        BY <1>1, <4>1, FS_Subset
    <3>3. Offered(rows, A) >= Target
      BY <2>1
    <3> HIDE DEF A, B
    <3>4. Offered(rows, A) <= Offered(rows, B) /\ Offered(rows, B) \in Nat
      BY <1>6, <3>2, OfferedIs
    <3>5. Offered(rows, A) \in Nat /\ Target \in Nat
      <4>1. A \in SUBSET Paper /\ IsFiniteSet(A)
        BY <3>2, FS_Subset
      <4> QED
        BY <1>6, <4>1, OfferedIs, CapsHold DEF Caps
    <3> QED
      BY <3>3, <3>4, <3>5 DEF B
  <2>3. \A c, p : Before(c, p)' = Before(c, p)
    BY <1>1 DEF Before
  <2>4. ASSUME NEW c \in journal', NEW p \in ToSet(PapersOf(c)) \ (done' \cup Exclude \cup Absent)
        PROVE  Offered(rows', done' \cap Before(c, p)') >= Target
    <3>1. c \in journal /\ p \in ToSet(PapersOf(c)) \ (done \cup Exclude \cup Absent)
      BY <1>1
    <3>2. Offered(rows, done' \cap Before(c, p)) >= Target
      BY <2>2, <3>1
    <3> QED
      BY <1>1, <2>3, <3>2
  <2>5. journal' \subseteq ToSet(Needed)
    BY <1>1, <2>1
  <2> QED
    BY <2>4, <2>5 DEF Journaled
<1>9. OnFile'
  BY <1>1, <1>3, <1>6, <1>7, <1>8 DEF OnFile, adapter
<1>10. /\ DOMAIN m' = DOMAIN m /\ m'.store = [m.store EXCEPT ![m.paper] = m.got]
       /\ \A f \in DOMAIN NoRun \ {"store"} : m'[f] = m[f]
  BY <1>1, <1>3 DEF NoRun
<1>11. Held'
  <2>1. m'.page = m.page /\ m'.left = m.left /\ m'.got = m.got /\ m'.cands = m.cands
    BY <1>10 DEF NoRun
  <2>2. m'.store \in [Paper -> Seq(Thm)] /\ \A p \in done' : m'.store[p] = rows'[p]
    BY <1>1, <1>3, <1>4, <1>6, <1>10 DEF Held
  <2> QED
    BY <1>3, <1>10, <2>1, <2>2 DEF Held
<1>12. m'.paper = m.paper /\ m'.got = m.got /\ m'.size = m.size
  BY <1>10 DEF NoRun
<1>13. Extracting'
  BY <1>1, <1>4, <1>12 DEF Extracting, OnPaper
<1>14. \A f \in Way : m'[f] = m[f]
  BY <1>10 DEF NoRun, Way
<1> QED
  BY <1>1, <1>2, <1>3, <1>9, <1>11, <1>12, <1>13, <1>14, PaperOn

\* What the candidates become when the rows of one more paper reach the target.
LEMMA OneMore ==
  ASSUME NEW s \in Seq(Thm), NEW g \in Seq(Thm), NEW N \in Nat, NEW M \in Nat, NEW k \in Nat,
         Len(s) + k = N, k <= M
  PROVE  s \o FirstOf(g, k) = FirstOf(s \o FirstOf(g, M), N)
<1> DEFINE x == FirstOf(g, k)
           y == FirstOf(g, M)
<1>1. /\ x \in Seq(Thm) /\ Len(x) = (IF Len(g) < k THEN Len(g) ELSE k)
      /\ \A i \in 1..Len(x) : x[i] = g[i]
  BY FirstOfIs
<1>2. /\ y \in Seq(Thm) /\ Len(y) = (IF Len(g) < M THEN Len(g) ELSE M)
      /\ \A i \in 1..Len(y) : y[i] = g[i]
  BY FirstOfIs
<1> HIDE DEF x, y
<1>3. Len(s) \in Nat /\ Len(g) \in Nat /\ Len(x) \in Nat /\ Len(y) \in Nat
  BY <1>1, <1>2
<1> DEFINE u == s \o x
           v == s \o y
           w == FirstOf(v, N)
<1>4. /\ u \in Seq(Thm) /\ Len(u) = Len(s) + Len(x)
      /\ \A i \in 1..(Len(s) + Len(x)) : u[i] = IF i <= Len(s) THEN s[i] ELSE x[i - Len(s)]
  BY <1>1, ConcatProperties
<1>5. /\ v \in Seq(Thm) /\ Len(v) = Len(s) + Len(y)
      /\ \A i \in 1..(Len(s) + Len(y)) : v[i] = IF i <= Len(s) THEN s[i] ELSE y[i - Len(s)]
  BY <1>2, ConcatProperties
<1> HIDE DEF u, v
<1>6. /\ w \in Seq(Thm) /\ Len(w) = (IF Len(v) < N THEN Len(v) ELSE N)
      /\ \A i \in 1..Len(w) : w[i] = v[i]
  BY <1>5, FirstOfIs
<1> HIDE DEF w
<1>7. Len(x) <= Len(y) /\ Len(w) = Len(u) /\ Len(u) \in Nat
  BY <1>1, <1>2, <1>3, <1>4, <1>5, <1>6
<1>8. \A i \in 1..Len(u) : u[i] = w[i]
  <2> SUFFICES ASSUME NEW i \in 1..Len(u) PROVE u[i] = w[i]
    OBVIOUS
  <2>1. i \in 1..(Len(s) + Len(x)) /\ i \in 1..(Len(s) + Len(y)) /\ i \in 1..Len(w)
    BY <1>3, <1>4, <1>7
  <2>2. w[i] = v[i]
    BY <1>6, <2>1
  <2>3. CASE i <= Len(s)
    BY <1>4, <1>5, <2>1, <2>2, <2>3
  <2>4. CASE ~(i <= Len(s))
    <3>1. i - Len(s) \in 1..Len(x) /\ i - Len(s) \in 1..Len(y)
      BY <1>3, <1>7, <2>1, <2>4
    <3>2. x[i - Len(s)] = g[i - Len(s)] /\ y[i - Len(s)] = g[i - Len(s)]
      BY <1>1, <1>2, <3>1
    <3>3. u[i] = x[i - Len(s)]
      BY <1>4, <2>1, <2>4
    <3>4. v[i] = y[i - Len(s)]
      BY <1>5, <2>1, <2>4
    <3> QED
      BY <2>2, <3>2, <3>3, <3>4
  <2> QED
    BY <2>3, <2>4
<1>9. u = w
  BY <1>4, <1>6, <1>7, <1>8, SeqEqual
<1> QED
  BY <1>9 DEF u, v, w, x, y

\* A list has finitely many elements.
LEMMA ElementsFinite ==
  ASSUME NEW T, NEW s \in Seq(T)
  PROVE  IsFiniteSet(ToSet(s)) /\ ToSet(s) \in SUBSET T
<1>1. Len(s) \in Nat /\ DOMAIN s = 1..Len(s) /\ \A i \in 1..Len(s) : s[i] \in T
  BY LenProperties, ElementOfSeq
<1>2. IsFiniteSet(1..Len(s))
  BY <1>1, FS_Interval
<1>3. s \in Surjection(1..Len(s), ToSet(s))
  <2>1. s \in [1..Len(s) -> ToSet(s)]
    <3>1. s \in [1..Len(s) -> T]
      BY LenProperties
    <3> QED
      BY <1>1, <3>1 DEF ToSet
  <2>2. \A t \in ToSet(s) : \E i \in 1..Len(s) : s[i] = t
    BY <1>1 DEF ToSet
  <2> QED
    BY <2>1, <2>2 DEF Surjection
<1>4. IsFiniteSet(ToSet(s))
  BY <1>2, <1>3, FS_Surjection
<1>5. ToSet(s) \subseteq T
  BY <1>1 DEF ToSet
<1> QED
  BY <1>4, <1>5

\* The candidates are what the papers passed give, until the target is reached.
LEMMA CandsAre ==
  ASSUME Tally, OnFile, Passed \in Seq(Paper)
  PROVE  /\ RowsInOrder(Passed, rows, MaxPerPaper) \in Seq(Thm) /\ Target \in Nat
         /\ ~m.full => /\ m.cands = RowsInOrder(Passed, rows, MaxPerPaper)
                       /\ Len(RowsInOrder(Passed, rows, MaxPerPaper)) < Target
<1> DEFINE r == RowsInOrder(Passed, rows, MaxPerPaper)
<1>1. r \in Seq(Thm) /\ Target \in Nat
  BY RowsType, CapsHold DEF OnFile, Caps
<1>2. m.cands = FirstOf(r, Target) /\ (m.full <=> Len(m.cands) >= Target)
  BY DEF Tally
<1> HIDE DEF r
<1>3. Len(FirstOf(r, Target)) = (IF Len(r) < Target THEN Len(r) ELSE Target)
      /\ (Len(r) <= Target => FirstOf(r, Target) = r)
  BY <1>1, FirstOfIs
<1>4. ~m.full => Len(r) < Target
  BY <1>1, <1>2, <1>3
<1>5. ~m.full => m.cands = r
  BY <1>1, <1>2, <1>3, <1>4
<1> QED
  BY <1>1, <1>4, <1>5 DEF r

\* Keep: the rows of the paper in hand become candidates or surplus.
LEMMA RetraceKeep ==
  ASSUME Retracing, Kinds, Keep
  PROVE  Retracing'
<1> DEFINE room == Target - Len(m.cands)
           k == IF room < MaxPerPaper THEN room ELSE MaxPerPaper
           n == Len(FirstOf(m.got, k))
           hit == Len(m.cands) + n >= Target
           rest == SubSeq(m.got, n + 1, Len(m.got))
           p == m.paper
           R == RowsInOrder(Passed, rows, MaxPerPaper)
<1>1. /\ pc = "keep" /\ UNCHANGED <<job, chunk, marker, rows, done, journal, out, missed>>
      /\ m' = [m EXCEPT !.cands = @ \o SubSeq(m.got, 1, n), !.surplus = @ \o rest, !.full = hit]
      /\ pc' = IF ~hit THEN "page" ELSE IF adapter = "api" THEN "query" ELSE "mark"
  BY DEF Keep, Overflow, files, history
<1>2. OnItsWay /\ InPaper /\ pc' # "keep" /\ pc' \notin OnPaper /\ ~InPaper'
  BY <1>1 DEF OnItsWay, Walking, InChunk, OnPaper, InPaper
<1>3. /\ Held /\ marker /\ m.surplus \in Seq(Thm) /\ OnFile /\ Tally /\ Extracting
  BY <1>2, Facts
<1>4. adapter = "api" => ApiWalk
  BY <1>2, Facts
<1>5. adapter = "bulk" => BulkWalk
  BY <1>2, Facts
<1>6. p \in Paper /\ Covered = Append(Passed, p) /\ Passed \in Seq(Paper)
  BY <1>2, Along, CoveredIs DEF OnItsPath
<1>7. /\ p \in done /\ m.got = rows[p] /\ m.got \in Seq(Thm) /\ m.cands \in Seq(Thm) /\ ~m.full
      /\ DOMAIN m = DOMAIN NoRun /\ rows \in [Paper -> Seq(Thm)]
  BY <1>1, <1>3 DEF Extracting, Held, Tally, OnFile
<1>8. R \in Seq(Thm) /\ Target \in Nat /\ MaxPerPaper \in Nat /\ m.cands = R /\ Len(R) < Target
  BY <1>3, <1>6, <1>7, CandsAre, CapsHold DEF Caps
<1>9. /\ n \in Nat /\ n <= Len(m.got) /\ SubSeq(m.got, 1, n) = FirstOf(m.got, k)
      /\ FirstOf(m.got, k) \in Seq(Thm) /\ k \in Nat
      /\ room = Target - Len(R)
  <2>1. room = Target - Len(R) /\ Len(R) \in Nat /\ room \in Nat
    BY <1>8
  <2>2. k \in Nat
    BY <1>8, <2>1
  <2> HIDE DEF k
  <2>3. FirstOf(m.got, k) \in Seq(Thm) /\ Len(FirstOf(m.got, k)) = IF Len(m.got) < k THEN Len(m.got) ELSE k
    BY <1>7, <2>2, FirstOfIs
  <2>4. Len(m.got) \in Nat
    BY <1>7
  <2>5. SubSeq(m.got, 1, n) = FirstOf(m.got, k)
    BY <2>3 DEF FirstOf
  <2> QED
    BY <2>1, <2>2, <2>3, <2>4, <2>5
<1>10. R \o FirstOf(m.got, k) = FirstOf(R \o FirstOf(m.got, MaxPerPaper), Target)
  <2>1. k = IF Target - Len(R) < MaxPerPaper THEN Target - Len(R) ELSE MaxPerPaper
    BY <1>8
  <2> DEFINE g == m.got
  <2>2. /\ R \in Seq(Thm) /\ g \in Seq(Thm) /\ Target \in Nat /\ MaxPerPaper \in Nat
        /\ Len(R) < Target /\ k \in Nat
    BY <1>7, <1>8, <1>9
  <2> HIDE DEF k, R, g
  <2>3. (k = MaxPerPaper /\ Len(R) + MaxPerPaper <= Target) \/ (Len(R) + k = Target /\ k <= MaxPerPaper)
    <3>1. Len(R) \in Nat
      BY <2>2
    <3> QED
      BY <2>1, <2>2, <3>1
  <2>4. CASE Len(R) + k = Target /\ k <= MaxPerPaper
    <3>1. R \o FirstOf(g, k) = FirstOf(R \o FirstOf(g, MaxPerPaper), Target)
      BY <2>2, <2>4, OneMore
    <3> QED
      BY <3>1 DEF g
  <2>5. CASE k = MaxPerPaper /\ Len(R) + MaxPerPaper <= Target
    <3> DEFINE y == FirstOf(g, MaxPerPaper)
    <3>1. y \in Seq(Thm) /\ Len(y) <= MaxPerPaper /\ Len(y) \in Nat
      BY <2>2, FirstOfIs
    <3> HIDE DEF y
    <3>2. R \o y \in Seq(Thm) /\ Len(R \o y) = Len(R) + Len(y) /\ Len(R) \in Nat
      BY <2>2, <3>1, ConcatProperties
    <3>3. Len(R \o y) <= Target
      BY <2>2, <2>5, <3>1, <3>2
    <3>4. FirstOf(R \o y, Target) = R \o y
      BY <2>2, <3>2, <3>3, FirstOfIs
    <3> QED
      BY <2>5, <3>4 DEF y, g
  <2> QED
    BY <2>3, <2>4, <2>5
<1>11. RowsInOrder(Covered, rows, MaxPerPaper) = R \o FirstOf(m.got, MaxPerPaper)
  BY <1>6, <1>7, RowsMore
<1> DEFINE Same == DOMAIN NoRun \ {"cands", "surplus", "full"}
<1> HIDE DEF n, hit, rest, k, room
<1>12. /\ DOMAIN m' = DOMAIN m /\ m'.cands = m.cands \o SubSeq(m.got, 1, n)
       /\ m'.surplus = m.surplus \o rest /\ m'.full = hit /\ \A f \in Same : m'[f] = m[f]
  BY <1>1, <1>7 DEF NoRun
<1>13. m'.cands = FirstOf(RowsInOrder(Covered, rows, MaxPerPaper), Target)
  BY <1>8, <1>9, <1>10, <1>11, <1>12
<1>14. rest \in Seq(Thm)
  <2>1. n \in 0..Len(m.got) /\ Len(m.got) \in Nat
    BY <1>7, <1>9
  <2> DEFINE L == Len(m.got)
  <2>2. L \in 0..L /\ n \in 0..L /\ L = Len(m.got)
    BY <2>1
  <2> HIDE DEF L
  <2>3. SubSeq(m.got, n + 1, L) \in Seq(Thm)
    <3>1. L \in 0..Len(m.got)
      BY <2>2
    <3> QED
      BY <1>7, <2>2, <3>1, Slice
  <2> QED
    BY <2>3, <2>2 DEF rest
<1>15. m'.cands \in Seq(Thm) /\ m'.surplus \in Seq(Thm) /\ Len(m'.cands) = Len(m.cands) + n
  <2>1. SubSeq(m.got, 1, n) \in Seq(Thm) /\ Len(SubSeq(m.got, 1, n)) = n
    BY <1>9 DEF n
  <2>2. m.cands \o SubSeq(m.got, 1, n) \in Seq(Thm)
        /\ Len(m.cands \o SubSeq(m.got, 1, n)) = Len(m.cands) + Len(SubSeq(m.got, 1, n))
    BY <1>7, <2>1, ConcatProperties
  <2>3. m.surplus \o rest \in Seq(Thm)
    BY <1>3, <1>14, ConcatProperties
  <2> QED
    BY <1>12, <2>1, <2>2, <2>3
<1>16. m'.full <=> Len(m'.cands) >= Target
  BY <1>7, <1>12, <1>15 DEF hit
<1>17. /\ m'.page = m.page /\ m'.seen = m.seen /\ m'.titles = m.titles /\ m'.taken = m.taken
       /\ m'.start = m.start /\ m'.size = m.size /\ m'.queries = m.queries /\ m'.todo = m.todo
       /\ m'.bytes = m.bytes /\ m'.skipped = m.skipped /\ m'.store = m.store /\ m'.left = m.left
       /\ m'.got = m.got
  BY <1>12 DEF NoRun
<1>18. Limit' = Limit /\ Reached' = Reached /\ Gone' = Gone /\ Turn' = Turn /\ Current' = {}
  BY <1>1, <1>2, <1>17 DEF Limit, Reached, Gone, Turn, Current
<1>19. Passed' = Covered
  <2>1. CASE adapter = "api"
    BY <1>1, <1>2, <1>18, <2>1 DEF Passed, ApiPassed, Covered, adapter
  <2>2. CASE adapter = "bulk"
    <3>1. pc' \in InChunk /\ AtChunkPage
      BY <1>1, <2>2 DEF InChunk, AtChunkPage
    <3>2. Covered = MinedIn(Gone, m.skipped) \o InOrder(Fresh(Gone + 1, m.skipped) \ ToSet(m.page))
      BY <2>2, <3>1 DEF Covered, Novel
    <3>3. Passed' = MinedIn(Gone, m.skipped)
                      \o InOrder(Fresh(Gone + 1, m.skipped) \ (ToSet(m.page) \cup {}))
      BY <1>1, <1>17, <1>18, <2>2, <3>1 DEF Passed, BulkPassed, adapter
    <3>4. ToSet(m.page) \cup {} = ToSet(m.page)
      OBVIOUS
    <3> QED
      BY <3>2, <3>3, <3>4
  <2> QED
    BY <2>1, <2>2 DEF Kinds
<1>20. ToSet(Covered) = ToSet(Passed) \cup {p}
  <2>1. Passed \o <<p>> = Append(Passed, p) /\ <<p>> \in Seq(Paper) /\ ToSet(<<p>>) = {p}
    <3>1. ToSet(<<p>>) = {p}
      BY DEF ToSet
    <3> QED
      BY <1>6, <3>1, AppendIsConcat
  <2>2. Passed \in Seq(Paper)
    BY <1>6
  <2> DEFINE s == Passed
  <2> HIDE DEF s, p
  <2>3. Append(s, p) \in Seq(Paper) /\ Len(Append(s, p)) = Len(s) + 1 /\ Append(s, p)[Len(s) + 1] = p
        /\ \A i \in 1..Len(s) : Append(s, p)[i] = s[i]
    BY <1>6, AppendProperties DEF s
  <2>4. Len(s) \in Nat /\ DOMAIN s = 1..Len(s) /\ DOMAIN Append(s, p) = 1..(Len(s) + 1)
    BY <1>6, <2>3, LenProperties DEF s
  <2>5. ToSet(Append(s, p)) = ToSet(s) \cup {p}
    <3>1. \A i \in 1..(Len(s) + 1) : i \in 1..Len(s) \/ i = Len(s) + 1
      BY <2>4
    <3>2. \A i \in 1..Len(s) : i \in 1..(Len(s) + 1)
      BY <2>4
    <3>3. Len(s) + 1 \in 1..(Len(s) + 1)
      BY <2>4
    <3> QED
      BY <2>3, <2>4, <3>1, <3>2, <3>3 DEF ToSet
  <2> QED
    BY <1>6, <2>5 DEF s
<1>21. OnFile'
  BY <1>1, <1>3, <1>7, OnFileKept
<1>22. Held'
  BY <1>1, <1>3, <1>12, <1>15, <1>17 DEF Held
<1>23. \A q \in ToSet(Passed) \cup {p} : ToSet(rows[q]) \subseteq ToSet(m'.cands) \cup ToSet(m'.surplus)
  <2>1. \A x \in Seq(Thm), y \in Seq(Thm) : ToSet(x \o y) = ToSet(x) \cup ToSet(y)
    <3> SUFFICES ASSUME NEW x \in Seq(Thm), NEW y \in Seq(Thm) PROVE ToSet(x \o y) = ToSet(x) \cup ToSet(y)
      OBVIOUS
    <3>1. Range(x \o y) = Range(x) \cup Range(y)
      BY RangeConcatenation
    <3> QED
      BY <3>1 DEF Range, ToSet
  <2>2. m.cands \in Seq(Thm) /\ SubSeq(m.got, 1, n) \in Seq(Thm) /\ m.surplus \in Seq(Thm) /\ rest \in Seq(Thm)
    BY <1>3, <1>7, <1>9, <1>14
  <2>3. /\ ToSet(m'.cands) = ToSet(m.cands) \cup ToSet(SubSeq(m.got, 1, n))
        /\ ToSet(m'.surplus) = ToSet(m.surplus) \cup ToSet(rest)
    BY <1>12, <2>1, <2>2
  <2>4. ToSet(m.got) \subseteq ToSet(SubSeq(m.got, 1, n)) \cup ToSet(rest)
    <3>1. Len(m.got) \in Nat /\ n \in 0..Len(m.got) /\ DOMAIN m.got = 1..Len(m.got)
      BY <1>7, <1>9, LenProperties
    <3> DEFINE L == Len(m.got)
    <3> HIDE DEF L
    <3>2. L \in 0..Len(m.got) /\ n \in 0..L /\ 0 \in 0..n /\ L = Len(m.got) /\ L \in Nat
      BY <3>1 DEF L
    <3>3. \A x : x \in ToSet(SubSeq(m.got, n + 1, L)) <=> \E i \in (n + 1)..L : x = m.got[i]
      BY <1>7, <3>2, SliceSet
    <3>4. \A x : x \in ToSet(SubSeq(m.got, 0 + 1, n)) <=> \E i \in (0 + 1)..n : x = m.got[i]
      BY <1>7, <3>1, <3>2, SliceSet
    <3>5. \A i \in 1..L : i \in (0 + 1)..n \/ i \in (n + 1)..L
      BY <3>2
    <3>6. ToSet(m.got) = {m.got[i] : i \in 1..L}
      BY <3>1, <3>2 DEF ToSet
    <3>7. \A x \in ToSet(m.got) : x \in ToSet(SubSeq(m.got, 0 + 1, n)) \/ x \in ToSet(SubSeq(m.got, n + 1, L))
      BY <3>3, <3>4, <3>5, <3>6
    <3> QED
      BY <3>7 DEF rest, L
  <2>5. \A q \in ToSet(Passed) : ToSet(rows[q]) \subseteq ToSet(m.cands) \cup ToSet(m.surplus)
    BY <1>3 DEF Tally
  <2> QED
    BY <1>7, <2>3, <2>4, <2>5
<1>24. Tally'
  <2>1. ToSet(Passed') \subseteq done'
    BY <1>1, <1>3, <1>7, <1>19, <1>20 DEF Tally
  <2>2. m'.full => pc' \in {"query", "mark", "release"}
    BY <1>1, <1>12
  <2>3. (\A q \in ToSet(Passed) : ToSet(rows[q]) \subseteq ToSet(m.cands) \cup ToSet(m.surplus))'
    BY <1>1, <1>19, <1>20, <1>23
  <2>4. (m.cands = FirstOf(RowsInOrder(Passed, rows, MaxPerPaper), Target))'
    BY <1>1, <1>13, <1>19
  <2> QED
    BY <1>16, <2>1, <2>2, <2>3, <2>4 DEF Tally
<1>25. Extracting'
  BY <1>1, <1>2 DEF Extracting, OnPaper
<1>26. adapter = "api" => ApiWalk' /\ pc' \in OnPaper \cup {"query", "page", "keep"}
  <2> SUFFICES ASSUME adapter = "api" PROVE ApiWalk' /\ pc' \in {"query", "page"}
    BY DEF OnPaper
  <2>1. ApiWalk
    BY <1>4
  <2>2. pc' = "query" => Len(m'.cands) >= Target
    BY <1>1, <1>12, <1>16
  <2>3. ApiWalk'
    BY <1>2, <1>17, <1>18, <2>1, <2>2 DEF ApiWalk
  <2> QED
    BY <1>1, <2>3
<1>27. adapter = "bulk" => BulkWalk' /\ pc' \in Walking
  <2> SUFFICES ASSUME adapter = "bulk" PROVE BulkWalk' /\ pc' \in {"page", "mark"}
    BY DEF Walking, InChunk
  <2>1. OnPath /\ OnPage
    BY <1>1, <1>5 DEF BulkWalk, InChunk
  <2>2. pc' \in {"page", "mark"}
    BY <1>1
  <2>3. OnPath'
    BY <1>1, <1>17, <1>18, <2>1, <2>2 DEF OnPath
  <2>4. OnPage'
    <3>1. {PapersOf(chunk)[i] : i \in 1..Turn}' = {PapersOf(chunk)[i] : i \in 1..Turn}
      BY <1>1, <1>18
    <3>2. Met(Gone, m.skipped)' = Met(Gone, m.skipped)
      BY <1>17, <1>18
    <3>3. (m.seen = Exclude \cup Met(Gone, m.skipped) \cup {PapersOf(chunk)[i] : i \in 1..Turn})'
      BY <1>17, <2>1, <3>1, <3>2 DEF OnPage
    <3>4. (/\ Len(m.page) <= Len(PapersOf(chunk))
           /\ m.page = SubSeq(PapersOf(chunk), Turn + 1, Len(PapersOf(chunk))))'
      BY <1>1, <1>17, <1>18, <2>1 DEF OnPage
    <3>5. (/\ pc # "release" => (m.bytes <=> chunk \notin journal)
           /\ pc \in {"mark", "release"} /\ ~m.full => m.page = <<>>)'
      BY <1>1, <1>12, <1>17, <2>1, <2>2 DEF OnPage
    <3> QED
      BY <1>2, <3>3, <3>4, <3>5 DEF OnPage
  <2>5. p \notin Exclude \cup Absent /\ p \in m.seen
    <3>1. Turn >= 1 /\ p = PapersOf(chunk)[Turn] /\ p \in Fresh(Gone + 1, m.skipped)
          /\ m.seen = Exclude \cup Met(Gone, m.skipped) \cup {PapersOf(chunk)[i] : i \in 1..Turn}
      BY <1>2, <2>1 DEF OnPage
    <3>2. Turn \in Nat
      BY <1>1, <1>3, <2>1, PageIs
    <3>3. Turn \in 1..Turn
      BY <3>1, <3>2
    <3> QED
      BY <3>1, <3>3 DEF Fresh
  <2>6. /\ ToSet(Passed) = m.seen \ (Exclude \cup Absent \cup {p})
        /\ Len(R) = Offered(rows, ToSet(Passed))
    BY <1>2, <1>5 DEF BulkWalk, Current
  <2>7. ToSet(Passed') = m'.seen \ (Exclude \cup Absent \cup {})
    BY <1>17, <1>19, <1>20, <2>5, <2>6
  <2>8. Len(RowsInOrder(Covered, rows, MaxPerPaper)) = Offered(rows, ToSet(Covered))
    <3> DEFINE S == ToSet(Passed)
    <3>1. S \in SUBSET Paper /\ IsFiniteSet(S)
      BY <1>6, ElementsFinite
    <3>2. p \in Paper \ S
      BY <1>6, <2>6
    <3>3. Offered(rows, S \cup {p}) = Offered(rows, S) + Quota(rows[p])
      <4> HIDE DEF S, p
      <4> QED
        BY <1>7, <3>1, <3>2, OfferedIs
    <3>4. Len(FirstOf(m.got, MaxPerPaper)) = Quota(m.got) /\ FirstOf(m.got, MaxPerPaper) \in Seq(Thm)
      BY <1>7, <1>8, FirstOfIs DEF Quota
    <3>5. Len(R \o FirstOf(m.got, MaxPerPaper)) = Len(R) + Len(FirstOf(m.got, MaxPerPaper))
      <4> HIDE DEF R
      <4> QED
        BY <1>8, <3>4, ConcatProperties
    <3> QED
      BY <1>7, <1>11, <1>20, <2>6, <3>3, <3>4, <3>5
  <2>9. BulkWalk'
    <3>1. (ToSet(Passed) = m.seen \ (Exclude \cup Absent \cup Current))'
      BY <1>18, <2>7
    <3>2. (Len(RowsInOrder(Passed, rows, MaxPerPaper)) = Offered(rows, ToSet(Passed)))'
      BY <1>1, <1>19, <2>8
    <3>3. pc' \in InChunk
      BY <2>2 DEF InChunk
    <3> QED
      BY <2>3, <2>4, <3>1, <3>2, <3>3 DEF BulkWalk
  <2> QED
    BY <2>2, <2>9
<1>28. OnItsWay'
  BY <1>26, <1>27 DEF Kinds, OnItsWay, Walking, InChunk, OnPaper
<1>29. marker' /\ adapter' = adapter
  BY <1>1, <1>3 DEF adapter
<1> QED
  BY <1>15, <1>21, <1>22, <1>24, <1>25, <1>26, <1>27, <1>28, <1>29, OnTheWay

\* A run begins with nothing passed.
LEMMA TallyBegins ==
  ASSUME Passed' = <<>>, m'.cands = <<>>, ~m'.full
  PROVE  Tally'
<1>1. ToSet(Passed') = {}
  BY DEF ToSet
<1>2. RowsInOrder(Passed', rows', MaxPerPaper) = <<>>
  BY RowsNone
<1>3. Target \in Nat /\ Target > 0 /\ <<>> \in Seq(Thm) /\ Len(<<>>) = 0
  BY CapsAssumption
<1>4. FirstOf(<<>>, Target) = <<>>
  <2>1. Len(<<>>) <= Target
    BY <1>3
  <2> QED
    BY <1>3, <2>1, FirstOfIs
<1> QED
  BY <1>1, <1>2, <1>3, <1>4 DEF Tally

\* Start: whatever the checkpoint has, the process has passed nothing yet.
LEMMA RetraceStart ==
  ASSUME Retracing, Kinds, Start
  PROVE  Retracing'
<1>1. /\ pc = "idle" /\ UNCHANGED <<job, rows, done, journal, out, missed>> /\ marker'
      /\ m' = [NoRun EXCEPT !.store = [p \in Paper |-> Loaded(p)], !.seen = Exclude]
      /\ pc' = IF adapter = "api" THEN "query" ELSE "index"
  BY DEF Start, history
<1>2. OnFile /\ rows \in [Paper -> Seq(Thm)] /\ done \subseteq Paper
  BY DEF Retracing, OnFile
<1>3. OnFile'
  BY <1>1, <1>2, OnFileKept
<1>4. /\ DOMAIN m' = DOMAIN NoRun /\ m'.store = [p \in Paper |-> rows[p]] /\ m'.seen = Exclude
      /\ m'.size = PageSize /\ m'.start = 0 /\ m'.queries = 0 /\ m'.page = <<>> /\ m'.titles = {}
      /\ m'.taken = 0 /\ m'.left = <<>> /\ m'.got = <<>> /\ m'.cands = <<>> /\ m'.surplus = <<>>
      /\ m'.full = FALSE /\ m'.skipped = {}
  BY <1>1 DEF NoRun, Loaded
<1>8. <<>> \in Seq(Paper) /\ <<>> \in Seq(Thm) /\ m'.surplus \in Seq(Thm)
  <2>1. \A T : <<>> \in Seq(T)
    OBVIOUS
  <2> QED
    BY <1>4, <2>1
<1>5. Held'
  <2>1. m'.store \in [Paper -> Seq(Thm)] /\ \A p \in done' : m'.store[p] = rows'[p]
    BY <1>1, <1>2, <1>4
  <2> QED
    BY <1>4, <1>8, <2>1 DEF Held
<1>6. CASE adapter = "bulk"
  <2>1. pc' = "index" /\ adapter' = "bulk"
    BY <1>1, <1>6 DEF adapter
  <2>2. Working'
    BY <1>1, <1>4, <1>5, <1>8, <2>1 DEF Working, Walking, InChunk, OnPaper
  <2>3. Ending'
    BY <2>1 DEF Ending, Final
  <2> QED
    BY <1>3, <2>1, <2>2, <2>3 DEF Retracing
<1>7. CASE adapter = "api"
  <2>1. pc' = "query" /\ adapter' = "api" /\ ~InPaper'
    BY <1>1, <1>7 DEF adapter, InPaper, OnPaper
  <2>2. Limit' = 0 /\ Reached' = 0
    <3>1. Len(Listing) \in Nat /\ Len(<<>>) = 0
      BY ListingIs
    <3>2. Limit' = 0
      BY <1>4, <3>1 DEF Limit
    <3> QED
      <4>1. Reached' = Limit' - Len(m'.page)
        BY DEF Reached
      <4>2. Len(m'.page) = 0
        BY <1>4, <3>1
      <4> QED
        BY <3>2, <4>1, <4>2
  <2>3. Behind(0) = {}
    BY BehindIs
  <2>4. Passed' = <<>>
    BY <2>1, <2>2, <2>3, PickedNone DEF Passed, ApiPassed
  <2>5. Tally'
    BY <1>4, <2>4, TallyBegins
  <2>6. Extracting'
    BY <2>1 DEF Extracting, OnPaper
  <2>7. ApiWalk'
    <3>1. /\ PageSize \in Nat /\ PageFloor \in Nat /\ PageFloor <= PageSize /\ MaxPapers \in Nat
      BY PagesAssumption, CapsAssumption
    <3>2. Cardinality(Behind(0)) = 0
      BY <2>3, FS_EmptySet
    <3>3. SubSeq(Listing, 1, 0) = <<>>
      <4>1. 0 \in 0..Len(Listing) /\ 0 \in 0..0 /\ Listing \in Seq(Paper)
        BY ListingIs
      <4>2. SubSeq(Listing, 0 + 1, 0) = <<>> <=> 0 = 0
        BY <4>1, Slice
      <4> QED
        BY <4>2
    <3>4. \A i \in 1..0 : FALSE
      OBVIOUS
    <3>5. (m.seen = Exclude \cup {Listing[i] : i \in 1..Reached})'
      BY <1>4, <2>2, <3>4
    <3>6. (m.titles = {Title[Listing[i]] : i \in {j \in 1..Reached : Listing[j] \in InScope \ Exclude}})'
      BY <1>4, <2>2, <3>4
    <3>7. (/\ {m.start, m.size, m.queries} \subseteq Nat
           /\ Len(m.page) <= Limit /\ m.page = SubSeq(Listing, Reached + 1, Limit))'
      BY <1>4, <2>2, <3>1, <3>3
    <3>8. (m.taken = Cardinality(Behind(Reached)) /\ m.taken <= MaxPapers)'
      BY <1>4, <2>2, <3>1, <3>2
    <3>9. (m.size >= PageFloor /\ m.start >= m.queries * PageFloor)'
      BY <1>4, <3>1
    <3> QED
      BY <1>4, <2>1, <3>5, <3>6, <3>7, <3>8, <3>9 DEF ApiWalk
  <2>8. OnItsWay' /\ m'.surplus \in Seq(Thm) /\ adapter' = adapter
    BY <1>4, <1>7, <2>1 DEF OnItsWay
  <2> QED
    BY <1>1, <1>3, <1>5, <1>7, <2>1, <2>5, <2>6, <2>7, <2>8, OnTheWay
<1> QED
  BY <1>6, <1>7 DEF Kinds

\* Index: the path through the chunks begins.
LEMMA RetraceIndex ==
  ASSUME Retracing, Kinds, Index
  PROVE  Retracing'
<1>1. pc = "index" /\ UNCHANGED <<job, chunk, marker, rows, done, journal, out, missed>>
  BY DEF Index
<1>2. /\ Held /\ marker /\ m.surplus \in Seq(Thm) /\ m.seen = Exclude /\ m.cands = <<>> /\ m.skipped = {}
      /\ ~m.full /\ OnFile /\ rows \in [Paper -> Seq(Thm)] /\ DOMAIN m = DOMAIN NoRun
      /\ adapter = "bulk"
  BY <1>1 DEF Retracing, Working, OnFile, Held, Kinds
<1>3. OnFile'
  BY <1>1, <1>2, OnFileKept
<1>4. \/ m' = [m EXCEPT !.walked = oai] /\ UNCHANGED pc
      \/ m' = [m EXCEPT !.todo = ChunksForIds(Members, ToSet(Wanted))] /\ pc' = "chunk"
      \/ m' = [m EXCEPT !.over = TRUE] /\ pc' = "write"
      \/ m' = [Charged("oai_requests") EXCEPT !.walked = @ + 1] /\ UNCHANGED pc
      \/ m' = Charged("oai_requests") /\ UNCHANGED pc
      \/ pc' = "idle" /\ m' = NoRun
  BY DEF Index, Exhausted, OaiRequest
<1> DEFINE Same == {"store", "page", "left", "got", "cands", "surplus", "seen", "skipped", "full"}
<1>5. ASSUME pc' = "index", DOMAIN m' = DOMAIN m, \A f \in Same : m'[f] = m[f]
      PROVE  Retracing'
  <2>1. Held'
    BY <1>1, <1>2, <1>5 DEF Held
  <2>2. adapter' = "bulk" /\ marker'
    BY <1>1, <1>2 DEF adapter
  <2>3. Working'
    BY <1>2, <1>5, <2>1, <2>2 DEF Working, Walking, InChunk, OnPaper
  <2>4. Ending'
    BY <1>5 DEF Ending, Final
  <2> QED
    BY <1>3, <1>5, <2>2, <2>3, <2>4 DEF Retracing
<1>6. CASE m' = [m EXCEPT !.walked = oai] /\ UNCHANGED pc
  <2>1. DOMAIN m' = DOMAIN m /\ \A f \in Same : m'[f] = m[f]
    BY <1>2, <1>6 DEF NoRun
  <2> QED
    BY <1>1, <1>5, <1>6, <2>1
<1>7. CASE m' = [Charged("oai_requests") EXCEPT !.walked = @ + 1] /\ UNCHANGED pc
  <2>1. DOMAIN m' = DOMAIN m /\ \A f \in Same : m'[f] = m[f]
    BY <1>2, <1>7 DEF NoRun, Charged
  <2> QED
    BY <1>1, <1>5, <1>7, <2>1
<1>8. CASE m' = Charged("oai_requests") /\ UNCHANGED pc
  <2>1. DOMAIN m' = DOMAIN m /\ \A f \in Same : m'[f] = m[f]
    BY <1>2, <1>8 DEF NoRun, Charged
  <2> QED
    BY <1>1, <1>5, <1>8, <2>1
<1>9. CASE pc' = "idle" /\ m' = NoRun
  BY <1>1, <1>9, Ended
<1>10. CASE m' = [m EXCEPT !.over = TRUE] /\ pc' = "write"
  BY <1>1, <1>10, BrokenOff
<1>11. CASE m' = [m EXCEPT !.todo = ChunksForIds(Members, ToSet(Wanted))] /\ pc' = "chunk"
  <2>1. DOMAIN m' = DOMAIN m /\ m'.todo = Needed /\ \A f \in Same : m'[f] = m[f]
    BY <1>2, <1>11 DEF NoRun, Needed
  <2>2. Needed \in Seq(Chunk) /\ Len(Needed) \in Nat
    BY PathIs
  <2>3. Gone' = 0
    BY <2>1, <2>2 DEF Gone
  <2>4. adapter' = "bulk" /\ adapter' # "api" /\ pc' \notin InChunk \cup {"release"} /\ ~InPaper'
    BY <1>1, <1>2, <1>11 DEF adapter, InChunk, OnPaper, InPaper
  <2>5. m'.skipped = {} /\ MinedIn(0, m'.skipped) = <<>> /\ Met(0, m'.skipped) = {}
    BY <1>2, <2>1, MinedInIs, MetIs
  <2>6. Passed' = <<>>
    BY <2>3, <2>4, <2>5 DEF Passed, BulkPassed
  <2>7. Tally'
    BY <1>2, <2>1, <2>6, TallyBegins
  <2>8. Held'
    BY <1>1, <1>2, <2>1 DEF Held
  <2>9. Extracting'
    BY <1>11 DEF Extracting, OnPaper
  <2>10. OnPath'
    <3>1. SubSeq(Needed, 0 + 1, Len(Needed)) = Needed
      <4>1. FirstOf(Needed, Len(Needed)) = Needed
        BY <2>2, FirstOfIs
      <4> QED
        BY <2>2, <4>1 DEF FirstOf
    <3>2. \A i \in 1..0 : FALSE
      OBVIOUS
    <3> QED
      BY <1>11, <2>1, <2>2, <2>3, <2>5, <3>1, <3>2 DEF OnPath
  <2>11. BulkWalk'
    <3>1. ToSet(<<>>) = {} /\ RowsInOrder(<<>>, rows', MaxPerPaper) = <<>> /\ Len(<<>>) = 0
      BY RowsNone DEF ToSet
    <3>2. Offered(rows', {}) = 0
      <4>1. {} \in SUBSET Paper /\ IsFiniteSet({})
        BY FS_EmptySet
      <4> QED
        BY <1>1, <1>2, <4>1, OfferedIs
    <3>3. m'.seen = Exclude
      BY <1>2, <2>1
    <3>4. (m.seen = Exclude \cup Met(Gone, m.skipped))'
      BY <2>3, <2>5, <3>3
    <3>5. (ToSet(Passed) = m.seen \ (Exclude \cup Absent \cup Current))'
      BY <2>6, <3>1, <3>3
    <3>6. (Len(RowsInOrder(Passed, rows, MaxPerPaper)) = Offered(rows, ToSet(Passed)))'
      BY <2>6, <3>1, <3>2
    <3> QED
      BY <2>4, <2>10, <3>4, <3>5, <3>6 DEF BulkWalk
  <2>12. OnItsWay' /\ m'.surplus \in Seq(Thm) /\ adapter' = adapter /\ pc' \in Walking /\ adapter # "api"
    BY <1>2, <1>11, <2>1, <2>4 DEF OnItsWay, Walking
  <2> QED
    BY <1>1, <1>2, <1>3, <2>7, <2>8, <2>9, <2>11, <2>12, OnTheWay
<1> QED
  BY <1>4, <1>6, <1>7, <1>8, <1>9, <1>10, <1>11

\* Ctrl-C and kill.
LEMMA RetraceStops ==
  ASSUME Retracing, Pause \/ Kill
  PROVE  Retracing'
<1>1. CASE Pause
  BY <1>1, BrokenOff DEF Pause
<1>2. CASE Kill
  BY <1>2, Ended DEF Kill, Dies, files
<1> QED
  BY <1>1, <1>2

\* What is written is what the run ended with.
LEMMA RetraceWrites ==
  ASSUME Retracing, Kinds, WriteHandoff \/ WriteSurplus \/ Finish, DOMAIN out = DOMAIN NoFile
  PROVE  Retracing'
<1>1. /\ pc \in {"write", "surplus", "finish"} /\ UNCHANGED <<job, rows, done, journal, missed>>
      /\ OnFile /\ rows \in [Paper -> Seq(Thm)]
  BY DEF WriteHandoff, WriteSurplus, Finish, history, Retracing, OnFile
<1>2. OnFile'
  BY <1>1, OnFileKept
<1>3. Held /\ marker /\ m.surplus \in Seq(Thm)
  BY <1>1 DEF Retracing, Working
<1>4. \A skipped : Uninterrupted(skipped)' = Uninterrupted(skipped)
  <2> SUFFICES ASSUME NEW skipped PROVE Uninterrupted(skipped)' = Uninterrupted(skipped)
    OBVIOUS
  <2>1. Mined(skipped)' = Mined(skipped)
    BY <1>1 DEF Mined, adapter
  <2>2. Yield' = Yield
    <3>1. \A p : Yielding(p)' = Yielding(p)
      BY <1>1 DEF Yielding, Usable, mode
    <3>2. \A p : RowsOf(p)' = RowsOf(p)
      BY <3>1 DEF RowsOf
    <3> QED
      BY <3>2 DEF Yield
  <2> QED
    BY <2>1, <2>2 DEF Uninterrupted
<1>5. Ending
  BY DEF Retracing
<1>6. CASE WriteHandoff
  <2>1. /\ pc = "write" /\ pc' = "surplus" /\ m' = m /\ marker' = marker
        /\ out' = [out EXCEPT !.written = TRUE, !.handoff = Normalise(m.cands).records, !.skipped = m.skipped]
    BY <1>6 DEF WriteHandoff
  <2>2. Held'
    BY <1>1, <1>3, <2>1 DEF Held
  <2>3. Working'
    BY <1>3, <2>1, <2>2 DEF Working, Walking, InChunk, OnPaper
  <2>4. ~m.over => Promised'
    <3> SUFFICES ASSUME ~m.over PROVE Promised'
      OBVIOUS
    <3>1. m.cands = Uninterrupted(m.skipped)
      BY <1>5, <2>1 DEF Ending
    <3>2. out'.handoff = Normalise(m.cands).records /\ out'.skipped = m.skipped
      BY <2>1 DEF NoFile
    <3>4. Uninterrupted(out.skipped)' = Uninterrupted(m.skipped)
      BY <1>4, <3>2
    <3> QED
      BY <3>1, <3>2, <3>4 DEF Promised
  <2>5. Ending'
    BY <2>1, <2>4 DEF Ending, Final
  <2> QED
    BY <1>1, <1>2, <2>1, <2>3, <2>5 DEF Retracing, adapter
<1>7. CASE WriteSurplus
  <2>1. /\ pc = "surplus" /\ pc' = "finish" /\ m' = m /\ marker' = marker
        /\ out' = [out EXCEPT !.surplus = SurplusRecords(out.handoff, m.surplus)]
    BY <1>7 DEF WriteSurplus
  <2>2. Held'
    BY <1>1, <1>3, <2>1 DEF Held
  <2>3. Working'
    BY <1>3, <2>1, <2>2 DEF Working, Walking, InChunk, OnPaper
  <2>4. ~m.over => Promised'
    <3> SUFFICES ASSUME ~m.over PROVE Promised'
      OBVIOUS
    <3>1. out.handoff = Normalise(Uninterrupted(out.skipped)).records
      BY <1>5, <2>1 DEF Ending, Promised
    <3>2. out'.handoff = out.handoff /\ out'.skipped = out.skipped
      BY <2>1 DEF NoFile
    <3>3. Uninterrupted(out.skipped)' = Uninterrupted(out.skipped)
      BY <1>4, <3>2
    <3> QED
      BY <3>1, <3>2, <3>3 DEF Promised
  <2>5. Ending'
    BY <2>1, <2>4 DEF Ending, Final
  <2> QED
    BY <1>1, <1>2, <2>1, <2>3, <2>5 DEF Retracing, adapter
<1>8. CASE Finish
  <2>1. /\ pc = "finish" /\ pc' = "idle" /\ out' = out
        /\ marker' = IF Completed THEN FALSE ELSE marker
    BY <1>8 DEF Finish
  <2>2. Working'
    BY <2>1 DEF Working, Walking, InChunk, OnPaper
  <2>3. ~marker' => ~m.over
    BY <1>3, <2>1 DEF Completed
  <2>4. ~m.over => Promised'
    <3> SUFFICES ASSUME ~m.over PROVE Promised'
      OBVIOUS
    <3>1. out.handoff = Normalise(Uninterrupted(out.skipped)).records
      BY <1>5, <2>1 DEF Ending, Promised
    <3>2. Uninterrupted(out.skipped)' = Uninterrupted(out.skipped)
      BY <1>4, <2>1
    <3> QED
      BY <2>1, <3>1, <3>2 DEF Promised
  <2>5. Ending'
    BY <2>1, <2>3, <2>4 DEF Ending, Final
  <2> QED
    BY <1>1, <1>2, <2>1, <2>2, <2>5 DEF Retracing, adapter
<1> QED
  BY <1>6, <1>7, <1>8

\* Nothing a run retraces by changes.
LEMMA RetraceStays ==
  ASSUME Retracing, Kinds, UNCHANGED <<job, pc, m, chunk, asked, marker, rows, done, journal, out, missed>>
  PROVE  Retracing'
<1>1. OnFile /\ rows \in [Paper -> Seq(Thm)]
  BY DEF Retracing, OnFile
<1>2. OnFile'
  BY <1>1, OnFileKept
<1>3. CASE OnItsWay
  <2>1. /\ Held /\ marker /\ m.surplus \in Seq(Thm) /\ Tally /\ Extracting
        /\ adapter = "api" => ApiWalk /\ pc \in OnPaper \cup {"query", "page", "keep"}
        /\ adapter = "bulk" => BulkWalk /\ pc \in Walking
    BY <1>3, Facts
  <2>2. Passed \in Seq(Paper)
    BY <1>3, Along, CoveredIs DEF OnItsPath
  <2>3. Limit' = Limit /\ Reached' = Reached /\ Gone' = Gone /\ Turn' = Turn /\ Current' = Current
        /\ InPaper' = InPaper
    BY DEF Limit, Reached, Gone, Turn, Current, InPaper
  <2>4. Passed' = Passed
    BY <2>3 DEF Passed, ApiPassed, BulkPassed, adapter
  <2>5. Tally'
    <3>1. m.full => pc' \in {"query", "mark", "release"}
      BY <2>1 DEF Tally
    <3> QED
      BY <2>1, <2>2, <2>4, <3>1, TallyStays
  <2>6. Held'
    BY <2>1 DEF Held
  <2>7. adapter = "api" => ApiWalk'
    BY <2>1, <2>3 DEF ApiWalk
  <2>8. adapter = "bulk" => BulkWalk'
    <3> SUFFICES ASSUME adapter = "bulk" PROVE BulkWalk'
      OBVIOUS
    <3>1. OnPath /\ BulkWalk
      BY <2>1 DEF BulkWalk
    <3>2. OnPath'
      BY <2>3, <3>1 DEF OnPath
    <3>3. Met(Gone, m.skipped)' = Met(Gone, m.skipped)
      BY <2>3
    <3>4. OnPage => OnPage'
      <4> SUFFICES ASSUME OnPage PROVE OnPage'
        OBVIOUS
      <4>1. {PapersOf(chunk)[i] : i \in 1..Turn}' = {PapersOf(chunk)[i] : i \in 1..Turn}
        BY <2>3
      <4>2. (m.seen = Exclude \cup Met(Gone, m.skipped) \cup {PapersOf(chunk)[i] : i \in 1..Turn})'
        BY <3>3, <4>1 DEF OnPage
      <4>3. (InPaper => Turn >= 1 /\ m.paper = PapersOf(chunk)[Turn] /\ m.paper \in Fresh(Gone + 1, m.skipped))'
        BY <2>3 DEF OnPage
      <4>4. (/\ Len(m.page) <= Len(PapersOf(chunk))
             /\ m.page = SubSeq(PapersOf(chunk), Turn + 1, Len(PapersOf(chunk))))'
        BY <2>3 DEF OnPage
      <4>5. (/\ pc # "release" => (m.bytes <=> chunk \notin journal)
             /\ pc \in {"mark", "release"} /\ ~m.full => m.page = <<>>)'
        BY DEF OnPage
      <4> QED
        BY <4>2, <4>3, <4>4, <4>5 DEF OnPage
    <3>5. (ToSet(Passed) = m.seen \ (Exclude \cup Absent \cup Current))'
      BY <2>3, <2>4, <3>1 DEF BulkWalk
    <3>6. (Len(RowsInOrder(Passed, rows, MaxPerPaper)) = Offered(rows, ToSet(Passed)))'
      BY <2>4, <3>1 DEF BulkWalk
    <3>7. (IF pc \in InChunk \cup {"release"} THEN OnPage ELSE m.seen = Exclude \cup Met(Gone, m.skipped))'
      BY <3>1, <3>3, <3>4 DEF BulkWalk
    <3> QED
      BY <3>2, <3>5, <3>6, <3>7 DEF BulkWalk
  <2>9. Extracting'
    <3>1. Yielding(m.paper)' = Yielding(m.paper) /\ Place(m)' = Place(m)
      BY DEF Yielding, Usable, mode, Place
    <3>2. RowsOf(m.paper)' = RowsOf(m.paper)
      BY <3>1 DEF RowsOf
    <3>3. Mining => Mining'
      <4>1. {i \in Yielding(m.paper) : i < Place(m)}' = {i \in Yielding(m.paper) : i < Place(m)}
        BY <3>1
      <4> QED
        BY <3>1, <4>1 DEF Mining
    <3> QED
      BY <2>1, <3>2, <3>3 DEF Extracting
  <2>10. marker' /\ m'.surplus \in Seq(Thm) /\ adapter' = adapter /\ OnItsWay'
    BY <1>3, <2>1 DEF adapter, OnItsWay
  <2>11. adapter = "api" => ApiWalk' /\ pc' \in OnPaper \cup {"query", "page", "keep"}
    BY <2>1, <2>7
  <2>12. adapter = "bulk" => BulkWalk' /\ pc' \in Walking
    BY <2>1, <2>8
  <2> QED
    BY <1>2, <2>5, <2>6, <2>9, <2>10, <2>11, <2>12, OnTheWay
<1>4. CASE ~OnItsWay
  <2>1. pc' \notin OnPaper \cup {"page", "keep"}
    BY <1>4 DEF OnItsWay, Walking, InChunk
  <2>2. pc # "idle" => Held'
    BY DEF Retracing, Working, Held
  <2>3. Working'
    BY <1>4, <2>1, <2>2 DEF Retracing, Working, OnItsWay, adapter
  <2>4. \A skipped : Uninterrupted(skipped)' = Uninterrupted(skipped)
    <3> SUFFICES ASSUME NEW skipped PROVE Uninterrupted(skipped)' = Uninterrupted(skipped)
      OBVIOUS
    <3>1. Mined(skipped)' = Mined(skipped)
      BY DEF Mined, adapter
    <3>2. \A p : Yielding(p)' = Yielding(p)
      BY DEF Yielding, Usable, mode
    <3>3. \A p : RowsOf(p)' = RowsOf(p)
      BY <3>2 DEF RowsOf
    <3>4. Yield' = Yield
      BY <3>3 DEF Yield
    <3> QED
      BY <3>1, <3>4 DEF Uninterrupted
  <2>5. Uninterrupted(out.skipped)' = Uninterrupted(out.skipped)
    BY <2>4
  <2>6. Uninterrupted(m.skipped)' = Uninterrupted(m.skipped)
    BY <2>4
  <2>7. Promised' = Promised
    BY <2>5 DEF Promised
  <2>8. Ending'
    BY <2>6, <2>7 DEF Retracing, Ending, Final
  <2> QED
    BY <1>2, <2>3, <2>8 DEF Retracing, adapter
<1> QED
  BY <1>3, <1>4

\* The loop is over: there is nothing more to mine, or the target is reached.
LEMMA AtTheEnd ==
  ASSUME Retracing, Kinds, OnItsWay, ~InPaper, AtEnd \/ Len(m.cands) >= Target
  PROVE  m.cands = Uninterrupted(m.skipped)
<1>1. OnItsPath
  BY Along
<1>2. Covered = Passed /\ Passed \in Seq(Paper)
  BY <1>1, CoveredIs DEF OnItsPath
<1>3. PICK rest \in Seq(Paper) : Mined(m.skipped) = Covered \o rest /\ (AtEnd => rest = <<>>)
  BY <1>1, CoveredBegins
<1>4. OnFile /\ Tally
  BY Facts
<1>5. /\ ToSet(Passed) \subseteq done /\ m.cands = FirstOf(RowsInOrder(Passed, rows, MaxPerPaper), Target)
  BY <1>4 DEF Tally
<1>6. rest = <<>> \/ Len(m.cands) >= Target
  BY <1>3
<1>7. Mined(m.skipped) = Passed \o rest
  BY <1>2, <1>3
<1> DEFINE passed == Passed
           cands == m.cands
           skipped == m.skipped
<1> HIDE DEF passed, cands, skipped
<1>8. /\ passed \in Seq(Paper) /\ ToSet(passed) \subseteq done /\ Mined(skipped) = passed \o rest
      /\ cands = FirstOf(RowsInOrder(passed, rows, MaxPerPaper), Target)
      /\ (rest = <<>> \/ Len(cands) >= Target)
  BY <1>2, <1>5, <1>6, <1>7 DEF passed, cands, skipped
<1>9. cands = Uninterrupted(skipped)
  BY <1>4, <1>8, Ends, ZenonT(40)
<1> QED
  BY <1>9 DEF cands, skipped

\* A run that reaches its end or the target has what an uninterrupted one has.
LEMMA EndsWell ==
  ASSUME Retracing, Kinds, OnItsWay, ~InPaper, AtEnd \/ Len(m.cands) >= Target, pc' = "write",
         UNCHANGED <<job, marker, rows, done, journal, out, missed>>,
         Held', m'.surplus = m.surplus, m'.cands = m.cands, m'.skipped = m.skipped
  PROVE  Retracing'
<1>1. OnFile'
  BY OnFileKept DEF Retracing, OnFile
<1>2. marker /\ m.surplus \in Seq(Thm)
  BY Facts
<1>3. Working'
  BY <1>2 DEF Working, OnPaper, Walking, InChunk
<1>4. Uninterrupted(m.skipped)' = Uninterrupted(m.skipped)
  <2>1. Mined(m.skipped)' = Mined(m.skipped)
    BY DEF Mined, adapter
  <2>2. \A p : Yielding(p)' = Yielding(p)
    BY DEF Yielding, Usable, mode
  <2>3. \A p : RowsOf(p)' = RowsOf(p)
    BY <2>2 DEF RowsOf
  <2>4. Yield' = Yield
    BY <2>3 DEF Yield
  <2> QED
    BY <2>1, <2>4 DEF Uninterrupted
<1>5. Ending'
  BY <1>2, <1>4, AtTheEnd DEF Ending, Final
<1> QED
  BY <1>1, <1>3, <1>5 DEF Retracing

\* The last page of all begins no earlier than as many throttled ones would let it.
LEMMA LastPage ==
  ASSUME NEW start \in Nat, NEW queries \in Nat, start >= queries * PageFloor,
         queries >= MaxPages
  PROVE  MaxPages * PageFloor \in Nat /\ start >= MaxPages * PageFloor
<1>1. PageFloor \in Nat /\ MaxPages \in Nat
  BY PagesAssumption
<1>2. MaxPages * PageFloor <= queries * PageFloor
  <2>1. \A a, b, c \in Nat : a <= b => a * c <= b * c
    <3> SUFFICES ASSUME NEW a \in Nat, NEW b \in Nat, NEW c \in Nat, a <= b PROVE a * c <= b * c
      OBVIOUS
    <3>1. b - a \in Nat /\ b * c = a * c + (b - a) * c
      OBVIOUS
    <3>2. (b - a) * c \in Nat /\ a * c \in Nat
      BY <3>1
    <3> QED
      BY <3>1, <3>2
  <2> QED
    BY <1>1, <2>1
<1>3. MaxPages * PageFloor \in Nat /\ queries * PageFloor \in Nat
  BY <1>1
<1> QED
  BY <1>2, <1>3

\* Past the last page a run is at its end.
LEMMA PagesEnd ==
  ASSUME PagesReach, Held, ApiWalk, adapter = "api", m.page = <<>>, m.queries >= MaxPages
  PROVE  AtEnd
<1> DEFINE last == MaxPages * PageFloor
<1>1. last \in Nat /\ m.start \in Nat /\ m.start >= last
  BY LastPage DEF ApiWalk
<1> HIDE DEF last
<1>2. /\ Len(Listing) \in Nat /\ Reached = Limit /\ Limit \in 0..Len(Listing)
      /\ m.start <= Len(Listing) => Limit = m.start
      /\ m.start >= Len(Listing) => Limit = Len(Listing)
  BY ApiPlace
<1>3. CASE m.start >= Len(Listing)
  BY <1>2, <1>3 DEF AtEnd
<1>4. CASE ~(m.start >= Len(Listing))
  <2>1. Reached \in Nat /\ Reached >= last
    BY <1>1, <1>2, <1>4
  <2>2. Cardinality(Behind(last)) >= MaxPapers
    BY <1>1, <1>2, <1>4 DEF PagesReach, last
  <2> DEFINE here == Reached
  <2>3. m.taken = Cardinality(Behind(here))
    BY DEF ApiWalk
  <2> HIDE DEF here
  <2>4. here \in Nat /\ here >= last
    BY <2>1 DEF here
  <2>5. Behind(last) \subseteq Behind(here)
    <3>1. \A i \in Counted : i \in Nat
      BY ListingIs
    <3>2. \A i \in Nat : i <= last => i <= here
      BY <1>1, <2>4
    <3> QED
      BY <3>1, <3>2, Zenon DEF Behind
  <2>6. IsFiniteSet(Behind(here)) /\ Cardinality(Behind(here)) \in Nat
        /\ Cardinality(Behind(last)) \in Nat
    <3>1. last \in Int /\ here \in Int
      BY <1>1, <2>4
    <3> QED
      BY <3>1, BehindIs
  <2>7. Cardinality(Behind(last)) <= Cardinality(Behind(here))
    <3> DEFINE A == Behind(last)
               B == Behind(here)
    <3>1. IsFiniteSet(B) /\ A \subseteq B
      BY <2>5, <2>6
    <3> HIDE DEF A, B
    <3>2. Cardinality(A) <= Cardinality(B)
      BY <3>1, FS_Subset
    <3> QED
      BY <3>2 DEF A, B
  <2>8. MaxPapers \in Nat
    BY CapsHold DEF Caps
  <2>9. m.taken >= MaxPapers
    BY <2>2, <2>3, <2>6, <2>7, <2>8
  <2> QED
    BY <2>9 DEF AtEnd
<1> QED
  BY <1>3, <1>4

\* A page is turned, or there was none to turn to.
LEMMA TurnsPage ==
  ASSUME Retracing, Kinds, pc = "query", Len(m.cands) < Target,
         UNCHANGED <<job, marker, rows, done, journal, out, missed>>,
         DOMAIN m' = DOMAIN m,
         \A f \in {"store", "left", "got", "cands", "surplus", "full", "seen", "titles", "taken",
                   "skipped"} : m'[f] = m[f],
         NEW end \in Int, end = (IF m.start + m.size < Len(Listing) THEN m.start + m.size ELSE Len(Listing)),
         m'.page = SubSeq(Listing, m.start + 1, end), m'.start = m.start + m.size,
         m'.size \in Nat, m'.size >= PageFloor, m'.queries = m.queries + 1,
         pc' = IF m.start >= Len(Listing) THEN "write" ELSE "page"
  PROVE  Retracing'
<1>1. OnItsWay /\ ~InPaper /\ adapter = "api" /\ adapter # "bulk"
  BY DEF Retracing, Kinds, OnItsWay, InPaper, OnPaper
<1>2. /\ Held /\ marker /\ m.surplus \in Seq(Thm) /\ OnFile /\ Tally
  BY <1>1, Facts
<1>3. ApiWalk
  BY <1>1, Facts
<1>4. /\ Limit \in 0..Len(Listing) /\ Reached \in 0..Limit /\ Len(Listing) \in Nat /\ m.start \in Nat
      /\ m.start <= Len(Listing) => Limit = m.start
      /\ m.start >= Len(Listing) => Limit = Len(Listing)
      /\ Reached + Len(m.page) = Limit /\ Len(m.page) \in Nat
  BY <1>2, <1>3, ApiPlace
<1>5. m.page = <<>> /\ m.size \in Nat /\ m.size >= PageFloor /\ m.queries \in Nat /\ PageFloor \in Nat
      /\ m.start >= m.queries * PageFloor
  <2>1. ~(Len(m.cands) >= Target)
    <3>1. Len(m.cands) \in Nat /\ Target \in Nat
      BY <1>2, CapsHold DEF Held, Caps
    <3> QED
      BY <3>1
  <2> QED
    BY <1>3, <2>1, PagesAssumption DEF ApiWalk
<1>6. Reached = Limit
  <2>1. Len(<<>>) = 0
    OBVIOUS
  <2> QED
    BY <1>4, <1>5, <2>1
<1>7. Held'
  <2>1. m'.page \in Seq(Paper)
    <3>1. \A i \in (m.start + 1)..end : Listing[i] \in Paper
      <4>1. \A i \in (m.start + 1)..end : i \in 1..Len(Listing)
        BY <1>4, <1>5
      <4> QED
        BY <4>1, ListingIs
    <3>2. m.start + 1 \in Int /\ end \in Int
      BY <1>4
    <3> DEFINE s1 == m.start + 1
    <3>3. s1 \in Int /\ \A i \in s1..end : Listing[i] \in Paper
      BY <3>1, <3>2
    <3> HIDE DEF s1
    <3>4. SubSeq(Listing, s1, end) \in Seq(Paper)
      BY <3>2, <3>3, SubSeqProperties
    <3> QED
      BY <3>4 DEF s1
  <2> QED
    BY <1>2, <2>1 DEF Held
<1>8. CASE m.start >= Len(Listing)
  <2>1. AtEnd
    <3>1. Reached >= Len(Listing)
      BY <1>4, <1>6, <1>8
    <3> QED
      BY <1>1, <3>1 DEF AtEnd
  <2>2. pc' = "write"
    BY <1>8
  <2> QED
    BY <1>1, <1>7, <2>1, <2>2, EndsWell
<1>9. CASE ~(m.start >= Len(Listing))
  <2>1. /\ Limit = m.start /\ m.start < Len(Listing) /\ end \in 0..Len(Listing) /\ m.start \in 0..end
        /\ pc' = "page"
    <3> DEFINE x == m.start
               y == m.size
               l == Len(Listing)
    <3>1. x \in Nat /\ y \in Nat /\ l \in Nat /\ ~(x >= l) /\ end = IF x + y < l THEN x + y ELSE l
      BY <1>4, <1>5, <1>9
    <3> HIDE DEF x, y, l
    <3>2. x < l /\ end \in 0..l /\ x \in 0..end
      BY <3>1
    <3>3. Limit = x /\ pc' = "page"
      BY <1>4, <1>9, <3>2 DEF x, l
    <3> QED
      BY <3>2, <3>3 DEF x, l
  <2>2. Len(SubSeq(Listing, m.start + 1, end)) = end - m.start
    <3> DEFINE s0 == m.start
    <3>1. s0 \in 0..end /\ Listing \in Seq(Paper) /\ end \in 0..Len(Listing)
      BY <2>1, ListingIs
    <3> HIDE DEF s0
    <3>2. Len(SubSeq(Listing, s0 + 1, end)) = end - s0
      BY <3>1, Slice
    <3> QED
      BY <3>2 DEF s0
  <2>3. Limit' = end
    BY <1>4, <1>5 DEF Limit
  <2>4. Reached' = m.start /\ Reached' = Reached
    <3>1. Reached' = end - (end - m.start)
      BY <2>2, <2>3 DEF Reached
    <3> QED
      BY <1>4, <1>6, <2>1, <3>1
  <2>5. ~InPaper' /\ adapter' = adapter /\ OnItsWay'
    BY <2>1 DEF InPaper, OnPaper, adapter, OnItsWay, Walking, InChunk
  <2>6. Passed' = Passed
    BY <1>1, <2>4, <2>5 DEF Passed, ApiPassed
  <2>7. Passed \in Seq(Paper)
    BY <1>1, Along, CoveredIs DEF OnItsPath
  <2>8. Tally'
    <3>1. ~m.full
      <4>1. Len(m.cands) \in Nat /\ Target \in Nat
        BY <1>2, CapsHold DEF Held, Caps
      <4> QED
        BY <1>2, <4>1 DEF Tally
    <3> QED
      BY <1>2, <2>6, <2>7, <3>1, TallyStays
  <2>9. Extracting'
    BY <2>1 DEF Extracting, OnPaper
  <2>10. ApiWalk'
    <3>1. (m.seen = Exclude \cup {Listing[i] : i \in 1..Reached})'
      BY <1>3, <2>4 DEF ApiWalk
    <3>2. (m.titles = {Title[Listing[i]] : i \in {j \in 1..Reached : Listing[j] \in InScope \ Exclude}})'
      BY <1>3, <2>4 DEF ApiWalk
    <3>3. (m.taken = Cardinality(Behind(Reached)) /\ m.taken <= MaxPapers)'
      BY <1>3, <2>4 DEF ApiWalk
    <3>4. ({m.start, m.size, m.queries} \subseteq Nat)'
      <4>1. m'.start \in Nat /\ m'.queries \in Nat
        <5>1. m.start + m.size \in Nat /\ m.queries + 1 \in Nat
          <6> DEFINE x == m.start
                     y == m.size
                     z == m.queries
          <6>1. x \in Nat /\ y \in Nat /\ z \in Nat
            BY <1>4, <1>5
          <6> HIDE DEF x, y, z
          <6>2. x + y \in Nat /\ z + 1 \in Nat
            BY <6>1
          <6> QED
            BY <6>2 DEF x, y, z
        <5> QED
          BY <5>1
      <4> QED
        BY <4>1
    <3>5. (Len(m.page) <= Limit /\ m.page = SubSeq(Listing, Reached + 1, Limit))'
      BY <2>1, <2>2, <2>3, <2>4
    <3>6. (m.start >= m.queries * PageFloor)'
      <4>1. (m.queries + 1) * PageFloor = m.queries * PageFloor + PageFloor
            /\ m.queries * PageFloor \in Nat
        <5> DEFINE q == m.queries
        <5>1. q \in Nat /\ PageFloor \in Nat
          BY <1>5
        <5> HIDE DEF q
        <5>2. (q + 1) * PageFloor = q * PageFloor + PageFloor /\ q * PageFloor \in Nat
          BY <5>1
        <5> QED
          BY <5>2 DEF q
      <4> DEFINE x == m.queries * PageFloor
                 y == (m.queries + 1) * PageFloor
      <4>2. x \in Nat /\ y = x + PageFloor /\ m.start >= x
        BY <1>5, <4>1
      <4> HIDE DEF x, y
      <4>3. m.start + m.size >= y
        BY <1>4, <1>5, <4>2
      <4> QED
        BY <4>3 DEF y
    <3> QED
      BY <2>1, <2>5, <3>1, <3>2, <3>3, <3>4, <3>5, <3>6 DEF ApiWalk
  <2>11. OnFile'
    BY <1>2, OnFileKept DEF OnFile
  <2>12. marker' /\ m'.surplus \in Seq(Thm)
    BY <1>2
  <2> QED
    BY <1>1, <1>7, <2>1, <2>5, <2>8, <2>9, <2>10, <2>11, <2>12, OnTheWay
<1> QED
  BY <1>8, <1>9

\* Query: the next page begins where the last one ended, whatever its size.
LEMMA RetraceQuery ==
  ASSUME Retracing, Kinds, Query, PagesReach
  PROVE  Retracing'
<1>1. pc = "query" /\ UNCHANGED <<job, marker, rows, done, journal, out, missed>>
  BY DEF Query
<1>2. OnItsWay /\ ~InPaper /\ adapter = "api"
  BY <1>1 DEF Retracing, Kinds, OnItsWay, InPaper, OnPaper
<1>3. /\ Held /\ marker /\ m.surplus \in Seq(Thm) /\ DOMAIN m = DOMAIN NoRun
  BY <1>2, Facts DEF Held
<1>4. ApiWalk
  BY <1>2, Facts
<1>5. /\ m.size \in Nat /\ m.size >= PageFloor /\ m.start \in Nat /\ m.queries \in Nat
      /\ m.start >= m.queries * PageFloor
  BY <1>4 DEF ApiWalk
<1> DEFINE r == Charged("queries")
           end == IF m.start + m.size < Len(Listing) THEN m.start + m.size ELSE Len(Listing)
<1>6. \/ (Len(m.cands) >= Target \/ m.queries >= MaxPages) /\ pc' = "write" /\ UNCHANGED m
      \/ m' = [m EXCEPT !.over = TRUE] /\ pc' = "write"
      \/ /\ Len(m.cands) < Target
         /\ m' = Turned(Clean(r), m.size) \/ m' = Turned(Clean(Throttled(r)), m.size)
         /\ pc' = IF m.start >= Len(Listing) THEN "write" ELSE "page"
      \/ pc' = "idle" /\ m' = NoRun
  BY DEF Query, Exhausted
<1>7. CASE (Len(m.cands) >= Target \/ m.queries >= MaxPages) /\ pc' = "write" /\ UNCHANGED m
  <2>1. AtEnd \/ Len(m.cands) >= Target
    <3> SUFFICES ASSUME ~(Len(m.cands) >= Target) PROVE AtEnd
      OBVIOUS
    <3>1. m.queries >= MaxPages /\ m.page = <<>>
      BY <1>1, <1>4, <1>7 DEF ApiWalk
    <3> QED
      BY <1>2, <1>3, <1>4, <3>1, PagesEnd
  <2>2. Held'
    BY <1>1, <1>3, <1>7 DEF Held
  <2> QED
    BY <1>1, <1>2, <1>7, <2>1, <2>2, EndsWell
<1>8. CASE m' = [m EXCEPT !.over = TRUE] /\ pc' = "write"
  BY <1>1, <1>8, BrokenOff
<1>9. CASE pc' = "idle" /\ m' = NoRun
  BY <1>1, <1>9, Ended
<1>10. ASSUME NEW q, m' = Turned(q, m.size), DOMAIN q = DOMAIN NoRun, q.size \in Nat, q.size >= PageFloor,
              \A f \in Rest : q[f] = r[f], Len(m.cands) < Target,
              pc' = IF m.start >= Len(Listing) THEN "write" ELSE "page"
       PROVE  Retracing'
  <2> DEFINE Same == {"store", "left", "got", "cands", "surplus", "full", "seen", "titles", "taken",
                      "skipped"}
  <2>1. /\ DOMAIN r = DOMAIN NoRun /\ r.queries = m.queries + 1 /\ r.start = m.start
        /\ \A f \in Same : r[f] = m[f]
    BY <1>3 DEF Charged, NoRun
  <2>2. Same \subseteq Rest /\ "start" \in Rest /\ "queries" \in Rest
    BY DEF Rest, NoRun
  <2>3. q.start = m.start /\ q.queries = m.queries + 1 /\ \A f \in Same : q[f] = m[f]
    BY <1>10, <2>1, <2>2
  <2>4. m' = [q EXCEPT !.page = SubSeq(Listing, m.start + 1, end), !.start = m.start + m.size]
    BY <1>10, <2>3 DEF Turned
  <2> HIDE DEF end, r
  <2>5. /\ DOMAIN m' = DOMAIN q /\ m'.page = SubSeq(Listing, m.start + 1, end)
        /\ m'.start = m.start + m.size /\ m'.queries = q.queries /\ m'.size = q.size
        /\ \A f \in Same : m'[f] = q[f]
    BY <1>10, <2>4 DEF NoRun
  <2>6. end \in Int /\ end = IF m.start + m.size < Len(Listing) THEN m.start + m.size ELSE Len(Listing)
    <3>1. Len(Listing) \in Nat
      BY ListingIs
    <3> QED
      BY <1>5, <3>1 DEF end
  <2>7. /\ DOMAIN m' = DOMAIN m /\ m'.queries = m.queries + 1 /\ m'.size \in Nat /\ m'.size >= PageFloor
        /\ \A f \in Same : m'[f] = m[f]
    BY <1>3, <1>10, <2>3, <2>5
  <2> QED
    BY <1>1, <1>10, <2>5, <2>6, <2>7, TurnsPage
<1>11. CASE /\ Len(m.cands) < Target
            /\ m' = Turned(Clean(r), m.size) \/ m' = Turned(Clean(Throttled(r)), m.size)
            /\ pc' = IF m.start >= Len(Listing) THEN "write" ELSE "page"
  <2>1. DOMAIN r = DOMAIN NoRun /\ r.size = m.size
    BY <1>3 DEF Charged, NoRun
  <2> HIDE DEF r
  <2>2. /\ DOMAIN Clean(r) = DOMAIN NoRun /\ Clean(r).size \in Nat /\ Clean(r).size >= PageFloor
        /\ \A f \in Rest : Clean(r)[f] = r[f]
    BY <1>5, <2>1, CleanIs
  <2> DEFINE t == Throttled(r)
  <2>3. DOMAIN t = DOMAIN NoRun /\ t.size \in Nat /\ t.size >= PageFloor /\ \A f \in Rest : t[f] = r[f]
    BY <1>5, <2>1, ThrottledIs
  <2> HIDE DEF t
  <2>4. /\ DOMAIN Clean(t) = DOMAIN NoRun /\ Clean(t).size \in Nat /\ Clean(t).size >= PageFloor
        /\ \A f \in Rest : Clean(t)[f] = t[f]
    BY <2>3, CleanIs
  <2>5. CASE m' = Turned(Clean(r), m.size)
    BY <1>10, <1>11, <2>2, <2>5
  <2>6. CASE m' = Turned(Clean(t), m.size)
    BY <1>10, <1>11, <2>3, <2>4, <2>6
  <2> QED
    BY <1>11, <2>5, <2>6 DEF t
<1> QED
  BY <1>6, <1>7, <1>8, <1>9, <1>11

\* ApiPaper: a paper that does not count is left out, a done one is not fetched.
LEMMA RetraceApiPaper ==
  ASSUME Retracing, Kinds, ApiPaper
  PROVE  Retracing'
<1>1. /\ pc = "page" /\ adapter = "api" /\ adapter # "bulk"
      /\ UNCHANGED <<job, chunk, marker, rows, done, journal, out, missed>>
  BY DEF ApiPaper, files, history
<1>2. OnItsWay /\ ~InPaper
  BY <1>1 DEF OnItsWay, Walking, InChunk, InPaper, OnPaper
<1>3. /\ Held /\ marker /\ m.surplus \in Seq(Thm) /\ OnFile /\ Tally
  BY <1>2, Facts
<1>4. ApiWalk
  BY <1>1, <1>2, Facts
<1>5. /\ Limit \in 0..Len(Listing) /\ Reached \in 0..Limit /\ Len(Listing) \in Nat
      /\ Reached + Len(m.page) = Limit /\ Len(m.page) \in Nat
  BY <1>3, <1>4, ApiPlace
<1>6. /\ DOMAIN m = DOMAIN NoRun /\ m.page \in Seq(Paper) /\ m.page = SubSeq(Listing, Reached + 1, Limit)
      /\ ~m.full
  BY <1>1, <1>3, <1>4 DEF Held, ApiWalk, Tally
<1>7. Passed \in Seq(Paper) /\ Passed = Picked(Listing, Behind(Reached))
  BY <1>1, <1>2, Along, CoveredIs DEF OnItsPath, Passed, ApiPassed
<1>8. OnFile'
  BY <1>1, <1>3, OnFileKept DEF OnFile
<1>9. CASE m.page = <<>> /\ pc' = "query" /\ UNCHANGED m
  <2>1. ~InPaper' /\ adapter' = adapter /\ OnItsWay'
    BY <1>1, <1>9 DEF InPaper, OnPaper, adapter, OnItsWay
  <2>2. Limit' = Limit /\ Reached' = Reached
    BY <1>9 DEF Limit, Reached
  <2>3. Passed' = Passed
    BY <1>1, <1>2, <2>1, <2>2 DEF Passed, ApiPassed
  <2>4. Tally'
    BY <1>1, <1>3, <1>6, <1>7, <1>9, <2>3, TallyStays
  <2>5. ApiWalk'
    BY <1>4, <1>9, <2>1, <2>2 DEF ApiWalk
  <2>6. Held' /\ Extracting' /\ marker' /\ m'.surplus \in Seq(Thm)
    BY <1>1, <1>3, <1>9 DEF Held, Extracting, OnPaper
  <2> QED
    BY <1>1, <1>8, <1>9, <2>1, <2>4, <2>5, <2>6, OnTheWay
<1>10. CASE m.page # <<>> /\ m.taken >= MaxPapers /\ pc' = "write" /\ UNCHANGED m
  <2>1. AtEnd
    BY <1>1, <1>10 DEF AtEnd
  <2>2. Held'
    BY <1>1, <1>3, <1>10 DEF Held
  <2> QED
    BY <1>1, <1>2, <1>10, <2>1, <2>2, EndsWell
<1>11. CASE m.page # <<>> /\ m.taken < MaxPapers
  <2> DEFINE n == Reached + 1
             p == Listing[n]
             Fits(i) == Listing[i] \in InScope \ Exclude
  <2>1. n \in 1..Limit /\ Reached < Limit /\ n \in 1..Len(Listing) /\ n - 1 = Reached /\ Reached \in Nat
    <3>1. Reached # Limit
      <4> DEFINE i == Reached
                 e == Limit
      <4>1. i \in 0..e /\ e \in 0..Len(Listing) /\ Listing \in Seq(Paper)
        BY <1>5, ListingIs
      <4>3. m.page = SubSeq(Listing, i + 1, e)
        BY <1>6
      <4> HIDE DEF i, e
      <4>2. SubSeq(Listing, i + 1, e) = <<>> <=> i = e
        BY <4>1, Slice
      <4> QED
        BY <1>11, <4>2, <4>3 DEF i, e
    <3> QED
      BY <1>5, <3>1
  <2>2. Head(m.page) = p /\ Tail(m.page) = SubSeq(Listing, n + 1, Limit) /\ p \in Paper
    <3> DEFINE i == Reached
               e == Limit
    <3>1. i \in 0..e /\ e \in 0..Len(Listing) /\ Listing \in Seq(Paper) /\ i < e
          /\ m.page = SubSeq(Listing, i + 1, e)
      BY <1>5, <1>6, <2>1, ListingIs
    <3> HIDE DEF i, e
    <3>2. /\ Head(SubSeq(Listing, i + 1, e)) = Listing[i + 1] /\ Listing[i + 1] \in Paper
          /\ Tail(SubSeq(Listing, i + 1, e)) = SubSeq(Listing, (i + 1) + 1, e)
      BY <3>1, Slice
    <3> QED
      BY <3>1, <3>2 DEF i, e
  <2>3. Tail(m.page) \in Seq(Paper) /\ Len(Tail(m.page)) = Len(m.page) - 1
    BY <1>6, <1>11, HeadTailProperties
  <2>4. /\ m.seen = Exclude \cup {Listing[i] : i \in 1..Reached}
        /\ m.titles = {Title[Listing[i]] : i \in {j \in 1..Reached : Fits(j)}}
        /\ m.taken = Cardinality(Behind(Reached))
    BY <1>4 DEF ApiWalk
  <2>5. \A i : i \in 1..n <=> i \in 1..Reached \/ i = n
    BY <2>1
  <2>6. n \in Counted <=> p \notin m.seen /\ p \in InScope /\ Title[p] \notin m.titles
    <3>1. n \in Counted <=> /\ Fits(n)
                            /\ \A j \in 1..Reached : Fits(j) => Title[Listing[j]] # Title[p]
      BY <2>1, ListingIs DEF Counted, Counting
    <3>2. p \in m.seen <=> p \in Exclude \/ \E j \in 1..Reached : Listing[j] = p
      BY <2>4
    <3>3. Title[p] \in m.titles <=> \E j \in 1..Reached : Fits(j) /\ Title[Listing[j]] = Title[p]
      BY <2>4
    <3>4. \A j : Listing[j] = p => (Fits(j) <=> Fits(n))
      OBVIOUS
    <3> HIDE DEF n
    <3> QED
      BY <3>1, <3>2, <3>3, <3>4
  <2>8. /\ n \notin Counted => Behind(n) = Behind(Reached)
        /\ n \in Counted => Cardinality(Behind(n)) = Cardinality(Behind(Reached)) + 1
    BY <2>1, BehindMore
  <2>9. ASSUME DOMAIN m' = DOMAIN m, m'.page = Tail(m.page), m'.seen = m.seen \cup {p},
               \A f \in {"store", "left", "cands", "surplus", "full", "start", "size", "queries"} :
                 m'[f] = m[f],
               m'.got \in Seq(Thm), m'.titles = {Title[Listing[i]] : i \in {j \in 1..n : Fits(j)}},
               m'.taken = Cardinality(Behind(n)), m'.taken <= MaxPapers,
               pc' \in {"page", "keep", "fetch"},
               pc' = "page" => n \notin Counted,
               pc' # "page" => n \in Counted /\ m'.paper = p,
               Extracting'
        PROVE  Retracing'
    <3>1. Limit' = Limit /\ Reached' = n
      <4>1. Limit' = Limit
        BY <2>9 DEF Limit
      <4> DEFINE x == Len(m.page)
                 r == Reached
                 e == Limit
      <4>2. Reached' = e - (x - 1)
        BY <2>3, <2>9, <4>1 DEF Reached
      <4>3. r + x = e /\ x \in Nat /\ r \in Nat /\ e \in Nat
        BY <1>5
      <4> HIDE DEF x, r, e
      <4>4. e - (x - 1) = r + 1
        BY <4>3
      <4> QED
        BY <4>1, <4>2, <4>4 DEF r
    <3>2. adapter' = adapter /\ OnItsWay' /\ pc' \in OnPaper \cup {"query", "page", "keep"}
          /\ (InPaper' <=> pc' # "page")
      BY <1>1, <2>9 DEF adapter, OnItsWay, Walking, InChunk, OnPaper, InPaper
    <3>3. Passed' = Passed
      <4>1. CASE pc' = "page"
        <5>1. Passed' = Picked(Listing, Behind(n))
          BY <1>1, <3>1, <3>2, <4>1 DEF Passed, ApiPassed
        <5> QED
          BY <1>7, <2>8, <2>9, <4>1, <5>1
      <4>2. CASE pc' # "page"
        <5>1. Passed' = Picked(Listing, Behind(n - 1))
          BY <1>1, <3>1, <3>2, <4>2 DEF Passed, ApiPassed
        <5> QED
          BY <1>7, <2>1, <5>1
      <4> QED
        BY <4>1, <4>2
    <3>4. Tally'
      <4>1. \A f \in {"cands", "surplus", "full"} : m'[f] = m[f]
        BY <2>9
      <4> QED
        BY <1>1, <1>3, <1>6, <1>7, <3>3, <4>1, TallyStays
    <3>5. Held'
      <4>1. m'.store = m.store /\ m'.left = m.left /\ m'.cands = m.cands
        BY <2>9
      <4> QED
        BY <1>1, <1>3, <2>3, <2>9, <4>1 DEF Held
    <3>6. ApiWalk'
      <4>1. m'.start = m.start /\ m'.size = m.size /\ m'.queries = m.queries
        BY <2>9
      <4>2. (m.seen = Exclude \cup {Listing[i] : i \in 1..Reached})'
        <5>1. {Listing[i] : i \in 1..n} = {Listing[i] : i \in 1..Reached} \cup {p}
          BY <2>5
        <5> QED
          BY <2>4, <2>9, <3>1, <5>1
      <4>3. (m.titles = {Title[Listing[i]] : i \in {j \in 1..Reached : Listing[j] \in InScope \ Exclude}})'
        BY <2>9, <3>1
      <4>4. (m.taken = Cardinality(Behind(Reached)) /\ m.taken <= MaxPapers)'
        BY <2>9, <3>1
      <4>5. (Len(m.page) <= Limit /\ m.page = SubSeq(Listing, Reached + 1, Limit))'
        <5>1. Len(m'.page) <= Limit
          BY <1>5, <2>3, <2>9
        <5> QED
          BY <2>2, <2>9, <3>1, <5>1
      <4>6. (/\ {m.start, m.size, m.queries} \subseteq Nat
             /\ m.size >= PageFloor /\ m.start >= m.queries * PageFloor)'
        BY <1>4, <4>1 DEF ApiWalk
      <4>7. (InPaper => Reached \in Counted /\ m.paper = Listing[Reached])'
        BY <2>9, <3>1, <3>2
      <4> QED
        BY <2>9, <4>2, <4>3, <4>4, <4>5, <4>6, <4>7 DEF ApiWalk
    <3>7. marker' /\ m'.surplus \in Seq(Thm)
      BY <1>1, <1>3, <2>9
    <3> QED
      BY <1>1, <1>8, <2>9, <3>2, <3>4, <3>5, <3>6, <3>7, OnTheWay
  <2>12. /\ m.taken \in Nat /\ MaxPapers \in Nat
    BY <2>1, <2>4, BehindIs, CapsHold DEF Caps
  <2>13. LET q == Head(m.page)
         IN  IF q \in m.seen \/ q \notin InScope \/ Title[q] \in m.titles
               THEN m' = [m EXCEPT !.page = Tail(@), !.seen = @ \cup {q}] /\ pc' = "page"
               ELSE m' = Taken(q) /\ pc' = IF q \in done THEN "keep" ELSE "fetch"
    <3>1. ~(m.taken >= MaxPapers)
      BY <1>11, <2>12
    <3> QED
      BY <1>11, <3>1 DEF ApiPaper
  <2>10. CASE p \in m.seen \/ p \notin InScope \/ Title[p] \in m.titles
    <3>1. m' = [m EXCEPT !.page = Tail(@), !.seen = @ \cup {p}] /\ pc' = "page"
      BY <2>2, <2>10, <2>13
    <3>2. /\ DOMAIN m' = DOMAIN m /\ m'.page = Tail(m.page) /\ m'.seen = m.seen \cup {p}
          /\ \A f \in {"store", "left", "cands", "surplus", "full", "start", "size", "queries"} :
               m'[f] = m[f]
          /\ m'.got = m.got /\ m'.titles = m.titles /\ m'.taken = m.taken
      BY <1>6, <3>1 DEF NoRun
    <3>3. n \notin Counted
      BY <2>6, <2>10
    <3>4. m.titles = {Title[Listing[i]] : i \in {j \in 1..n : Fits(j)}}
      <4>1. Fits(n) => Title[p] \in m.titles
        <5>1. ASSUME Fits(n), p \in m.seen PROVE Title[p] \in m.titles
          <6>1. PICK j \in 1..Reached : Listing[j] = p
            BY <2>4, <5>1
          <6> QED
            BY <2>4, <5>1, <6>1
        <5> QED
          BY <2>10, <5>1
      <4> HIDE DEF n
      <4> QED
        BY <2>4, <2>5, <4>1
    <3>5. m'.taken = Cardinality(Behind(n)) /\ m'.taken <= MaxPapers
      BY <1>4, <2>4, <2>8, <3>2, <3>3 DEF ApiWalk
    <3>6. Extracting'
      BY <3>1 DEF Extracting, OnPaper
    <3>7. m'.got \in Seq(Thm)
      BY <1>3, <3>2 DEF Held
    <3>8. m'.titles = {Title[Listing[i]] : i \in {j \in 1..n : Fits(j)}}
      BY <3>2, <3>4
    <3> HIDE DEF n, p, Fits
    <3> QED
      BY <2>9, <3>1, <3>2, <3>3, <3>5, <3>6, <3>7, <3>8
  <2>11. CASE ~(p \in m.seen \/ p \notin InScope \/ Title[p] \in m.titles)
    <3>1. m' = Taken(p) /\ pc' = IF p \in done THEN "keep" ELSE "fetch"
      BY <2>2, <2>11, <2>13
    <3> DEFINE got == IF p \in done THEN m.store[p] ELSE <<>>
    <3>2. m' = [m EXCEPT !.page = Tail(@), !.seen = @ \cup {p}, !.titles = @ \cup {Title[p]},
                         !.taken = @ + 1, !.paper = p, !.got = got]
      BY <3>1 DEF Taken
    <3> HIDE DEF got
    <3>3. /\ DOMAIN m' = DOMAIN m /\ m'.page = Tail(m.page) /\ m'.seen = m.seen \cup {p}
          /\ \A f \in {"store", "left", "cands", "surplus", "full", "start", "size", "queries"} :
               m'[f] = m[f]
          /\ m'.got = got /\ m'.titles = m.titles \cup {Title[p]} /\ m'.taken = m.taken + 1
          /\ m'.paper = p
      BY <1>6, <3>2 DEF NoRun
    <3>4. n \in Counted
      BY <2>6, <2>11
    <3>5. m'.titles = {Title[Listing[i]] : i \in {j \in 1..n : Fits(j)}}
      <4>1. Fits(n)
        BY <2>4, <2>11
      <4> HIDE DEF n
      <4> QED
        BY <2>4, <2>5, <3>3, <4>1
    <3>6. m'.taken = Cardinality(Behind(n)) /\ m'.taken <= MaxPapers
      <4>1. m.taken \in Nat /\ MaxPapers \in Nat
        BY <2>1, <2>4, BehindIs, CapsAssumption
      <4> QED
        BY <1>11, <2>4, <2>8, <3>3, <3>4, <4>1
    <3>7. got \in Seq(Thm) /\ (p \in done => got = rows[p]) /\ (p \notin done => got = <<>>)
      <4>1. <<>> \in Seq(Thm)
        OBVIOUS
      <4> QED
        BY <1>3, <2>2, <4>1 DEF Held, got
    <3>8. Extracting'
      BY <1>1, <3>1, <3>3, <3>7 DEF Extracting, OnPaper
    <3>9. pc' \in {"page", "keep", "fetch"} /\ pc' # "page"
      BY <3>1
    <3> HIDE DEF n, p, Fits
    <3> QED
      BY <2>9, <3>3, <3>4, <3>5, <3>6, <3>7, <3>8, <3>9
  <2> QED
    BY <2>10, <2>11
<1> QED
  BY <1>9, <1>10, <1>11 DEF ApiPaper

\* Between two chunks.
LEMMA Between ==
  ASSUME Retracing, Kinds, adapter = "bulk", pc \in {"chunk", "download"}
  PROVE  /\ OnItsWay /\ ~InPaper /\ ~AtChunkPage /\ ~m.full
         /\ Held /\ marker /\ m.surplus \in Seq(Thm) /\ OnFile /\ Tally /\ BulkWalk /\ OnPath
         /\ DOMAIN m = DOMAIN NoRun
         /\ Passed = MinedIn(Gone, m.skipped) /\ Passed \in Seq(Paper)
         /\ m.seen = Exclude \cup Met(Gone, m.skipped)
         /\ ToSet(Passed) = m.seen \ (Exclude \cup Absent)
         /\ Len(RowsInOrder(Passed, rows, MaxPerPaper)) = Offered(rows, ToSet(Passed))
<1>1. OnItsWay /\ ~InPaper /\ ~AtChunkPage
  BY DEF OnItsWay, Walking, InChunk, OnPaper, InPaper, AtChunkPage
<1>2. Held /\ marker /\ m.surplus \in Seq(Thm) /\ OnFile /\ Tally /\ BulkWalk
  BY <1>1, Facts
<1>3. /\ OnPath /\ ~m.full /\ DOMAIN m = DOMAIN NoRun
      /\ m.seen = Exclude \cup Met(Gone, m.skipped)
  BY <1>1, <1>2 DEF BulkWalk, Tally, Held, AtChunkPage
<1>4. Passed = MinedIn(Gone, m.skipped)
  BY <1>1 DEF Passed, BulkPassed, AtChunkPage
<1>5. Passed \in Seq(Paper)
  BY <1>1, Along, CoveredIs DEF OnItsPath
<1>6. Current = {}
  BY <1>1 DEF Current
<1>7. /\ ToSet(Passed) = m.seen \ (Exclude \cup Absent)
      /\ Len(RowsInOrder(Passed, rows, MaxPerPaper)) = Offered(rows, ToSet(Passed))
  BY <1>2, <1>6 DEF BulkWalk
<1> QED
  BY <1>1, <1>2, <1>3, <1>4, <1>5, <1>7

\* The next chunk is that of the path.
LEMMA NextOnPath ==
  ASSUME OnPath
  PROVE  /\ m.todo = <<>> <=> Gone = Len(Needed)
         /\ m.todo # <<>> => /\ Gone < Len(Needed) /\ Gone + 1 \in 1..Len(Needed)
                             /\ Head(m.todo) = Needed[Gone + 1] /\ Head(m.todo) \in Chunk
                             /\ Tail(m.todo) = SubSeq(Needed, (Gone + 1) + 1, Len(Needed))
                             /\ Tail(m.todo) \in Seq(Chunk)
                             /\ Len(Tail(m.todo)) = Len(Needed) - (Gone + 1)
<1> DEFINE g == Gone
           L == Len(Needed)
<1>1. L \in Nat /\ g \in 0..L /\ Needed \in Seq(Chunk) /\ L \in 0..Len(Needed)
  BY BulkPlace, PathIs
<1>2. m.todo = SubSeq(Needed, g + 1, L)
  BY DEF OnPath
<1>3. m.todo \in Seq(Chunk)
  BY DEF OnPath
<1>4. g < L <=> g # L
  BY <1>1
<1>5. g < L => g + 1 \in 1..L
  BY <1>1
<1> HIDE DEF g, L
<1>6. /\ SubSeq(Needed, g + 1, L) = <<>> <=> g = L
      /\ g < L => /\ Head(SubSeq(Needed, g + 1, L)) = Needed[g + 1] /\ Needed[g + 1] \in Chunk
                  /\ Tail(SubSeq(Needed, g + 1, L)) = SubSeq(Needed, (g + 1) + 1, L)
                  /\ Len(Tail(SubSeq(Needed, g + 1, L))) = L - (g + 1)
  <2>1. Needed \in Seq(Chunk) /\ L \in 0..Len(Needed) /\ g \in 0..L
    BY <1>1
  <2>2. SubSeq(Needed, g + 1, L) = <<>> <=> g = L
    BY <2>1, Slice
  <2>3. g < L => /\ Head(SubSeq(Needed, g + 1, L)) = Needed[g + 1] /\ Needed[g + 1] \in Chunk
                 /\ Tail(SubSeq(Needed, g + 1, L)) = SubSeq(Needed, (g + 1) + 1, L)
                 /\ Len(Tail(SubSeq(Needed, g + 1, L))) = L - (g + 1)
    BY <2>1, Slice
  <2> QED
    BY <2>2, <2>3
<1>7. m.todo # <<>> => Tail(m.todo) \in Seq(Chunk)
  BY <1>3, HeadTailProperties
<1> QED
  BY <1>2, <1>4, <1>5, <1>6, <1>7 DEF g, L

\* A chunk is opened, from the tar or from the checkpoint.
LEMMA OpensChunk ==
  ASSUME Retracing, Kinds, adapter = "bulk", pc \in {"chunk", "download"}, pc' = "page",
         UNCHANGED <<job, marker, rows, done, journal, out, missed>>,
         Gone < Len(Needed), chunk' = Needed[Gone + 1], DOMAIN m' = DOMAIN m,
         \A f \in {"store", "left", "got", "cands", "surplus", "full", "seen", "todo", "skipped"} :
           m'[f] = m[f],
         m'.page = PapersOf(chunk'), m'.bytes <=> chunk' \notin journal
  PROVE  Retracing'
<1> DEFINE S == PapersOf(chunk')
           F == Fresh(Gone + 1, m.skipped)
<1>1. /\ Held /\ marker /\ m.surplus \in Seq(Thm) /\ OnFile /\ Tally /\ OnPath /\ ~m.full
      /\ DOMAIN m = DOMAIN NoRun
      /\ Passed = MinedIn(Gone, m.skipped) /\ Passed \in Seq(Paper)
      /\ m.seen = Exclude \cup Met(Gone, m.skipped)
      /\ ToSet(Passed) = m.seen \ (Exclude \cup Absent)
      /\ Len(RowsInOrder(Passed, rows, MaxPerPaper)) = Offered(rows, ToSet(Passed))
  BY Between
<1>2. Len(Needed) \in Nat /\ Gone \in 0..Len(Needed)
  BY <1>1, BulkPlace
<1>3. Gone + 1 \in 1..Len(Needed) /\ chunk' \in Chunk
  <2>1. Gone + 1 \in 1..Len(Needed)
    BY <1>2
  <2> QED
    BY <2>1, PathIs
<1>4. S \in Seq(Paper) /\ Len(S) \in Nat
  BY <1>3, PapersRise
<1>5. F \subseteq ToSet(S)
  BY <1>3, FreshIs
<1>6. Gone' = Gone /\ m'.skipped = m.skipped /\ m'.seen = m.seen /\ m'.todo = m.todo
  BY DEF Gone
<1>7. Turn' = 0
  BY <1>4 DEF Turn
<1>8. Current' = {} /\ ~InPaper' /\ AtChunkPage'
  BY DEF Current, InPaper, OnPaper, AtChunkPage, InChunk
<1>9. Passed' = Passed
  <2>1. Passed' = MinedIn(Gone, m.skipped) \o InOrder(F \ (ToSet(S) \cup {}))
    BY <1>6, <1>8 DEF Passed, BulkPassed, AtChunkPage, adapter
  <2>2. F \ (ToSet(S) \cup {}) = {}
    BY <1>5
  <2> QED
    BY <1>1, <2>1, <2>2, EmptyOrder, ConcatEmptySeq, ZenonT(40)
<1>10. OnFile'
  BY <1>1, OnFileKept DEF OnFile
<1>11. Tally'
  <2>1. \A f \in {"cands", "surplus", "full"} : m'[f] = m[f]
    OBVIOUS
  <2> QED
    BY <1>1, <1>9, <2>1, TallyStays
<1>12. Held'
  <2>1. S \in Seq(Paper) /\ m'.page = S
    BY <1>4
  <2>2. m'.store = m.store /\ m'.left = m.left /\ m'.got = m.got /\ m'.cands = m.cands
    OBVIOUS
  <2> QED
    BY <1>1, <2>1, <2>2 DEF Held
<1>13. OnPath'
  BY <1>1, <1>2, <1>6 DEF OnPath
<1>14. OnPage'
  <2>1. SubSeq(S, 0 + 1, Len(S)) = S
    BY <1>4, SubSeqFull
  <2>2. (m.page = SubSeq(PapersOf(chunk), Turn + 1, Len(PapersOf(chunk))))'
    BY <1>7, <2>1
  <2>3. {PapersOf(chunk)[i] : i \in 1..Turn}' = {}
    BY <1>7
  <2>4. (m.seen = Exclude \cup Met(Gone, m.skipped) \cup {PapersOf(chunk)[i] : i \in 1..Turn})'
    BY <1>1, <1>6, <2>3
  <2>5. (Len(m.page) <= Len(PapersOf(chunk)))'
    BY <1>4
  <2> QED
    BY <1>8, <2>2, <2>4, <2>5 DEF OnPage
<1>15. BulkWalk'
  <2>1. (IF pc \in InChunk \cup {"release"} THEN OnPage ELSE m.seen = Exclude \cup Met(Gone, m.skipped))'
    BY <1>8, <1>14 DEF AtChunkPage
  <2>2. (ToSet(Passed) = m.seen \ (Exclude \cup Absent \cup Current))'
    BY <1>1, <1>6, <1>8, <1>9
  <2>3. (Len(RowsInOrder(Passed, rows, MaxPerPaper)) = Offered(rows, ToSet(Passed)))'
    BY <1>1, <1>9, ZenonT(40) DEF Offered, Quota
  <2> QED
    BY <1>13, <2>1, <2>2, <2>3 DEF BulkWalk
<1>16. OnItsWay' /\ adapter' = adapter /\ Extracting' /\ pc' \in Walking
  BY DEF OnItsWay, adapter, Extracting, OnPaper, Walking, InChunk
<1>17. marker' /\ m'.surplus \in Seq(Thm)
  BY <1>1
<1> QED
  BY <1>10, <1>11, <1>12, <1>15, <1>16, <1>17, OnTheWay

\* The chunk in hand is over: journaled and released, or skipped.
LEMMA LeavesChunk ==
  ASSUME Retracing, Kinds, adapter = "bulk", pc \in {"download", "release"}, pc' = "chunk", ~m.full,
         UNCHANGED <<job, marker, rows, done, journal, out, missed>>,
         DOMAIN m' = DOMAIN m, m'.todo = Tail(m.todo),
         \A f \in {"store", "page", "left", "got", "cands", "surplus", "full", "seen"} : m'[f] = m[f],
         chunk \in journal \cup m'.skipped, m'.skipped \cap journal = {},
         pc = "download" => m'.skipped = m.skipped \cup {chunk},
         pc = "release" => m'.skipped = m.skipped
  PROVE  Retracing'
<1> DEFINE g == Gone
<1>1. /\ OnItsWay /\ ~InPaper /\ pc # "chunk" /\ pc \in Walking
      /\ (AtChunkPage <=> pc = "release")
  BY DEF OnItsWay, Walking, InChunk, OnPaper, InPaper, AtChunkPage
<1>2. Held /\ marker /\ m.surplus \in Seq(Thm) /\ OnFile /\ Tally /\ BulkWalk
  BY <1>1, Facts
<1>3. OnPath /\ DOMAIN m = DOMAIN NoRun /\ Passed \in Seq(Paper)
  BY <1>1, <1>2, Along, CoveredIs DEF BulkWalk, Held, OnItsPath
<1>4. /\ Len(Needed) \in Nat /\ g \in 0..Len(Needed)
      /\ g + 1 \in 1..Len(Needed) /\ g < Len(Needed)
      /\ chunk = Needed[g + 1] /\ chunk \in Chunk
      /\ chunk \notin m.skipped
      /\ \A i \in 1..g : Needed[i] # chunk
  BY <1>1, <1>3, BulkPlace
<1>5. /\ Tail(m.todo) = SubSeq(Needed, (g + 1) + 1, Len(Needed))
      /\ Tail(m.todo) \in Seq(Chunk) /\ Len(Tail(m.todo)) = Len(Needed) - (g + 1)
  <2>1. m.todo # <<>>
    BY <1>3, <1>4, NextOnPath
  <2> QED
    BY <1>3, <2>1, NextOnPath
<1>6. Gone' = g + 1 /\ (g + 1) - 1 = g
  <2>1. Gone' = Len(Needed) - (Len(Needed) - (g + 1))
    BY <1>5 DEF Gone
  <2>2. g \in Nat
    BY <1>4
  <2> HIDE DEF g
  <2> QED
    BY <1>4, <2>1, <2>2
<1> HIDE DEF g
<1>7. ~InPaper' /\ ~AtChunkPage' /\ Current' = {} /\ Current = {} /\ adapter' = adapter
  BY <1>1 DEF InPaper, OnPaper, AtChunkPage, InChunk, Current, adapter
<1>8. Passed' = MinedIn(g + 1, m'.skipped)
  BY <1>6, <1>7 DEF Passed, BulkPassed, AtChunkPage
<1>9. /\ \A i \in 1..g : Needed[i] \in m.skipped <=> Needed[i] \in m'.skipped
      /\ MinedIn(g, m.skipped) = MinedIn(g, m'.skipped)
      /\ Met(g, m.skipped) = Met(g, m'.skipped)
  <2>1. \A i \in 1..g : Needed[i] \in m.skipped <=> Needed[i] \in m'.skipped
    BY <1>4
  <2> QED
    BY <1>4, <2>1, MinedAlike
<1>10. /\ MinedIn(g + 1, m'.skipped) = MinedIn(g, m'.skipped) \o InOrder(Fresh(g + 1, m'.skipped))
       /\ Met(g + 1, m'.skipped) = Met(g, m'.skipped) \cup
            (IF chunk \in m'.skipped THEN {} ELSE ToSet(PapersOf(chunk)))
       /\ Fresh(g + 1, m'.skipped) = IF chunk \in m'.skipped THEN {}
            ELSE ToSet(PapersOf(chunk)) \ (Met(g, m'.skipped) \cup Exclude \cup Absent)
  <2>1. MinedIn(g + 1, m'.skipped) = MinedIn((g + 1) - 1, m'.skipped) \o InOrder(Fresh(g + 1, m'.skipped))
    BY <1>4, MinedInIs
  <2>2. Met(g + 1, m'.skipped) = Met((g + 1) - 1, m'.skipped) \cup
            (IF chunk \in m'.skipped THEN {} ELSE ToSet(PapersOf(chunk)))
    BY <1>4, MetIs
  <2>3. Fresh(g + 1, m'.skipped) = IF chunk \in m'.skipped THEN {}
            ELSE ToSet(PapersOf(chunk)) \ (Met((g + 1) - 1, m'.skipped) \cup Exclude \cup Absent)
    BY <1>4, FreshIs, ZenonT(40)
  <2> QED
    BY <1>6, <2>1, <2>2, <2>3
<1>11. MinedIn(g, m.skipped) \in Seq(Paper)
  BY <1>4, MinedInIs
<1>12. Passed' = Passed /\ m'.seen = Exclude \cup Met(g + 1, m'.skipped)
  <2>1. CASE pc = "download"
    <3>1. chunk \in m'.skipped
      BY <2>1
    <3>2. Passed = MinedIn(g, m.skipped) /\ m.seen = Exclude \cup Met(g, m.skipped)
      BY <2>1, Between DEF g
    <3>3. m'.seen = m.seen
      OBVIOUS
    <3>4. Passed' = MinedIn(g, m.skipped) \o <<>>
      BY <1>8, <1>9, <1>10, <3>1, EmptyOrder
    <3>5. MinedIn(g, m.skipped) \o <<>> = MinedIn(g, m.skipped)
      BY <1>11, ConcatEmptySeq
    <3>6. Met(g + 1, m'.skipped) = Met(g, m.skipped)
      BY <1>9, <1>10, <3>1
    <3> QED
      BY <3>2, <3>3, <3>4, <3>5, <3>6
  <2>2. CASE pc = "release"
    <3>1. m'.skipped = m.skipped /\ chunk \notin m'.skipped /\ m'.seen = m.seen
      BY <1>4, <2>2
    <3>2. OnPage /\ m.page = <<>>
      BY <1>1, <1>2, <2>2 DEF BulkWalk, AtChunkPage, OnPage
    <3>3. Turn = Len(PapersOf(chunk))
      BY <1>1, <1>2, <1>3, <3>2, PageIs
    <3>4. m.seen = Exclude \cup Met(g, m.skipped) \cup ToSet(PapersOf(chunk))
      <4>1. m.seen = Exclude \cup Met(g, m.skipped) \cup {PapersOf(chunk)[i] : i \in 1..Turn}
        BY <3>2 DEF OnPage, g
      <4>2. ToSet(PapersOf(chunk)) = {PapersOf(chunk)[i] : i \in 1..Len(PapersOf(chunk))}
        BY <1>4, PapersRise
      <4> QED
        BY <3>3, <4>1, <4>2
    <3>5. ToSet(m.page) = {}
      BY <3>2 DEF ToSet
    <3>6. Passed = MinedIn(g, m.skipped) \o InOrder(Fresh(g + 1, m.skipped) \ ({} \cup {}))
      BY <1>1, <1>7, <2>2, <3>5 DEF Passed, BulkPassed, AtChunkPage, g
    <3>7. Fresh(g + 1, m.skipped) \ ({} \cup {}) = Fresh(g + 1, m.skipped)
      OBVIOUS
    <3>8. Passed = MinedIn(g + 1, m.skipped)
      BY <1>10, <3>1, <3>6, <3>7
    <3> QED
      BY <1>8, <1>10, <3>1, <3>4, <3>8
  <2> QED
    BY <2>1, <2>2
<1>13. OnFile'
  BY <1>2, OnFileKept DEF OnFile
<1>14. Tally'
  <2>1. \A f \in {"cands", "surplus", "full"} : m'[f] = m[f]
    OBVIOUS
  <2> QED
    BY <1>2, <1>3, <1>12, <2>1, TallyStays
<1>15. Held'
  BY <1>2 DEF Held
<1>16. OnPath'
  <2>1. \A i \in 1..(g + 1) : i \in 1..g \/ i = g + 1
    <3>1. g \in Nat
      BY <1>4
    <3> QED
      BY <3>1
  <2>2. /\ \A i \in 1..g : Needed[i] \in journal \cup m.skipped
        /\ m.skipped \subseteq {Needed[i] : i \in 1..g} \ journal
    BY <1>3 DEF OnPath, g
  <2>3. \A i \in 1..(g + 1) : Needed[i] \in journal \cup m'.skipped
    BY <1>4, <1>9, <2>1, <2>2
  <2>4. m'.skipped \subseteq {Needed[i] : i \in 1..(g + 1)} \ journal
    <3>1. {Needed[i] : i \in 1..g} \cup {chunk} \subseteq {Needed[i] : i \in 1..(g + 1)}
      <4>1. \A i \in 1..g : i \in 1..(g + 1)
        BY <1>4
      <4>2. g + 1 \in 1..(g + 1)
        BY <1>4
      <4> QED
        BY <1>4, <4>1, <4>2
    <3>2. m'.skipped \subseteq m.skipped \cup {chunk}
      OBVIOUS
    <3> QED
      BY <2>2, <3>1, <3>2
  <2>5. m'.todo \in Seq(Chunk) /\ Len(m'.todo) <= Len(Needed)
    BY <1>4, <1>5
  <2>6. (m.todo = SubSeq(Needed, Gone + 1, Len(Needed)))'
    BY <1>5, <1>6
  <2> QED
    BY <1>6, <2>3, <2>4, <2>5, <2>6 DEF OnPath
<1>17. BulkWalk'
  <2>1. (IF pc \in InChunk \cup {"release"} THEN OnPage ELSE m.seen = Exclude \cup Met(Gone, m.skipped))'
    BY <1>6, <1>7, <1>12 DEF AtChunkPage
  <2>2. /\ ToSet(Passed) = m.seen \ (Exclude \cup Absent \cup Current)
        /\ Len(RowsInOrder(Passed, rows, MaxPerPaper)) = Offered(rows, ToSet(Passed))
    BY <1>2 DEF BulkWalk
  <2>3. (ToSet(Passed) = m.seen \ (Exclude \cup Absent \cup Current))'
    BY <1>7, <1>12, <2>2
  <2>4. (Len(RowsInOrder(Passed, rows, MaxPerPaper)) = Offered(rows, ToSet(Passed)))'
    BY <1>12, <2>2 DEF Offered, Quota
  <2> QED
    BY <1>16, <2>1, <2>3, <2>4 DEF BulkWalk
<1>18. OnItsWay' /\ Extracting' /\ pc' \in Walking /\ marker' /\ m'.surplus \in Seq(Thm)
  BY <1>2 DEF OnItsWay, Extracting, OnPaper, Walking
<1> QED
  BY <1>7, <1>13, <1>14, <1>15, <1>17, <1>18, OnTheWay

\* NextChunk: a journaled chunk is passed without its bytes.
LEMMA RetraceNextChunk ==
  ASSUME Retracing, Kinds, NextChunk
  PROVE  Retracing'
<1>1. /\ pc = "chunk" /\ UNCHANGED <<job, marker, rows, done, journal, out, missed>>
      /\ adapter = "bulk"
  BY DEF NextChunk, history, Retracing, Kinds
<1>2. /\ OnItsWay /\ ~InPaper /\ ~AtChunkPage /\ ~m.full /\ Held /\ marker
      /\ OnFile /\ Tally /\ BulkWalk /\ OnPath /\ DOMAIN m = DOMAIN NoRun
      /\ m.surplus \in Seq(Thm)
  BY <1>1, Between
<1>3. CASE Len(m.cands) >= Target \/ m.todo = <<>>
  <2>1. pc' = "write" /\ UNCHANGED m
    BY <1>3 DEF NextChunk
  <2>2. Held'
    BY <1>1, <1>2, <2>1 DEF Held
  <2>3. AtEnd \/ Len(m.cands) >= Target
    BY <1>1, <1>2, <1>3, NextOnPath DEF AtEnd
  <2> QED
    BY <1>1, <1>2, <2>1, <2>2, <2>3, EndsWell
<1>4. CASE ~(Len(m.cands) >= Target \/ m.todo = <<>>)
  <2> DEFINE c == Head(m.todo)
  <2>1. Gone < Len(Needed) /\ c = Needed[Gone + 1] /\ c \in Chunk
    BY <1>2, <1>4, NextOnPath
  <2>2. ASSUME NEW bytes \in BOOLEAN, Open(c, bytes), bytes <=> c \notin journal
        PROVE  Retracing'
    <3>1. /\ m' = [m EXCEPT !.bytes = bytes, !.page = PapersOf(c)]
          /\ chunk' = c /\ pc' = "page"
      BY <2>2 DEF Open
    <3>2. /\ DOMAIN m' = DOMAIN m /\ m'.page = PapersOf(c) /\ m'.bytes = bytes
          /\ \A f \in {"store", "left", "got", "cands", "surplus", "full", "seen", "todo", "skipped"} :
               m'[f] = m[f]
      BY <1>2, <3>1 DEF NoRun
    <3> HIDE DEF c
    <3> QED
      BY <1>1, <2>1, <2>2, <3>1, <3>2, OpensChunk
  <2>3. CASE Exhausted
    BY <1>1, <2>3, BrokenOff DEF Exhausted
  <2>4. CASE c \in journal /\ Open(c, FALSE)
    BY <2>2, <2>4
  <2>5. CASE c \notin journal /\ Open(c, TRUE)
    BY <2>2, <2>5
  <2>6. CASE chunk' = c /\ pc' = "download" /\ UNCHANGED m
    <3>1. /\ OnItsWay' /\ ~InPaper' /\ ~AtChunkPage' /\ Current' = Current /\ adapter' = adapter
          /\ Extracting' /\ pc' \in Walking
      BY <1>1, <1>2, <2>6 DEF OnItsWay, Walking, InPaper, OnPaper, AtChunkPage, InChunk, Current,
           adapter, Extracting
    <3>2. Gone' = Gone
      BY <2>6 DEF Gone
    <3>3. Passed' = Passed
      BY <1>1, <1>2, <2>6, <3>1, <3>2 DEF Passed, BulkPassed, AtChunkPage
    <3>4. OnFile'
      BY <1>1, <1>2, OnFileKept DEF OnFile
    <3>5. Tally' /\ Held'
      BY <1>1, <1>2, <2>6, <3>3 DEF Tally, Held
    <3>6. OnPath'
      BY <1>1, <1>2, <2>1, <2>6, <3>2 DEF OnPath
    <3>7. BulkWalk'
      <4>1. m.seen = Exclude \cup Met(Gone, m.skipped)
        BY <1>1, Between
      <4>2. (IF pc \in InChunk \cup {"release"} THEN OnPage ELSE m.seen = Exclude \cup Met(Gone, m.skipped))'
        BY <2>6, <3>1, <3>2, <4>1 DEF AtChunkPage
      <4>3. (/\ ToSet(Passed) = m.seen \ (Exclude \cup Absent \cup Current)
             /\ Len(RowsInOrder(Passed, rows, MaxPerPaper)) = Offered(rows, ToSet(Passed)))'
        BY <1>1, <1>2, <2>6, <3>1, <3>3 DEF BulkWalk, Offered, Quota
      <4> QED
        BY <3>6, <4>2, <4>3 DEF BulkWalk
    <3> QED
      BY <1>1, <1>2, <2>6, <3>1, <3>4, <3>5, <3>7, OnTheWay
  <2> HIDE DEF c
  <2>7. \/ c \in journal /\ Open(c, FALSE)
        \/ Exhausted
        \/ c \notin journal /\ Open(c, TRUE)
        \/ chunk' = c /\ pc' = "download" /\ UNCHANGED m
    BY <1>4 DEF NextChunk, c
  <2> QED
    BY <2>3, <2>4, <2>5, <2>6, <2>7
<1> QED
  BY <1>3, <1>4

\* Download.
LEMMA RetraceDownload ==
  ASSUME Retracing, Kinds, Download, InHand
  PROVE  Retracing'
<1>1. /\ pc = "download" /\ UNCHANGED <<job, marker, rows, done, journal, out, missed>>
      /\ adapter = "bulk"
  BY DEF Download, Retracing, Kinds
<1>2. /\ OnPath /\ DOMAIN m = DOMAIN NoRun /\ ~m.full
  BY <1>1, Between
<1>3. Gone < Len(Needed) /\ chunk = Needed[Gone + 1] /\ m.skipped \cap journal = {}
  BY <1>1, <1>2, BulkPlace
<1>4. chunk \notin journal
  BY <1>1 DEF InHand
<1>5. CASE /\ m' = [Charged("chunk_downloads") EXCEPT !.bytes = TRUE, !.page = PapersOf(chunk)]
           /\ pc' = "page" /\ UNCHANGED chunk
  <2>1. /\ DOMAIN m' = DOMAIN m /\ m'.page = PapersOf(chunk) /\ m'.bytes
        /\ \A f \in {"store", "left", "got", "cands", "surplus", "full", "seen", "todo", "skipped"} :
             m'[f] = m[f]
    BY <1>2, <1>5 DEF NoRun, Charged
  <2> QED
    BY <1>1, <1>3, <1>4, <1>5, <2>1, OpensChunk
<1>6. CASE /\ m' = [m EXCEPT !.skipped = @ \cup {chunk}, !.todo = Tail(@)]
           /\ pc' = "chunk"
  <2>1. /\ DOMAIN m' = DOMAIN m /\ m'.todo = Tail(m.todo) /\ m'.skipped = m.skipped \cup {chunk}
        /\ \A f \in {"store", "page", "left", "got", "cands", "surplus", "full", "seen"} : m'[f] = m[f]
    BY <1>2, <1>6 DEF NoRun
  <2>2. m'.skipped \cap journal = {} /\ chunk \in journal \cup m'.skipped
    BY <1>3, <1>4, <2>1
  <2> QED
    BY <1>1, <1>2, <1>6, <2>1, <2>2, LeavesChunk
<1>7. CASE pc' = "idle"
  BY <1>1, <1>7, Ended
<1> QED
  BY <1>5, <1>6, <1>7 DEF Download

\* Release.
LEMMA RetraceRelease ==
  ASSUME Retracing, Kinds, Release, InHand
  PROVE  Retracing'
<1>1. /\ pc = "release" /\ UNCHANGED <<job, marker, rows, done, journal, out, missed>>
      /\ adapter = "bulk" /\ m' = [m EXCEPT !.todo = Tail(@)]
      /\ pc' = IF m.full THEN "write" ELSE "chunk"
  BY DEF Release, history, Retracing, Kinds
<1>2. OnItsWay /\ ~InPaper /\ AtChunkPage /\ pc # "chunk" /\ pc \in Walking
  BY <1>1 DEF OnItsWay, Walking, InChunk, OnPaper, InPaper, AtChunkPage
<1>3. Held /\ OnFile /\ Tally /\ BulkWalk
  BY <1>1, <1>2, Facts
<1>4. OnPath /\ DOMAIN m = DOMAIN NoRun
  BY <1>3 DEF BulkWalk, Held
<1>5. /\ DOMAIN m' = DOMAIN m /\ m'.todo = Tail(m.todo) /\ m'.skipped = m.skipped
      /\ \A f \in {"store", "page", "left", "got", "cands", "surplus", "full", "seen"} : m'[f] = m[f]
  BY <1>1, <1>4 DEF NoRun
<1>6. m.skipped \cap journal = {} /\ chunk \in journal
  BY <1>1, <1>2, <1>4, BulkPlace DEF InHand
<1>7. CASE m.full
  <2>1. Len(m.cands) >= Target
    BY <1>3, <1>7 DEF Tally
  <2>2. Held'
    BY <1>1, <1>3, <1>5 DEF Held
  <2>3. m'.surplus = m.surplus /\ m'.cands = m.cands /\ m'.skipped = m.skipped
    BY <1>5
  <2> QED
    BY <1>1, <1>2, <1>7, <2>1, <2>2, <2>3, EndsWell
<1>8. CASE ~m.full
  BY <1>1, <1>5, <1>6, <1>8, LeavesChunk
<1> QED
  BY <1>7, <1>8

\* In a chunk, with no paper in hand.
LEMMA OnChunk ==
  ASSUME Retracing, Kinds, adapter = "bulk", pc \in {"page", "mark"}
  PROVE  /\ OnItsWay /\ ~InPaper /\ AtChunkPage /\ Current = {} /\ pc # "chunk"
         /\ Held /\ marker /\ m.surplus \in Seq(Thm) /\ OnFile /\ Tally /\ OnPath /\ OnPage
         /\ DOMAIN m = DOMAIN NoRun /\ Passed \in Seq(Paper)
         /\ Passed = MinedIn(Gone, m.skipped) \o InOrder(Novel \ (ToSet(m.page) \cup {}))
         /\ ToSet(Passed) = m.seen \ (Exclude \cup Absent)
         /\ Len(RowsInOrder(Passed, rows, MaxPerPaper)) = Offered(rows, ToSet(Passed))
         /\ \A T \in SUBSET ToSet(Passed) : Offered(rows, T) <= Offered(rows, ToSet(Passed))
         /\ {Offered(rows, T) : T \in SUBSET ToSet(Passed)} \subseteq Nat
<1>1. OnItsWay /\ ~InPaper /\ AtChunkPage /\ pc # "chunk"
  BY DEF OnItsWay, Walking, InChunk, OnPaper, InPaper, AtChunkPage
<1>2. Held /\ marker /\ m.surplus \in Seq(Thm) /\ OnFile /\ Tally /\ BulkWalk
  BY <1>1, Facts
<1>3. OnPath /\ OnPage /\ DOMAIN m = DOMAIN NoRun
  BY <1>1, <1>2 DEF BulkWalk, Held, AtChunkPage
<1>4. Passed \in Seq(Paper)
  BY <1>1, Along, CoveredIs DEF OnItsPath
<1>5. Current = {}
  BY <1>1 DEF Current
<1>6. Passed = MinedIn(Gone, m.skipped) \o InOrder(Novel \ (ToSet(m.page) \cup {}))
  BY <1>1, <1>5 DEF Passed, BulkPassed, AtChunkPage, Novel
<1>7. /\ ToSet(Passed) = m.seen \ (Exclude \cup Absent)
      /\ Len(RowsInOrder(Passed, rows, MaxPerPaper)) = Offered(rows, ToSet(Passed))
  BY <1>2, <1>5 DEF BulkWalk
<1>8. IsFiniteSet(ToSet(Passed)) /\ ToSet(Passed) \in SUBSET Paper
  BY <1>4, ElementsFinite
<1>9. rows \in [Paper -> Seq(Thm)]
  BY <1>2 DEF OnFile
<1>10. \A T \in SUBSET ToSet(Passed) : Offered(rows, T) <= Offered(rows, ToSet(Passed))
  BY <1>8, <1>9, OfferedIs
<1>11. \A T \in SUBSET ToSet(Passed) : Offered(rows, T) \in Nat
  <2> SUFFICES ASSUME NEW T \in SUBSET ToSet(Passed) PROVE Offered(rows, T) \in Nat
    OBVIOUS
  <2>1. T \in SUBSET Paper /\ IsFiniteSet(T)
    BY <1>8, FS_Subset
  <2> QED
    BY <1>9, <2>1, OfferedIs
<1> QED
  BY <1>1, <1>2, <1>3, <1>4, <1>5, <1>6, <1>7, <1>10, <1>11

\* What is behind on the path are the journaled chunks before the one in hand.
LEMMA Earlier ==
  ASSUME OnPath, pc # "chunk", Journaled
  PROVE  /\ \A b \in journal : b < chunk => ToSet(PapersOf(b)) \subseteq Met(Gone, m.skipped)
         /\ \A q \in Met(Gone, m.skipped) : \E b \in journal : b < chunk /\ q \in ToSet(PapersOf(b))
<1> DEFINE g == Gone
           L == Len(Needed)
<1>1. /\ L \in Nat /\ g \in 0..L /\ g + 1 \in 1..L /\ chunk = Needed[g + 1] /\ chunk \in Chunk
      /\ m.skipped \cap journal = {} /\ \A i \in 1..g : Needed[i] # chunk /\ Needed[i] < chunk
  BY BulkPlace
<1>2. Needed \in Seq(Chunk) /\ \A i, j \in 1..L : i < j => Needed[i] < Needed[j]
  BY PathIs, NeededRises
<1>3. \A i \in 1..L : Needed[i] \in Nat
  <2>1. \A i \in 1..L : Needed[i] \in Chunk
    BY PathIs
  <2>2. Chunk \subseteq Nat
    BY PapersAssumption DEF Chunk
  <2> QED
    BY <2>1, <2>2
<1>4. ASSUME NEW b \in journal, b < chunk
      PROVE  \E i \in 1..g : b = Needed[i] /\ b \notin m.skipped
  <2>1. PICK i \in 1..L : b = Needed[i]
    <3>1. DOMAIN Needed = 1..L
      BY <1>2, LenProperties
    <3>2. b \in ToSet(Needed)
      BY DEF Journaled
    <3> HIDE DEF L
    <3> QED
      BY <3>1, <3>2 DEF ToSet
  <2>2. ~(g + 1 < i) /\ i # g + 1
    <3>1. g + 1 < i => chunk < b
      BY <1>1, <1>2, <2>1
    <3>2. b \in Nat /\ chunk \in Nat
      BY <1>1, <1>3, <2>1
    <3> QED
      BY <1>1, <1>4, <2>1, <3>1, <3>2
  <2>3. i \in 1..g
    <3> HIDE DEF g, L
    <3> QED
      BY <1>1, <2>2
  <2> QED
    BY <1>1, <2>1, <2>3
<1>5. Met(g, m.skipped) = UNION {ToSet(PapersOf(Needed[i])) : i \in {i \in 1..g : Needed[i] \notin m.skipped}}
  BY DEF Met
<1>6. \A i \in 1..g : Needed[i] \notin m.skipped => Needed[i] \in journal
  BY DEF OnPath
<1> HIDE DEF g
<1>7. \A b \in journal : b < chunk => ToSet(PapersOf(b)) \subseteq Met(g, m.skipped)
  BY <1>4, <1>5
<1>8. \A q \in Met(g, m.skipped) : \E b \in journal : b < chunk /\ q \in ToSet(PapersOf(b))
  BY <1>1, <1>5, <1>6
<1> QED
  BY <1>7, <1>8 DEF g

\* A paper that has its turn and is done or can be mined is one not met before.
LEMMA OnItsTurn ==
  ASSUME Retracing, Kinds, adapter = "bulk", pc = "page", m.page # <<>>
  PROVE  /\ Head(m.page) = PapersOf(chunk)[Turn + 1] /\ Head(m.page) \in Paper
         /\ Turn + 1 \in 1..Len(PapersOf(chunk)) /\ Turn \in Nat
         /\ Tail(m.page) = SubSeq(PapersOf(chunk), (Turn + 1) + 1, Len(PapersOf(chunk)))
         /\ Tail(m.page) \in Seq(Paper) /\ Len(Tail(m.page)) = Len(PapersOf(chunk)) - (Turn + 1)
         /\ ToSet(m.page) = ToSet(Tail(m.page)) \cup {Head(m.page)}
         /\ Head(m.page) \notin {PapersOf(chunk)[i] : i \in 1..Turn}
         /\ Head(m.page) \in ToSet(PapersOf(chunk))
         /\ Novel = ToSet(PapersOf(chunk)) \ (Met(Gone, m.skipped) \cup Exclude \cup Absent)
<1> DEFINE S == PapersOf(chunk)
           L == Len(S)
           n == Turn
           T == Tail(m.page)
<1>1. Held /\ OnPath /\ OnPage /\ pc # "chunk"
  BY OnChunk
<1>2. /\ n \in 0..L /\ L \in Nat /\ m.page = SubSeq(S, n + 1, L) /\ (m.page = <<>> <=> n = L)
      /\ Novel = ToSet(S) \ (Met(Gone, m.skipped) \cup Exclude \cup Absent)
  BY <1>1, PageIs
<1>3. chunk \in Chunk
  BY <1>1, BulkPlace
<1>4. S \in Seq(Paper) /\ ToSet(S) = {S[i] : i \in 1..L}
      /\ (\A i, j \in 1..L : i < j => S[i] < S[j]) /\ \A i \in 1..L : S[i] \in Nat /\ S[i] \in Paper
  BY <1>3, PapersRise
<1>5. n < L /\ n + 1 \in 1..L /\ n \in Nat
  BY <1>2
<1> HIDE DEF S, n
<1>6. /\ Head(SubSeq(S, n + 1, L)) = S[n + 1]
      /\ Tail(SubSeq(S, n + 1, L)) = SubSeq(S, (n + 1) + 1, L)
      /\ Len(Tail(SubSeq(S, n + 1, L))) = L - (n + 1)
  <2>1. S \in Seq(Paper) /\ L \in 0..Len(S) /\ n \in 0..L
    BY <1>2, <1>4
  <2> HIDE DEF L
  <2> QED
    BY <1>5, <2>1, Slice
<1>7. m.page \in Seq(Paper)
  BY <1>1 DEF Held
<1>8. T \in Seq(Paper)
  BY <1>7, HeadTailProperties
<1>9. ToSet(m.page) = ToSet(T) \cup {Head(m.page)}
  <2>1. \A x : x \in ToSet(m.page) <=> \E k \in (n + 1)..L : x = S[k]
    <3>1. S \in Seq(Paper) /\ L \in 0..Len(S) /\ n \in 0..L
      BY <1>2, <1>4
    <3> HIDE DEF L
    <3>2. \A x : x \in ToSet(SubSeq(S, n + 1, L)) <=> \E k \in (n + 1)..L : x = S[k]
      BY <3>1, SliceSet
    <3> QED
      BY <1>2, <3>2
  <2>2. \A x : x \in ToSet(T) <=> \E k \in ((n + 1) + 1)..L : x = S[k]
    <3>1. S \in Seq(Paper) /\ L \in 0..Len(S) /\ n + 1 \in 0..L
      BY <1>2, <1>4, <1>5
    <3> HIDE DEF L
    <3>2. \A x : x \in ToSet(SubSeq(S, (n + 1) + 1, L)) <=> \E k \in ((n + 1) + 1)..L : x = S[k]
      BY <3>1, SliceSet
    <3> QED
      BY <1>2, <1>6, <3>2
  <2>3. \A k : k \in (n + 1)..L <=> k = n + 1 \/ k \in ((n + 1) + 1)..L
    BY <1>5, <1>2
  <2>4. Head(m.page) = S[n + 1]
    BY <1>2, <1>6
  <2> HIDE DEF T
  <2> QED
    BY <2>1, <2>2, <2>3, <2>4
<1>10. S[n + 1] \notin {S[i] : i \in 1..n}
  <2> SUFFICES ASSUME NEW i \in 1..n, S[i] = S[n + 1] PROVE FALSE
    OBVIOUS
  <2>1. i \in 1..L /\ i < n + 1
    BY <1>2, <1>5
  <2>2. S[i] < S[n + 1] /\ S[i] \in Nat
    BY <1>4, <1>5, <2>1
  <2> QED
    BY <2>2
<1>11. S[n + 1] \in Paper /\ S[n + 1] \in ToSet(S)
  BY <1>4, <1>5
<1> QED
  BY <1>2, <1>5, <1>6, <1>8, <1>9, <1>10, <1>11 DEF S, n

\* A paper a journaled chunk leaves without being done has its target before it.
LEMMA NotShort ==
  ASSUME Retracing, Kinds, adapter = "bulk", pc = "page", m.page # <<>>, chunk \in journal,
         Head(m.page) \notin done \cup Exclude \cup Absent
  PROVE  FALSE
<1> DEFINE p == Head(m.page)
           S == PapersOf(chunk)
           B == done \cap Before(chunk, p)
<1>1. /\ OnPath /\ OnPage /\ pc # "chunk" /\ OnFile /\ Tally /\ ~m.full /\ Passed \in Seq(Paper)
      /\ ToSet(Passed) = m.seen \ (Exclude \cup Absent)
      /\ Len(RowsInOrder(Passed, rows, MaxPerPaper)) = Offered(rows, ToSet(Passed))
      /\ \A T \in SUBSET ToSet(Passed) : Offered(rows, T) <= Offered(rows, ToSet(Passed))
      /\ {Offered(rows, T) : T \in SUBSET ToSet(Passed)} \subseteq Nat
  BY OnChunk DEF Tally
<1>2. Journaled /\ AllThere
  BY <1>1 DEF OnFile
<1>3. p = S[Turn + 1] /\ Turn + 1 \in 1..Len(S) /\ Turn \in Nat /\ p \in ToSet(S)
  BY OnItsTurn
<1>4. Offered(rows, B) >= Target
  BY <1>2, <1>3 DEF Journaled
<1>5. m.seen = Exclude \cup Met(Gone, m.skipped) \cup {S[i] : i \in 1..Turn}
  BY <1>1 DEF OnPage
<1>6. chunk \in Chunk
  BY <1>1, BulkPlace
<1>7. /\ ToSet(S) = {S[i] : i \in 1..Len(S)} /\ \A i \in 1..Len(S) : S[i] \in Nat
      /\ \A i, j \in 1..Len(S) : i < j => S[i] < S[j]
  BY <1>6, PapersRise
<1>8. \A q \in ToSet(S) : q < p => q \in m.seen
  <2> SUFFICES ASSUME NEW q \in ToSet(S), q < p PROVE q \in m.seen
    OBVIOUS
  <2>1. PICK i \in 1..Len(S) : q = S[i]
    BY <1>7
  <2>2. i # Turn + 1 /\ ~(Turn + 1 < i)
    <3>1. Turn + 1 < i => p < q
      BY <1>3, <1>7, <2>1
    <3>2. p \in Nat /\ q \in Nat
      BY <1>3, <1>7, <2>1
    <3> QED
      BY <1>3, <2>1, <3>1, <3>2
  <2>3. i \in 1..Turn
    BY <1>3, <2>2
  <2> QED
    BY <1>5, <2>1, <2>3
<1>9. \A b \in journal : b < chunk => ToSet(PapersOf(b)) \subseteq m.seen
  BY <1>1, <1>2, <1>5, Earlier
<1>10. B \in SUBSET ToSet(Passed)
  <2>1. Before(chunk, p) \subseteq m.seen
    BY <1>8, <1>9 DEF Before
  <2>2. \A q \in done : q \notin Exclude \cup Absent
    BY <1>2 DEF AllThere
  <2> HIDE DEF p
  <2> QED
    BY <1>1, <2>1, <2>2
<1>11. Len(RowsInOrder(Passed, rows, MaxPerPaper)) < Target /\ Target \in Nat
  BY <1>1, CandsAre
<1> DEFINE a == Offered(rows, B)
           b == Offered(rows, ToSet(Passed))
<1>12. a <= b /\ a \in Nat /\ b \in Nat
  <2>1. ToSet(Passed) \in SUBSET ToSet(Passed)
    OBVIOUS
  <2> HIDE DEF B
  <2> QED
    BY <1>1, <1>10, <2>1
<1>13. a >= Target /\ b < Target
  BY <1>1, <1>4, <1>11
<1> HIDE DEF a, b
<1> QED
  BY <1>11, <1>12, <1>13

\* BulkPaper: the next paper of the chunk, or its end.
LEMMA RetraceBulkPaper ==
  ASSUME Retracing, Kinds, BulkPaper
  PROVE  Retracing'
<1> DEFINE p == Head(m.page)
           S == PapersOf(chunk)
<1>1. /\ pc = "page" /\ adapter = "bulk"
      /\ UNCHANGED <<job, chunk, marker, rows, done, journal, out, missed>>
  BY DEF BulkPaper, files, history
<1>2. /\ OnItsWay /\ ~InPaper /\ AtChunkPage /\ Current = {} /\ pc # "chunk"
      /\ Held /\ marker /\ m.surplus \in Seq(Thm) /\ OnFile /\ Tally /\ OnPath /\ OnPage
      /\ DOMAIN m = DOMAIN NoRun /\ Passed \in Seq(Paper) /\ ~m.full
      /\ Passed = MinedIn(Gone, m.skipped) \o InOrder(Novel \ (ToSet(m.page) \cup {}))
      /\ ToSet(Passed) = m.seen \ (Exclude \cup Absent)
      /\ Len(RowsInOrder(Passed, rows, MaxPerPaper)) = Offered(rows, ToSet(Passed))
  BY <1>1, OnChunk DEF Tally
<1>3. OnFile'
  BY <1>1, <1>2, OnFileKept DEF OnFile
<1>4. m.seen = Exclude \cup Met(Gone, m.skipped) \cup {S[i] : i \in 1..Turn}
  BY <1>2 DEF OnPage
\* Whatever becomes of the paper, what is passed does not change.
<1>5. ASSUME DOMAIN m' = DOMAIN m, Gone' = Gone, m'.skipped = m.skipped, m'.todo = m.todo,
             m'.bytes = m.bytes, m'.store = m.store, m'.left = m.left, m'.surplus = m.surplus,
             \A f \in {"cands", "surplus", "full"} : m'[f] = m[f],
             m'.page \in Seq(Paper), m'.got \in Seq(Thm),
             pc' \in {"page", "mark", "keep", "fetch"}, pc' = "mark" => m'.page = <<>>,
             Turn' \in Nat, Len(m'.page) <= Len(S), m'.page = SubSeq(S, Turn' + 1, Len(S)),
             m'.seen = Exclude \cup Met(Gone, m.skipped) \cup {S[i] : i \in 1..Turn'},
             InPaper' => Turn' >= 1 /\ m'.paper = S[Turn'] /\ m'.paper \in Novel,
             Novel \ (ToSet(m'.page) \cup Current') = Novel \ (ToSet(m.page) \cup {}),
             m'.seen \ (Exclude \cup Absent \cup Current') = m.seen \ (Exclude \cup Absent),
             Extracting'
      PROVE  Retracing'
  <2>1. AtChunkPage' /\ adapter' = adapter /\ OnItsWay' /\ pc' \in Walking /\ pc' # "release"
    BY <1>1, <1>5 DEF AtChunkPage, InChunk, OnPaper, adapter, OnItsWay, Walking
  <2>2. Passed' = Passed
    <3>1. Passed' = MinedIn(Gone, m.skipped) \o InOrder(Novel \ (ToSet(m'.page) \cup Current'))
      BY <1>1, <1>5, <2>1 DEF Passed, BulkPassed, AtChunkPage, Novel
    <3> QED
      BY <1>2, <1>5, <3>1
  <2>3. Tally'
    BY <1>1, <1>2, <1>5, <2>2, TallyStays
  <2>4. Held'
    <3>1. m'.cands = m.cands
      BY <1>5
    <3> QED
      BY <1>1, <1>2, <1>5, <3>1 DEF Held
  <2>5. OnPath'
    BY <1>1, <1>2, <1>5 DEF OnPath
  <2>6. OnPage'
    <3>1. (m.seen = Exclude \cup Met(Gone, m.skipped) \cup {PapersOf(chunk)[i] : i \in 1..Turn})'
      BY <1>1, <1>5
    <3>2. (/\ pc # "release" => (m.bytes <=> chunk \notin journal)
           /\ pc \in {"mark", "release"} /\ ~m.full => m.page = <<>>)'
      BY <1>1, <1>2, <1>5, <2>1 DEF OnPage
    <3>3. (InPaper => Turn >= 1 /\ m.paper = PapersOf(chunk)[Turn] /\ m.paper \in Fresh(Gone + 1, m.skipped))'
      BY <1>1, <1>5 DEF Novel
    <3>4. (/\ Len(m.page) <= Len(PapersOf(chunk))
           /\ m.page = SubSeq(PapersOf(chunk), Turn + 1, Len(PapersOf(chunk))))'
      BY <1>1, <1>5
    <3> QED
      BY <3>1, <3>2, <3>3, <3>4 DEF OnPage
  <2>7. BulkWalk'
    <3>1. (ToSet(Passed) = m.seen \ (Exclude \cup Absent \cup Current))'
      BY <1>2, <1>5, <2>2
    <3>2. (Len(RowsInOrder(Passed, rows, MaxPerPaper)) = Offered(rows, ToSet(Passed)))'
      BY <1>1, <1>2, <2>2 DEF Offered, Quota
    <3> QED
      BY <2>1, <2>5, <2>6, <3>1, <3>2 DEF BulkWalk, AtChunkPage
  <2>8. marker' /\ m'.surplus \in Seq(Thm)
    BY <1>1, <1>2, <1>5
  <2> QED
    BY <1>1, <1>3, <1>5, <2>1, <2>3, <2>4, <2>7, <2>8, OnTheWay
<1>6. CASE m.page = <<>>
  <2>1. pc' = "mark" /\ UNCHANGED m
    BY <1>6 DEF BulkPaper
  <2>2. Turn' = Turn /\ Gone' = Gone /\ ~InPaper' /\ Current' = {} /\ Extracting'
    BY <1>1, <2>1 DEF Turn, Gone, InPaper, OnPaper, Current, Extracting
  <2>3. /\ Turn \in Nat /\ Len(m.page) <= Len(S) /\ m.page = SubSeq(S, Turn + 1, Len(S))
        /\ m.page \in Seq(Paper) /\ m.got \in Seq(Thm)
    BY <1>2, PageIs DEF OnPage, Held
  <2> QED
    BY <1>2, <1>4, <1>5, <1>6, <2>1, <2>2, <2>3
<1>7. CASE m.page # <<>>
  <2>1. /\ p = S[Turn + 1] /\ p \in Paper /\ Turn + 1 \in 1..Len(S) /\ Turn \in Nat
        /\ Tail(m.page) = SubSeq(S, (Turn + 1) + 1, Len(S))
        /\ Tail(m.page) \in Seq(Paper) /\ Len(Tail(m.page)) = Len(S) - (Turn + 1)
        /\ ToSet(m.page) = ToSet(Tail(m.page)) \cup {p}
        /\ p \notin {S[i] : i \in 1..Turn} /\ p \in ToSet(S)
        /\ Novel = ToSet(S) \ (Met(Gone, m.skipped) \cup Exclude \cup Absent)
    BY <1>1, <1>7, OnItsTurn
  <2> DEFINE n == Turn + 1
             skip == p \in m.seen \/ (p \notin done /\ (~m.bytes \/ p \in Absent))
             r == [m EXCEPT !.page = Tail(@), !.seen = @ \cup {p}]
  <2>2. IF skip THEN m' = r /\ pc' = "page"
        ELSE /\ m' = [r EXCEPT !.paper = p, !.got = IF p \in done THEN m.store[p] ELSE <<>>]
             /\ pc' = IF p \in done THEN "keep" ELSE "fetch"
    BY <1>7 DEF BulkPaper
  <2>3. {S[i] : i \in 1..n} = {S[i] : i \in 1..Turn} \cup {p}
    <3>1. \A i : i \in 1..n <=> i \in 1..Turn \/ i = n
      BY <2>1
    <3> QED
      BY <2>1, <3>1
  <2>4. Len(S) \in Nat
    <3>1. chunk \in Chunk
      BY <1>2, BulkPlace
    <3> QED
      BY <3>1, PapersRise
  <2>5. CASE skip
    <3>1. m' = r /\ pc' = "page"
      BY <2>2, <2>5
    <3>2. /\ DOMAIN m' = DOMAIN m /\ m'.page = Tail(m.page) /\ m'.seen = m.seen \cup {p}
          /\ m'.skipped = m.skipped /\ m'.todo = m.todo
          /\ m'.bytes = m.bytes /\ m'.store = m.store /\ m'.left = m.left /\ m'.surplus = m.surplus
          /\ m'.got = m.got /\ \A f \in {"cands", "surplus", "full"} : m'[f] = m[f]
      BY <1>2, <3>1 DEF NoRun
    <3>3. Gone' = Gone /\ ~InPaper' /\ Current' = {} /\ Extracting'
      BY <3>1, <3>2 DEF Gone, InPaper, OnPaper, Current, Extracting
    <3>4. Turn' = n /\ Len(Tail(m.page)) <= Len(S)
      <4> DEFINE x == Len(S)
      <4>1. Turn' = x - (x - n) /\ Len(Tail(m.page)) = x - n /\ x \in Nat /\ n \in 1..x
        BY <1>1, <2>1, <2>4, <3>2 DEF Turn
      <4> HIDE DEF x, n
      <4>2. Turn' = n /\ Len(Tail(m.page)) <= x
        BY <4>1
      <4> QED
        BY <4>2 DEF x
    <3>5. p \in Exclude \cup Absent \/ p \in Met(Gone, m.skipped)
      <4>1. CASE p \in m.seen
        BY <1>4, <2>1, <4>1
      <4>2. CASE p \notin done /\ p \notin Absent /\ ~m.bytes
        <5>1. chunk \in journal
          BY <1>1, <1>2, <4>2 DEF OnPage
        <5> QED
          BY <1>1, <1>7, <4>2, <5>1, NotShort
      <4> QED
        BY <2>5, <4>1, <4>2
    <3>6. p \notin Novel
      BY <2>1, <3>5
    <3>7. m.got \in Seq(Thm)
      BY <1>2 DEF Held
    <3> HIDE DEF r, skip, S, p
    <3>8. Novel \ (ToSet(m'.page) \cup Current') = Novel \ (ToSet(m.page) \cup {})
      BY <2>1, <3>2, <3>3, <3>6
    <3>9. m'.seen \ (Exclude \cup Absent \cup Current') = m.seen \ (Exclude \cup Absent)
      BY <1>4, <3>2, <3>3, <3>5
    <3>10. m'.seen = Exclude \cup Met(Gone, m.skipped) \cup {S[i] : i \in 1..n}
      BY <1>4, <2>3, <3>2
    <3>11. n \in Nat
      BY <2>1
    <3> HIDE DEF n
    <3> QED
      BY <1>5, <2>1, <3>1, <3>2, <3>3, <3>4, <3>7, <3>8, <3>9, <3>10, <3>11 DEF n
  <2>6. CASE ~skip
    <3> DEFINE got == IF p \in done THEN m.store[p] ELSE <<>>
    <3>1. m' = [r EXCEPT !.paper = p, !.got = got] /\ pc' = IF p \in done THEN "keep" ELSE "fetch"
      BY <2>2, <2>6
    <3> HIDE DEF got
    <3>2. /\ DOMAIN m' = DOMAIN m /\ m'.page = Tail(m.page) /\ m'.seen = m.seen \cup {p}
          /\ m'.skipped = m.skipped /\ m'.todo = m.todo
          /\ m'.bytes = m.bytes /\ m'.store = m.store /\ m'.left = m.left /\ m'.surplus = m.surplus
          /\ m'.got = got /\ m'.paper = p /\ \A f \in {"cands", "surplus", "full"} : m'[f] = m[f]
      BY <1>2, <3>1 DEF NoRun
    <3>3. Gone' = Gone /\ InPaper' /\ Current' = {p} /\ pc' \in {"keep", "fetch"}
      BY <3>1, <3>2 DEF Gone, InPaper, OnPaper, Current
    <3>4. Turn' = n /\ Len(Tail(m.page)) <= Len(S)
      <4> DEFINE x == Len(S)
      <4>1. Turn' = x - (x - n) /\ Len(Tail(m.page)) = x - n /\ x \in Nat /\ n \in 1..x
        BY <1>1, <2>1, <2>4, <3>2 DEF Turn
      <4> HIDE DEF x, n
      <4>2. Turn' = n /\ Len(Tail(m.page)) <= x
        BY <4>1
      <4> QED
        BY <4>2 DEF x
    <3>5. p \notin m.seen /\ p \notin Absent
      <4>1. p \in done => p \notin Absent
        BY <1>1, <1>2 DEF OnFile, AllThere
      <4> QED
        BY <2>6, <4>1
    <3>6. p \in Novel
      BY <1>4, <2>1, <3>5
    <3>7. got \in Seq(Thm) /\ (p \in done => got = rows[p]) /\ (p \notin done => got = <<>>)
      <4>1. <<>> \in Seq(Thm)
        OBVIOUS
      <4> QED
        BY <1>2, <2>1, <4>1 DEF Held, got
    <3>8. Extracting'
      BY <1>1, <3>1, <3>2, <3>7 DEF Extracting, OnPaper
    <3> HIDE DEF r, skip, S, p
    <3>9. Novel \ (ToSet(m'.page) \cup Current') = Novel \ (ToSet(m.page) \cup {})
      BY <2>1, <3>2, <3>3
    <3>10. m'.seen \ (Exclude \cup Absent \cup Current') = m.seen \ (Exclude \cup Absent)
      BY <3>2, <3>3, <3>5
    <3>11. m'.seen = Exclude \cup Met(Gone, m.skipped) \cup {S[i] : i \in 1..n}
      BY <1>4, <2>3, <3>2
    <3>12. n \in Nat /\ n >= 1
      BY <2>1
    <3>13. InPaper' => Turn' >= 1 /\ m'.paper = S[Turn'] /\ m'.paper \in Novel
      BY <2>1, <3>2, <3>4, <3>6, <3>12
    <3> HIDE DEF n
    <3> QED
      BY <1>5, <2>1, <3>2, <3>3, <3>4, <3>7, <3>8, <3>9, <3>10, <3>11, <3>12, <3>13 DEF n
  <2> QED
    BY <2>5, <2>6
<1> QED
  BY <1>6, <1>7

\* A chunk is journaled when its papers are done or the target is reached before them.
LEMMA JournaledMore ==
  ASSUME Retracing, Kinds, adapter = "bulk", pc = "mark", UNCHANGED <<job, chunk, rows, done>>,
         journal' = journal \cup {chunk}
  PROVE  Journaled'
<1> DEFINE S == PapersOf(chunk)
           Late(c) == ToSet(PapersOf(c)) \ (done \cup Exclude \cup Absent)
<1>1. /\ OnPath /\ OnPage /\ Held /\ pc # "chunk" /\ OnFile /\ Tally /\ Passed \in Seq(Paper)
      /\ ToSet(Passed) = m.seen \ (Exclude \cup Absent)
      /\ Len(RowsInOrder(Passed, rows, MaxPerPaper)) = Offered(rows, ToSet(Passed))
  BY OnChunk
<1>2. Journaled /\ rows \in [Paper -> Seq(Thm)] /\ done \subseteq Paper
  BY <1>1 DEF OnFile
<1>3. /\ chunk \in Chunk /\ chunk = Needed[Gone + 1] /\ Gone + 1 \in 1..Len(Needed)
  BY <1>1, BulkPlace
<1>4. journal' \subseteq ToSet(Needed)
  <2>1. Needed \in Seq(Chunk)
    BY PathIs
  <2>2. chunk \in ToSet(Needed)
    <3>1. DOMAIN Needed = 1..Len(Needed)
      BY <2>1, LenProperties
    <3> QED
      BY <1>3, <3>1 DEF ToSet
  <2> QED
    BY <1>2, <2>2 DEF Journaled
<1>5. \A c, p : Before(c, p) \subseteq Before(c, p)'
  BY DEF Before
<1>6. \A c : \A p \in Paper : Before(c, p)' \in SUBSET (ToSet(PapersOf(c)) \cup ToSet(Wanted))
  <2>1. \A b \in journal' : ToSet(PapersOf(b)) \subseteq ToSet(Wanted)
    <3> SUFFICES ASSUME NEW b \in journal' PROVE ToSet(PapersOf(b)) \subseteq ToSet(Wanted)
      OBVIOUS
    <3>1. b \in Chunk
      <4>1. \A i \in 1..Len(Needed) : Needed[i] \in Chunk
        BY PathIs
      <4>2. DOMAIN Needed = 1..Len(Needed)
        BY PathIs, LenProperties
      <4> QED
        BY <1>4, <4>1, <4>2 DEF ToSet
    <3> QED
      BY <3>1, PathIs
  <2> QED
    BY <2>1 DEF Before
\* Offers only grow with the papers.
<1>7. ASSUME NEW c \in Chunk, NEW p \in Paper, NEW A, A \subseteq done \cap Before(c, p)',
             Offered(rows, A) >= Target
      PROVE  Offered(rows, done \cap Before(c, p))' >= Target
  <2> DEFINE B == done \cap Before(c, p)'
  <2>1. B \in SUBSET Paper /\ IsFiniteSet(B)
    <3>1. IsFiniteSet(ToSet(Wanted)) /\ ToSet(Wanted) \subseteq Paper /\ ToSet(PapersOf(c)) \subseteq ToSet(Wanted)
      BY PathIs
    <3>2. B \in SUBSET ToSet(Wanted)
      BY <1>6, <3>1
    <3> HIDE DEF B
    <3> QED
      BY <3>1, <3>2, FS_Subset
  <2>2. A \in SUBSET B
    BY <1>7
  <2>3. Offered(rows, done \cap Before(c, p))' = Offered(rows, B)
    BY DEF Offered, Quota
  <2> HIDE DEF B
  <2>4. Offered(rows, A) <= Offered(rows, B) /\ Offered(rows, B) \in Nat
    BY <1>2, <2>1, <2>2, OfferedIs
  <2>5. Offered(rows, A) \in Nat /\ Target \in Nat
    <3>1. A \in SUBSET Paper /\ IsFiniteSet(A)
      BY <2>1, <2>2, FS_Subset
    <3> QED
      BY <1>2, <3>1, OfferedIs, CapsHold DEF Caps
  <2> QED
    BY <1>7, <2>3, <2>4, <2>5
\* The chunk in hand.
<1>8. ASSUME NEW p \in Late(chunk), chunk \notin journal
      PROVE  Offered(rows, done \cap Before(chunk, p))' >= Target
  <2>1. /\ Turn \in 0..Len(S) /\ Len(S) \in Nat /\ (m.page = <<>> <=> Turn = Len(S))
    BY <1>1, PageIs
  <2>2. /\ ToSet(S) = {S[i] : i \in 1..Len(S)} /\ \A i \in 1..Len(S) : S[i] \in Paper
        /\ \A i, j \in 1..Len(S) : i < j => S[i] < S[j]
    BY <1>3, PapersRise
  <2>3. m.seen = Exclude \cup Met(Gone, m.skipped) \cup {S[i] : i \in 1..Turn}
    BY <1>1 DEF OnPage
  <2>4. ToSet(Passed) \subseteq done
    BY <1>1 DEF Tally
  <2>5. p \notin m.seen
    BY <1>1, <1>8, <2>4
  <2>6. PICK k \in 1..Len(S) : p = S[k]
    BY <1>8, <2>2
  <2>7. k > Turn
    <3>1. k \notin 1..Turn
      BY <2>3, <2>5, <2>6
    <3> QED
      BY <2>1, <3>1
  <2>8. m.full
    <3>1. ~m.full => m.page = <<>>
      BY <1>1 DEF OnPage
    <3> QED
      BY <2>1, <2>7, <3>1
  <2>9. ToSet(Passed) \subseteq Before(chunk, p)'
    <3> SUFFICES ASSUME NEW q \in ToSet(Passed) PROVE q \in Before(chunk, p)'
      OBVIOUS
    <3>1. q \in Met(Gone, m.skipped) \/ \E i \in 1..Turn : q = S[i]
      BY <1>1, <2>3
    <3>2. CASE q \in Met(Gone, m.skipped)
      <4>1. PICK b \in journal : b < chunk /\ q \in ToSet(PapersOf(b))
        BY <1>1, <1>2, <3>2, Earlier
      <4> QED
        BY <4>1 DEF Before
    <3>3. ASSUME NEW i \in 1..Turn, q = S[i] PROVE q \in Before(chunk, p)'
      <4>1. i \in 1..Len(S) /\ i < k
        BY <2>1, <2>7
      <4>2. q < p /\ q \in ToSet(S)
        BY <2>2, <2>6, <3>3, <4>1
      <4> QED
        BY <4>2 DEF Before
    <3> QED
      BY <3>1, <3>2, <3>3
  <2>10. Offered(rows, ToSet(Passed)) >= Target
    <3> DEFINE R == RowsInOrder(Passed, rows, MaxPerPaper)
    <3>1. R \in Seq(Thm) /\ Target \in Nat
      BY <1>1, CandsAre
    <3>2. m.cands = FirstOf(R, Target) /\ Len(m.cands) >= Target
      BY <1>1, <2>8 DEF Tally
    <3>3. Offered(rows, ToSet(Passed)) = Len(R)
      BY <1>1
    <3> HIDE DEF R
    <3>4. Len(R) \in Nat /\ Len(FirstOf(R, Target)) = IF Len(R) < Target THEN Len(R) ELSE Target
      BY <3>1, FirstOfIs
    <3> QED
      BY <3>1, <3>2, <3>3, <3>4
  <2>11. p \in Paper
    BY <2>2, <2>6
  <2> QED
    BY <1>3, <1>7, <2>4, <2>9, <2>10, <2>11
<1>9. \A c \in journal' : \A p \in Late(c) : Offered(rows, done \cap Before(c, p))' >= Target
  <2> SUFFICES ASSUME NEW c \in journal', NEW p \in Late(c)
               PROVE  Offered(rows, done \cap Before(c, p))' >= Target
    OBVIOUS
  <2>1. c \in Chunk
    <3>1. \A i \in 1..Len(Needed) : Needed[i] \in Chunk
      BY PathIs
    <3>2. DOMAIN Needed = 1..Len(Needed)
      BY PathIs, LenProperties
    <3> QED
      BY <1>4, <3>1, <3>2 DEF ToSet
  <2>2. p \in Paper
    <3>1. ToSet(PapersOf(c)) \subseteq ToSet(Wanted) /\ ToSet(Wanted) \subseteq Paper
      BY <2>1, PathIs
    <3> QED
      BY <3>1
  <2>3. CASE c \in journal
    <3>1. Offered(rows, done \cap Before(c, p)) >= Target
      BY <1>2, <2>3 DEF Journaled
    <3>2. done \cap Before(c, p) \subseteq done \cap Before(c, p)'
      BY <1>5
    <3> QED
      BY <1>7, <2>1, <2>2, <3>1, <3>2
  <2>4. CASE c \notin journal
    <3>1. c = chunk
      BY <2>4
    <3> HIDE DEF Late
    <3>2. Offered(rows, done \cap Before(chunk, p))' >= Target
      BY <1>8, <2>4, <3>1
    <3> QED
      BY <3>1, <3>2
  <2> QED
    BY <2>3, <2>4
<1>10. \A c \in journal' : \A p \in ToSet(PapersOf(c)) \ (done' \cup Exclude \cup Absent) :
         Offered(rows, done \cap Before(c, p))' >= Target
  BY <1>9
<1> QED
  BY <1>4, <1>10 DEF Journaled

\* Mark: the chunk is journaled.
LEMMA RetraceMark ==
  ASSUME Retracing, Kinds, Mark
  PROVE  Retracing'
<1>1. /\ pc = "mark" /\ pc' = "release" /\ journal' = journal \cup {chunk} /\ adapter = "bulk"
      /\ UNCHANGED <<job, m, chunk, marker, rows, done, out, missed>>
  BY DEF Mark, history, Retracing, Kinds
<1>2. /\ OnItsWay /\ ~InPaper /\ AtChunkPage /\ Current = {} /\ pc # "chunk"
      /\ Held /\ marker /\ m.surplus \in Seq(Thm) /\ OnFile /\ Tally /\ OnPath /\ OnPage
      /\ Passed \in Seq(Paper)
      /\ ToSet(Passed) = m.seen \ (Exclude \cup Absent)
      /\ Len(RowsInOrder(Passed, rows, MaxPerPaper)) = Offered(rows, ToSet(Passed))
  BY <1>1, OnChunk
<1>3. OnFile'
  <2>1. Journaled'
    BY <1>1, JournaledMore
  <2>2. AllThere'
    <3>1. \A p \in done : RowsOf(p)' = RowsOf(p)
      BY <1>1 DEF RowsOf, Yielding, Usable, mode
    <3> QED
      BY <1>1, <1>2, <3>1 DEF OnFile, AllThere, adapter
  <2> QED
    BY <1>1, <1>2, <2>1, <2>2 DEF OnFile, adapter
<1>4. /\ OnItsWay' /\ ~InPaper' /\ AtChunkPage' /\ Current' = {} /\ adapter' = adapter
      /\ pc' \in Walking /\ Extracting' /\ Gone' = Gone /\ Turn' = Turn
  BY <1>1 DEF OnItsWay, Walking, InPaper, OnPaper, AtChunkPage, InChunk, Current, adapter, Extracting,
       Gone, Turn
<1>5. Passed' = Passed
  BY <1>1, <1>2, <1>4 DEF Passed, BulkPassed, AtChunkPage
<1>6. Tally'
  <2>1. \A f \in {"cands", "surplus", "full"} : m'[f] = m[f]
    BY <1>1
  <2> QED
    BY <1>1, <1>2, <1>5, <2>1, TallyStays
<1>7. Held'
  BY <1>1, <1>2 DEF Held
<1>8. OnPath'
  <2>1. chunk \notin m.skipped
    BY <1>2, BulkPlace
  <2>2. \A i \in 1..Gone : Needed[i] \in journal' \cup m.skipped
    BY <1>1, <1>2 DEF OnPath
  <2>3. m.skipped \subseteq {Needed[i] : i \in 1..Gone} \ journal'
    BY <1>1, <1>2, <2>1 DEF OnPath
  <2> QED
    BY <1>1, <1>2, <1>4, <2>2, <2>3 DEF OnPath
<1>9. OnPage'
  <2>1. {PapersOf(chunk)[i] : i \in 1..Turn}' = {PapersOf(chunk)[i] : i \in 1..Turn}
    BY <1>1, <1>4
  <2>2. Met(Gone, m.skipped)' = Met(Gone, m.skipped)
    BY <1>1, <1>4
  <2> QED
    BY <1>1, <1>2, <1>4, <2>1, <2>2 DEF OnPage
<1>10. BulkWalk'
  <2>1. (ToSet(Passed) = m.seen \ (Exclude \cup Absent \cup Current))'
    BY <1>1, <1>2, <1>4, <1>5
  <2>2. (Len(RowsInOrder(Passed, rows, MaxPerPaper)) = Offered(rows, ToSet(Passed)))'
    BY <1>1, <1>2, <1>5 DEF Offered, Quota
  <2> QED
    BY <1>4, <1>8, <1>9, <2>1, <2>2 DEF BulkWalk, AtChunkPage
<1> QED
  BY <1>1, <1>2, <1>3, <1>4, <1>6, <1>7, <1>10, OnTheWay

\* Every step of a run, by action.
LEMMA RetraceStep ==
  ASSUME Retracing, Kinds, [Next]_vars, twice' = {}, InHand, PagesReach,
         DOMAIN out = DOMAIN NoFile
  PROVE  Retracing'
<1>1. ~Replay
  BY DEF Replay, Kinds
<1>2. CASE Start \/ Query \/ Index
  BY <1>2, RetraceStart, RetraceQuery, RetraceIndex
<1>3. CASE ApiPaper \/ BulkPaper
  BY <1>3, RetraceApiPaper, RetraceBulkPaper
<1>4. CASE NextChunk \/ Download \/ Mark \/ Release
  BY <1>4, RetraceNextChunk, RetraceDownload, RetraceMark, RetraceRelease
<1>5. CASE ApiFetch \/ BulkFetch \/ Ask \/ Remember
  <2>1. CASE ApiFetch \/ BulkFetch
    BY <2>1, RetraceFetches
  <2>2. CASE Ask \/ Remember
    BY <2>2, RetraceAnswers
  <2> QED
    BY <1>5, <2>1, <2>2
<1>6. CASE CommitRows \/ CommitPaper \/ Keep
  BY <1>6, RetraceCommitRows, RetraceCommitPaper, RetraceKeep
<1>7. CASE WriteHandoff \/ WriteSurplus \/ Finish
  BY <1>7, RetraceWrites
<1>8. CASE Pause \/ Kill
  BY <1>8, RetraceStops
<1>9. CASE Elapse \/ UNCHANGED vars
  <2>1. UNCHANGED <<job, pc, m, chunk, asked, marker, rows, done, journal, out, missed>>
    BY <1>9 DEF Elapse, vars, files, history
  <2> QED
    BY <2>1, RetraceStays
<1> QED
  BY <1>1, <1>2, <1>3, <1>4, <1>5, <1>6, <1>7, <1>8, <1>9 DEF Next, Run

\* What no step touches.
LEMMA OutStays ==
  ASSUME [Next]_vars
  PROVE  job' = job /\ (twice' = {} => twice = {}) /\ DOMAIN out' = DOMAIN out
<1> USE DEF files, history
<1>1. CASE UNCHANGED vars \/ Start \/ Elapse \/ Replay \/ Query \/ ApiPaper \/ ApiFetch \/ Index
  BY <1>1 DEF vars, Start, Elapse, Replay, Query, ApiPaper, ApiFetch, Index
<1>2. CASE NextChunk \/ Download \/ BulkPaper \/ BulkFetch \/ Ask \/ Remember
  BY <1>2 DEF NextChunk, Download, BulkPaper, BulkFetch, Ask, Remember
<1>3. CASE CommitRows \/ CommitPaper \/ Keep \/ Mark \/ Release
  BY <1>3 DEF CommitRows, CommitPaper, Keep, Mark, Release
<1>4. CASE WriteHandoff \/ WriteSurplus \/ Finish \/ Pause \/ Kill
  BY <1>4 DEF WriteHandoff, WriteSurplus, Finish, Pause, Kill
<1> QED
  BY <1>1, <1>2, <1>3, <1>4 DEF Next, Run

\* RetraceInv holds at the start, and every step keeps it.
LEMMA RetraceBegins == Init => RetraceInv
<1> SUFFICES ASSUME Init PROVE RetraceInv
  OBVIOUS
<1>1. /\ pc = "idle" /\ done = {} /\ journal = {} /\ ~out.written /\ DOMAIN out = DOMAIN NoFile
      /\ rows = [p \in Paper |-> <<>>]
  BY DEF Init, NoFile
<1>2. rows \in [Paper -> Seq(Thm)]
  <2>1. <<>> \in Seq(Thm)
    OBVIOUS
  <2> QED
    BY <1>1, <2>1
<1>3. OnFile
  BY <1>1, <1>2 DEF OnFile, AllThere, Journaled
<1>4. Working /\ Ending
  BY <1>1 DEF Working, Ending, Final, OnPaper, Walking, InChunk
<1> QED
  BY <1>1, <1>3, <1>4 DEF RetraceInv, Retracing

LEMMA RetraceNext ==
  ASSUME RetraceInv, IndInv, GoneInv, [Next]_vars, PagesReach
  PROVE  RetraceInv'
<1>1. /\ job' = job /\ (twice' = {} => twice = {}) /\ adapter' = adapter
      /\ DOMAIN out' = DOMAIN out /\ DOMAIN out = DOMAIN NoFile
  BY OutStays DEF adapter, RetraceInv
<1> SUFFICES ASSUME adapter # "fixture", twice' = {} PROVE Retracing'
  BY <1>1 DEF RetraceInv
<1>2. Retracing
  BY <1>1 DEF RetraceInv
<1>3. Kinds
  BY JobsAssumption DEF GoneInv, Kinds, adapter, Adapters
<1> QED
  BY <1>1, <1>2, <1>3, RetraceStep DEF IndInv

\* Theorem. However often it is paused, killed, throttled or out of budget, a run
\* that completes hands off the rows of one uninterrupted run: scrape and
\* _bulk_acquire resume from the checkpoint without skipping a paper or counting
\* one twice.  For every listing and cap the pages reach (PagesReach), every layout of the
\* chunks and every cap; a stop between the two appends of a commit excepted.
THEOREM ResumesRetrace ==
  ASSUME PagesReach
  PROVE  Spec => []AsUninterrupted
<1>1. RetraceInv /\ IndInv /\ GoneInv /\ [Next]_vars => RetraceInv'
  BY RetraceNext
<1>2. IndInv /\ GoneInv /\ [Next]_vars => GoneInv'
  BY GoneNext
<1>3. RetraceInv => AsUninterrupted
  BY DEF RetraceInv, Retracing, Ending, Promised, Uninterrupted, AsUninterrupted
<1> QED
  BY <1>1, <1>2, <1>3, RetraceBegins, GoneBegins, InvariantHolds, PTL DEF Spec

-----------------------------------------------------------------------------
(* Why nothing is left on the floor.                                         *)

\* Papers done and rows kept: what had its time still has it.
LEMMA TimeKept ==
  ASSUME InTime, job' = job, done \subseteq done', UNCHANGED rows
  PROVE  InTime'
<1>1. Mined({})' = Mined({})
  BY DEF Mined, adapter
<1> DEFINE M == Mined({})
<1>2. \A p \in Paper : rows[p] # <<>> =>
        \E n \in DOMAIN M :
          /\ M[n] = p /\ \A i \in 1..(n - 1) : M[i] \in done
          /\ Len(RowsInOrder(SubSeq(M, 1, n - 1), rows, MaxPerPaper)) < Target
  BY DEF InTime
<1> HIDE DEF M
<1>3. \A p \in Paper : rows'[p] # <<>> =>
        \E n \in DOMAIN M :
          /\ M[n] = p /\ \A i \in 1..(n - 1) : M[i] \in done'
          /\ Len(RowsInOrder(SubSeq(M, 1, n - 1), rows', MaxPerPaper)) < Target
  BY <1>2
<1>4. M' = M
  BY <1>1 DEF M
<1> QED
  BY <1>1, <1>3, <1>4 DEF InTime, M

\* What is passed, and the paper in hand after it, is where an uninterrupted run has it.
LEMMA InFront ==
  ASSUME NEW M, NEW s \in Seq(Paper), NEW p \in Paper, NEW rest \in Seq(Paper), M = Append(s, p) \o rest
  PROVE  /\ Len(s) + 1 \in DOMAIN M /\ M[Len(s) + 1] = p /\ SubSeq(M, 1, Len(s)) = s
         /\ \A i \in 1..Len(s) : M[i] \in ToSet(s)
         /\ (Len(s) + 1) - 1 = Len(s)
<1> DEFINE L == Len(s)
           a == Append(s, p)
<1>1. /\ a \in Seq(Paper) /\ Len(a) = L + 1 /\ L \in Nat /\ a[L + 1] = p
      /\ \A i \in 1..L : a[i] = s[i]
  BY AppendProperties
<1>2. /\ M \in Seq(Paper) /\ Len(M) = Len(a) + Len(rest) /\ Len(rest) \in Nat
      /\ \A i \in 1..Len(a) : M[i] = a[i]
  <2> HIDE DEF a
  <2> QED
    BY <1>1, ConcatProperties DEF a
<1>3. DOMAIN s = 1..L /\ \A i \in 1..L : s[i] \in ToSet(s)
  BY LenProperties DEF ToSet
<1> HIDE DEF L, a
<1>4. L + 1 \in 1..Len(M) /\ \A i \in 1..L : i \in 1..Len(a) /\ i \in 1..Len(M) /\ M[i] = s[i]
  BY <1>1, <1>2
<1>5. M[L + 1] = p /\ DOMAIN M = 1..Len(M)
  <2>1. L + 1 \in 1..Len(a)
    BY <1>1
  <2> QED
    BY <1>1, <1>2, <2>1, LenProperties
<1>6. SubSeq(M, 1, L) = s
  <2>1. L <= Len(M) /\ L \in Nat
    BY <1>1, <1>4
  <2>2. \A i \in 1..L : M[i] \in Paper
    BY <1>2, <1>4, ElementOfSeq
  <2>3. /\ SubSeq(M, 1, L) \in Seq(Paper) /\ Len(SubSeq(M, 1, L)) = (IF 1 <= L THEN L - 1 + 1 ELSE 0)
        /\ \A i \in 1..(L - 1 + 1) : SubSeq(M, 1, L)[i] = M[1 + i - 1]
    BY <1>1, <1>2, <2>1, <2>2, SubSeqProperties
  <2>4. Len(SubSeq(M, 1, L)) = L
    BY <1>1, <2>3
  <2>5. \A i \in 1..L : SubSeq(M, 1, L)[i] = s[i]
    <3>1. \A i \in 1..L : i \in 1..(L - 1 + 1) /\ 1 + i - 1 = i
      BY <1>1
    <3> QED
      BY <1>4, <2>3, <3>1
  <2>6. Len(s) = L
    BY DEF L
  <2> QED
    BY <2>3, <2>4, <2>5, <2>6, SeqEqual
<1> QED
  BY <1>1, <1>3, <1>4, <1>5, <1>6 DEF L

\* CommitRows: the paper in hand is in time.
LEMMA TimeCommits ==
  ASSUME Retracing, Kinds, InTime, m.skipped = {}, CommitRows, twice' = {}
  PROVE  InTime'
<1> DEFINE p == m.paper
           M == Mined({})
           s == Passed
<1>1. /\ pc = "commit" /\ rows' = [rows EXCEPT ![p] = @ \o m.got] /\ UNCHANGED <<job, done>>
      /\ (rows[p] # <<>> => twice' = twice \cup {p})
  BY DEF CommitRows
<1>2. OnItsWay /\ InPaper /\ pc \in OnPaper
  BY <1>1 DEF OnItsWay, Walking, InChunk, OnPaper, InPaper
<1>3. /\ Tally /\ OnFile /\ ~m.full /\ p \in Paper /\ p \notin done
  BY <1>1, <1>2, AtPaper DEF Tally
<1>4. OnItsPath
  BY <1>2, Along
<1>5. Covered = Append(s, p) /\ s \in Seq(Paper)
  BY <1>2, <1>4, CoveredIs DEF OnItsPath
<1>6. PICK rest \in Seq(Paper) : M = Append(s, p) \o rest
  BY <1>4, <1>5, CoveredBegins
<1>7. ToSet(s) \subseteq done /\ rows \in [Paper -> Seq(Thm)] /\ done \subseteq Paper
  BY <1>3 DEF Tally, OnFile
<1>8. Len(RowsInOrder(s, rows, MaxPerPaper)) < Target
  BY <1>3, <1>5, CandsAre
<1>9. M' = M
  BY <1>1 DEF Mined, adapter
<1>10. \A q \in Paper : rows[q] # <<>> =>
        \E n \in DOMAIN M :
          /\ M[n] = q /\ \A i \in 1..(n - 1) : M[i] \in done
          /\ Len(RowsInOrder(SubSeq(M, 1, n - 1), rows, MaxPerPaper)) < Target
  BY DEF InTime
<1>11. \A q \in Paper : q # p => rows'[q] = rows[q]
  BY <1>1, <1>7
<1>20. M \in Seq(Paper)
  <2>1. Append(s, p) \in Seq(Paper)
    BY <1>3, <1>5, AppendProperties
  <2> QED
    BY <1>6, <2>1, ConcatProperties, ZenonT(40)
<1> HIDE DEF M, s, p
<1>12. ASSUME NEW n \in DOMAIN M, \A i \in 1..(n - 1) : M[i] \in done
       PROVE  RowsInOrder(SubSeq(M, 1, n - 1), rows', MaxPerPaper)
                = RowsInOrder(SubSeq(M, 1, n - 1), rows, MaxPerPaper)
  <2> DEFINE u == SubSeq(M, 1, n - 1)
  <2>1. n \in 1..Len(M) /\ Len(M) \in Nat
    BY <1>12, <1>20, LenProperties
  <2>2. \A i \in 1..(n - 1) : i \in 1..Len(M) /\ M[i] \in Paper
    BY <1>20, <2>1, ElementOfSeq
  <2>3. /\ u \in Seq(Paper) /\ Len(u) = (IF 1 <= n - 1 THEN (n - 1) - 1 + 1 ELSE 0)
        /\ \A i \in 1..((n - 1) - 1 + 1) : u[i] = M[1 + i - 1]
    BY <1>20, <2>1, <2>2, SubSeqProperties
  <2>4. DOMAIN u = 1..(n - 1) /\ \A i \in 1..(n - 1) : u[i] = M[i]
    <3>1. Len(u) = n - 1 /\ \A i \in 1..(n - 1) : i \in 1..((n - 1) - 1 + 1) /\ 1 + i - 1 = i
      BY <2>1, <2>3
    <3> QED
      BY <2>3, <3>1, LenProperties
  <2> HIDE DEF u
  <2>5. \A q \in ToSet(u) : q \in done
    BY <1>12, <2>4 DEF ToSet
  <2>6. \A q \in ToSet(u) : rows'[q] = rows[q]
    BY <1>3, <1>7, <1>11, <2>5
  <2>7. RowsInOrder(u, rows', MaxPerPaper) = RowsInOrder(u, rows, MaxPerPaper)
    BY <2>3, <2>6, RowsSame
  <2> QED
    BY <2>7 DEF u
<1>13. \A q \in Paper : rows'[q] # <<>> =>
        \E n \in DOMAIN M :
          /\ M[n] = q /\ \A i \in 1..(n - 1) : M[i] \in done
          /\ Len(RowsInOrder(SubSeq(M, 1, n - 1), rows', MaxPerPaper)) < Target
  <2> SUFFICES ASSUME NEW q \in Paper, rows'[q] # <<>>
               PROVE  \E n \in DOMAIN M :
                        /\ M[n] = q /\ \A i \in 1..(n - 1) : M[i] \in done
                        /\ Len(RowsInOrder(SubSeq(M, 1, n - 1), rows', MaxPerPaper)) < Target
    OBVIOUS
  <2>1. CASE q # p
    <3>1. rows[q] # <<>>
      BY <1>11, <2>1
    <3>2. PICK n \in DOMAIN M :
            /\ M[n] = q /\ \A i \in 1..(n - 1) : M[i] \in done
            /\ Len(RowsInOrder(SubSeq(M, 1, n - 1), rows, MaxPerPaper)) < Target
      BY <1>10, <3>1
    <3>3. RowsInOrder(SubSeq(M, 1, n - 1), rows', MaxPerPaper)
            = RowsInOrder(SubSeq(M, 1, n - 1), rows, MaxPerPaper)
      BY <1>12, <3>2
    <3> QED
      BY <3>2, <3>3
  <2>2. CASE q = p
    <3> DEFINE n == Len(s) + 1
    <3>1. /\ n \in DOMAIN M /\ M[n] = p /\ SubSeq(M, 1, Len(s)) = s
          /\ \A i \in 1..Len(s) : M[i] \in ToSet(s)
          /\ n - 1 = Len(s)
      <4>1. s \in Seq(Paper) /\ p \in Paper /\ rest \in Seq(Paper) /\ M = Append(s, p) \o rest
        BY <1>3, <1>5, <1>6 DEF p, s, M
      <4>2. Len(s) + 1 \in DOMAIN M /\ M[Len(s) + 1] = p
        BY <4>1, InFront
      <4>3. SubSeq(M, 1, Len(s)) = s /\ \A i \in 1..Len(s) : M[i] \in ToSet(s)
        BY <4>1, InFront
      <4>4. (Len(s) + 1) - 1 = Len(s)
        BY <4>1, InFront
      <4> QED
        BY <4>2, <4>3, <4>4
    <3> HIDE DEF n
    <3>2. \A i \in 1..(n - 1) : M[i] \in done
      BY <1>7, <3>1
    <3>3. RowsInOrder(SubSeq(M, 1, n - 1), rows', MaxPerPaper) = RowsInOrder(s, rows, MaxPerPaper)
      BY <1>12, <3>1, <3>2
    <3> QED
      BY <1>8, <2>2, <3>1, <3>2, <3>3
  <2> QED
    BY <2>1, <2>2
<1> QED
  BY <1>1, <1>9, <1>13, ZenonT(40) DEF InTime, M

\* The first part of a concatenation.
LEMMA FirstPart ==
  ASSUME NEW T, NEW s \in Seq(T), NEW n \in 0..Len(s)
  PROVE  SubSeq(s, 1, n) \in Seq(T) /\ Len(SubSeq(s, 1, n)) = n
         /\ \A i \in 1..n : SubSeq(s, 1, n)[i] = s[i]
<1>1. Len(s) \in Nat
  BY LenProperties
<1>2. n \in Nat /\ \A i \in 1..n : i \in 1..Len(s)
  BY <1>1
<1>3. \A i \in 1..n : s[i] \in T
  BY <1>2, ElementOfSeq
<1>4. /\ SubSeq(s, 1, n) \in Seq(T) /\ Len(SubSeq(s, 1, n)) = (IF 1 <= n THEN n - 1 + 1 ELSE 0)
      /\ \A i \in 1..(n - 1 + 1) : SubSeq(s, 1, n)[i] = s[1 + i - 1]
  BY <1>2, <1>3, SubSeqProperties
<1>5. Len(SubSeq(s, 1, n)) = n /\ \A i \in 1..n : i \in 1..(n - 1 + 1) /\ 1 + i - 1 = i
  BY <1>2, <1>4
<1> QED
  BY <1>4, <1>5

\* A first part of a concatenation that reaches into its second half.
LEMMA PartOfConcat ==
  ASSUME NEW T, NEW s \in Seq(T), NEW t \in Seq(T), NEW n \in Nat, n - Len(s) \in 0..Len(t)
  PROVE  SubSeq(s \o t, 1, n) = s \o SubSeq(t, 1, n - Len(s))
<1> DEFINE w == s \o t
           k == n - Len(s)
           v == SubSeq(t, 1, k)
           a == SubSeq(w, 1, n)
           b == s \o v
           L == Len(s)
<1>1. /\ w \in Seq(T) /\ Len(w) = L + Len(t) /\ L \in Nat /\ Len(t) \in Nat
      /\ \A i \in 1..Len(w) : w[i] = IF i <= L THEN s[i] ELSE t[i - L]
  BY ConcatProperties
<1>2. k \in 0..Len(t) /\ n \in 0..Len(w) /\ n = L + k
  BY <1>1
<1>3. v \in Seq(T) /\ Len(v) = k /\ \A i \in 1..k : v[i] = t[i]
  <2> HIDE DEF k
  <2> QED
    BY <1>2, FirstPart
<1>4. a \in Seq(T) /\ Len(a) = n /\ \A i \in 1..n : a[i] = w[i]
  <2> HIDE DEF w
  <2> QED
    BY <1>1, <1>2, FirstPart
<1>5. /\ b \in Seq(T) /\ Len(b) = L + Len(v)
      /\ \A i \in 1..Len(b) : b[i] = IF i <= L THEN s[i] ELSE v[i - L]
  <2> HIDE DEF v
  <2> QED
    BY <1>3, ConcatProperties
<1> HIDE DEF w, k, v, a, b, L
<1>6. Len(b) = n /\ \A i \in 1..n : i \in 1..Len(w) /\ (~(i <= L) => i - L \in 1..k)
  BY <1>1, <1>2, <1>3, <1>5
<1>7. \A i \in 1..n : a[i] = b[i]
  BY <1>1, <1>3, <1>4, <1>5, <1>6
<1>8. a = b
  BY <1>4, <1>5, <1>6, <1>7, SeqEqual
<1> QED
  BY <1>8 DEF a, b, w, v, k, L

\* When the loop is over every paper with rows is passed.
LEMMA AllPassed ==
  ASSUME Retracing, Kinds, OnItsWay, ~InPaper, AtEnd \/ Len(m.cands) >= Target,
         InTime, m.skipped = {}
  PROVE  \A p \in Paper : ToSet(rows[p]) \subseteq ToSet(m.cands) \cup ToSet(m.surplus)
<1> DEFINE s == Passed
           M == Mined({})
           R(t) == RowsInOrder(t, rows, MaxPerPaper)
<1>1. OnItsPath
  BY Along
<1>2. Covered = s /\ s \in Seq(Paper)
  BY <1>1, CoveredIs DEF OnItsPath
<1>3. PICK rest \in Seq(Paper) : M = s \o rest /\ (AtEnd => rest = <<>>)
  BY <1>1, <1>2, CoveredBegins
<1>4. OnFile /\ Tally /\ rows \in [Paper -> Seq(Thm)]
  BY Facts DEF OnFile
<1>5. rest = <<>> \/ Len(R(s)) >= Target
  <2>1. CASE AtEnd
    BY <1>3, <2>1
  <2>2. CASE Len(m.cands) >= Target
    <3>1. R(s) \in Seq(Thm) /\ Target \in Nat
      BY <1>2, <1>4, RowsType, CapsHold DEF Caps
    <3>2. m.cands = FirstOf(R(s), Target)
      BY <1>4 DEF Tally
    <3> DEFINE r == R(s)
    <3> HIDE DEF R, r
    <3>3. Len(r) \in Nat /\ Len(FirstOf(r, Target)) = IF Len(r) < Target THEN Len(r) ELSE Target
      BY <3>1, FirstOfIs DEF r
    <3>4. Len(r) >= Target
      BY <2>2, <3>1, <3>2, <3>3 DEF r
    <3> QED
      BY <3>4 DEF r
  <2> QED
    BY <2>1, <2>2
<1>6. ASSUME NEW p \in Paper, rows[p] # <<>> PROVE p \in ToSet(s)
  <2>1. PICK n \in DOMAIN M :
          M[n] = p /\ Len(R(SubSeq(M, 1, n - 1))) < Target
    BY <1>6 DEF InTime
  <2>2. /\ M \in Seq(Paper) /\ Len(M) = Len(s) + Len(rest) /\ Len(s) \in Nat /\ Len(rest) \in Nat
        /\ \A i \in 1..Len(s) : M[i] = s[i]
    <3> HIDE DEF M, s
    <3> QED
      BY <1>2, <1>3, ConcatProperties
  <2>3. n \in 1..Len(M)
    BY <2>2, LenProperties
  <2>4. n <= Len(s)
    <3> SUFFICES ASSUME n > Len(s) PROVE FALSE
      BY <2>2, <2>3
    <3>1. rest # <<>> /\ Len(R(s)) >= Target
      <4>1. Len(rest) # 0
        BY <2>2, <2>3
      <4> QED
        BY <1>5, <4>1
    <3> DEFINE u == SubSeq(M, 1, n - 1)
               v == SubSeq(rest, 1, (n - 1) - Len(s))
    <3>2. u = s \o v /\ v \in Seq(Paper)
      <4> HIDE DEF M, s
      <4>1. (n - 1) - Len(s) \in 0..Len(rest)
        BY <2>2, <2>3
      <4>2. v \in Seq(Paper)
        BY <1>3, <4>1, FirstPart
      <4> DEFINE k == n - 1
      <4>4. k \in Nat /\ k - Len(s) \in 0..Len(rest)
        BY <2>2, <2>3, <4>1
      <4> HIDE DEF k
      <4>5. SubSeq(s \o rest, 1, k) = s \o SubSeq(rest, 1, k - Len(s))
        BY <1>2, <1>3, <4>4, PartOfConcat DEF s
      <4>3. u = s \o v
        BY <1>3, <4>5 DEF k
      <4> QED
        BY <4>2, <4>3
    <3> HIDE DEF v
    <3>3. R(u) = R(s) \o R(v) /\ R(s) \in Seq(Thm) /\ R(v) \in Seq(Thm)
      <4>1. R(s \o v) = R(s) \o R(v)
        BY <1>2, <1>4, <3>2, RowsConcat
      <4> QED
        BY <1>2, <1>4, <3>2, <4>1, RowsType
    <3> DEFINE a == R(s)
               b == R(v)
               c == R(u)
    <3>4. c = a \o b /\ a \in Seq(Thm) /\ b \in Seq(Thm) /\ Len(a) >= Target /\ Len(c) < Target
          /\ Target \in Nat
      BY <2>1, <3>1, <3>3, CapsHold DEF Caps
    <3> HIDE DEF a, b, c
    <3>5. Len(c) = Len(a) + Len(b) /\ Len(a) \in Nat /\ Len(b) \in Nat
      BY <3>4, ConcatProperties
    <3> QED
      BY <3>4, <3>5
  <2>5. n \in 1..Len(s)
    BY <2>2, <2>3, <2>4
  <2>6. M[n] = s[n] /\ DOMAIN s = 1..Len(s)
    BY <1>2, <2>2, <2>5, LenProperties
  <2> QED
    BY <2>1, <2>5, <2>6 DEF ToSet
<1>7. \A p \in ToSet(s) : ToSet(rows[p]) \subseteq ToSet(m.cands) \cup ToSet(m.surplus)
  BY <1>4 DEF Tally
<1>8. \A p \in Paper : rows[p] = <<>> => ToSet(rows[p]) = {}
  BY DEF ToSet
<1> QED
  BY <1>6, <1>7, <1>8

\* A loop that ends without being broken off ends at the target or with its path behind it.
LEMMA LoopEnds ==
  ASSUME Retracing, Kinds, PagesReach, Query \/ ApiPaper \/ NextChunk \/ Release,
         pc' = "write", ~m'.over
  PROVE  /\ OnItsWay /\ ~InPaper /\ (AtEnd \/ Len(m.cands) >= Target)
         /\ m'.cands = m.cands /\ m'.surplus = m.surplus /\ m'.skipped = m.skipped
<1>1. /\ pc \in {"query", "page", "chunk", "release"} /\ OnItsWay /\ ~InPaper
      /\ pc \in {"query", "page"} \/ adapter = "bulk"
      /\ pc = "query" => adapter = "api"
  BY DEF Query, ApiPaper, NextChunk, Release, OnItsWay, Walking, InChunk, InPaper, OnPaper,
         Retracing, Kinds
<1>2. Held /\ Tally /\ DOMAIN m = DOMAIN NoRun
  BY <1>1, Facts DEF Held
<1>3. ~Exhausted
  BY <1>2 DEF Exhausted, NoRun
<1>4. adapter = "api" => ApiWalk
  BY <1>1, Facts
<1>5. adapter = "bulk" => OnPath
  BY <1>1, Facts DEF BulkWalk
<1>6. CASE Query
  <2> DEFINE r == Charged("queries")
  <2>1. pc = "query" /\ adapter = "api" /\ ApiWalk
    BY <1>1, <1>4, <1>6 DEF Query
  <2>2. CASE (Len(m.cands) >= Target \/ m.queries >= MaxPages) /\ UNCHANGED m
    <3>1. CASE Len(m.cands) >= Target
      BY <1>1, <2>2, <3>1
    <3>2. CASE m.queries >= MaxPages /\ ~(Len(m.cands) >= Target)
      <4>1. m.page = <<>>
        BY <2>1, <3>2 DEF ApiWalk
      <4>2. AtEnd
        BY <1>2, <2>1, <3>2, <4>1, PagesEnd
      <4> QED
        BY <1>1, <2>2, <4>2
    <3> QED
      BY <2>2, <3>1, <3>2
  <2>3. ASSUME NEW q, m' = Turned(q, m.size), DOMAIN q = DOMAIN NoRun,
               \A f \in Rest : q[f] = r[f], Len(m.cands) < Target, m.start >= Len(Listing)
        PROVE  /\ AtEnd
               /\ m'.cands = m.cands /\ m'.surplus = m.surplus /\ m'.skipped = m.skipped
    <3>1. ~(Len(m.cands) >= Target)
      <4>1. Len(m.cands) \in Nat /\ Target \in Nat
        BY <1>2, CapsHold DEF Held, Caps
      <4> QED
        BY <2>3, <4>1
    <3>2. m.page = <<>>
      BY <2>1, <3>1 DEF ApiWalk
    <3>3. Limit = Len(Listing) /\ Len(Listing) \in Nat
      BY <1>2, <2>1, <2>3, ApiPlace
    <3>4. Reached >= Len(Listing)
      BY <3>2, <3>3 DEF Reached
    <3>5. r.cands = m.cands /\ r.surplus = m.surplus /\ r.skipped = m.skipped
      BY <1>2 DEF Charged, NoRun
    <3>6. {"cands", "surplus", "skipped"} \subseteq Rest
      BY DEF Rest, NoRun
    <3> HIDE DEF r
    <3>7. q.cands = m.cands /\ q.surplus = m.surplus /\ q.skipped = m.skipped
      BY <2>3, <3>5, <3>6
    <3>8. m'.cands = q.cands /\ m'.surplus = q.surplus /\ m'.skipped = q.skipped
      BY <2>3 DEF Turned, NoRun
    <3> QED
      BY <2>1, <3>4, <3>7, <3>8 DEF AtEnd
  <2>4. CASE /\ Len(m.cands) < Target /\ m.start >= Len(Listing)
             /\ m' = Turned(Clean(r), m.size) \/ m' = Turned(Clean(Throttled(r)), m.size)
    <3>1. DOMAIN r = DOMAIN NoRun /\ r.size = m.size
      BY <1>2 DEF Charged, NoRun
    <3>2. m.size \in Nat /\ m.size >= PageFloor
      BY <2>1 DEF ApiWalk
    <3> HIDE DEF r
    <3>3. DOMAIN Clean(r) = DOMAIN NoRun /\ \A f \in Rest : Clean(r)[f] = r[f]
      BY <3>1, <3>2, CleanIs
    <3> DEFINE t == Throttled(r)
    <3>4. DOMAIN t = DOMAIN NoRun /\ t.size = m.size /\ \A f \in Rest : t[f] = r[f]
      BY <3>1, ThrottledIs
    <3> HIDE DEF t
    <3>5. DOMAIN Clean(t) = DOMAIN NoRun /\ \A f \in Rest : Clean(t)[f] = t[f]
      BY <3>2, <3>4, CleanIs
    <3>6. CASE m' = Turned(Clean(r), m.size)
      BY <1>1, <2>3, <2>4, <3>3, <3>6
    <3>7. CASE m' = Turned(Clean(t), m.size)
      BY <1>1, <2>3, <2>4, <3>4, <3>5, <3>7
    <3> QED
      BY <2>4, <3>6, <3>7 DEF t
  <2> QED
    BY <1>3, <1>6, <2>2, <2>4 DEF Query
<1>7. CASE ApiPaper
  <2>1. m.taken >= MaxPapers /\ UNCHANGED m /\ adapter = "api"
    BY <1>7 DEF ApiPaper
  <2> QED
    BY <1>1, <2>1 DEF AtEnd
<1>8. CASE NextChunk
  <2>1. pc = "chunk" /\ adapter = "bulk"
    BY <1>1, <1>8 DEF NextChunk
  <2>2. (Len(m.cands) >= Target \/ m.todo = <<>>) /\ UNCHANGED m
    BY <1>3, <1>8 DEF NextChunk, Open
  <2>3. ~AtChunkPage
    BY <2>1 DEF AtChunkPage, InChunk, OnPaper
  <2>4. AtEnd \/ Len(m.cands) >= Target
    BY <1>5, <2>1, <2>2, <2>3, NextOnPath DEF AtEnd
  <2> QED
    BY <1>1, <2>2, <2>4
<1>9. CASE Release
  <2>1. m.full /\ m' = [m EXCEPT !.todo = Tail(@)]
    BY <1>9 DEF Release
  <2>2. m'.cands = m.cands /\ m'.surplus = m.surplus /\ m'.skipped = m.skipped
    BY <1>2, <2>1 DEF NoRun
  <2> QED
    BY <1>1, <1>2, <2>1, <2>2 DEF Tally
<1> QED
  BY <1>6, <1>7, <1>8, <1>9

\* Chunks are skipped only when a checksum fails.
LEMMA SkippedStays ==
  ASSUME Retracing, Kinds, Next, pc # "idle" => m.skipped = {}, corrupt' = {}, pc' # "idle"
  PROVE  m'.skipped = {}
<1>1. pc # "idle" => DOMAIN m = DOMAIN NoRun /\ m.skipped = {}
  BY DEF Retracing, Working, Held
<1>2. CASE Start
  BY <1>2 DEF Start, NoRun
<1>3. CASE Elapse \/ Replay \/ Kill \/ Finish
  BY <1>3 DEF Elapse, Replay, Kill, Dies, Finish, Kinds
<1>4. CASE Query
  <2> DEFINE r == Charged("queries")
  <2>0. pc = "query"
    BY <1>4 DEF Query
  <2>1. DOMAIN r = DOMAIN NoRun /\ r.skipped = {} /\ r.size = m.size
    BY <1>1, <2>0 DEF Charged, NoRun
  <2>2. \/ UNCHANGED m \/ m' = [m EXCEPT !.over = TRUE]
        \/ m' = Turned(Clean(r), m.size) \/ m' = Turned(Clean(Throttled(r)), m.size)
    BY <1>4 DEF Query, Exhausted
  <2>3. \A q : DOMAIN q = DOMAIN NoRun => DOMAIN Clean(q) = DOMAIN NoRun /\ Clean(q).skipped = q.skipped
    BY DEF Clean, NoRun
  <2>4. DOMAIN Throttled(r) = DOMAIN NoRun /\ Throttled(r).skipped = r.skipped
    BY <2>1 DEF Throttled, NoRun
  <2>5. \A q, size : DOMAIN q = DOMAIN NoRun => Turned(q, size).skipped = q.skipped
    BY DEF Turned, NoRun
  <2>6. [m EXCEPT !.over = TRUE].skipped = {}
    BY <1>1, <2>0 DEF NoRun
  <2> HIDE DEF r
  <2>7. DOMAIN Clean(r) = DOMAIN NoRun /\ Clean(r).skipped = {}
    BY <2>1, <2>3
  <2>8. DOMAIN Clean(Throttled(r)) = DOMAIN NoRun /\ Clean(Throttled(r)).skipped = {}
    BY <2>1, <2>3, <2>4
  <2>9. Turned(Clean(r), m.size).skipped = {} /\ Turned(Clean(Throttled(r)), m.size).skipped = {}
    BY <2>5, <2>7, <2>8
  <2> QED
    BY <1>1, <2>0, <2>2, <2>6, <2>9
<1>5. CASE ApiPaper \/ BulkPaper \/ BulkFetch
  BY <1>1, <1>5 DEF ApiPaper, BulkPaper, BulkFetch, Taken, NoRun
<1>6. CASE ApiFetch
  <2> DEFINE r == Charged("latex_fetches")
  <2>0. pc = "fetch"
    BY <1>6 DEF ApiFetch
  <2>1. DOMAIN r = DOMAIN NoRun /\ r.skipped = {}
    BY <1>1, <2>0 DEF Charged, NoRun
  <2>2. \/ m' = [m EXCEPT !.over = TRUE]
        \/ m' = [Clean(r) EXCEPT !.left = Theorems[m.paper]]
        \/ m' = [Clean(Throttled(r)) EXCEPT !.left = Theorems[m.paper]]
        \/ m' = [Throttled(r) EXCEPT !.left = <<>>]
    BY <1>6 DEF ApiFetch, Exhausted
  <2>3. \A q : DOMAIN q = DOMAIN NoRun => DOMAIN Clean(q) = DOMAIN NoRun /\ Clean(q).skipped = q.skipped
    BY DEF Clean, NoRun
  <2>4. DOMAIN Throttled(r) = DOMAIN NoRun /\ Throttled(r).skipped = r.skipped
    BY <2>1 DEF Throttled, NoRun
  <2>5. \A q, x : DOMAIN q = DOMAIN NoRun => [q EXCEPT !.left = x].skipped = q.skipped
    BY DEF NoRun
  <2>6. [m EXCEPT !.over = TRUE].skipped = {}
    BY <1>1, <2>0 DEF NoRun
  <2> HIDE DEF r
  <2>7. DOMAIN Clean(r) = DOMAIN NoRun /\ Clean(r).skipped = {}
    BY <2>1, <2>3
  <2>8. DOMAIN Clean(Throttled(r)) = DOMAIN NoRun /\ Clean(Throttled(r)).skipped = {}
    BY <2>1, <2>3, <2>4
  <2>9. /\ [Clean(r) EXCEPT !.left = Theorems[m.paper]].skipped = {}
        /\ [Clean(Throttled(r)) EXCEPT !.left = Theorems[m.paper]].skipped = {}
        /\ [Throttled(r) EXCEPT !.left = <<>>].skipped = {}
    BY <2>1, <2>4, <2>5, <2>7, <2>8
  <2> QED
    BY <2>2, <2>6, <2>9
<1>7. CASE Index
  BY <1>1, <1>7 DEF Index, OaiRequest, Exhausted, Charged, NoRun
<1>8. CASE NextChunk
  BY <1>1, <1>8 DEF NextChunk, Open, Exhausted, NoRun
<1>9. CASE Download
  BY <1>1, <1>9 DEF Download, Charged, NoRun
<1>10. CASE Ask \/ Remember
  BY <1>1, <1>10 DEF Ask, Remember, Consumed, Exhausted, Charged, NoRun
<1>11. CASE CommitRows \/ CommitPaper \/ Keep \/ Mark \/ Release
  BY <1>1, <1>11 DEF CommitRows, CommitPaper, Keep, Mark, Release, NoRun
<1>12. CASE WriteHandoff \/ WriteSurplus \/ Pause
  BY <1>1, <1>12 DEF WriteHandoff, WriteSurplus, Pause, NoRun
<1> QED
  BY <1>2, <1>3, <1>4, <1>5, <1>6, <1>7, <1>8, <1>9, <1>10, <1>11, <1>12 DEF Next, Run

\* What a step leaves of the rows.
LEMMA RowsStay ==
  ASSUME Next
  PROVE  /\ job' = job /\ done \subseteq done'
         /\ ~CommitRows => UNCHANGED rows
         /\ CommitRows => pc = "commit" /\ pc' = "settle"
<1> USE DEF files, history
<1>1. CASE Start \/ Elapse \/ Replay \/ Query \/ ApiPaper \/ ApiFetch \/ Index
  BY <1>1 DEF Start, Elapse, Replay, Query, ApiPaper, ApiFetch, Index, CommitRows
<1>2. CASE NextChunk \/ Download \/ BulkPaper \/ BulkFetch \/ Ask \/ Remember
  BY <1>2 DEF NextChunk, Download, BulkPaper, BulkFetch, Ask, Remember, CommitRows
<1>3. CASE CommitRows
  BY <1>3 DEF CommitRows
<1>4. CASE CommitPaper \/ Keep \/ Mark \/ Release
  BY <1>4 DEF CommitPaper, Keep, Mark, Release, CommitRows
<1>5. CASE WriteHandoff \/ WriteSurplus \/ Finish \/ Pause \/ Kill
  BY <1>5 DEF WriteHandoff, WriteSurplus, Finish, Pause, Kill, CommitRows
<1> QED
  BY <1>1, <1>2, <1>3, <1>4, <1>5 DEF Next, Run

\* Where the handoff is about to be written, or the run is over.
LEMMA Arrives ==
  ASSUME Next, Kinds, pc' \in {"idle", "write", "surplus", "finish"}
  PROVE  /\ pc' = "write" => \/ Query \/ ApiPaper \/ NextChunk \/ Release
                             \/ pc # "idle" /\ m' = [m EXCEPT !.over = TRUE]
         /\ pc' = "surplus" => WriteHandoff
         /\ pc' = "finish" => WriteSurplus
         /\ pc' = "idle" => Elapse \/ (pc # "idle" /\ (Finish \/ UNCHANGED <<marker, out>>))
<1> USE DEF files, history
<1>1. CASE Start \/ Elapse \/ Replay
  BY <1>1 DEF Start, Elapse, Replay, Kinds
<1>2. CASE Query \/ ApiPaper \/ NextChunk \/ Release
  BY <1>2 DEF Query, ApiPaper, NextChunk, Open, Release, Exhausted
<1>3. CASE ApiFetch \/ Index \/ Download
  BY <1>3 DEF ApiFetch, Index, OaiRequest, Download, Exhausted
<1>4. CASE BulkPaper \/ BulkFetch \/ Ask \/ Remember
  BY <1>4 DEF BulkPaper, BulkFetch, Ask, Remember, Exhausted
<1>5. CASE CommitRows \/ CommitPaper \/ Keep \/ Mark
  BY <1>5 DEF CommitRows, CommitPaper, Keep, Mark
<1>6. CASE WriteHandoff \/ WriteSurplus \/ Finish \/ Pause \/ Kill
  BY <1>6 DEF WriteHandoff, WriteSurplus, Finish, Pause, Kill, Dies
<1> QED
  BY <1>1, <1>2, <1>3, <1>4, <1>5, <1>6 DEF Next, Run

\* More records account for no less.
LEMMA MoreAccount ==
  ASSUME NEW t, NEW A, NEW B, A \subseteq B, AccountedFor(t, A)
  PROVE  AccountedFor(t, B)
BY DEF AccountedFor

\* The candidates are in the handoff, the rest in the surplus file.
LEMMA AllKept ==
  ASSUME Retracing, Kinds, pc = "surplus", WriteSurplus, DOMAIN out = DOMAIN NoFile,
         out.handoff = Normalise(m.cands).records,
         \A p \in Paper : ToSet(rows[p]) \subseteq ToSet(m.cands) \cup ToSet(m.surplus)
  PROVE  KeptAll'
<1> DEFINE H == ToSet(out.handoff)
           S == ToSet(Normalise(m.surplus).records)
<1>1. m.cands \in Seq(Thm) /\ m.surplus \in Seq(Thm)
  BY DEF Retracing, Working, Held
<1>2. /\ out' = [out EXCEPT !.surplus = SurplusRecords(out.handoff, m.surplus)] /\ rows' = rows
  BY DEF WriteSurplus
<1>3. out'.handoff = out.handoff /\ out'.surplus = SurplusRecords(out.handoff, m.surplus)
  BY <1>2 DEF NoFile
<1>4. ToSet(out'.surplus) = S \ H
  BY <1>1, <1>3, SurplusIs
<1>5. ToSet(out'.handoff) \cup ToSet(out'.surplus) = H \cup S
  BY <1>3, <1>4
<1>6. \A t \in ToSet(m.cands) : AccountedFor(t, H)
  BY <1>1, NormaliseKeeps
<1>7. \A t \in ToSet(m.surplus) : AccountedFor(t, S)
  BY <1>1, NormaliseKeeps
<1> HIDE DEF H, S
<1>8. \A p \in Paper : \A t \in ToSet(rows[p]) : AccountedFor(t, H \cup S)
  <2> SUFFICES ASSUME NEW p \in Paper, NEW t \in ToSet(rows[p]) PROVE AccountedFor(t, H \cup S)
    OBVIOUS
  <2>1. t \in ToSet(m.cands) \/ t \in ToSet(m.surplus)
    OBVIOUS
  <2> QED
    BY <1>6, <1>7, <2>1, MoreAccount
<1>9. \A p \in Paper : \A t \in ToSet(rows'[p]) : AccountedFor(t, ToSet(out'.handoff) \cup ToSet(out'.surplus))
  BY <1>2, <1>5, <1>8
<1> QED
  BY <1>9 DEF KeptAll, AccountedFor

\* Every step of a run, by action.
LEMMA FloorStep ==
  ASSUME Retracing, Sweeping, Kinds, Next, twice' = {}, corrupt' = {}, PagesReach,
         DOMAIN out = DOMAIN NoFile
  PROVE  Sweeping'
<1>1. /\ InTime /\ (pc # "idle" => m.skipped = {} /\ marker /\ DOMAIN m = DOMAIN NoRun)
      /\ pc \in {"write", "surplus"} /\ ~m.over =>
           \A p \in Paper : ToSet(rows[p]) \subseteq ToSet(m.cands) \cup ToSet(m.surplus)
      /\ pc = "surplus" => out.handoff = Normalise(m.cands).records
      /\ (pc = "finish" /\ ~m.over) \/ Final => KeptAll
  BY DEF Sweeping, Retracing, Working, Held
<1>2. /\ job' = job /\ done \subseteq done' /\ (~CommitRows => UNCHANGED rows)
      /\ CommitRows => pc = "commit" /\ pc' = "settle"
  BY RowsStay
<1>3. InTime'
  <2>1. CASE CommitRows
    BY <1>1, <1>2, <2>1, TimeCommits
  <2>2. CASE ~CommitRows
    BY <1>1, <1>2, <2>2, TimeKept
  <2> QED
    BY <2>1, <2>2
<1>4. (pc # "idle" => m.skipped = {})'
  BY <1>1, SkippedStays
<1>5. (pc \in {"write", "surplus"} /\ ~m.over =>
           \A p \in Paper : ToSet(rows[p]) \subseteq ToSet(m.cands) \cup ToSet(m.surplus))'
  <2>1. CASE pc' = "surplus"
    <3>1. WriteHandoff
      BY <2>1, Arrives
    <3>2. pc = "write" /\ m' = m /\ rows' = rows
      BY <3>1 DEF WriteHandoff
    <3> QED
      BY <1>1, <3>2
  <2>2. CASE pc' = "write" /\ ~m'.over
    <3>1. ~(pc # "idle" /\ m' = [m EXCEPT !.over = TRUE])
      BY <1>1, <2>2 DEF NoRun
    <3>2. Query \/ ApiPaper \/ NextChunk \/ Release
      BY <2>2, <3>1, Arrives
    <3>3. /\ OnItsWay /\ ~InPaper /\ (AtEnd \/ Len(m.cands) >= Target)
          /\ m'.cands = m.cands /\ m'.surplus = m.surplus
      BY <2>2, <3>2, LoopEnds
    <3>4. m.skipped = {}
      BY <1>1, <3>3 DEF OnItsWay, Walking, InChunk, OnPaper
    <3>5. \A p \in Paper : ToSet(rows[p]) \subseteq ToSet(m.cands) \cup ToSet(m.surplus)
      BY <1>1, <3>3, <3>4, AllPassed
    <3>6. rows' = rows
      BY <1>2, <2>2
    <3> QED
      BY <3>3, <3>5, <3>6
  <2> QED
    BY <2>1, <2>2
<1>6. (pc = "surplus" => out.handoff = Normalise(m.cands).records)'
  <2> SUFFICES ASSUME pc' = "surplus" PROVE out'.handoff = Normalise(m'.cands).records
    OBVIOUS
  <2>1. WriteHandoff
    BY Arrives
  <2>2. /\ m' = m
        /\ out' = [out EXCEPT !.written = TRUE, !.handoff = Normalise(m.cands).records,
                              !.skipped = m.skipped]
    BY <2>1 DEF WriteHandoff
  <2> QED
    BY <2>2 DEF NoFile
<1>7. (pc = "finish" /\ ~m.over => KeptAll)'
  <2> SUFFICES ASSUME pc' = "finish", ~m'.over PROVE KeptAll'
    OBVIOUS
  <2>1. WriteSurplus
    BY Arrives
  <2>2. pc = "surplus" /\ m' = m
    BY <2>1 DEF WriteSurplus
  <2> QED
    BY <1>1, <2>1, <2>2, AllKept
<1>8. (Final => KeptAll)'
  <2> SUFFICES ASSUME Final' PROVE KeptAll'
    OBVIOUS
  <2>1. pc' = "idle" /\ ~marker' /\ out'.written
    BY DEF Final
  <2>2. rows' = rows
    BY <1>2, <2>1
  <2>3. KeptAll /\ out' = out => KeptAll'
    BY <2>2 DEF KeptAll
  <2>4. CASE Elapse
    <3>1. Final /\ out' = out
      BY <2>1, <2>4 DEF Elapse, Final
    <3> QED
      BY <1>1, <2>3, <3>1
  <2>5. CASE Finish
    <3>1. pc = "finish" /\ out' = out /\ marker' = IF Completed THEN FALSE ELSE marker
      BY <2>5 DEF Finish
    <3>2. ~m.over
      BY <1>1, <2>1, <3>1 DEF Completed
    <3> QED
      BY <1>1, <2>3, <3>1, <3>2
  <2>6. CASE pc # "idle" /\ UNCHANGED <<marker, out>>
    BY <1>1, <2>1, <2>6
  <2> QED
    BY <2>1, <2>4, <2>5, <2>6, Arrives
<1> QED
  BY <1>3, <1>4, <1>5, <1>6, <1>7, <1>8 DEF Sweeping

\* FloorInv holds at the start, and every step keeps it.
LEMMA FloorBegins == Init => FloorInv
<1> SUFFICES ASSUME Init PROVE FloorInv
  OBVIOUS
<1>1. pc = "idle" /\ rows = [p \in Paper |-> <<>>] /\ ~out.written
  BY DEF Init, NoFile
<1>2. InTime
  BY <1>1 DEF InTime
<1> QED
  BY <1>1, <1>2 DEF FloorInv, Sweeping, Final

LEMMA FloorNext ==
  ASSUME FloorInv, RetraceInv, GoneInv, [Next]_vars, PagesReach
  PROVE  FloorInv'
<1>1. /\ job' = job /\ (twice' = {} => twice = {}) /\ (corrupt' = {} /\ twice' = {} => corrupt = {})
      /\ adapter' = adapter /\ DOMAIN out = DOMAIN NoFile
  BY OutStays, HarmStays DEF adapter, RetraceInv, Unharmed
<1>2. CASE UNCHANGED vars
  <2>1. UNCHANGED <<job, pc, m, marker, rows, done, out, twice, corrupt>>
    BY <1>2 DEF vars, files, history
  <2>2. Sweeping => Sweeping'
    <3>1. InTime => InTime'
      BY <2>1, TimeKept
    <3>2. KeptAll => KeptAll'
      BY <2>1 DEF KeptAll
    <3> QED
      BY <2>1, <3>1, <3>2 DEF Sweeping, Final
  <2> QED
    BY <1>1, <2>1, <2>2 DEF FloorInv
<1>3. CASE Next
  <2>1. CASE adapter = "fixture"
    <3>1. ~CommitRows
      BY <2>1 DEF GoneInv, CommitRows
    <3> QED
      BY <1>1, <1>3, <2>1, <3>1, RowsStay DEF FloorInv
  <2>2. CASE adapter # "fixture"
    <3> SUFFICES ASSUME twice' = {}, corrupt' = {} PROVE Sweeping'
      BY <1>1, <2>2 DEF FloorInv
    <3>1. Sweeping /\ Retracing
      BY <1>1, <2>2 DEF FloorInv, RetraceInv
    <3>2. Kinds
      BY <2>2, JobsAssumption DEF GoneInv, Kinds, adapter, Adapters
    <3> QED
      BY <1>1, <1>3, <3>1, <3>2, FloorStep
  <2> QED
    BY <2>1, <2>2
<1> QED
  BY <1>2, <1>3

\* Theorem. Whatever was mined and paid for is in the handoff or the surplus of a
\* complete run, or normalise quarantines it or has its statement already, for
\* every listing and cap the pages reach: a paper has rows only when what
\* lies before it falls short of the target, so every later run passes it again.
THEOREM NothingOnTheFloor ==
  ASSUME PagesReach
  PROVE  Spec => []NeverOnTheFloor
<1>1. RetraceInv /\ IndInv /\ GoneInv /\ [Next]_vars => RetraceInv'
  BY RetraceNext
<1>2. IndInv /\ GoneInv /\ [Next]_vars => GoneInv'
  BY GoneNext
<1>3. FloorInv /\ RetraceInv /\ GoneInv /\ [Next]_vars => FloorInv'
  BY FloorNext
<1>4. FloorInv => NeverOnTheFloor
  <2> SUFFICES ASSUME FloorInv, Final, twice = {}, corrupt = {},
                      NEW p \in Paper, NEW t \in ToSet(rows[p])
               PROVE  AccountedFor(t, ToSet(out.handoff) \cup ToSet(out.surplus))
    BY DEF NeverOnTheFloor
  <2>1. CASE adapter = "fixture"
    <3>1. rows[p] = <<>>
      BY <2>1 DEF FloorInv
    <3> QED
      BY <3>1 DEF ToSet
  <2>2. CASE adapter # "fixture"
    BY <2>2 DEF FloorInv, Sweeping, KeptAll
  <2> QED
    BY <2>1, <2>2
<1> QED
  BY <1>1, <1>2, <1>3, <1>4, RetraceBegins, FloorBegins, GoneBegins, InvariantHolds, PTL DEF Spec
=============================================================================
