----------------------------- MODULE PassKProof -----------------------------
(***************************************************************************)
(* Proofs about PassK for every choice of its constants.  The argument is  *)
(* the checkpoint's: while a run is alive its indexes hold what the files  *)
(* say, so a record in work has no committed line, and a sample that was   *)
(* taken from the cache or paid for is the one later runs will read.       *)
(***************************************************************************)
EXTENDS PassK, FiniteSetTheorems, TLAPS

----------------------------------------------------------------------------
(* The inductive invariant. *)

Working  == {"sample", "calling", "commit"}
Emitting == {"emit", "rows", "manifest", "fields", "exit"}

\* The indexes hold every line that can be read, but for answers to a
\* statement two records have in common: they may overtake each other.
Loaded ==
    pc # "down" => \A r \in Record :
        /\ done[r] # None => memDone[r] = done[r]
        /\ Sole(r) => \A i \in Sample :
             cache[<<QuestionOf[r], i>>] # None =>
               memCache[<<QuestionOf[r], i>>] = cache[<<QuestionOf[r], i>>]

\* A record in work was not committed before; its samples are in the index,
\* its row is the tally of them.
FutureTold(r) ==
    /\ pc = "down" => work[r] = Queued
    /\ work[r].at \in Working => memDone[r] = None /\ r \notin PreLabeled
    /\ work[r].at \in {"sample", "calling"} /\ Sole(r) =>
         \A i \in 1..Len(work[r].got) :
           work[r].got[i] # "error" => memCache[<<QuestionOf[r], i - 1>>] = work[r].got[i]
    /\ work[r].at = "calling" /\ Sole(r) => memCache[KeyOf(r)] = None
    /\ work[r].at = "commit" => work[r].row \in Row /\ Told(r, work[r].row)
    /\ work[r].at = "done" =>
         work[r].row \in Row /\ (done[r] # None => done[r] = work[r].row)

DoneTold == \A r \in Record : done[r] # None => r \notin PreLabeled /\ Told(r, done[r])

\* The main thread writes when no record is in work.
Emits ==
    /\ pc \in Emitting =>
         /\ \A r \in Record : work[r].at \notin Working
         /\ rows = {<<r, work[r].row>> : r \in Busy("done")}
         /\ interrupted \/ (~marker /\ Busy("done") = Record)
    /\ pc \in {"manifest", "fields", "exit"} => out.whole /\ out.rows = rows
    /\ manifest = "done" => pc \in {"down", "exit"}

IndInv ==
    /\ TypeOK
    /\ Loaded
    /\ \A r \in Record : FutureTold(r)
    /\ DoneTold
    /\ Emits
    /\ ManifestTold

----------------------------------------------------------------------------
(* Lemmas about the tally. *)

Outcome == Answer \cup {"error"}

\* A count of a record's samples is a number no higher than theirs.
LEMMA TimesBound ==
    ASSUME NEW a, NEW got \in Seq(Outcome)
    PROVE  Times(a, got) \in 0..Len(got)
<1> DEFINE S == {i \in DOMAIN got : got[i] = a}
<1>1. IsFiniteSet(1..Len(got)) /\ Cardinality(1..Len(got)) = Len(got)
  <2>1. Len(got) \in Nat
    OBVIOUS
  <2> QED BY <2>1, FS_Interval
<1>2. S \in SUBSET (1..Len(got))
  OBVIOUS
<1>3. IsFiniteSet(S) /\ Cardinality(S) =< Len(got)
  BY <1>1, <1>2, FS_Subset
<1>4. Cardinality(S) \in Nat
  BY <1>3, FS_CardinalityType
<1> QED BY <1>3, <1>4 DEF Times

\* None of the samples is an error when their count is zero.
LEMMA NoError ==
    ASSUME NEW got \in Seq(Outcome), Times("error", got) = 0
    PROVE  \A i \in 1..Len(got) : got[i] \in Answer
<1> DEFINE S == {i \in DOMAIN got : got[i] = "error"}
<1>1. IsFiniteSet(1..Len(got)) /\ S \in SUBSET (1..Len(got))
  <2>1. Len(got) \in Nat
    OBVIOUS
  <2>2. IsFiniteSet(1..Len(got))
    BY <2>1, FS_Interval
  <2> QED BY <2>2
<1>2. S = {}
  BY <1>1, FS_Subset, FS_EmptySet DEF Times
<1> QED BY <1>2 DEF Outcome

\* The samples of a question a cache holds a given answer for.
Holds(c, q, a) == {i \in Sample : c[<<q, i>>] = a}

\* The tally of K samples counts the cached answers they are.
LEMMA TallyCounts ==
    ASSUME NEW got \in Seq(Outcome), Len(got) = K, NEW c, NEW q,
           \A i \in Sample : c[<<q, i>>] = got[i + 1]
    PROVE  Times("right", got) = Cardinality(Holds(c, q, "right"))
<1> DEFINE S == {i \in Sample : c[<<q, i>>] = "right"}
           T == {i \in DOMAIN got : got[i] = "right"}
           f == [i \in S |-> i + 1]
<1> USE PassKAssumption
<1>1. IsFiniteSet(S)
  <2>1. IsFiniteSet(Sample)
    BY FS_Interval DEF Sample
  <2> QED BY <2>1, FS_Subset
<1>2. f \in [S -> T]
  BY DEF Sample
<1>3. \A i, j \in S : f[i] = f[j] => i = j
  BY DEF Sample
<1>4. \A t \in T : \E i \in S : f[i] = t
  <2>1. SUFFICES ASSUME NEW t \in T PROVE t - 1 \in S /\ f[t - 1] = t
    BY <2>1
  <2>2. t \in 1..K /\ t - 1 \in Sample
    BY DEF Sample
  <2> QED BY <2>2
<1> HIDE DEF f, S, T
<1>5. f \in Bijection(S, T)
  <2>1. f \in Injection(S, T)
    BY <1>2, <1>3 DEF Injection, IsInjective
  <2>2. f \in Surjection(S, T)
    BY <1>2, <1>4 DEF Surjection
  <2> QED BY <2>1, <2>2 DEF Bijection
<1>6. Cardinality(T) = Cardinality(S)
  BY <1>1, <1>5, FS_Bijection DEF ExistsBijection
<1> QED BY <1>6 DEF Times, Holds, S, T

\* The tally of K samples is a finished record or one to be committed.
LEMMA TallyTyped ==
    ASSUME NEW got \in Seq(Outcome), Len(got) = K
    PROVE  /\ Tally(got) \in Future /\ Tally(got).row \in Row
           /\ Tally(got).at \in {"commit", "done"} /\ Tally(got).got = <<>>
<1>1. Times("right", got) \in 0..K /\ Times("error", got) \in 0..K
  BY TimesBound
<1> QED BY <1>1 DEF Tally, Future, Row, Outcome

\* A tally that is to be committed has no error in it.
LEMMA TallyCommits ==
    ASSUME NEW got, Tally(got).at = "commit"
    PROVE  /\ Times("error", got) = 0
           /\ Tally(got).row.failed = 0
           /\ Tally(got).row.score = Times("right", got)
BY DEF Tally, Commits

\* An answer can be told from nothing.
LEMMA Something ==
    /\ None \notin Answer /\ None \notin Row /\ Given \in Row /\ Dropped \in Row
    /\ "error" \notin Answer
BY NoneAssumption, PassKAssumption DEF Given, Dropped, Row, Answer

----------------------------------------------------------------------------
(* Lemmas about the records in work. *)

\* The pool does not grow when the records in work are some of those before.
LEMMA NoMoreActive ==
    ASSUME TypeOK, Active' \subseteq Active
    PROVE  Cardinality(Active') =< MaxConcurrent
<1>1. IsFiniteSet(Active)
  BY PassKAssumption, FS_Subset DEF Active, Busy
<1>2. IsFiniteSet(Active') /\ Cardinality(Active') =< Cardinality(Active)
  BY <1>1, FS_Subset
<1>3. Cardinality(Active) \in Nat /\ Cardinality(Active') \in Nat
  BY <1>1, <1>2, FS_CardinalityType
<1> QED BY <1>2, <1>3, PassKAssumption DEF TypeOK

\* A record is in work only while the pool is open.
LEMMA PoolOpen ==
    ASSUME IndInv, NEW r \in Record, work[r].at \in Working
    PROVE  pc \in {"run", "drain", "raise"} /\ manifest # "done"
BY DEF IndInv, TypeOK, Emits, Emitting, Working, FutureTold, Queued

\* While the pool is open the main thread has written nothing.
LEMMA PoolEmits ==
    ASSUME pc' \in {"run", "drain", "raise"}, manifest' # "done"
    PROVE  Emits' /\ ManifestTold'
BY DEF Emits, Emitting, ManifestTold

\* What is told of a record in work stays so while it and the store stay.
LEMMA StillTold ==
    ASSUME NEW q \in Record, FutureTold(q), UNCHANGED <<cache, memCache, done, memDone>>,
           work'[q] = work[q], pc' # "down"
    PROVE  FutureTold(q)'
BY DEF FutureTold, Told, Samples, KeyOf

\* The files and the indexes say the same while they stay.
LEMMA StoreStays ==
    ASSUME IndInv, UNCHANGED <<cache, memCache, done, memDone>>, pc # "down"
    PROVE  Loaded' /\ DoneTold'
BY DEF IndInv, Loaded, DoneTold, Told, Samples

\* A step of one record.
LEMMA OneRecord ==
    ASSUME TypeOK, NEW r \in Record, NEW w \in Future, Len(w.got) < K,
           work' = [work EXCEPT ![r] = w]
    PROVE  /\ work' \in [Record -> Future] /\ \A q \in Record : Len(work'[q].got) < K
           /\ work'[r] = w /\ \A q \in Record \ {r} : work'[q] = work[q]
           /\ Active' \subseteq Active \cup {r}
           /\ w.at \notin Working \/ work[r].at \in Working => Active' \subseteq Active
<1>1. /\ work' \in [Record -> Future] /\ work'[r] = w
      /\ \A q \in Record \ {r} : work'[q] = work[q]
  BY DEF TypeOK
<1>2. \A q \in Record : Len(work'[q].got) < K
  BY <1>1 DEF TypeOK
<1>3. \A q \in Active' : q \in Record /\ work'[q].at \in Working
  BY DEF Active, Busy, Working
<1>4. \A q \in Record : work[q].at \in Working => q \in Active
  BY DEF Active, Busy, Working
<1> QED BY <1>1, <1>2, <1>3, <1>4

\* A process that is gone leaves the files as they are.
LEMMA GoneKeeps ==
    ASSUME IndInv, Gone, UNCHANGED <<cache, done, result>>,
           cacheTorn' \in BOOLEAN, doneTorn' \in BOOLEAN,
           billed' \in Nat, accidents' \in Nat, troubles' \in 0..MaxTroubles
    PROVE  IndInv'
<1>1. \A r \in Record : work'[r] = Queued
  BY DEF Gone
<1>2. Active' = {}
  BY <1>1 DEF Active, Busy, Queued
<1>3. Cardinality(Active') =< MaxConcurrent
  BY <1>2, NoMoreActive DEF IndInv
<1>4. TypeOK'
  <2>1. work' \in [Record -> Future] /\ \A r \in Record : Len(work'[r].got) < K
    BY PassKAssumption DEF Gone, Queued, Future
  <2>2. /\ cache' \in [Key -> Answer \cup {None}] /\ memCache' \in [Key -> Answer \cup {None}]
        /\ done' \in [Record -> Row \cup {None}] /\ memDone' \in [Record -> Row \cup {None}]
    BY DEF IndInv, TypeOK, Gone
  <2>3. /\ out' \in [whole : BOOLEAN, rows : SUBSET (Record \X Row)] /\ marker' \in BOOLEAN
        /\ manifest' \in {"none", "torn", "interrupted", "done"}
    BY DEF IndInv, TypeOK, result
  <2>4. pc' = "down" /\ rows' \subseteq Record \X Row /\ interrupted' \in BOOLEAN
    BY DEF Gone
  <2> QED BY <1>3, <2>1, <2>2, <2>3, <2>4 DEF TypeOK
<1>5. Loaded' /\ \A r \in Record : FutureTold(r)'
  BY <1>1 DEF Loaded, FutureTold, Gone, Queued, Working
<1>6. DoneTold'
  BY DEF IndInv, DoneTold, Told, Samples
<1>7. Emits' /\ ManifestTold'
  BY <1>1 DEF IndInv, Emits, Emitting, Gone, ManifestTold, Valid, result
<1> QED BY <1>4, <1>5, <1>6, <1>7 DEF IndInv

----------------------------------------------------------------------------
(* Each action keeps the invariant. *)

\* Start: the indexes are what the files say, and nothing is in work.
LEMMA StartKeeps ==
    ASSUME IndInv, Start
    PROVE  IndInv'
<1>1. pc = "down" /\ manifest # "done" /\ pc' = "run" /\ UNCHANGED <<store, out, manifest, work, main, billed, counts>>
  BY DEF Start, MayStart
<1>2. \A r \in Record : work'[r] = Queued
  BY <1>1 DEF IndInv, FutureTold
<1>3. TypeOK'
  <2>1. Active' = Active
    BY <1>1 DEF Active, Busy
  <2>2. Cardinality(Active') =< MaxConcurrent
    BY <2>1, NoMoreActive DEF IndInv
  <2> QED BY <1>1, <2>2 DEF IndInv, TypeOK, Start, store, main, counts
<1>4. Loaded'
  BY <1>1 DEF Start, Loaded, store
<1>5. \A r \in Record : FutureTold(r)'
  BY <1>1, <1>2 DEF FutureTold, Queued, Working
<1>6. DoneTold'
  BY <1>1 DEF IndInv, DoneTold, Told, Samples, store
<1>7. Emits' /\ ManifestTold'
  BY <1>1, PoolEmits
<1> QED BY <1>3, <1>4, <1>5, <1>6, <1>7 DEF IndInv

\* What a record begins as.
LEMMA BegunTold ==
    ASSUME IndInv, NEW r \in Record, Begin(r)
    PROVE  /\ Begun(r) \in Future /\ Begun(r).got = <<>>
           /\ FutureTold(r)'
<1>1. /\ work[r] = Queued /\ work' = [work EXCEPT ![r] = Begun(r)] /\ pc \in {"run", "raise"}
      /\ UNCHANGED <<store, result, memory, pc, main, billed, counts>>
  BY DEF Begin
<1>2. work'[r] = Begun(r)
  BY <1>1 DEF IndInv, TypeOK
<1>3. memDone[r] \in Row \cup {None} /\ (done[r] # None => memDone[r] = done[r])
  BY <1>1 DEF IndInv, TypeOK, Loaded
<1>4. Dropped.failed = 0 /\ Dropped.kind # "scored"
  BY DEF Dropped
<1>5. CASE r \in PreLabeled
  <2>1. Begun(r) = [Queued EXCEPT !.at = "done", !.row = Given] /\ done[r] = None
    BY <1>5 DEF Begun, IndInv, DoneTold
  <2>2. Begun(r) = [at |-> "done", got |-> <<>>, row |-> Given]
    BY <2>1 DEF Queued
  <2>3. Begun(r) \in Future /\ Begun(r).got = <<>>
    BY <2>2, Something DEF Future
  <2>4. work'[r] = [at |-> "done", got |-> <<>>, row |-> Given] /\ done'[r] = None /\ pc' # "down"
    BY <1>1, <1>2, <2>1, <2>2 DEF store
  <2> QED BY <2>3, <2>4, Something DEF FutureTold, Working
<1>6. CASE r \notin PreLabeled /\ memDone[r] # None
  <2>1. Begun(r) = [at |-> "done", got |-> <<>>, row |-> memDone[r]]
    BY <1>6 DEF Begun, Queued
  <2> QED BY <1>1, <1>2, <1>3, <1>6, <2>1 DEF FutureTold, Working, Future, store
<1>7. CASE r \notin PreLabeled /\ memDone[r] = None /\ r \in Unscorable
  <2>1. Begun(r) = [at |-> "commit", got |-> <<>>, row |-> Dropped]
    BY <1>7 DEF Begun, Queued
  <2>2. Told(r, Dropped)'
    BY <1>4 DEF Told
  <2> QED BY <1>1, <1>2, <1>7, <2>1, <2>2, Something DEF FutureTold, Working, Future, memory
<1>8. CASE r \notin PreLabeled /\ memDone[r] = None /\ r \notin Unscorable
  <2>1. Begun(r) = [at |-> "sample", got |-> <<>>, row |-> None]
    BY <1>8 DEF Begun, Queued
  <2> QED BY <1>1, <1>2, <1>8, <2>1 DEF FutureTold, Working, Future, memory
<1> QED BY <1>5, <1>6, <1>7, <1>8

\* Begin: one record more in work, if a thread is free.
LEMMA BeginKeeps ==
    ASSUME IndInv, NEW r \in Record, Begin(r)
    PROVE  IndInv'
<1>1. /\ work' = [work EXCEPT ![r] = Begun(r)] /\ pc \in {"run", "raise"} /\ ThreadFree
      /\ UNCHANGED <<store, result, memory, pc, main, billed, counts>>
  BY DEF Begin
<1>2. Begun(r) \in Future /\ Len(Begun(r).got) < K
  BY BegunTold, PassKAssumption
<1>3. /\ work' \in [Record -> Future] /\ \A q \in Record : Len(work'[q].got) < K
      /\ \A q \in Record \ {r} : work'[q] = work[q]
      /\ Active' \subseteq Active \cup {r}
  BY <1>1, <1>2, OneRecord DEF IndInv
<1>4. Cardinality(Active') =< MaxConcurrent
  <2>1. IsFiniteSet(Active)
    BY PassKAssumption, FS_Subset DEF Active, Busy
  <2>2. /\ IsFiniteSet(Active \cup {r}) /\ Cardinality(Active) \in Nat
        /\ Cardinality(Active \cup {r}) =< Cardinality(Active) + 1
    BY <2>1, FS_AddElement, FS_CardinalityType
  <2>3. IsFiniteSet(Active') /\ Cardinality(Active') =< Cardinality(Active \cup {r})
    BY <1>3, <2>2, FS_Subset
  <2>4. Cardinality(Active') \in Nat /\ Cardinality(Active \cup {r}) \in Nat
    BY <2>2, <2>3, FS_CardinalityType
  <2> QED BY <1>1, <2>2, <2>3, <2>4, PassKAssumption DEF ThreadFree
<1>5. TypeOK'
  BY <1>1, <1>3, <1>4 DEF IndInv, TypeOK, store, result, memory, main, counts
<1>6. Loaded' /\ DoneTold'
  BY <1>1, StoreStays DEF store, memory
<1>7. \A q \in Record : FutureTold(q)'
  BY <1>1, <1>3, BegunTold, StillTold DEF IndInv, store, memory
<1>8. Emits' /\ ManifestTold'
  BY <1>1, PoolEmits DEF IndInv, Emits, result
<1> QED BY <1>5, <1>6, <1>7, <1>8 DEF IndInv

\* What is told of a record after one more sample.
LEMMA GotTold ==
    ASSUME TypeOK, NEW r \in Record, work[r].at \in {"sample", "calling"},
           NEW a \in Outcome, Got(r, a),
           Sole(r) => \A i \in 1..Len(work[r].got) :
             work[r].got[i] # "error" => memCache'[<<QuestionOf[r], i - 1>>] = work[r].got[i],
           Sole(r) /\ a # "error" => memCache'[KeyOf(r)] = a,
           Sole(r) => \A i \in Sample :
             cache'[<<QuestionOf[r], i>>] # None =>
               memCache'[<<QuestionOf[r], i>>] = cache'[<<QuestionOf[r], i>>],
           memDone'[r] = None, done'[r] = None, pc' # "down", r \notin PreLabeled
    PROVE  /\ FutureTold(r)'
           /\ \E w \in Future : work' = [work EXCEPT ![r] = w] /\ Len(w.got) < K
<1> DEFINE got == Append(work[r].got, a)
<1>1. work[r].got \in Seq(Outcome) /\ Len(work[r].got) < K /\ Len(work[r].got) \in Nat
  BY DEF TypeOK, Future, Outcome
<1>2. /\ got \in Seq(Outcome) /\ Len(got) = Len(work[r].got) + 1 /\ Len(got) =< K
      /\ \A i \in 1..Len(work[r].got) : got[i] = work[r].got[i]
      /\ got[Len(got)] = a
  BY <1>1, PassKAssumption
<1>3. Sole(r) => \A i \in 1..Len(got) :
        got[i] # "error" => memCache'[<<QuestionOf[r], i - 1>>] = got[i]
  BY <1>1, <1>2 DEF KeyOf
<1>4. CASE Len(got) < K
  <2> DEFINE w == [at |-> "sample", got |-> got, row |-> None]
  <2>1. work' = [work EXCEPT ![r] = w]
    BY <1>4 DEF Got
  <2>2. work'[r] = w
    BY <2>1 DEF TypeOK
  <2>3. w \in Future
    BY <1>2 DEF Future, Outcome
  <2> HIDE DEF got
  <2>4. FutureTold(r)'
    BY <1>3, <2>2 DEF FutureTold, Working, Sole
  <2> QED BY <1>4, <2>1, <2>3, <2>4
<1>5. CASE Len(got) = K
  <2>1. work' = [work EXCEPT ![r] = Tally(got)]
    <3>1. ~(Len(got) < K)
      BY <1>2, <1>5, PassKAssumption
    <3> QED BY <3>1 DEF Got
  <2>2. work'[r] = Tally(got)
    BY <2>1 DEF TypeOK
  <2> HIDE DEF got
  <2>3. /\ Tally(got) \in Future /\ Tally(got).row \in Row
        /\ Tally(got).at \in {"commit", "done"} /\ Tally(got).got = <<>>
    BY <1>2, <1>5, TallyTyped
  <2>4. ASSUME Tally(got).at = "commit"
        PROVE  Told(r, work[r].row)'
    <3>1. Times("error", got) = 0
      BY <2>4, TallyCommits
    <3>2. work'[r].row.failed = 0 /\ work'[r].row.score = Times("right", got)
      BY <2>2, <2>4, TallyCommits
    <3>3. \A i \in 1..K : got[i] \in Answer
      BY <1>2, <1>5, <3>1, NoError
    <3>4. ASSUME Sole(r), Samples(r, None)' = {}
          PROVE  \A i \in Sample : cache'[<<QuestionOf[r], i>>] = got[i + 1]
      <4>1. TAKE i \in Sample
      <4>2. cache'[<<QuestionOf[r], i>>] # None
        BY <3>4 DEF Samples
      <4>3. memCache'[<<QuestionOf[r], i>>] = cache'[<<QuestionOf[r], i>>]
        BY <3>4, <4>2
      <4>4. i + 1 \in 1..K /\ (i + 1) - 1 = i
        BY PassKAssumption DEF Sample
      <4>5. got[i + 1] # "error"
        BY <3>3, <4>4, Something
      <4>6. memCache'[<<QuestionOf[r], (i + 1) - 1>>] = got[i + 1]
        BY <1>3, <1>5, <3>4, <4>4, <4>5
      <4> QED BY <4>3, <4>4, <4>6
    <3>5. ASSUME Sole(r), Samples(r, None)' = {}
          PROVE  Times("right", got) = Cardinality(Samples(r, "right")')
      <4>1. \A i \in Sample : cache'[<<QuestionOf[r], i>>] = got[i + 1]
        BY <3>4, <3>5
      <4>2. Times("right", got)
              = Cardinality(Holds(cache', QuestionOf[r], "right"))
        BY <1>2, <1>5, <4>1, TallyCounts
      <4>3. Holds(cache', QuestionOf[r], "right") = Samples(r, "right")'
        BY DEF Holds, Samples
      <4> QED BY <4>2, <4>3
    <3> QED BY <3>2, <3>5 DEF Told, Sole
  <2>5. FutureTold(r)'
    BY <2>2, <2>3, <2>4 DEF FutureTold, Working
  <2>6. Len(Tally(got).got) < K
    BY <2>3, PassKAssumption
  <2> QED BY <2>1, <2>3, <2>5, <2>6
<1> QED BY <1>1, <1>2, <1>4, <1>5, PassKAssumption

\* The key of the next sample is one of the cache's; records with statements
\* of their own have keys of their own.
LEMMA Keys ==
    ASSUME TypeOK, NEW r \in Record
    PROVE  /\ KeyOf(r) \in Key
           /\ \A q \in Record, i \in Sample : <<QuestionOf[q], i>> \in Key
           /\ \A q \in Record \ {r}, i \in Sample :
                Sole(q) \/ Sole(r) => <<QuestionOf[q], i>> # KeyOf(r)
<1>1. Len(work[r].got) \in Sample
  BY PassKAssumption DEF TypeOK, Future, Sample
<1> QED BY <1>1, PassKAssumption DEF KeyOf, Key, Sole

\* What is known of a record that is being sampled.
LEMMA Sampled ==
    ASSUME IndInv, NEW r \in Record, work[r].at \in {"sample", "calling"}
    PROVE  /\ pc \in {"run", "drain", "raise"} /\ manifest # "done"
           /\ memDone[r] = None /\ done[r] = None /\ r \notin PreLabeled
           /\ Sole(r) => \A i \in 1..Len(work[r].got) :
                work[r].got[i] # "error" => memCache[<<QuestionOf[r], i - 1>>] = work[r].got[i]
           /\ Sole(r) => \A i \in Sample :
                cache[<<QuestionOf[r], i>>] # None =>
                  memCache[<<QuestionOf[r], i>>] = cache[<<QuestionOf[r], i>>]
<1>1. pc \in {"run", "drain", "raise"} /\ manifest # "done"
  BY PoolOpen DEF Working
<1>2. FutureTold(r) /\ Loaded
  BY DEF IndInv
<1> QED BY <1>1, <1>2 DEF FutureTold, Loaded, Working

\* Consult: a hit is one more sample, a miss a call.
LEMMA ConsultKeeps ==
    ASSUME IndInv, NEW r \in Record, Consult(r)
    PROVE  IndInv'
<1>1. /\ work[r].at = "sample"
      /\ UNCHANGED <<store, result, memory, pc, main, billed, counts>>
      /\ pc' # "down" /\ pc' = pc
  BY Sampled DEF Consult
<1>2. /\ FutureTold(r)'
      /\ \E w \in Future : work' = [work EXCEPT ![r] = w] /\ Len(w.got) < K
  <2>1. CASE Cached(KeyOf(r))
    <3>1. memCache[KeyOf(r)] \in Answer
      BY <2>1, Keys DEF Cached, IndInv, TypeOK
    <3>2. Got(r, memCache[KeyOf(r)])
      BY <2>1 DEF Consult
    <3>3. PICK a \in Outcome : a = memCache[KeyOf(r)] /\ Got(r, a)
      BY <3>1, <3>2 DEF Outcome
    <3> QED BY <1>1, <3>3, Sampled, GotTold DEF IndInv, store, memory
  <2>2. CASE ~Cached(KeyOf(r))
    <3> DEFINE w == [at |-> "calling", got |-> work[r].got, row |-> work[r].row]
    <3>1. work' = [work EXCEPT ![r] = w] /\ w \in Future
      BY <2>2, <1>1 DEF Consult, Goes, IndInv, TypeOK, Future
    <3>2. work'[r] = w
      BY <3>1 DEF IndInv, TypeOK
    <3>3. memCache[KeyOf(r)] = None
      BY <2>2 DEF Cached
    <3>4. FutureTold(r)'
      BY <1>1, <3>2, <3>3, Sampled DEF FutureTold, Working, KeyOf, Sole, memory
    <3> QED BY <3>1, <3>4 DEF IndInv, TypeOK
  <2> QED BY <2>1, <2>2
<1>3. PICK w \in Future : work' = [work EXCEPT ![r] = w] /\ Len(w.got) < K
  BY <1>2
<1>4. /\ work' \in [Record -> Future] /\ \A q \in Record : Len(work'[q].got) < K
      /\ \A q \in Record \ {r} : work'[q] = work[q]
      /\ Active' \subseteq Active
  BY <1>1, <1>3, OneRecord DEF IndInv, Working
<1>5. TypeOK'
  <2>1. Cardinality(Active') =< MaxConcurrent
    BY <1>4, NoMoreActive DEF IndInv
  <2> QED BY <1>1, <1>4, <2>1 DEF IndInv, TypeOK, store, result, memory, main, counts
<1>6. Loaded' /\ DoneTold'
  BY <1>1, StoreStays DEF store, memory
<1>7. \A q \in Record : FutureTold(q)'
  BY <1>1, <1>2, <1>4, StillTold DEF IndInv, store, memory
<1>8. Emits' /\ ManifestTold'
  BY <1>1, Sampled, PoolEmits DEF result
<1> QED BY <1>5, <1>6, <1>7, <1>8 DEF IndInv

\* CallFailed: a sample that is an error.
LEMMA CallFailedKeeps ==
    ASSUME IndInv, NEW r \in Record, CallFailed(r)
    PROVE  IndInv'
<1>1. /\ work[r].at = "calling" /\ Got(r, "error") /\ Trouble(FALSE)
      /\ UNCHANGED <<store, result, memory, pc, main, billed>>
      /\ pc' # "down" /\ pc' = pc
  BY Sampled DEF CallFailed
<1>2. /\ FutureTold(r)'
      /\ \E w \in Future : work' = [work EXCEPT ![r] = w] /\ Len(w.got) < K
  <2>1. PICK a \in Outcome : a = "error" /\ Got(r, a)
    BY <1>1 DEF Outcome
  <2> QED BY <1>1, <2>1, Sampled, GotTold DEF IndInv, store, memory
<1>3. PICK w \in Future : work' = [work EXCEPT ![r] = w] /\ Len(w.got) < K
  BY <1>2
<1>4. /\ work' \in [Record -> Future] /\ \A q \in Record : Len(work'[q].got) < K
      /\ \A q \in Record \ {r} : work'[q] = work[q]
      /\ Active' \subseteq Active
  BY <1>1, <1>3, OneRecord DEF IndInv, Working
<1>5. TypeOK'
  <2>1. Cardinality(Active') =< MaxConcurrent
    BY <1>4, NoMoreActive DEF IndInv
  <2>2. accidents' \in Nat /\ troubles' \in 0..MaxTroubles
    BY <1>1, PassKAssumption DEF Trouble, IndInv, TypeOK
  <2> QED BY <1>1, <1>4, <2>1, <2>2 DEF IndInv, TypeOK, store, result, memory, main
<1>6. Loaded' /\ DoneTold'
  BY <1>1, StoreStays DEF store, memory
<1>7. \A q \in Record : FutureTold(q)'
  BY <1>1, <1>2, <1>4, StillTold DEF IndInv, store, memory
<1>8. Emits' /\ ManifestTold'
  BY <1>1, Sampled, PoolEmits DEF result
<1> QED BY <1>5, <1>6, <1>7, <1>8 DEF IndInv

\* Answered: the answer enters the index, and the file unless it is glued to
\* a torn line; nobody else has this key, or else shares its statement.
LEMMA AnsweredKeeps ==
    ASSUME IndInv, NEW r \in Record, Answered(r)
    PROVE  IndInv'
<1>1. PICK a \in Answer :
        /\ work[r].at = "calling" /\ Got(r, a)
        /\ cache' = IF cacheTorn THEN cache ELSE [cache EXCEPT ![KeyOf(r)] = a]
        /\ memCache' = [memCache EXCEPT ![KeyOf(r)] = a]
        /\ cacheTorn' = FALSE /\ billed' = billed + 1
        /\ UNCHANGED <<done, doneTorn, result, memDone, pc, main, counts>>
  BY DEF Answered
<1>2. pc' # "down" /\ pc' = pc /\ pc \in {"run", "drain", "raise"} /\ manifest # "done"
  BY <1>1, Sampled
<1>3. /\ memCache'[KeyOf(r)] = a
      /\ cache'[KeyOf(r)] \in {cache[KeyOf(r)], a}
      /\ \A k \in Key : k # KeyOf(r) => memCache'[k] = memCache[k] /\ cache'[k] = cache[k]
      /\ memCache' \in [Key -> Answer \cup {None}] /\ cache' \in [Key -> Answer \cup {None}]
  BY <1>1, Keys DEF IndInv, TypeOK
<1>4. Sole(r) => cache[KeyOf(r)] = None
  <2>1. ASSUME Sole(r) PROVE cache[KeyOf(r)] = None
    <3>1. memCache[KeyOf(r)] = None
      BY <1>1, <2>1 DEF IndInv, FutureTold
    <3>2. Len(work[r].got) \in Sample
      BY PassKAssumption DEF IndInv, TypeOK, Future, Sample
    <3> QED BY <1>1, <2>1, <3>1, <3>2, Sampled DEF KeyOf
  <2> QED BY <2>1
<1>5. \A q \in Record, i \in Sample : Sole(q) /\ q # r =>
        /\ memCache'[<<QuestionOf[q], i>>] = memCache[<<QuestionOf[q], i>>]
        /\ cache'[<<QuestionOf[q], i>>] = cache[<<QuestionOf[q], i>>]
  BY <1>3, Keys DEF IndInv
<1>6. Sole(r) => \A i \in Sample :
        cache'[<<QuestionOf[r], i>>] # None =>
          memCache'[<<QuestionOf[r], i>>] = cache'[<<QuestionOf[r], i>>]
  <2>1. ASSUME Sole(r), NEW i \in Sample, cache'[<<QuestionOf[r], i>>] # None
        PROVE  memCache'[<<QuestionOf[r], i>>] = cache'[<<QuestionOf[r], i>>]
    <3>1. CASE <<QuestionOf[r], i>> = KeyOf(r)
      BY <1>3, <1>4, <2>1, <3>1
    <3>2. CASE <<QuestionOf[r], i>> # KeyOf(r)
      <4>1. <<QuestionOf[r], i>> \in Key
        BY Keys DEF IndInv
      <4> QED BY <1>1, <1>3, <2>1, <3>2, <4>1, Sampled
    <3> QED BY <3>1, <3>2
  <2> QED BY <2>1
<1>7. /\ FutureTold(r)'
      /\ \E w \in Future : work' = [work EXCEPT ![r] = w] /\ Len(w.got) < K
  <2>1. Sole(r) => \A i \in 1..Len(work[r].got) :
          work[r].got[i] # "error" => memCache'[<<QuestionOf[r], i - 1>>] = work[r].got[i]
    <3>1. ASSUME Sole(r), NEW i \in 1..Len(work[r].got), work[r].got[i] # "error"
          PROVE  memCache'[<<QuestionOf[r], i - 1>>] = work[r].got[i]
      <4>1. i - 1 \in Sample /\ i - 1 # Len(work[r].got)
        BY PassKAssumption DEF IndInv, TypeOK, Future, Sample
      <4>2. <<QuestionOf[r], i - 1>> \in Key /\ <<QuestionOf[r], i - 1>> # KeyOf(r)
        BY <4>1, Keys DEF IndInv, KeyOf
      <4> QED BY <1>1, <1>3, <3>1, <4>2, Sampled
    <3> QED BY <3>1
  <2>2. PICK b \in Outcome : b = a /\ Got(r, b)
    BY <1>1 DEF Outcome
  <2> QED BY <1>1, <1>2, <1>3, <1>6, <2>1, <2>2, Sampled, GotTold DEF IndInv
<1>8. PICK w \in Future : work' = [work EXCEPT ![r] = w] /\ Len(w.got) < K
  BY <1>7
<1>9. /\ work' \in [Record -> Future] /\ \A q \in Record : Len(work'[q].got) < K
      /\ \A q \in Record \ {r} : work'[q] = work[q]
      /\ Active' \subseteq Active
  BY <1>1, <1>8, OneRecord DEF IndInv, Working
<1>10. TypeOK'
  <2>1. Cardinality(Active') =< MaxConcurrent
    BY <1>9, NoMoreActive DEF IndInv
  <2>2. billed' \in Nat
    BY <1>1 DEF IndInv, TypeOK
  <2> QED BY <1>1, <1>3, <1>9, <2>1, <2>2 DEF IndInv, TypeOK, result, main, counts
<1>11. Loaded'
  BY <1>1, <1>2, <1>5, <1>6 DEF IndInv, Loaded, Sole
<1>12. \A q \in Record : \A row : q # r /\ Told(q, row) =>
         row.failed = 0 /\ (row.kind = "scored" /\ Sole(q) /\ Samples(q, None)' = {} =>
                              row.score = Cardinality(Samples(q, "right")'))
  <2>1. ASSUME NEW q \in Record, q # r, Sole(q)
        PROVE  Samples(q, None)' = Samples(q, None) /\ Samples(q, "right")' = Samples(q, "right")
    BY <1>5, <2>1 DEF Samples
  <2> QED BY <2>1 DEF Told
<1>13. \A q \in Record : FutureTold(q)'
  <2>1. ASSUME NEW q \in Record, q # r PROVE FutureTold(q)'
    <3>1. work'[q] = work[q] /\ done'[q] = done[q] /\ memDone'[q] = memDone[q] /\ FutureTold(q)
      BY <1>1, <1>9, <2>1 DEF IndInv
    <3>2. work[q].at \in {"sample", "calling"} /\ Sole(q) =>
            \A i \in 1..Len(work[q].got) : work[q].got[i] # "error" =>
              memCache'[<<QuestionOf[q], i - 1>>] = work[q].got[i]
      <4>1. \A i \in 1..Len(work[q].got) : i - 1 \in Sample
        BY PassKAssumption DEF IndInv, TypeOK, Future, Sample
      <4> QED BY <1>5, <2>1, <3>1, <4>1 DEF FutureTold
    <3>3. work[q].at = "calling" /\ Sole(q) => memCache'[KeyOf(q)] = None
      <4>1. Len(work[q].got) \in Sample
        BY PassKAssumption DEF IndInv, TypeOK, Future, Sample
      <4> QED BY <1>5, <2>1, <3>1, <4>1 DEF FutureTold, KeyOf
    <3>4. work[q].at = "commit" => Told(q, work[q].row)'
      BY <1>12, <2>1, <3>1 DEF FutureTold, Told, Sole
    <3> QED BY <1>2, <3>1, <3>2, <3>3, <3>4 DEF FutureTold, Working, Sole, KeyOf
  <2> QED BY <1>7, <2>1
<1>14. DoneTold'
  <2>1. SUFFICES ASSUME NEW q \in Record, done'[q] # None
                 PROVE  q \notin PreLabeled /\ Told(q, done[q])'
    BY DEF DoneTold
  <2>2. done'[q] = done[q] /\ q # r
    BY <1>1, <2>1, Sampled
  <2>3. q \notin PreLabeled /\ Told(q, done[q])
    BY <2>1, <2>2 DEF IndInv, DoneTold
  <2> QED BY <1>12, <2>2, <2>3 DEF Told, Sole
<1>15. Emits' /\ ManifestTold'
  BY <1>1, <1>2, PoolEmits DEF result
<1> QED BY <1>10, <1>11, <1>13, <1>14, <1>15 DEF IndInv

\* Commit: the row enters the index, and the file unless it is glued to a
\* torn line; the record was in neither.
LEMMA CommitKeeps ==
    ASSUME IndInv, NEW r \in Record, Commit(r)
    PROVE  IndInv'
<1> DEFINE row == work[r].row
           w == [at |-> "done", got |-> work[r].got, row |-> row]
<1>1. /\ work[r].at = "commit" /\ work' = [work EXCEPT ![r].at = "done"]
      /\ done' = IF doneTorn THEN done ELSE [done EXCEPT ![r] = row]
      /\ memDone' = [memDone EXCEPT ![r] = row] /\ doneTorn' = FALSE
      /\ UNCHANGED <<cache, cacheTorn, result, memCache, pc, main, billed, counts>>
  BY DEF Commit, Goes
<1>2. /\ pc \in {"run", "drain", "raise"} /\ pc' = pc /\ manifest' = manifest /\ manifest # "done"
      /\ row \in Row /\ Told(r, row) /\ memDone[r] = None /\ done[r] = None
      /\ r \notin PreLabeled
  <2>1. pc \in {"run", "drain", "raise"} /\ manifest # "done"
    BY <1>1, PoolOpen DEF Working
  <2>2. FutureTold(r) /\ Loaded
    BY DEF IndInv
  <2>3. row \in Row /\ Told(r, row) /\ memDone[r] = None /\ r \notin PreLabeled
    BY <1>1, <2>2 DEF FutureTold, Working
  <2>4. done[r] = None
    BY <2>1, <2>2, <2>3 DEF Loaded
  <2> QED BY <1>1, <2>1, <2>3, <2>4 DEF result
<1>3. /\ w \in Future /\ Len(w.got) < K /\ work' = [work EXCEPT ![r] = w]
  <2>1. work[r] \in Future /\ Len(work[r].got) < K
    BY DEF IndInv, TypeOK
  <2>2. w \in Future /\ Len(w.got) < K
    BY <1>2, <2>1 DEF Future
  <2>3. [work[r] EXCEPT !.at = "done"] = w
    BY <2>1 DEF Future
  <2> QED BY <1>1, <2>2, <2>3
<1>4. /\ work' \in [Record -> Future] /\ \A q \in Record : Len(work'[q].got) < K
      /\ work'[r] = w /\ \A q \in Record \ {r} : work'[q] = work[q]
      /\ Active' \subseteq Active
  BY <1>1, <1>3, OneRecord DEF IndInv, Working
<1>5. /\ done' \in [Record -> Row \cup {None}] /\ memDone' \in [Record -> Row \cup {None}]
      /\ done'[r] \in {None, row} /\ memDone'[r] = row
      /\ \A q \in Record \ {r} : done'[q] = done[q] /\ memDone'[q] = memDone[q]
  BY <1>1, <1>2 DEF IndInv, TypeOK
<1>6. TypeOK'
  <2>1. Cardinality(Active') =< MaxConcurrent
    BY <1>4, NoMoreActive DEF IndInv
  <2> QED BY <1>1, <1>4, <1>5, <2>1 DEF IndInv, TypeOK, result, main, counts
<1>7. Loaded'
  <2>1. \A q \in Record : done'[q] # None => memDone'[q] = done'[q]
    BY <1>2, <1>5 DEF IndInv, Loaded
  <2> QED BY <1>1, <1>2, <2>1 DEF IndInv, Loaded, Sole
<1>8. \A q \in Record : FutureTold(q)'
  <2>1. FutureTold(r)'
    BY <1>2, <1>4, <1>5 DEF FutureTold, Working
  <2>2. ASSUME NEW q \in Record \ {r} PROVE FutureTold(q)'
    <3>1. FutureTold(q) /\ work'[q] = work[q] /\ done'[q] = done[q] /\ memDone'[q] = memDone[q]
      BY <1>4, <1>5 DEF IndInv
    <3> QED BY <1>1, <1>2, <3>1 DEF FutureTold, Told, Samples, KeyOf
  <2> QED BY <2>1, <2>2
<1>9. DoneTold'
  <2>1. SUFFICES ASSUME NEW q \in Record, done'[q] # None
                 PROVE  q \notin PreLabeled /\ Told(q, done'[q])
    BY <1>1 DEF DoneTold, Told, Samples
  <2>2. CASE q = r
    BY <1>2, <1>5, <2>1, <2>2
  <2>3. CASE q # r
    BY <1>5, <2>1, <2>3 DEF IndInv, DoneTold
  <2> QED BY <2>2, <2>3
<1>10. Emits' /\ ManifestTold'
  BY <1>2, PoolEmits
<1> QED BY <1>6, <1>7, <1>8, <1>9, <1>10 DEF IndInv

\* WriteFails: the record fails, or, without a pool, the run with it.
LEMMA WriteFailsKeeps ==
    ASSUME IndInv, NEW r \in Record, WriteFails(r)
    PROVE  IndInv'
<1>1. /\ work[r].at \in {"calling", "commit"} /\ Trouble(TRUE)
      /\ cacheTorn' \in {cacheTorn, TRUE} /\ doneTorn' \in {doneTorn, TRUE}
      /\ billed' = billed + (IF work[r].at = "calling" THEN 1 ELSE 0)
      /\ UNCHANGED <<cache, done, result>>
  BY DEF WriteFails
<1>2. /\ cacheTorn' \in BOOLEAN /\ doneTorn' \in BOOLEAN
      /\ billed' \in Nat /\ accidents' \in Nat /\ troubles' \in 0..MaxTroubles
  <2>1. cacheTorn' \in BOOLEAN /\ doneTorn' \in BOOLEAN
    BY <1>1, Zenon DEF IndInv, TypeOK
  <2>2. accidents' \in Nat /\ troubles' \in 0..MaxTroubles
    BY <1>1, PassKAssumption DEF IndInv, TypeOK, Trouble
  <2>3. billed' \in Nat
    BY <1>1 DEF IndInv, TypeOK
  <2> QED BY <2>1, <2>2, <2>3
<1>3. CASE MaxConcurrent = 1
  BY <1>1, <1>2, <1>3, GoneKeeps DEF WriteFails
<1>4. CASE MaxConcurrent # 1
  <2> DEFINE w == [at |-> "failed", got |-> work[r].got, row |-> work[r].row]
  <2>1. /\ work' = [work EXCEPT ![r].at = "failed"] /\ UNCHANGED <<memory, main>>
        /\ pc' = IF pc = "run" THEN "raise" ELSE pc
    BY <1>4 DEF WriteFails, Goes
  <2>2. pc \in {"run", "drain", "raise"} /\ manifest # "done"
    BY <1>1, PoolOpen DEF Working
  <2>3. w \in Future /\ Len(w.got) < K /\ work' = [work EXCEPT ![r] = w]
    <3>1. work[r] \in Future /\ Len(work[r].got) < K
      BY DEF IndInv, TypeOK
    <3>2. w \in Future /\ Len(w.got) < K
      BY <3>1 DEF Future
    <3>3. [work[r] EXCEPT !.at = "failed"] = w
      BY <3>1 DEF Future
    <3> QED BY <2>1, <3>2, <3>3
  <2>4. /\ work' \in [Record -> Future] /\ \A q \in Record : Len(work'[q].got) < K
        /\ work'[r] = w /\ \A q \in Record \ {r} : work'[q] = work[q]
        /\ Active' \subseteq Active
    BY <1>1, <2>3, OneRecord DEF IndInv, Working
  <2>5. TypeOK'
    <3>1. Cardinality(Active') =< MaxConcurrent
      BY <2>4, NoMoreActive DEF IndInv
    <3> QED BY <1>1, <1>2, <2>1, <2>4, <3>1 DEF IndInv, TypeOK, result, memory, main
  <2>6. Loaded' /\ DoneTold'
    BY <1>1, <2>1, <2>2, StoreStays DEF memory
  <2>7. \A q \in Record : FutureTold(q)'
    <3>1. FutureTold(r)'
      BY <2>1, <2>2, <2>4 DEF FutureTold, Working
    <3> QED BY <1>1, <2>1, <2>2, <2>4, <3>1, StillTold DEF IndInv, memory
  <2>8. Emits' /\ ManifestTold'
    BY <1>1, <2>1, <2>2, PoolEmits DEF result
  <2> QED BY <2>5, <2>6, <2>7, <2>8 DEF IndInv
<1> QED BY <1>3, <1>4

\* Interrupt: some records are dropped, the others stay.
LEMMA InterruptKeeps ==
    ASSUME IndInv, Interrupt
    PROVE  IndInv'
<1> DEFINE gone == [Queued EXCEPT !.at = "cancelled"]
           dropped == Busy("queued") \cup (IF MaxConcurrent = 1 THEN Active ELSE {})
<1>1. /\ pc \in {"run", "drain"} /\ pc' \in {"drain", "raise"} /\ Trouble(MaxConcurrent = 1)
      /\ work' = [q \in Record |-> IF q \in dropped THEN gone ELSE work[q]]
      /\ billed' = billed + Cardinality(dropped \cap Busy("calling"))
      /\ UNCHANGED <<store, result, memory, main>>
  BY DEF Interrupt
<1>2. gone = [at |-> "cancelled", got |-> <<>>, row |-> None]
  BY DEF Queued
<1>3. gone \in Future /\ Len(gone.got) < K
  <2> DEFINE w == [at |-> "cancelled", got |-> <<>>, row |-> None]
  <2>1. w \in Future /\ Len(w.got) < K
    BY PassKAssumption DEF Future
  <2> QED BY <1>2, <2>1
<1> HIDE DEF gone, dropped
<1>4. \A q \in Record : work'[q] = work[q] \/ work'[q] = gone
  BY <1>1
<1>5. work' \in [Record -> Future] /\ \A q \in Record : Len(work'[q].got) < K
  BY <1>1, <1>3 DEF IndInv, TypeOK
<1>6. Active' \subseteq Active
  BY <1>2, <1>4 DEF Active, Busy
<1>7. billed' \in Nat /\ accidents' \in Nat /\ troubles' \in 0..MaxTroubles
  <2>1. IsFiniteSet(dropped \cap Busy("calling"))
    BY PassKAssumption, FS_Subset DEF Busy
  <2>2. Cardinality(dropped \cap Busy("calling")) \in Nat
    BY <2>1, FS_CardinalityType
  <2> QED BY <1>1, <2>2, PassKAssumption DEF IndInv, TypeOK, Trouble
<1>8. TypeOK'
  <2>1. Cardinality(Active') =< MaxConcurrent
    BY <1>6, NoMoreActive DEF IndInv
  <2> QED BY <1>1, <1>5, <1>7, <2>1 DEF IndInv, TypeOK, store, result, memory, main
<1>9. Loaded' /\ DoneTold'
  BY <1>1, StoreStays DEF store, memory
<1>10. \A q \in Record : FutureTold(q)'
  <2>1. ASSUME NEW q \in Record, work'[q] = gone PROVE FutureTold(q)'
    BY <1>1, <1>2, <2>1 DEF FutureTold, Working
  <2> QED BY <1>1, <1>4, <2>1, StillTold DEF IndInv, store, memory
<1>11. Emits' /\ ManifestTold'
  BY <1>1, PoolEmits DEF IndInv, Emits, result
<1> QED BY <1>8, <1>9, <1>10, <1>11 DEF IndInv

\* The main thread collects the rows of the records that are done.
LEMMA CollectKeeps ==
    ASSUME IndInv, Collect, pc \in {"run", "drain"}, Active = {},
           marker' \in BOOLEAN, interrupted' \in BOOLEAN,
           interrupted' \/ (~marker' /\ Busy("done") = Record)
    PROVE  IndInv'
<1>1. /\ rows' = {<<r, work[r].row>> : r \in Busy("done")} /\ pc' = "emit"
      /\ UNCHANGED <<store, out, manifest, memory, work, billed, counts>>
  BY DEF Collect
<1>2. Active' = Active /\ Busy("done")' = Busy("done")
  BY <1>1 DEF Active, Busy
<1>3. rows' \subseteq Record \X Row
  <2>1. \A r \in Busy("done") : r \in Record /\ work[r].row \in Row
    BY DEF Busy, IndInv, FutureTold
  <2> QED BY <1>1, <2>1
<1>4. TypeOK'
  <2>1. Cardinality(Active') =< MaxConcurrent
    BY <1>2, NoMoreActive DEF IndInv
  <2> QED BY <1>1, <1>3, <2>1 DEF IndInv, TypeOK, store, memory, counts
<1>5. Loaded' /\ DoneTold'
  BY <1>1, StoreStays DEF store, memory
<1>6. \A q \in Record : FutureTold(q)'
  BY <1>1, StillTold DEF IndInv, store, memory
<1>7. \A r \in Record : work[r].at \notin Working
  BY DEF Active, Busy, Working
<1>8. manifest # "done"
  BY DEF IndInv, Emits
<1>9. Emits' /\ ManifestTold'
  <2>1. rows' = {<<r, work'[r].row>> : r \in Busy("done")'}
    BY <1>1, <1>2
  <2> QED BY <1>1, <1>2, <1>7, <1>8, <2>1 DEF Emits, ManifestTold
<1> QED BY <1>4, <1>5, <1>6, <1>9 DEF IndInv

\* Finished, Drained: nothing is in work any more.
LEMMA CollectorsKeep ==
    ASSUME IndInv, Finished \/ Drained
    PROVE  IndInv'
<1>1. CASE Finished
  <2>1. pc = "run" /\ Busy("done") = Record /\ marker' = FALSE /\ interrupted' = FALSE /\ Collect
    BY <1>1 DEF Finished
  <2>2. Active = {}
    BY <2>1 DEF Active, Busy
  <2> QED BY <2>1, <2>2, CollectKeeps
<1>2. CASE Drained
  BY <1>2, CollectKeeps DEF Drained, PoolDrained, Pause, IndInv, TypeOK
<1> QED BY <1>1, <1>2

\* EmitOutput: the output is the rows, after a moment when it is empty.
LEMMA EmitOutputKeeps ==
    ASSUME IndInv, EmitOutput
    PROVE  IndInv'
<1>1. /\ pc \in {"emit", "rows"} /\ pc' \in {"rows", "manifest"}
      /\ out' = [whole |-> FALSE, rows |-> {}] \/ out' = [whole |-> TRUE, rows |-> rows]
      /\ pc' = "manifest" => out' = [whole |-> TRUE, rows |-> rows]
      /\ UNCHANGED <<store, marker, manifest, memory, work, main, billed, counts>>
  BY DEF EmitOutput
<1>2. Active' = Active /\ Busy("done")' = Busy("done")
  BY <1>1 DEF Active, Busy
<1>3. TypeOK'
  <2>1. Cardinality(Active') =< MaxConcurrent
    BY <1>2, NoMoreActive DEF IndInv
  <2>2. out' \in [whole : BOOLEAN, rows : SUBSET (Record \X Row)]
    <3>1. rows \subseteq Record \X Row
      BY DEF IndInv, TypeOK
    <3>2. /\ [whole |-> FALSE, rows |-> {}] \in [whole : BOOLEAN, rows : SUBSET (Record \X Row)]
          /\ [whole |-> TRUE, rows |-> rows] \in [whole : BOOLEAN, rows : SUBSET (Record \X Row)]
      BY <3>1, Zenon
    <3> QED BY <1>1, <3>2, Zenon
  <2> QED BY <1>1, <2>1, <2>2 DEF IndInv, TypeOK, store, memory, main, counts
<1>4. Loaded' /\ DoneTold'
  BY <1>1, StoreStays DEF store, memory
<1>5. \A q \in Record : FutureTold(q)'
  BY <1>1, StillTold DEF IndInv, store, memory
<1>6. manifest # "done"
  BY <1>1 DEF IndInv, Emits
<1>7. Emits'
  <2>1. /\ \A r \in Record : work'[r].at \notin Working
        /\ rows' = {<<r, work'[r].row>> : r \in Busy("done")'}
        /\ interrupted' \/ (~marker' /\ Busy("done")' = Record)
    BY <1>1, <1>2 DEF IndInv, Emits, Emitting, main
  <2>2. pc' = "manifest" => out'.whole /\ out'.rows = rows'
    BY <1>1 DEF main
  <2> QED BY <1>1, <1>6, <2>1, <2>2 DEF Emits
<1>8. ManifestTold'
  BY <1>1, <1>6 DEF ManifestTold
<1> QED BY <1>3, <1>4, <1>5, <1>7, <1>8 DEF IndInv

\* EmitManifest: what it says of a complete run is what the rows show.
LEMMA EmitManifestKeeps ==
    ASSUME IndInv, EmitManifest
    PROVE  IndInv'
<1>1. /\ pc \in {"manifest", "fields"} /\ pc' \in {"fields", "exit"}
      /\ manifest' = "torn" \/ manifest' = "interrupted" \/ manifest' = "done"
      /\ manifest' = "done" => pc' = "exit" /\ ~interrupted
      /\ UNCHANGED <<store, marker, out, memory, work, main, billed, counts>>
  BY DEF EmitManifest
<1>2. Active' = Active /\ Busy("done")' = Busy("done")
  BY <1>1 DEF Active, Busy
<1>3. TypeOK'
  <2>1. Cardinality(Active') =< MaxConcurrent
    BY <1>2, NoMoreActive DEF IndInv
  <2> QED BY <1>1, <2>1 DEF IndInv, TypeOK, store, memory, main, counts
<1>4. Loaded' /\ DoneTold'
  BY <1>1, StoreStays DEF store, memory
<1>5. \A q \in Record : FutureTold(q)'
  BY <1>1, StillTold DEF IndInv, store, memory
<1>6. /\ \A r \in Record : work[r].at \notin Working
      /\ rows = {<<r, work[r].row>> : r \in Busy("done")}
      /\ interrupted \/ (~marker /\ Busy("done") = Record)
      /\ out.whole
  BY <1>1 DEF IndInv, Emits, Emitting
<1>7. out.rows = rows
  <2>1. pc \in {"manifest", "fields", "exit"} => out.whole /\ out.rows = rows
    BY DEF IndInv, Emits
  <2> QED BY <1>1, <2>1
<1>8. Emits'
  <2>1. /\ \A r \in Record : work'[r].at \notin Working
        /\ rows' = {<<r, work'[r].row>> : r \in Busy("done")'}
        /\ interrupted' \/ (~marker' /\ Busy("done")' = Record)
        /\ out'.whole /\ out'.rows = rows'
    BY <1>1, <1>2, <1>6, <1>7 DEF main
  <2> QED BY <1>1, <2>1 DEF Emits
<1>9. ManifestTold'
  <2>1. ASSUME manifest' = "done"
        PROVE  /\ out.whole /\ ~marker
               /\ {row[1] : row \in out.rows} = Record
               /\ \A r \in Valid(done) : <<r, done[r]>> \in out.rows
    <3>1. ~interrupted /\ ~marker /\ Busy("done") = Record
      BY <1>1, <1>6, <2>1
    <3>2. out.rows = {<<r, work[r].row>> : r \in Record}
      BY <1>6, <1>7, <3>1
    <3>3. {row[1] : row \in out.rows} = Record
      <4>1. \A row \in out.rows : row[1] \in Record
        BY <3>2
      <4>2. \A r \in Record : \E row \in out.rows : row[1] = r
        <5>1. TAKE r \in Record
        <5>2. <<r, work[r].row>> \in out.rows /\ <<r, work[r].row>>[1] = r
          BY <3>2
        <5> QED BY <5>2
      <4> QED BY <4>1, <4>2
    <3>4. ASSUME NEW r \in Valid(done) PROVE <<r, done[r]>> \in out.rows
      <4>1. r \in Record /\ done[r] # None
        BY DEF Valid, IndInv, TypeOK
      <4>2. done[r] = work[r].row
        BY <3>1, <4>1 DEF IndInv, FutureTold, Busy
      <4> QED BY <3>2, <4>1, <4>2
    <3> QED BY <1>6, <3>1, <3>3, <3>4
  <2> QED BY <1>1, <2>1 DEF ManifestTold, store, Valid
<1> QED BY <1>3, <1>4, <1>5, <1>8, <1>9 DEF IndInv

\* Raised, Exit, Kill: the process is gone.
LEMMA EndingsKeep ==
    ASSUME IndInv, Raised \/ Exit \/ Kill
    PROVE  IndInv'
<1>1. CASE Raised \/ Exit
  <2>1. Gone /\ UNCHANGED <<store, result, billed, counts>>
    BY <1>1 DEF Raised, Exit
  <2> QED BY <2>1, GoneKeeps DEF IndInv, TypeOK, store, counts
<1>2. CASE Kill
  <2>1. /\ Gone /\ Trouble(TRUE) /\ billed' = billed + Cardinality(Busy("calling"))
        /\ UNCHANGED <<cache, done, result>>
        /\ cacheTorn' \in {cacheTorn, TRUE} /\ doneTorn' \in {doneTorn, TRUE}
    BY <1>2 DEF Kill
  <2>2. Cardinality(Busy("calling")) \in Nat
    BY PassKAssumption, FS_Subset, FS_CardinalityType DEF Busy
  <2>3. /\ billed' \in Nat /\ accidents' \in Nat /\ troubles' \in 0..MaxTroubles
        /\ cacheTorn' \in BOOLEAN /\ doneTorn' \in BOOLEAN
    <3>1. cacheTorn' \in BOOLEAN /\ doneTorn' \in BOOLEAN
      BY <2>1, Zenon DEF IndInv, TypeOK
    <3>2. accidents' \in Nat /\ troubles' \in 0..MaxTroubles
      BY <2>1, PassKAssumption DEF IndInv, TypeOK, Trouble
    <3>3. billed' \in Nat
      BY <2>1, <2>2 DEF IndInv, TypeOK
    <3> QED BY <3>1, <3>2, <3>3
  <2> QED BY <2>1, <2>3, GoneKeeps
<1> QED BY <1>1, <1>2

----------------------------------------------------------------------------
(* The theorems. *)

\* The invariant holds at the first start.
LEMMA InitInv ==
    ASSUME Init
    PROVE  IndInv
<1>1. \A r \in Record : work[r] = Queued
  BY DEF Init
<1>2. Active = {}
  BY <1>1 DEF Active, Busy, Queued
<1>3. TypeOK
  <2>1. Cardinality(Active) =< MaxConcurrent
    BY <1>2, FS_EmptySet, PassKAssumption
  <2>2. work \in [Record -> Future] /\ \A r \in Record : Len(work[r].got) < K
    BY PassKAssumption DEF Init, Queued, Future
  <2>3. out \in [whole : BOOLEAN, rows : SUBSET (Record \X Row)]
    BY DEF Init
  <2>4. /\ cache \in [Key -> Answer \cup {None}] /\ memCache \in [Key -> Answer \cup {None}]
        /\ done \in [Record -> Row \cup {None}] /\ memDone \in [Record -> Row \cup {None}]
    BY DEF Init
  <2>5. /\ cacheTorn \in BOOLEAN /\ doneTorn \in BOOLEAN /\ marker \in BOOLEAN
        /\ interrupted \in BOOLEAN
    BY Zenon DEF Init
  <2>6. /\ manifest = "none" /\ pc = "down" /\ rows \subseteq Record \X Row
        /\ billed \in Nat /\ accidents \in Nat /\ troubles \in 0..MaxTroubles
    BY PassKAssumption DEF Init
  <2> QED BY <2>1, <2>2, <2>3, <2>4, <2>5, <2>6 DEF TypeOK
<1>4. \A r \in Record : done[r] = None
  BY DEF Init
<1>5. Loaded /\ \A r \in Record : FutureTold(r)
  BY <1>1, <1>4 DEF Init, Loaded, FutureTold, Queued, Working
<1>6. DoneTold
  BY <1>4 DEF DoneTold
<1>7. Emits /\ ManifestTold
  BY DEF Init, Emits, Emitting, ManifestTold
<1> QED BY <1>3, <1>5, <1>6, <1>7 DEF IndInv

\* Every step keeps the invariant.
LEMMA NextKeeps ==
    ASSUME IndInv, Next
    PROVE  IndInv'
<1>1. CASE Start
  BY <1>1, StartKeeps
<1>2. CASE Main
  BY <1>2, CollectorsKeep, EndingsKeep, EmitOutputKeeps, EmitManifestKeeps DEF Main
<1>3. CASE Interrupt
  BY <1>3, InterruptKeeps
<1>4. CASE Kill
  BY <1>4, EndingsKeep
<1>5. CASE \E r \in Record : Worker(r) \/ WriteFails(r)
  BY <1>5, BeginKeeps, ConsultKeeps, AnsweredKeeps, CallFailedKeeps, CommitKeeps,
     WriteFailsKeeps DEF Worker
<1> QED BY <1>1, <1>2, <1>3, <1>4, <1>5 DEF Next

\* A step that changes nothing keeps it too.
LEMMA StutterKeeps ==
    ASSUME IndInv, UNCHANGED vars
    PROVE  IndInv'
<1>1. UNCHANGED <<store, result, memory, pc, work, main, billed, counts>>
  BY DEF vars
<1>2. Active' = Active /\ Busy("done")' = Busy("done")
  BY <1>1 DEF Active, Busy
<1>3. TypeOK'
  BY <1>1, <1>2 DEF IndInv, TypeOK, store, result, memory, main, counts
<1>4. Loaded' /\ \A r \in Record : FutureTold(r)'
  BY <1>1 DEF IndInv, Loaded, FutureTold, Told, Samples, KeyOf, store, memory
<1>5. DoneTold'
  BY <1>1 DEF IndInv, DoneTold, Told, Samples, store
<1>6. Emits'
  BY <1>1, <1>2 DEF IndInv, Emits, result, main
<1>7. ManifestTold'
  BY <1>1 DEF IndInv, ManifestTold, Valid, store, result
<1> QED BY <1>3, <1>4, <1>5, <1>6, <1>7 DEF IndInv

\* The files, the indexes and the records in work agree in every state, with
\* kills, torn lines, pauses and failures in any order.
THEOREM InvariantHolds == Spec => []IndInv
<1>1. IndInv /\ [Next]_vars => IndInv'
  BY NextKeeps, StutterKeeps
<1> QED BY <1>1, InitInv, PTL DEF Spec

\* The files, the indexes and the futures keep their shapes, and no more
\* records are in work than the pool has threads.
THEOREM TypeCorrect == Spec => []TypeOK
<1>1. IndInv => TypeOK
  BY DEF IndInv
<1> QED BY <1>1, InvariantHolds, PTL

\* A committed score has no failed call in it, and it is the tally of the
\* answers the cache file has, if it has all of them.
THEOREM CommittedScores == Spec => []ScoreFromSamples
<1>1. IndInv => ScoreFromSamples
  BY DEF IndInv, TypeOK, DoneTold, ScoreFromSamples, Valid
<1> QED BY <1>1, InvariantHolds, PTL

\* A manifest that says a run was not interrupted stands beside a whole output.
THEOREM ManifestHolds == Spec => []ManifestTold
<1>1. IndInv => ManifestTold
  BY DEF IndInv
<1> QED BY <1>1, InvariantHolds, PTL

----------------------------------------------------------------------------
(* What trouble costs.  A record in flight whose sample is in the cache file *)
(* by now will be paid for in vain; each sample the file has entitles every  *)
(* record of its statement to one answer.                                    *)

SampleOf(x) == <<QuestionOf[x[1]], x[2]>>
Early    == {r \in Busy("calling") : cache[KeyOf(r)] # None}
Entitled == {x \in Scored \X Sample : cache[SampleOf(x)] # None}
Torn     == IF cacheTorn THEN 1 ELSE 0
Price(n) == n * (MaxConcurrent + 1)

\* Only records to be scored are sampled, and the index has what the file has.
OnlyScored == \A r \in Record : work[r].at \in {"sample", "calling"} => r \in Scored
Known == pc # "down" => \A k \in Key : cache[k] # None => memCache[k] # None
Asked == {SampleOf(x) : x \in Scored \X Sample}
Covered ==
    billed + Torn + Cardinality(Early) =< Price(accidents) + Cardinality(Entitled)
CostInv == OnlyScored /\ Known /\ Valid(cache) \subseteq Asked /\ Covered

\* One more kill costs what a pool has in flight, and a line.
LEMMA OneMore == \A n \in Nat : Price(n) \in Nat /\ Price(n + 1) = Price(n) + MaxConcurrent + 1
BY PassKAssumption DEF Price

LEMMA Sizes ==
    ASSUME TypeOK
    PROVE  /\ IsFiniteSet(Record) /\ IsFiniteSet(Scored) /\ IsFiniteSet(Sample)
           /\ IsFiniteSet(Scored \X Sample) /\ IsFiniteSet(Early) /\ IsFiniteSet(Entitled)
           /\ Cardinality(Early) \in Nat /\ Cardinality(Entitled) \in Nat
           /\ Cardinality(Busy("calling")) \in Nat /\ Cardinality(Busy("calling")) =< MaxConcurrent
           /\ Torn \in 0..1
<1>1. IsFiniteSet(Record) /\ IsFiniteSet(Scored)
  BY PassKAssumption, FS_Subset DEF Scored
<1>2. IsFiniteSet(Sample)
  BY PassKAssumption, FS_Interval DEF Sample
<1>3. IsFiniteSet(Scored \X Sample)
  BY <1>1, <1>2, FS_Product
<1>4. IsFiniteSet(Early)
  BY <1>1, FS_Subset DEF Early, Busy
<1>5. IsFiniteSet(Entitled)
  BY <1>3, FS_Subset DEF Entitled
<1>6. IsFiniteSet(Active) /\ Busy("calling") \in SUBSET Active
  BY <1>1, FS_Subset DEF Active, Busy
<1>7. IsFiniteSet(Busy("calling")) /\ Cardinality(Busy("calling")) =< Cardinality(Active)
  BY <1>6, FS_Subset
<1>8. /\ Cardinality(Busy("calling")) \in Nat /\ Cardinality(Active) \in Nat
      /\ Cardinality(Early) \in Nat /\ Cardinality(Entitled) \in Nat
  BY <1>4, <1>5, <1>6, <1>7, FS_CardinalityType
<1>9. Cardinality(Active) =< MaxConcurrent /\ MaxConcurrent \in Nat
  BY PassKAssumption DEF TypeOK
<1>10. Torn \in 0..1
  BY DEF Torn
<1> QED BY <1>1, <1>2, <1>3, <1>4, <1>5, <1>7, <1>8, <1>9, <1>10

\* While the file stays, no step but a troubled one costs anything.
LEMMA CostStays ==
    ASSUME TypeOK, TypeOK', Covered, cache' = cache, Early' \subseteq Early,
           \/ accidents' = accidents /\ billed' + Torn' =< billed + Torn
           \/ /\ accidents' = accidents + 1
              /\ billed' + Torn' + Cardinality(Early')
                   =< billed + Torn + Cardinality(Early) + MaxConcurrent + 1
    PROVE  Covered'
<1>1. Entitled' = Entitled
  BY DEF Entitled, SampleOf
<1>2. Cardinality(Early') =< Cardinality(Early)
  BY Sizes, FS_Subset
<1>3. /\ Cardinality(Early) \in Nat /\ Cardinality(Entitled) \in Nat /\ Torn \in 0..1
      /\ Cardinality(Early') \in Nat /\ Torn' \in 0..1
  <2>1. IsFiniteSet(Early')
    BY Sizes, FS_Subset
  <2>2. Cardinality(Early') \in Nat /\ Torn' \in 0..1
    BY <2>1, FS_CardinalityType DEF Torn
  <2> QED BY <2>2, Sizes
<1>4. /\ billed \in Nat /\ billed' \in Nat /\ accidents \in Nat /\ MaxConcurrent \in Nat
  BY PassKAssumption DEF TypeOK
<1>5. Price(accidents) \in Nat /\ Price(accidents + 1) = Price(accidents) + MaxConcurrent + 1
  BY <1>4, OneMore
<1>6. Covered' = (billed' + Torn' + Cardinality(Early') =< Price(accidents') + Cardinality(Entitled))
  BY <1>1 DEF Covered, Price
<1>7. PICK b \in Nat, c \in Nat, t \in Int, u \in Int, e \in Nat, f \in Nat, n \in Nat, p \in Nat :
        /\ b = billed /\ c = billed' /\ t = Torn /\ u = Torn'
        /\ e = Cardinality(Early) /\ f = Cardinality(Early')
        /\ n = Cardinality(Entitled) /\ p = Price(accidents)
  <2>1. Torn \in Int /\ Torn' \in Int
    BY <1>3
  <2> QED BY <1>3, <1>4, <1>5, <2>1, Zenon
<1>8. b + t + e =< p + n /\ f =< e
  BY <1>2, <1>7 DEF Covered
<1>9. CASE accidents' = accidents /\ billed' + Torn' =< billed + Torn
  <2>1. c + u =< b + t
    BY <1>7, <1>9
  <2>2. c + u + f =< p + n
    BY <1>8, <2>1
  <2>3. Price(accidents') = p
    BY <1>7, <1>9
  <2> QED BY <1>6, <1>7, <2>2, <2>3
<1>10. CASE /\ accidents' = accidents + 1
            /\ billed' + Torn' + Cardinality(Early')
                 =< billed + Torn + Cardinality(Early) + MaxConcurrent + 1
  <2>1. PICK m \in Nat : m = MaxConcurrent
    BY <1>4
  <2>2. Price(accidents') = p + m + 1
    BY <1>5, <1>7, <1>10, <2>1
  <2>3. c + u + f =< b + t + e + m + 1
    BY <1>7, <1>10, <2>1
  <2>4. c + u + f =< (p + m + 1) + n
    BY <1>8, <2>3
  <2> QED BY <1>6, <1>7, <2>2, <2>4
<1> QED BY <1>9, <1>10

\* The records in flight that are paid for in vain are no more than before,
\* when nobody starts a call.
LEMMA NoneEarlier ==
    ASSUME cache' = cache,
           \A q \in Record : work'[q].at = "calling" => work'[q] = work[q]
    PROVE  Early' \subseteq Early
BY DEF Early, Busy, KeyOf

\* The rest of the invariant, for a step that leaves the files of answers alone.
LEMMA RestStays ==
    ASSUME OnlyScored, Known, Valid(cache) \subseteq Asked, cache' = cache,
           (memCache' = memCache /\ pc # "down") \/ pc' = "down",
           \A q \in Record : work'[q].at \in {"sample", "calling"} =>
             work[q].at \in {"sample", "calling"}
    PROVE  OnlyScored' /\ Known' /\ Valid(cache)' \subseteq Asked'
<1>1. OnlyScored' /\ Known'
  BY DEF OnlyScored, Known
<1>2. Valid(cache)' = Valid(cache) /\ Asked' = Asked
  BY DEF Valid, Asked, SampleOf
<1> QED BY <1>1, <1>2

\* A process that is gone has nothing in flight.
LEMMA GoneCosts ==
    ASSUME CostInv, Gone, cache' = cache
    PROVE  Early' = {} /\ OnlyScored' /\ Known' /\ Valid(cache)' \subseteq Asked'
<1>1. \A q \in Record : work'[q] = Queued /\ work'[q].at = "queued"
  BY DEF Gone, Queued
<1>2. Early' = {}
  BY <1>1 DEF Early, Busy
<1>3. OnlyScored' /\ Known' /\ Valid(cache)' \subseteq Asked'
  BY <1>1, RestStays DEF CostInv, Gone
<1> QED BY <1>2, <1>3

\* A step that leaves the bill and the files of answers alone, and starts
\* neither a sample nor a call.
LEMMA QuietCosts ==
    ASSUME IndInv, IndInv', CostInv, UNCHANGED <<cache, cacheTorn, billed, accidents>>,
           (memCache' = memCache /\ pc # "down") \/ pc' = "down",
           \A q \in Record : work'[q].at = "calling" => work'[q] = work[q],
           \A q \in Record : work'[q].at \in {"sample", "calling"} =>
             work[q].at \in {"sample", "calling"}
    PROVE  CostInv'
<1>1. TypeOK /\ TypeOK' /\ Covered /\ Early' \subseteq Early
  BY NoneEarlier DEF IndInv, CostInv
<1>2. Torn' = Torn
  BY DEF Torn
<1>3. billed' + Torn' =< billed + Torn
  BY <1>1, <1>2, Sizes DEF TypeOK
<1>4. Covered'
  BY <1>1, <1>3, CostStays
<1>5. OnlyScored' /\ Known' /\ Valid(cache)' \subseteq Asked'
  BY RestStays DEF CostInv
<1> QED BY <1>4, <1>5 DEF CostInv

\* What becomes of the record that got one more sample.
LEMMA GotTo ==
    ASSUME TypeOK, NEW r \in Record, NEW a, Got(r, a)
    PROVE  /\ work'[r].at \in {"sample", "commit", "done"}
           /\ \A q \in Record \ {r} : work'[q] = work[q]
<1> DEFINE got == Append(work[r].got, a)
           w == IF Len(got) < K THEN [at |-> "sample", got |-> got, row |-> None] ELSE Tally(got)
<1>1. w.at \in {"sample", "commit", "done"}
  BY DEF Tally
<1>2. work' = [work EXCEPT ![r] = w]
  BY DEF Got
<1> HIDE DEF w
<1> QED BY <1>1, <1>2 DEF TypeOK

\* Start, and the main thread.
LEMMA MainCosts ==
    ASSUME IndInv, IndInv', CostInv, Start \/ Main
    PROVE  CostInv'
<1>1. CASE Start
  <2>1. /\ pc = "down" /\ memCache' = cache
        /\ UNCHANGED <<cache, cacheTorn, billed, accidents, work>>
    BY <1>1 DEF Start, MayStart, store, counts
  <2>2. \A q \in Record : work[q] = Queued /\ work[q].at = "queued"
    BY <2>1 DEF IndInv, FutureTold, Queued
  <2>3. Covered'
    <3>1. Torn' = Torn /\ Early' \subseteq Early /\ TypeOK /\ TypeOK' /\ Covered
      BY <2>1, NoneEarlier DEF IndInv, CostInv, Torn
    <3>2. billed' + Torn' =< billed + Torn
      BY <2>1, <3>1, Sizes DEF TypeOK
    <3> QED BY <2>1, <3>1, <3>2, CostStays
  <2>4. OnlyScored' /\ Known'
    BY <2>1, <2>2 DEF OnlyScored, Known
  <2>5. Valid(cache)' \subseteq Asked'
    BY <2>1 DEF CostInv, Valid, Asked, SampleOf
  <2> QED BY <2>3, <2>4, <2>5 DEF CostInv
<1>2. CASE Raised \/ Exit
  <2>1. Gone /\ UNCHANGED <<cache, cacheTorn, billed, accidents>>
    BY <1>2 DEF Raised, Exit, store, counts
  <2>2. \A q \in Record : work'[q].at = "queued"
    BY <2>1 DEF Gone, Queued
  <2> QED BY <2>1, <2>2, QuietCosts DEF Gone
<1>3. CASE Finished \/ Drained \/ EmitOutput \/ EmitManifest
  <2>1. /\ pc # "down"
        /\ UNCHANGED <<cache, cacheTorn, billed, accidents, memCache, work>>
    BY <1>3 DEF Finished, Drained, EmitOutput, EmitManifest, Collect, store, memory, counts
  <2> QED BY <2>1, QuietCosts
<1> QED BY <1>1, <1>2, <1>3 DEF Main

\* Begin, CallFailed, Commit: no call is started.
LEMMA PlainCosts ==
    ASSUME IndInv, IndInv', CostInv, NEW r \in Record,
           Begin(r) \/ CallFailed(r) \/ Commit(r)
    PROVE  CostInv'
<1>1. CASE Begin(r)
  <2>1. /\ work' = [work EXCEPT ![r] = Begun(r)] /\ pc # "down" /\ work[r].at = "queued"
        /\ UNCHANGED <<cache, cacheTorn, billed, accidents, memCache, pc>>
    BY <1>1 DEF Begin, Queued, store, memory, counts
  <2>2. work'[r] = Begun(r) /\ \A q \in Record \ {r} : work'[q] = work[q]
    BY <2>1 DEF IndInv, TypeOK
  <2>3. /\ Begun(r).at # "calling"
        /\ Begun(r).at = "sample" => r \in Scored
    BY DEF Begun, Queued, Scored
  <2>4. Early' \subseteq Early
    BY <2>1, <2>2, <2>3, NoneEarlier
  <2>5. Torn' = Torn /\ TypeOK /\ TypeOK' /\ Covered
    BY <2>1 DEF IndInv, CostInv, Torn
  <2>6. billed' + Torn' =< billed + Torn
    BY <2>1, <2>5, Sizes DEF TypeOK
  <2>7. Covered'
    BY <2>1, <2>4, <2>5, <2>6, CostStays
  <2>8. OnlyScored' /\ Known'
    BY <2>1, <2>2, <2>3 DEF CostInv, OnlyScored, Known
  <2>9. Valid(cache)' \subseteq Asked'
    BY <2>1 DEF CostInv, Valid, Asked, SampleOf
  <2> QED BY <2>7, <2>8, <2>9 DEF CostInv
<1>2. CASE CallFailed(r)
  <2>1. /\ work[r].at = "calling" /\ Got(r, "error") /\ Trouble(FALSE)
        /\ UNCHANGED <<cache, cacheTorn, billed, memCache>>
    BY <1>2 DEF CallFailed, store, memory
  <2>2. pc # "down" /\ accidents' = accidents
    BY <2>1, PoolOpen DEF Trouble, IndInv, TypeOK, Working
  <2>3. /\ work'[r].at \in {"sample", "commit", "done"}
        /\ \A q \in Record \ {r} : work'[q] = work[q]
    BY <2>1, GotTo DEF IndInv
  <2> QED BY <2>1, <2>2, <2>3, QuietCosts
<1>3. CASE Commit(r)
  <2>1. /\ work[r].at = "commit" /\ work' = [work EXCEPT ![r].at = "done"]
        /\ UNCHANGED <<cache, cacheTorn, billed, accidents, memCache>>
    BY <1>3 DEF Commit, Goes, counts
  <2>2. pc # "down"
    BY <2>1, PoolOpen DEF Working
  <2>3. work'[r].at = "done" /\ \A q \in Record \ {r} : work'[q] = work[q]
    BY <2>1 DEF IndInv, TypeOK, Future
  <2> QED BY <2>1, <2>2, <2>3, QuietCosts
<1> QED BY <1>1, <1>2, <1>3

\* Consult: the call that is made is of a sample the file does not have.
LEMMA ConsultCosts ==
    ASSUME IndInv, IndInv', CostInv, NEW r \in Record, Consult(r)
    PROVE  CostInv'
<1>1. /\ work[r].at = "sample" /\ pc # "down" /\ pc' = pc
      /\ UNCHANGED <<cache, cacheTorn, billed, accidents, memCache>>
  BY Sampled DEF Consult, store, memory, counts
<1>2. CASE Cached(KeyOf(r))
  <2>1. /\ work'[r].at \in {"sample", "commit", "done"}
        /\ \A q \in Record \ {r} : work'[q] = work[q]
    BY <1>2, GotTo DEF Consult, IndInv
  <2> QED BY <1>1, <2>1, QuietCosts
<1>3. CASE ~Cached(KeyOf(r))
  <2>1. work' = [work EXCEPT ![r].at = "calling"]
    BY <1>3 DEF Consult, Goes
  <2>2. /\ work'[r].got = work[r].got /\ \A q \in Record \ {r} : work'[q] = work[q]
    BY <2>1 DEF IndInv, TypeOK, Future
  <2>3. cache[KeyOf(r)] = None
    BY <1>1, <1>3, Keys DEF Cached, CostInv, Known, IndInv
  <2>4. KeyOf(r)' = KeyOf(r) /\ \A q \in Record \ {r} : KeyOf(q)' = KeyOf(q)
    BY <2>2 DEF KeyOf
  <2>5. Early' \subseteq Early
    BY <1>1, <2>2, <2>3, <2>4 DEF Early, Busy
  <2>6. Torn' = Torn /\ TypeOK /\ TypeOK' /\ Covered
    BY <1>1 DEF IndInv, CostInv, Torn
  <2>7. billed' + Torn' =< billed + Torn
    BY <1>1, <2>6, Sizes DEF TypeOK
  <2>8. Covered'
    BY <1>1, <2>5, <2>6, <2>7, CostStays
  <2>9. OnlyScored' /\ Known' /\ Valid(cache)' \subseteq Asked'
    BY <1>1, <2>2, RestStays DEF CostInv
  <2> QED BY <2>8, <2>9 DEF CostInv
<1> QED BY <1>2, <1>3

\* A kill, a failed write or a Ctrl-C without a pool: at most what the pool
\* has in flight is paid for in vain, and at most one line is torn.
LEMMA TroubleCovered ==
    ASSUME TypeOK, TypeOK', Covered, cache' = cache, Early' \subseteq Early,
           accidents' = accidents + 1, NEW n \in Nat, n =< MaxConcurrent, billed' = billed + n
    PROVE  Covered'
<1>1. /\ billed \in Nat /\ Cardinality(Early) \in Nat /\ Torn \in Int /\ Torn >= 0
      /\ IsFiniteSet(Early) /\ MaxConcurrent \in Nat
  BY Sizes, PassKAssumption DEF TypeOK
<1>2. Cardinality(Early') =< Cardinality(Early) /\ Cardinality(Early') \in Nat
  BY <1>1, FS_Subset, FS_CardinalityType
<1>3. Torn' \in Int /\ Torn' =< 1
  BY DEF Torn
<1>4. PICK b \in Nat, t \in Int, u \in Int, e \in Nat, f \in Nat, m \in Nat :
        /\ b = billed /\ t = Torn /\ u = Torn'
        /\ e = Cardinality(Early) /\ f = Cardinality(Early') /\ m = MaxConcurrent
  BY <1>1, <1>2, <1>3, Zenon
<1>5. (b + n) + u + f =< b + t + e + m + 1
  <2>1. n =< m /\ u =< 1 /\ t >= 0 /\ f =< e
    BY <1>1, <1>2, <1>3, <1>4
  <2> QED BY <2>1
<1>6. billed' + Torn' + Cardinality(Early')
        =< billed + Torn + Cardinality(Early) + MaxConcurrent + 1
  BY <1>4, <1>5
<1> QED BY <1>6, CostStays

\* Kill: the calls in flight are paid, the process is gone.
LEMMA KillCosts ==
    ASSUME IndInv, IndInv', CostInv, Kill
    PROVE  CostInv'
<1>1. /\ Gone /\ cache' = cache /\ accidents' = accidents + 1
      /\ billed' = billed + Cardinality(Busy("calling"))
  BY DEF Kill, Trouble
<1>2. Early' = {} /\ OnlyScored' /\ Known' /\ Valid(cache)' \subseteq Asked'
  BY <1>1, GoneCosts
<1>3. /\ Cardinality(Busy("calling")) \in Nat /\ Cardinality(Busy("calling")) =< MaxConcurrent
      /\ TypeOK /\ TypeOK' /\ Covered
  BY Sizes DEF IndInv, CostInv
<1>4. Covered'
  BY <1>1, <1>2, <1>3, TroubleCovered
<1> QED BY <1>2, <1>4 DEF CostInv

\* WriteFails: the answer of the failed append is paid.
LEMMA WriteFailsCosts ==
    ASSUME IndInv, IndInv', CostInv, NEW r \in Record, WriteFails(r)
    PROVE  CostInv'
<1>1. /\ work[r].at \in {"calling", "commit"} /\ accidents' = accidents + 1
      /\ billed' = billed + (IF work[r].at = "calling" THEN 1 ELSE 0) /\ cache' = cache
  BY DEF WriteFails, Trouble
<1>2. PICK n \in Nat : n =< MaxConcurrent /\ billed' = billed + n
  <2>1. 0 =< MaxConcurrent /\ 1 =< MaxConcurrent
    BY PassKAssumption
  <2> QED BY <1>1, <2>1
<1>3. TypeOK /\ TypeOK' /\ Covered
  BY DEF IndInv, CostInv
<1>4. CASE MaxConcurrent = 1
  <2>1. Early' = {} /\ OnlyScored' /\ Known' /\ Valid(cache)' \subseteq Asked'
    BY <1>1, <1>4, GoneCosts DEF WriteFails
  <2>2. Covered'
    BY <1>1, <1>2, <1>3, <2>1, TroubleCovered
  <2> QED BY <2>1, <2>2 DEF CostInv
<1>5. CASE MaxConcurrent # 1
  <2>1. work' = [work EXCEPT ![r].at = "failed"] /\ memCache' = memCache
    BY <1>5 DEF WriteFails, Goes, memory
  <2>2. work'[r].at = "failed" /\ \A q \in Record \ {r} : work'[q] = work[q]
    BY <2>1 DEF IndInv, TypeOK, Future
  <2>3. pc # "down"
    BY <1>1, PoolOpen DEF Working
  <2>4. OnlyScored' /\ Known' /\ Valid(cache)' \subseteq Asked'
    BY <1>1, <2>1, <2>2, <2>3, RestStays DEF CostInv
  <2>5. Early' \subseteq Early
    BY <1>1, <2>2, NoneEarlier
  <2>6. Covered'
    BY <1>1, <1>2, <1>3, <2>5, TroubleCovered
  <2> QED BY <2>4, <2>6 DEF CostInv
<1> QED BY <1>4, <1>5

\* Interrupt: a pool drops what is queued, which costs nothing.
LEMMA InterruptCosts ==
    ASSUME IndInv, IndInv', CostInv, Interrupt
    PROVE  CostInv'
<1> DEFINE gone == [Queued EXCEPT !.at = "cancelled"]
           dropped == Busy("queued") \cup (IF MaxConcurrent = 1 THEN Active ELSE {})
           n == Cardinality(dropped \cap Busy("calling"))
<1>1. /\ pc # "down" /\ Trouble(MaxConcurrent = 1)
      /\ work' = [q \in Record |-> IF q \in dropped THEN gone ELSE work[q]]
      /\ billed' = billed + n /\ UNCHANGED <<cache, cacheTorn, memCache>>
  BY DEF Interrupt, store, memory
<1>2. gone.at = "cancelled"
  BY DEF Queued
<1>3. \A q \in Record : work'[q] = work[q] \/ work'[q].at = "cancelled"
  BY <1>1, <1>2
<1>4. OnlyScored' /\ Known' /\ Valid(cache)' \subseteq Asked' /\ Early' \subseteq Early
  BY <1>1, <1>3, RestStays, NoneEarlier DEF CostInv
<1>5. TypeOK /\ TypeOK' /\ Covered
  BY DEF IndInv, CostInv
<1>6. CASE MaxConcurrent = 1
  <2>1. n \in Nat /\ n =< MaxConcurrent
    <3>1. /\ IsFiniteSet(Busy("calling")) /\ Cardinality(Busy("calling")) \in Nat
          /\ Cardinality(Busy("calling")) =< MaxConcurrent
      BY <1>5, Sizes, PassKAssumption, FS_Subset DEF Busy
    <3>2. dropped \cap Busy("calling") \in SUBSET Busy("calling")
      OBVIOUS
    <3> HIDE DEF dropped
    <3>3. IsFiniteSet(dropped \cap Busy("calling")) /\ n =< Cardinality(Busy("calling"))
      BY <3>1, <3>2, FS_Subset
    <3>4. n \in Nat
      BY <3>3, FS_CardinalityType
    <3> HIDE DEF n
    <3> QED BY <3>1, <3>3, <3>4, PassKAssumption
  <2>2. accidents' = accidents + 1
    BY <1>1, <1>6 DEF Trouble
  <2>3. billed' = billed + n
    BY <1>1
  <2> HIDE DEF n
  <2>4. Covered'
    BY <1>1, <1>4, <1>5, <2>1, <2>2, <2>3, TroubleCovered
  <2> QED BY <1>4, <2>4 DEF CostInv
<1>7. CASE MaxConcurrent # 1
  <2>1. dropped \cap Busy("calling") = {}
    BY <1>7 DEF Busy
  <2>2. n = 0
    BY <2>1, FS_EmptySet
  <2>3. billed' = billed
    BY <1>1, <2>2, <1>5 DEF TypeOK
  <2>4. accidents' = accidents
    BY <1>1, <1>5, <1>7 DEF Trouble, TypeOK
  <2> QED BY <1>1, <1>3, <2>3, <2>4, QuietCosts
<1> QED BY <1>6, <1>7

\* The bill after an answer, when the cache file has one line more: the others
\* who wait for the same sample are as many as that line entitles, but for one.
LEMMA AnswerBill ==
    ASSUME NEW Same, NEW New, NEW Old, NEW r, IsFiniteSet(Same), IsFiniteSet(New),
           IsFiniteSet(Old), r \in Same, NEW f \in Injection(Same, New),
           NEW Now \in SUBSET (Old \cup (Same \ {r}))
    PROVE  /\ IsFiniteSet(Now) /\ Cardinality(Now) \in Nat /\ Cardinality(Old) \in Nat
           /\ Cardinality(New) \in Nat
           /\ Cardinality(Now) + 1 =< Cardinality(Old) + Cardinality(New)
<1>1. Cardinality(Same) =< Cardinality(New)
  BY FS_Injection
<1>2. IsFiniteSet(Same \ {r}) /\ Cardinality(Same \ {r}) = Cardinality(Same) - 1
  BY FS_RemoveElement
<1>3. /\ IsFiniteSet(Old \cup (Same \ {r}))
      /\ Cardinality(Old \cup (Same \ {r}))
           = Cardinality(Old) + Cardinality(Same \ {r}) - Cardinality(Old \cap (Same \ {r}))
  BY <1>2, FS_Union
<1>4. IsFiniteSet(Old \cap (Same \ {r}))
  BY FS_Intersection
<1>5. IsFiniteSet(Now) /\ Cardinality(Now) =< Cardinality(Old \cup (Same \ {r}))
  BY <1>3, FS_Subset
<1>6. /\ Cardinality(Now) \in Nat /\ Cardinality(Old) \in Nat /\ Cardinality(New) \in Nat
      /\ Cardinality(Same) \in Nat /\ Cardinality(Old \cap (Same \ {r})) \in Nat
  BY <1>4, <1>5, FS_CardinalityType
<1> QED BY <1>1, <1>2, <1>3, <1>5, <1>6

\* Answered: the answer is paid, and entitles those who share its statement.
LEMMA AnsweredCosts ==
    ASSUME IndInv, IndInv', CostInv, NEW r \in Record, Answered(r)
    PROVE  CostInv'
<1> DEFINE k == KeyOf(r)
           i == Len(work[r].got)
<1>1. PICK a \in Answer :
        /\ cache' = IF cacheTorn THEN cache ELSE [cache EXCEPT ![k] = a]
        /\ memCache' = [memCache EXCEPT ![k] = a]
        /\ Got(r, a)
  BY DEF Answered
<1>2. /\ work[r].at = "calling" /\ cacheTorn' = FALSE /\ billed' = billed + 1
      /\ accidents' = accidents /\ pc' = pc /\ a # None
  BY Something DEF Answered, counts
<1>3. /\ TypeOK /\ TypeOK' /\ Covered /\ r \in Scored
      /\ \A q \in Busy("calling") : q \in Scored
  BY <1>2 DEF IndInv, CostInv, OnlyScored, Busy
<1>4. k \in Key /\ i \in Sample /\ k = SampleOf(<<r, i>>) /\ k \in Asked
  <2>1. k \in Key /\ i \in Sample
    BY <1>3, PassKAssumption DEF TypeOK, Future, Sample, Key, KeyOf
  <2>2. k = SampleOf(<<r, i>>) /\ <<r, i>> \in Scored \X Sample
    BY <1>3, <2>1 DEF KeyOf, SampleOf
  <2> QED BY <2>1, <2>2 DEF Asked
<1> HIDE DEF k, i
<1>5. /\ work'[r].at \in {"sample", "commit", "done"}
      /\ \A q \in Record \ {r} : work'[q] = work[q]
  BY <1>1, <1>3, GotTo
<1>6. /\ cache \in [Key -> Answer \cup {None}] /\ memCache \in [Key -> Answer \cup {None}]
      /\ IsFiniteSet(Early) /\ IsFiniteSet(Entitled) /\ Cardinality(Entitled) \in Nat
      /\ billed \in Nat /\ accidents \in Nat /\ Price(accidents) \in Nat
  BY <1>3, Sizes, OneMore DEF TypeOK
<1>7. \A q \in Busy("calling")' : q \in Busy("calling") /\ q # r /\ KeyOf(q)' = KeyOf(q)
  BY <1>5 DEF Busy, KeyOf
<1>8. OnlyScored' /\ Known'
  <2>1. OnlyScored'
    BY <1>3, <1>5 DEF OnlyScored, CostInv
  <2>2. pc # "down"
    BY <1>2, PoolOpen DEF Working
  <2>3. ASSUME NEW j \in Key, cache'[j] # None PROVE memCache'[j] # None
    <3>1. CASE j = k
      BY <1>1, <1>2, <1>6, <3>1
    <3>2. CASE j # k
      <4>1. cache'[j] = cache[j] /\ memCache'[j] = memCache[j]
        BY <1>1, <1>6, <3>2
      <4> QED BY <2>2, <2>3, <4>1 DEF CostInv, Known
    <3> QED BY <3>1, <3>2
  <2> QED BY <2>1, <2>3 DEF Known
<1>9. Valid(cache)' \subseteq Asked'
  <2>1. SUFFICES ASSUME NEW j \in Valid(cache)' PROVE j \in Asked
    BY DEF Asked, SampleOf
  <2>2. j \in Key /\ cache'[j] # None
    BY <1>1, <1>6 DEF Valid
  <2>3. CASE j = k
    BY <1>4, <2>3
  <2>4. CASE j # k
    <3>1. cache[j] # None
      BY <1>1, <1>6, <2>2, <2>4
    <3> QED BY <1>6, <2>2, <3>1 DEF CostInv, Valid
  <2> QED BY <2>3, <2>4
<1>10. CASE cacheTorn
  <2>1. cache' = cache /\ Torn' = 0 /\ Torn = 1
    BY <1>1, <1>2, <1>10 DEF Torn
  <2>2. Early' \subseteq Early
    BY <1>7, <2>1 DEF Early
  <2>3. billed' + Torn' =< billed + Torn
    BY <1>2, <1>6, <2>1
  <2> QED BY <1>2, <1>3, <1>8, <1>9, <2>1, <2>2, <2>3, CostStays DEF CostInv
<1>11. CASE ~cacheTorn
  <2>1. cache' = [cache EXCEPT ![k] = a] /\ Torn' = 0 /\ Torn = 0
    BY <1>1, <1>2, <1>11 DEF Torn
  <2>2. PICK b \in Nat, e \in Nat, n \in Nat, p \in Nat :
          /\ b = billed /\ e = Cardinality(Early)
          /\ n = Cardinality(Entitled) /\ p = Price(accidents)
    <3>1. Cardinality(Early) \in Nat
      BY <1>6, FS_CardinalityType
    <3> QED BY <1>6, <3>1, Zenon
  <2>3. b + e =< p + n
    <3>1. b + 0 + e =< p + n
      BY <2>1, <2>2 DEF Covered, CostInv
    <3> QED BY <3>1
  <2>4. Covered' = (billed' + 0 + Cardinality(Early') =< Price(accidents') + Cardinality(Entitled'))
    BY <2>1 DEF Covered, Price
  <2>5. billed' = b + 1 /\ Price(accidents') = p
    BY <1>2, <2>2
  <2>6. CASE cache[k] # None
    <3>1. r \in Early
      BY <1>2, <2>6 DEF Early, Busy, k
    <3>2. Entitled' = Entitled
      <4>1. \A x \in Scored \X Sample :
              cache'[SampleOf(x)] # None <=> cache[SampleOf(x)] # None
        <5>1. TAKE x \in Scored \X Sample
        <5>2. CASE SampleOf(x) = k
          BY <1>2, <1>4, <1>6, <2>1, <2>6, <5>2
        <5>3. CASE SampleOf(x) # k
          BY <1>6, <2>1, <5>3
        <5> QED BY <5>2, <5>3
      <4> QED BY <4>1 DEF Entitled, SampleOf
    <3>3. Early' \in SUBSET (Early \ {r})
      <4>1. ASSUME NEW q \in Early' PROVE q \in Early /\ q # r
        <5>1. q \in Busy("calling") /\ q # r /\ cache'[KeyOf(q)] # None
          BY <1>7 DEF Early
        <5>2. cache[KeyOf(q)] # None
          BY <1>6, <2>1, <2>6, <5>1
        <5> QED BY <5>1, <5>2 DEF Early
      <4> QED BY <4>1
    <3>4. IsFiniteSet(Early \ {r}) /\ Cardinality(Early \ {r}) = e - 1
      BY <1>6, <2>2, <3>1, FS_RemoveElement
    <3>5. Cardinality(Early') =< e - 1 /\ IsFiniteSet(Early')
      BY <3>3, <3>4, FS_Subset
    <3>6. PICK f \in Nat : f = Cardinality(Early')
      BY <3>5, FS_CardinalityType
    <3>7. (b + 1) + 0 + f =< p + n
      BY <2>3, <3>5, <3>6
    <3>8. Covered'
      BY <2>2, <2>4, <2>5, <3>2, <3>6, <3>7
    <3> QED BY <1>8, <1>9, <3>8 DEF CostInv
  <2>7. CASE cache[k] = None
    <3> DEFINE Same == {q \in Busy("calling") : KeyOf(q) = k}
               New  == {x \in Scored \X Sample : SampleOf(x) = k}
               g    == [q \in Same |-> <<q, i>>]
    <3>1. IsFiniteSet(Same) /\ IsFiniteSet(New) /\ r \in Same
      <4>1. IsFiniteSet(Record) /\ IsFiniteSet(Scored \X Sample)
        BY <1>3, Sizes
      <4>2. Same \in SUBSET Record /\ New \in SUBSET (Scored \X Sample)
        BY DEF Busy
      <4>3. r \in Same
        BY <1>2 DEF Busy, k
      <4> HIDE DEF Same, New
      <4> QED BY <4>1, <4>2, <4>3, FS_Subset
    <3>2. g \in Injection(Same, New)
      <4>1. ASSUME NEW q \in Same PROVE <<q, i>> \in New
        <5>1. q \in Scored /\ KeyOf(q) = k
          BY <1>3
        <5>2. SampleOf(<<q, i>>) = k
          BY <5>1 DEF SampleOf, KeyOf, k, i
        <5> QED BY <1>4, <5>1, <5>2
      <4>2. g \in [Same -> New]
        BY <4>1
      <4>3. \A q, s \in Same : g[q] = g[s] => q = s
        OBVIOUS
      <4> HIDE DEF g, Same, New
      <4> QED BY <4>2, <4>3 DEF Injection, IsInjective
    <3>3. Early' \in SUBSET (Early \cup (Same \ {r}))
      <4>1. ASSUME NEW q \in Early' PROVE q \in Early \cup (Same \ {r})
        <5>1. q \in Busy("calling") /\ q # r /\ cache'[KeyOf(q)] # None
          BY <1>7 DEF Early
        <5>2. CASE KeyOf(q) = k
          BY <5>1, <5>2
        <5>3. CASE KeyOf(q) # k
          <6>1. cache[KeyOf(q)] # None
            BY <1>6, <2>1, <5>1, <5>3
          <6> QED BY <5>1, <6>1 DEF Early
        <5> QED BY <5>2, <5>3
      <4> QED BY <4>1
    <3>4. Entitled' = Entitled \cup New /\ Entitled \cap New = {}
      <4>1. \A x \in Scored \X Sample :
              /\ SampleOf(x) = k => cache'[SampleOf(x)] # None /\ cache[SampleOf(x)] = None
              /\ SampleOf(x) # k => cache'[SampleOf(x)] = cache[SampleOf(x)]
        BY <1>2, <1>4, <1>6, <2>1, <2>7
      <4>2. Entitled' = {x \in Scored \X Sample : cache'[SampleOf(x)] # None}
        BY DEF Entitled, SampleOf
      <4> QED BY <4>1, <4>2 DEF Entitled
    <3> HIDE DEF Same, New, g
    <3>5. /\ IsFiniteSet(Early') /\ Cardinality(Early') \in Nat /\ Cardinality(New) \in Nat
          /\ Cardinality(Early') + 1 =< Cardinality(Early) + Cardinality(New)
      BY <1>6, <3>1, <3>2, <3>3, AnswerBill
    <3>6. Cardinality(Entitled') = Cardinality(Entitled) + Cardinality(New)
      <4>1. Cardinality(Entitled \cup New)
              = Cardinality(Entitled) + Cardinality(New) - Cardinality(Entitled \cap New)
        BY <1>6, <3>1, FS_Union
      <4>2. Cardinality(Entitled \cap New) = 0
        BY <3>4, FS_EmptySet
      <4> QED BY <1>6, <3>4, <3>5, <4>1, <4>2
    <3>7. PICK f \in Nat, m \in Nat : f = Cardinality(Early') /\ m = Cardinality(New)
      BY <3>5
    <3>8. f + 1 =< e + m
      BY <2>2, <3>5, <3>7
    <3>9. (b + 1) + 0 + f =< p + (n + m)
      BY <2>3, <3>8
    <3>10. Covered'
      BY <2>2, <2>4, <2>5, <3>6, <3>7, <3>9
    <3> QED BY <1>8, <1>9, <3>10 DEF CostInv
  <2> QED BY <2>6, <2>7
<1> QED BY <1>10, <1>11

\* No step costs more than it may.
LEMMA StepCosts ==
    ASSUME IndInv, IndInv', CostInv, [Next]_vars
    PROVE  CostInv'
<1>1. CASE Start \/ Main
  BY <1>1, MainCosts
<1>2. CASE Interrupt \/ Kill
  BY <1>2, InterruptCosts, KillCosts
<1>3. CASE \E r \in Record : Worker(r) \/ WriteFails(r)
  BY <1>3, PlainCosts, ConsultCosts, AnsweredCosts, WriteFailsCosts DEF Worker
<1>4. CASE UNCHANGED vars
  <2>1. UNCHANGED <<cache, cacheTorn, billed, accidents, memCache, pc, work>>
    BY <1>4 DEF vars, store, memory, counts
  <2> QED BY <2>1, QuietCosts
<1> QED BY <1>1, <1>2, <1>3, <1>4 DEF Next

LEMMA InitCosts ==
    ASSUME Init
    PROVE  CostInv
<1>1. /\ \A r \in Record : work[r].at = "queued"
      /\ \A k \in Key : cache[k] = None
      /\ DOMAIN cache = Key /\ cacheTorn = FALSE /\ pc = "down" /\ billed = 0 /\ accidents = 0
  BY DEF Init, Queued
<1>2. OnlyScored /\ Known /\ Valid(cache) = {} /\ Early = {}
  BY <1>1 DEF OnlyScored, Known, Valid, Early, Busy
<1>3. Cardinality(Early) = 0 /\ Torn = 0
  BY <1>1, <1>2, FS_EmptySet DEF Torn
<1>4. Price(0) \in Nat /\ Cardinality(Entitled) \in Nat
  BY InitInv, Sizes, OneMore DEF IndInv
<1>5. 0 =< Price(0) + Cardinality(Entitled)
  BY <1>4
<1>6. billed + Torn + Cardinality(Early) = 0
  BY <1>1, <1>3
<1>7. Covered
  BY <1>1, <1>5, <1>6 DEF Covered
<1> QED BY <1>2, <1>7 DEF CostInv

\* A line of the cache file entitles as many answers as records share it.
LEMMA SharedLines ==
    ASSUME TypeOK, Valid(cache) \subseteq Asked
    PROVE  /\ Cardinality(Valid(cache)) \in Nat
           /\ Cardinality(Entitled) =< Cardinality(Valid(cache)) + AskedTwice
<1> DEFINE Total == Scored \X Sample
           Qs    == {QuestionOf[r] : r \in Scored}
           Rest  == Total \ Entitled
           Bare  == Asked \ Valid(cache)
           f     == [x \in Rest |-> SampleOf(x)]
           h     == [r \in Scored |-> QuestionOf[r]]
<1>1. IsFiniteSet(Scored) /\ IsFiniteSet(Sample) /\ IsFiniteSet(Total) /\ Cardinality(Sample) = K
  <2>1. Cardinality(0..(K - 1)) = K
    BY FS_Interval, PassKAssumption
  <2> QED BY <2>1, Sizes DEF Sample
<1>2. IsFiniteSet(Qs)
  <2>1. h \in Surjection(Scored, Qs)
    BY DEF Surjection
  <2> QED BY <1>1, <2>1, FS_Surjection
<1>3. Asked = Qs \X Sample
  <2>1. ASSUME NEW y \in Qs \X Sample PROVE y \in Asked
    <3>1. PICK r \in Scored : y = <<QuestionOf[r], y[2]>> /\ y[2] \in Sample
      OBVIOUS
    <3>2. SampleOf(<<r, y[2]>>) = y /\ <<r, y[2]>> \in Total
      BY <3>1 DEF SampleOf
    <3> QED BY <3>2 DEF Asked
  <2>2. \A x \in Total : SampleOf(x) \in Qs \X Sample
    BY DEF SampleOf
  <2> QED BY <2>1, <2>2 DEF Asked
<1>4. f \in Surjection(Rest, Bare)
  <2>1. DOMAIN cache = Key
    BY DEF TypeOK
  <2>2. ASSUME NEW x \in Rest PROVE SampleOf(x) \in Bare
    BY DEF Asked, Entitled, Valid
  <2>3. ASSUME NEW y \in Bare PROVE \E x \in Rest : SampleOf(x) = y
    <3>1. PICK x \in Total : y = SampleOf(x)
      BY DEF Asked
    <3>2. SampleOf(x) \in Key
      BY PassKAssumption DEF SampleOf, Key, Scored
    <3>3. cache[SampleOf(x)] = None
      BY <2>1, <3>1, <3>2 DEF Valid
    <3> QED BY <3>1, <3>3 DEF Entitled
  <2>4. f \in [Rest -> Bare]
    BY <2>2
  <2>5. \A y \in Bare : \E x \in Rest : f[x] = y
    BY <2>3
  <2> HIDE DEF f, Rest, Bare
  <2> QED BY <2>4, <2>5 DEF Surjection
<1>5. Entitled \in SUBSET Total /\ Total \cap Entitled = Entitled
  BY DEF Entitled
<1>6. Asked \cap Valid(cache) = Valid(cache)
  OBVIOUS
<1> HIDE DEF Total, Qs, Rest, Bare, f, h
<1>7. /\ Cardinality(Total) = Cardinality(Scored) * K
      /\ IsFiniteSet(Asked) /\ Cardinality(Asked) = Cardinality(Qs) * K
  BY <1>1, <1>2, <1>3, FS_Product DEF Total
<1>8. /\ IsFiniteSet(Rest) /\ Cardinality(Rest) = Cardinality(Total) - Cardinality(Entitled)
      /\ Cardinality(Bare) = Cardinality(Asked) - Cardinality(Valid(cache))
  <2>1. /\ IsFiniteSet(Total \ Entitled)
        /\ Cardinality(Total \ Entitled) = Cardinality(Total) - Cardinality(Total \cap Entitled)
    BY <1>1, FS_Difference
  <2>2. Cardinality(Asked \ Valid(cache))
          = Cardinality(Asked) - Cardinality(Asked \cap Valid(cache))
    BY <1>7, FS_Difference
  <2> QED BY <1>5, <1>6, <2>1, <2>2 DEF Rest, Bare
<1>9. Cardinality(Bare) =< Cardinality(Rest)
  BY <1>4, <1>8, FS_Surjection
<1>10. IsFiniteSet(Valid(cache)) /\ Cardinality(Valid(cache)) \in Nat
  BY <1>7, FS_Subset, FS_CardinalityType
<1>11. /\ Cardinality(Scored) \in Nat /\ Cardinality(Qs) \in Nat /\ K \in Nat
       /\ Cardinality(Entitled) \in Nat
  BY <1>1, <1>2, PassKAssumption, Sizes, FS_CardinalityType
<1>12. PICK s \in Nat, q \in Nat, k \in Nat, e \in Nat, v \in Nat :
         /\ s = Cardinality(Scored) /\ q = Cardinality(Qs) /\ k = K
         /\ e = Cardinality(Entitled) /\ v = Cardinality(Valid(cache))
  BY <1>10, <1>11, Zenon
<1>13. q * k - v =< s * k - e
  BY <1>7, <1>8, <1>9, <1>12
<1>14. s * k \in Int /\ q * k \in Int /\ k * (s - q) = s * k - q * k
  OBVIOUS
<1>15. e =< v + k * (s - q)
  BY <1>13, <1>14
<1>16. AskedTwice = k * (s - q)
  BY <1>12 DEF AskedTwice, Qs
<1> QED BY <1>10, <1>12, <1>15, <1>16

\* Over all runs, the answers paid for and not in the cache file are at most
\* the calls in flight at each kill or failed write, one more for the line
\* glued to a torn one, and one rollout each of records that share a statement.
THEOREM TroubleCosts == Spec => []KillCost
<1>1. IndInv /\ CostInv /\ [Next]_vars /\ IndInv' => CostInv'
  BY StepCosts
<1>2. IndInv /\ CostInv => KillCost
  <2> SUFFICES ASSUME IndInv, CostInv PROVE KillCost
    OBVIOUS
  <2>1. TypeOK /\ Covered /\ Valid(cache) \subseteq Asked
    BY DEF IndInv, CostInv
  <2>2. /\ Cardinality(Valid(cache)) \in Nat /\ billed \in Nat /\ Price(accidents) \in Nat
        /\ Torn \in Nat /\ Cardinality(Early) \in Nat /\ Cardinality(Entitled) \in Nat
    <3>1. accidents \in Nat /\ billed \in Nat
      BY <2>1 DEF TypeOK
    <3>2. Torn \in Nat
      BY DEF Torn
    <3> QED BY <2>1, <3>1, <3>2, Sizes, SharedLines, OneMore
  <2>3. PICK b \in Nat, t \in Nat, e \in Nat, n \in Nat, v \in Nat, p \in Nat :
          /\ b = billed /\ t = Torn /\ e = Cardinality(Early) /\ n = Cardinality(Entitled)
          /\ v = Cardinality(Valid(cache)) /\ p = Price(accidents)
    BY <2>2, Zenon
  <2>4. AskedTwice \in Int
    <3>1. Cardinality(Scored) \in Int /\ K \in Int
      BY <2>1, Sizes, FS_CardinalityType, PassKAssumption
    <3>2. Cardinality({QuestionOf[r] : r \in Scored}) \in Int
      <4> DEFINE Qs == {QuestionOf[r] : r \in Scored}
                 h  == [r \in Scored |-> QuestionOf[r]]
      <4>1. h \in Surjection(Scored, Qs)
        BY DEF Surjection
      <4> HIDE DEF Qs, h
      <4>2. IsFiniteSet(Qs)
        BY <2>1, <4>1, Sizes, FS_Surjection
      <4>3. Cardinality(Qs) \in Int
        BY <4>2, FS_CardinalityType
      <4> QED BY <4>3 DEF Qs
    <3> QED BY <3>1, <3>2 DEF AskedTwice
  <2>5. PICK w \in Int : w = AskedTwice
    BY <2>4
  <2>6. b + t + e =< p + n /\ n =< v + w
    BY <2>1, <2>3, <2>5, SharedLines DEF Covered
  <2>7. b - v =< p + w
    BY <2>6
  <2> QED BY <2>3, <2>5, <2>7 DEF KillCost, Price
<1> QED BY <1>1, <1>2, InitCosts, InvariantHolds, PTL DEF Spec

----------------------------------------------------------------------------
(* Runs serve what is committed, and are what the daemon takes them for.     *)

\* The only step that writes records_done.jsonl is Commit, of a record that
\* has no line there.
LEMMA CommittedOnce ==
    ASSUME IndInv, [Next]_vars
    PROVE  [\A r \in Valid(done) : done'[r] = done[r]]_vars
<1> SUFFICES ASSUME Next PROVE \A r \in Valid(done) : done'[r] = done[r]
  OBVIOUS
<1>1. CASE UNCHANGED done
  BY <1>1
<1>2. ASSUME NEW q \in Record, Commit(q)
      PROVE  \A r \in Valid(done) : done'[r] = done[r]
  <2>1. done[q] = None
    BY <1>2, PoolOpen DEF Commit, IndInv, FutureTold, Working, Loaded
  <2>2. \A r \in Record \ {q} : done'[r] = done[r]
    BY <1>2 DEF Commit, IndInv, TypeOK
  <2> QED BY <2>1, <2>2 DEF Valid, IndInv, TypeOK
<1> QED BY <1>1, <1>2 DEF Next, Start, Main, Finished, Drained, Collect, Raised, EmitOutput,
          EmitManifest, Exit, Interrupt, Kill, Worker, Begin, Consult, Answered, CallFailed,
          WriteFails, store

\* A committed record is served by every later run, and never scored anew.
THEOREM ScoresKept == Spec => ScoreKept
BY CommittedOnce, InvariantHolds, PTL DEF Spec, ScoreKept

\* Whether the process is alive, and its manifest, change as a paid stage's do.
LEMMA StepIsPaidStage ==
    ASSUME IndInv, Next
    PROVE  \/ Stage!Launch \/ Stage!Work \/ Stage!End
           \/ UNCHANGED <<IF pc = "down" THEN {} ELSE {"run"}, manifest>>
<1>1. manifest = "done" => pc \in {"down", "exit"}
  BY DEF IndInv, Emits
<1>2. CASE Start
  BY <1>2 DEF Start, MayStart, Stage!Launch
<1>3. CASE pc # "down" /\ pc' # "down" /\ UNCHANGED manifest
  BY <1>3
<1>4. CASE pc # "down" /\ Gone /\ UNCHANGED manifest
  BY <1>4 DEF Gone, Stage!End
<1>5. CASE EmitManifest
  BY <1>1, <1>5 DEF EmitManifest, Stage!Work
<1>6. CASE Finished \/ Drained \/ EmitOutput
  BY <1>3, <1>6 DEF Finished, Drained, Collect, EmitOutput
<1>7. CASE Raised \/ Exit \/ Kill
  BY <1>4, <1>7 DEF Raised, Exit, Kill, result
<1>8. CASE Interrupt
  BY <1>3, <1>8 DEF Interrupt, result
<1>9. ASSUME NEW r \in Record, Worker(r) \/ WriteFails(r)
      PROVE  pc # "down" /\ UNCHANGED manifest /\ (pc' # "down" \/ Gone)
  <2>1. CASE Begin(r)
    BY <2>1 DEF Begin, result
  <2>2. CASE ~Begin(r)
    <3>1. work[r].at \in Working
      BY <1>9, <2>2 DEF Worker, Consult, Answered, CallFailed, Commit, WriteFails, Working
    <3>2. pc \in {"run", "drain", "raise"}
      BY <3>1, PoolOpen
    <3> QED BY <1>9, <2>2, <3>2 DEF Worker, Consult, Answered, CallFailed, Commit,
              WriteFails, result
  <2> QED BY <2>1, <2>2
<1> QED BY <1>2, <1>3, <1>4, <1>5, <1>6, <1>7, <1>8, <1>9 DEF Next, Main

\* Kills, pauses and failures included, pass@k is the paid stage the daemon
\* takes it for: a complete result is final, and nothing runs after it.
THEOREM ImplementsPaidStage == Spec => IsPaidStage
<1>1. Init => Stage!Init
  BY DEF Init, Stage!Init
<1>2. IndInv /\ [Next]_vars =>
        [Stage!Launch \/ Stage!Work \/ Stage!End]_<<IF pc = "down" THEN {} ELSE {"run"}, manifest>>
  <2>1. ASSUME UNCHANGED vars
        PROVE  UNCHANGED <<IF pc = "down" THEN {} ELSE {"run"}, manifest>>
    BY <2>1 DEF vars, result
  <2> QED BY <2>1, StepIsPaidStage
<1> QED BY <1>1, <1>2, InvariantHolds, PTL DEF Spec, IsPaidStage, Stage!Spec

=============================================================================
