--------------------------- MODULE ProcessingProof ---------------------------
(* Proofs about Cascade and Pipeline: what passes the well-posedness cascade *)
(* has an opinion of every stage behind it, and what the pipeline puts into  *)
(* its final corpus has earned every step. Both are inductive because no     *)
(* step takes back an opinion, an uphold, a pass or a label, so that what an *)
(* earlier invocation left on disk is as good as what this one wrote.        *)
EXTENDS Cascade, Pipeline, FiniteSetTheorems, TLAPS
-----------------------------------------------------------------------------
(* Numbers and the records of a sequence that are in a set.                  *)

Less == {ss \in Nat \X Nat : ss[1] < ss[2]}

LEMMA LessWF == IsWellFoundedOn(Less, Nat)
BY NatLessThanWellFounded, Zenon DEF OpToRel, Less

LEMMA LeastNat ==
  ASSUME NEW S, S \subseteq Nat, S # {}
  PROVE  \E n \in S : \A k \in S : n <= k
<1>1. PICK n \in S : \A k \in S : ~(<<k, n>> \in Less)
  BY LessWF, WFMin, Zenon
<1>2. ASSUME NEW k \in S, ~(n <= k) PROVE FALSE
  <2>1. k \in Nat /\ n \in Nat /\ k < n
    BY <1>2
  <2>2. <<k, n>> \in Less
    BY <2>1 DEF Less
  <2> QED
    BY <1>1, <2>2
<1> QED
  BY <1>2

\* A set with 0 that is closed under the successor, up to N.
LEMMA UpTo ==
  ASSUME NEW N \in Nat, NEW T, 0 \in T, \A n \in 1..N : n - 1 \in T => n \in T
  PROVE  0..N \subseteq T
<1>1. SUFFICES ASSUME (0..N) \ T # {} PROVE FALSE
  OBVIOUS
<1> DEFINE Left == (0..N) \ T
<1>0. Left \subseteq Nat /\ Left # {}
  BY <1>1
<1> HIDE DEF Left
<1>2. PICK n \in Left : \A k \in Left : n <= k
  BY <1>0, LeastNat
<1> USE DEF Left
<1>3. n \in 1..N /\ n - 1 \in 0..N /\ ~(n <= n - 1)
  BY <1>2
<1> QED
  BY <1>2, <1>3

\* Only is the end of a recursion over the prefixes.
Grows(f, seq, set) ==
  /\ f[0] = <<>>
  /\ \A n \in 1..Len(seq) :
       f[n] = IF seq[n] \in set THEN Append(f[n - 1], seq[n]) ELSE f[n - 1]

LEMMA OnlyGrows ==
  ASSUME NEW seq, Len(seq) \in Nat, NEW set
  PROVE  \E f : Grows(f, seq, set) /\ Only(seq, set) = f[Len(seq)]
<1> DEFINE N == Len(seq)
           step(f, k) == [n \in 0..k |-> IF n = 0 THEN <<>>
                            ELSE IF seq[n] \in set THEN Append(f[n - 1], seq[n]) ELSE f[n - 1]]
           T == {k \in 0..N : \E f : f = step(f, k)}
<1>1. 0 \in T
  <2> DEFINE f == [n \in 0..0 |-> <<>>]
  <2>1. f = step(f, 0)
    OBVIOUS
  <2>2. \E h : h = step(h, 0)
    BY <2>1
  <2>3. 0 \in 0..N
    OBVIOUS
  <2> HIDE DEF step
  <2> QED
    BY <2>2, <2>3
<1>2. ASSUME NEW n \in 1..N, n - 1 \in T PROVE n \in T
  <2>1. PICK f : f = step(f, n - 1)
    BY <1>2
  <2> DEFINE g == [k \in 0..n |-> IF k < n THEN f[k]
                     ELSE IF seq[n] \in set THEN Append(f[n - 1], seq[n]) ELSE f[n - 1]]
  <2>2. \A k \in 0..n : g[k] = step(g, n)[k]
    <3> SUFFICES ASSUME NEW k \in 0..n PROVE g[k] = step(g, n)[k]
      OBVIOUS
    <3>1. k > 0 => k - 1 \in 0..n /\ k - 1 < n /\ g[k - 1] = f[k - 1]
      OBVIOUS
    <3>2. CASE k = n
      BY <3>1, <3>2
    <3>3. CASE k < n
      <4>1. k \in 0..(n - 1) /\ g[k] = f[k]
        BY <3>3
      <4>2. f[k] = step(f, n - 1)[k]
        BY <2>1
      <4>3. step(f, n - 1)[k] = IF k = 0 THEN <<>>
              ELSE IF seq[k] \in set THEN Append(f[k - 1], seq[k]) ELSE f[k - 1]
        BY <4>1
      <4>4. step(g, n)[k] = IF k = 0 THEN <<>>
              ELSE IF seq[k] \in set THEN Append(g[k - 1], seq[k]) ELSE g[k - 1]
        OBVIOUS
      <4> QED
        BY <3>1, <4>1, <4>2, <4>3, <4>4
    <3> QED
      BY <3>2, <3>3
  <2>3. g = step(g, n)
    BY <2>2
  <2> HIDE DEF g
  <2>4. \E h : h = step(h, n)
    BY <2>3
  <2>5. n \in 0..N
    OBVIOUS
  <2> HIDE DEF step
  <2> QED
    BY <2>4, <2>5
<1>3. N \in T
  <2>1. 0..N \subseteq T
    BY <1>1, <1>2, UpTo
  <2> QED
    BY <2>1
<1> DEFINE first == CHOOSE f : f = step(f, N)
<1>4. first = step(first, N)
  BY <1>3
<1>5. Only(seq, set) = first[N]
  BY DEF Only
<1> HIDE DEF first
<1>6. Grows(first, seq, set)
  <2>1. \A n \in 0..N : first[n] = step(first, N)[n]
    BY <1>4
  <2>2. \A n \in 0..N : step(first, N)[n] = IF n = 0 THEN <<>>
          ELSE IF seq[n] \in set THEN Append(first[n - 1], seq[n]) ELSE first[n - 1]
    OBVIOUS
  <2>3. 0 \in 0..N /\ \A n \in 1..N : n \in 0..N /\ n # 0
    OBVIOUS
  <2> HIDE DEF step
  <2> QED
    BY <2>1, <2>2, <2>3 DEF Grows
<1> QED
  BY <1>5, <1>6

\* Two recursions over sequences that agree so far are the same.
LEMMA GrowAlike ==
  ASSUME NEW seq, NEW other, NEW N \in Nat, Len(seq) \in Nat, Len(other) \in Nat,
         N <= Len(seq), N <= Len(other),
         NEW set, NEW rest, \A n \in 1..N : seq[n] = other[n] /\ (seq[n] \in set <=> seq[n] \in rest),
         NEW f, NEW g, Grows(f, seq, set), Grows(g, other, rest)
  PROVE  f[N] = g[N]
<1> DEFINE T == {n \in 0..N : f[n] = g[n]}
<1>1. 0 \in T
  BY DEF Grows
<1>2. ASSUME NEW n \in 1..N, n - 1 \in T PROVE n \in T
  BY <1>2 DEF Grows
<1>3. 0..N \subseteq T
  BY <1>1, <1>2, UpTo
<1> QED
  BY <1>3

LEMMA AppendGrows ==
  ASSUME NEW S, NEW s \in Seq(S), NEW x \in S
  PROVE  Append(s, x) \in Seq(S) /\ ToSet(Append(s, x)) = ToSet(s) \cup {x}
<1>1. Append(s, x) \in Seq(S) /\ Len(Append(s, x)) = Len(s) + 1
  OBVIOUS
<1>2. \A n \in 1..Len(s) : Append(s, x)[n] = s[n]
  OBVIOUS
<1>3. Append(s, x)[Len(s) + 1] = x
  OBVIOUS
<1>4. Len(s) \in Nat /\ DOMAIN s = 1..Len(s) /\ DOMAIN Append(s, x) = 1..(Len(s) + 1)
  OBVIOUS
<1>5. 1..(Len(s) + 1) = 1..Len(s) \cup {Len(s) + 1}
  BY <1>4
<1> DEFINE t == Append(s, x)
<1> HIDE DEF t
<1> QED
  BY <1>1, <1>2, <1>3, <1>4, <1>5 DEF ToSet, t

LEMMA SeqEmpty == \A S : <<>> \in Seq(S) /\ ToSet(<<>>) = {}
BY DEF ToSet

LEMMA OnlyEmpty == \A set : Only(<<>>, set) = <<>>
BY OnlyGrows DEF Grows

LEMMA OnlyAppend ==
  ASSUME NEW S, NEW seq \in Seq(S), NEW x \in S, NEW set
  PROVE  Only(Append(seq, x), set) = IF x \in set THEN Append(Only(seq, set), x) ELSE Only(seq, set)
<1> DEFINE longer == Append(seq, x)
           N == Len(seq)
<1>1. N \in Nat /\ Len(longer) = N + 1 /\ longer[N + 1] = x /\ \A n \in 1..N : longer[n] = seq[n]
  OBVIOUS
<1> HIDE DEF longer
<1>2. PICK f : Grows(f, seq, set) /\ Only(seq, set) = f[N]
  BY <1>1, OnlyGrows
<1>3. PICK g : Grows(g, longer, set) /\ Only(longer, set) = g[N + 1]
  BY <1>1, OnlyGrows
<1>4. f[N] = g[N]
  BY <1>1, <1>2, <1>3, GrowAlike
<1>5. g[N + 1] = IF x \in set THEN Append(g[N], x) ELSE g[N]
  <2>1. N + 1 \in 1..Len(longer) /\ (N + 1) - 1 = N
    BY <1>1
  <2> QED
    BY <1>1, <1>3, <2>1 DEF Grows
<1> QED
  BY <1>2, <1>3, <1>4, <1>5 DEF longer

LEMMA OnlySame ==
  ASSUME NEW S, NEW seq \in Seq(S), NEW set, NEW rest, ToSet(seq) \cap set = ToSet(seq) \cap rest
  PROVE  Only(seq, set) = Only(seq, rest)
<1>1. Len(seq) \in Nat /\ \A n \in 1..Len(seq) : seq[n] \in set <=> seq[n] \in rest
  BY DEF ToSet
<1>2. PICK f : Grows(f, seq, set) /\ Only(seq, set) = f[Len(seq)]
  BY <1>1, OnlyGrows
<1>3. PICK g : Grows(g, seq, rest) /\ Only(seq, rest) = g[Len(seq)]
  BY <1>1, OnlyGrows
<1> QED
  BY <1>1, <1>2, <1>3, GrowAlike

\* The records that are kept are those of the set, and none is made up.
LEMMA OnlyKeeps ==
  ASSUME NEW S, NEW seq \in Seq(S), NEW set
  PROVE  Only(seq, set) \in Seq(S) /\ ToSet(Only(seq, set)) = ToSet(seq) \cap set
<1> DEFINE N == Len(seq)
<1>1. N \in Nat
  OBVIOUS
<1>2. PICK f : Grows(f, seq, set) /\ Only(seq, set) = f[N]
  BY <1>1, OnlyGrows
<1> DEFINE T == {n \in 0..N : f[n] \in Seq(S) /\ ToSet(f[n]) = {seq[i] : i \in 1..n} \cap set}
<1>3. 0 \in T
  <2>1. f[0] = <<>>
    BY <1>2 DEF Grows
  <2>2. f[0] \in Seq(S) /\ ToSet(f[0]) = {}
    BY <2>1, SeqEmpty
  <2>3. {seq[i] : i \in 1..0} = {}
    OBVIOUS
  <2> QED
    BY <1>1, <2>2, <2>3
<1>4. ASSUME NEW n \in 1..N, n - 1 \in T PROVE n \in T
  <2> DEFINE before == f[n - 1]
  <2>1. before \in Seq(S) /\ ToSet(before) = {seq[i] : i \in 1..(n - 1)} \cap set
    BY <1>4
  <2>2. seq[n] \in S /\ n \in 0..N
    OBVIOUS
  <2>3. f[n] = IF seq[n] \in set THEN Append(before, seq[n]) ELSE before
    BY <1>2 DEF Grows
  <2>4. Append(before, seq[n]) \in Seq(S) /\ ToSet(Append(before, seq[n])) = ToSet(before) \cup {seq[n]}
    <3> HIDE DEF before
    <3> QED
      BY <2>1, <2>2, AppendGrows
  <2>5. {seq[i] : i \in 1..n} = {seq[i] : i \in 1..(n - 1)} \cup {seq[n]}
    <3>1. 1..n = 1..(n - 1) \cup {n}
      OBVIOUS
    <3> QED
      BY <3>1
  <2>6. f[n] \in Seq(S)
    BY <2>1, <2>3, <2>4
  <2>7. ToSet(f[n]) = {seq[i] : i \in 1..n} \cap set
    <3> HIDE DEF before
    <3> QED
      BY <2>1, <2>3, <2>4, <2>5
  <2> QED
    BY <2>2, <2>6, <2>7
<1>5. 0..N \subseteq T
  BY <1>1, <1>3, <1>4, UpTo
<1>6. ToSet(seq) = {seq[i] : i \in 1..N}
  BY DEF ToSet
<1>7. N \in T
  <2> HIDE DEF T
  <2> QED
    BY <1>1, <1>5
<1> QED
  BY <1>2, <1>6, <1>7

LEMMA OnlyTwice ==
  ASSUME NEW S, NEW seq \in Seq(S), NEW set, NEW rest
  PROVE  Only(Only(seq, set), rest) = Only(seq, set \cap rest)
<1> DEFINE N == Len(seq)
<1>1. N \in Nat
  OBVIOUS
<1>2. PICK f : Grows(f, seq, set) /\ Only(seq, set) = f[N]
  BY <1>1, OnlyGrows
<1>3. PICK g : Grows(g, seq, set \cap rest) /\ Only(seq, set \cap rest) = g[N]
  BY <1>1, OnlyGrows
<1> DEFINE T == {n \in 0..N : f[n] \in Seq(S) /\ Only(f[n], rest) = g[n]}
<1>4. 0 \in T
  <2>1. f[0] = <<>> /\ g[0] = <<>>
    BY <1>2, <1>3 DEF Grows
  <2>2. f[0] \in Seq(S) /\ Only(f[0], rest) = g[0]
    BY <2>1, SeqEmpty, OnlyEmpty
  <2> QED
    BY <1>1, <2>2
<1>5. ASSUME NEW n \in 1..N, n - 1 \in T PROVE n \in T
  <2> DEFINE before == f[n - 1]
  <2>1. before \in Seq(S) /\ Only(before, rest) = g[n - 1]
    BY <1>5
  <2>2. seq[n] \in S /\ n \in 0..N
    OBVIOUS
  <2>3. /\ f[n] = IF seq[n] \in set THEN Append(before, seq[n]) ELSE before
        /\ g[n] = IF seq[n] \in set \cap rest THEN Append(g[n - 1], seq[n]) ELSE g[n - 1]
    BY <1>2, <1>3 DEF Grows
  <2>4. /\ Append(before, seq[n]) \in Seq(S)
        /\ Only(Append(before, seq[n]), rest)
             = IF seq[n] \in rest THEN Append(g[n - 1], seq[n]) ELSE g[n - 1]
    <3> HIDE DEF before
    <3>1. Append(before, seq[n]) \in Seq(S)
      BY <2>1, <2>2, AppendGrows
    <3>2. before \in Seq(S)
      BY <2>1
    <3>3. Only(Append(before, seq[n]), rest)
            = IF seq[n] \in rest THEN Append(Only(before, rest), seq[n]) ELSE Only(before, rest)
      BY <2>2, <3>2, OnlyAppend
    <3> QED
      BY <2>1, <3>1, <3>3
  <2> HIDE DEF before
  <2>5. f[n] \in Seq(S) /\ Only(f[n], rest) = g[n]
    BY <2>1, <2>3, <2>4
  <2> QED
    BY <2>2, <2>5
<1>6. 0..N \subseteq T
  BY <1>1, <1>4, <1>5, UpTo
<1>7. N \in T
  <2> HIDE DEF T
  <2> QED
    BY <1>1, <1>6
<1> QED
  BY <1>2, <1>3, <1>7
-----------------------------------------------------------------------------
(* The cascade. What a poser says, other than an error, stands behind an     *)
(* opinion: the code tier's, or an uphold of replies that parsed.            *)

LEMMA CountBounds ==
  ASSUME NEW S, NEW votes \in Seq(S), NEW Kind
  PROVE  Count(votes, Kind) \in Nat /\ Count(votes, Kind) <= Len(votes)
<1> DEFINE n == Len(votes)
           hits == {i \in 1..n : votes[i] \in Kind}
<1>1. n \in Nat /\ DOMAIN votes = 1..n /\ hits \subseteq 1..n
  OBVIOUS
<1>2. IsFiniteSet(1..n) /\ Cardinality(1..n) = n
  <2> HIDE DEF n
  <2>1. 1 \in Int /\ n \in Int /\ (IF 1 > n THEN 0 ELSE n - 1 + 1) = n
    BY <1>1
  <2> QED
    BY <2>1, FS_Interval
<1>3. IsFiniteSet(hits) /\ Cardinality(hits) <= Cardinality(1..n)
  BY <1>1, <1>2, FS_Subset
<1>4. Cardinality(hits) \in Nat
  BY <1>3, FS_CardinalityType
<1>5. Count(votes, Kind) = Cardinality(hits)
  BY <1>1 DEF Count
<1> QED
  BY <1>2, <1>3, <1>4, <1>5

LEMMA AllOfAKind ==
  ASSUME NEW S, NEW votes \in Seq(S), NEW Kind, NEW Other, Kind \cap Other = {},
         Count(votes, Other) = Len(votes)
  PROVE  Count(votes, Kind) = 0
<1> DEFINE n == Len(votes)
           others == {i \in 1..n : votes[i] \in Other}
           hits == {i \in 1..n : votes[i] \in Kind}
<1>1. n \in Nat /\ DOMAIN votes = 1..n /\ others \subseteq 1..n
  OBVIOUS
<1>2. IsFiniteSet(1..n) /\ Cardinality(1..n) = n
  <2> HIDE DEF n
  <2>1. 1 \in Int /\ n \in Int /\ (IF 1 > n THEN 0 ELSE n - 1 + 1) = n
    BY <1>1
  <2> QED
    BY <2>1, FS_Interval
<1>3. Cardinality(others) = n /\ Count(votes, Kind) = Cardinality(hits)
  BY <1>1 DEF Count
<1>4. others = 1..n
  BY <1>1, <1>2, <1>3, FS_Subset
<1>5. hits = {}
  BY <1>4
<1> QED
  BY <1>3, <1>5, FS_EmptySet

LEMMA VerdictIsOpinion ==
  ASSUME NEW S, NEW votes \in Seq(S), Len(votes) = Samples, NEW build \in {"codex", "claude"}
  PROVE  /\ Verdict(build, votes, Uphold) \in Statuses
         /\ Verdict(build, votes, Uphold) # "error" => Opined(build, votes, Uphold)
<1>1. Count(votes, Junk) \in Nat /\ Count(votes, Junk) <= Len(votes)
  BY CountBounds
<1>2. Samples \in Nat /\ Uphold \in Nat
  BY VotesAssumption
<1>3. CASE build = "codex"
  <2>1. Verdict(build, votes, Uphold) = CodexStatus(votes, Uphold)
    BY <1>3 DEF Verdict
  <2>2. CodexStatus(votes, Uphold) \in Statuses
    BY DEF CodexStatus, Statuses
  <2> DEFINE flags == {r \in Replies : r.verdict = "flag"}
             quorum == IF Uphold > Len(votes) THEN Len(votes) ELSE Uphold
  <2>3. Count(votes, Junk) = Len(votes) => Count(votes, flags) = 0
    <3>1. Len(votes) \in Nat /\ flags \cap Junk = {}
      BY DEF Junk
    <3> QED
      BY <3>1, AllOfAKind
  <2>4. quorum \in Nat \ {0}
    BY <1>2, VotesAssumption
  <2>5. Count(votes, Junk) = Len(votes) => ~(Count(votes, flags) >= quorum)
    BY <2>3, <2>4
  <2>6. CodexStatus(votes, Uphold) =
          CASE Count(votes, Junk) = Len(votes) -> "error"
            [] Count(votes, flags) >= quorum -> "ill_posed"
            [] OTHER -> "well_posed"
    BY DEF CodexStatus
  <2> HIDE DEF flags, quorum
  <2>7. CodexStatus(votes, Uphold) # "error" => Count(votes, Junk) # Len(votes)
    BY <2>5, <2>6
  <2> QED
    BY <1>1, <1>2, <1>3, <2>1, <2>2, <2>7 DEF Opined
<1>4. CASE build = "claude"
  <2> DEFINE outcome == Corroborate(votes, Uphold)
  <2>1. Verdict(build, votes, Uphold) = ClaudeStatus(outcome)
    BY <1>4 DEF Verdict
  <2>2. /\ outcome \in {"judge_errors", "insufficient_context", "flag", "pass", "split"}
        /\ Count(votes, Junk) > Len(votes) - Uphold => outcome = "judge_errors"
    BY DEF Corroborate
  <2> HIDE DEF outcome
  <2>3. ClaudeStatus(outcome) \in Statuses /\ (outcome = "judge_errors" => ClaudeStatus(outcome) = "error")
    BY <2>2 DEF ClaudeStatus, Statuses
  <2> QED
    BY <1>1, <1>2, <1>4, <2>1, <2>2, <2>3 DEF Opined
<1> QED
  BY <1>3, <1>4

LEMMA CodeIsStatus ==
  ASSUME NEW build, NEW r \in Records
  PROVE  CodeStatus(build, Class[r], Tier, Policy) \in Statuses \cup {"judge"}
<1>1. Class[r] \in Classes
  BY InputAssumption, ClassAssumption DEF Records
<1>2. CodexCode(Class[r], Tier) \in Statuses \cup {"judge"}
  BY <1>1 DEF CodexCode, Classes, Statuses
<1>3. ClaudeCode(Class[r], Tier, Policy) \in Statuses \cup {"judge"}
  BY <1>1 DEF ClaudeCode, Classes, Statuses
<1> QED
  BY <1>2, <1>3 DEF CodeStatus

LEMMA SeqEnds ==
  ASSUME NEW S, NEW s \in Seq(S), s # <<>>
  PROVE  Head(s) \in S /\ Tail(s) \in Seq(S)
OBVIOUS

LEMMA StageShape ==
  ASSUME NEW s \in 1..Len(Stages), NEW records \in Seq(Records)
  PROVE  Stage(s, records) \in Working /\ NoRows \in Rows /\ NoReplies \in Memories
<1>1. NoRows \in Rows
  BY DEF NoRows, Rows
<1>2. NoReplies \in Memories
  BY DEF NoReplies, Memories, Replied
<1>3. 0 \in 0..Retries
  BY RetriesAssumption
<1> QED
  BY <1>1, <1>2, <1>3, SeqEmpty DEF Stage, Working

LEMMA StageNumbers == Len(Stages) \in Nat /\ 1 \in 1..Len(Stages) /\ Len(Stages) \in 1..Len(Stages)
BY StagesAssumption

LEMMA SeqAt == ASSUME NEW S, NEW s \in Seq(S), NEW n \in 1..Len(s) PROVE s[n] \in S
OBVIOUS

LEMMA BuildIsOne == Shapes => Build \in {"codex", "claude"} /\ Here \in Places /\ Here[1] = m.stage
<1> SUFFICES ASSUME Shapes PROVE Build \in {"codex", "claude"} /\ Here \in Places /\ Here[1] = m.stage
  OBVIOUS
<1>1. m.stage \in 1..Len(Stages) /\ m.attempt \in 0..Retries
  BY DEF Shapes, Working
<1>2. Stages[m.stage] \in [build : {"codex", "claude"}, advisory : {"yes", "no"}]
  BY <1>1, StagesAssumption, SeqAt, Zenon
<1> QED
  BY <1>1, <1>2 DEF Build, Here, Places

\* At the start of a stage nothing is judged yet.
LEMMA FreshStage ==
  \A s, q : /\ Stage(s, q).stage = s /\ Stage(s, q).input = q
            /\ \A r \in Records : ~Judged(Stage(s, q).rows[r]) /\ ~Judged(Stage(s, q).all[r])
            /\ 1..(Stage(1, q).stage - 1) = {}
BY DEF Stage, NoRows, Judged

\* The account of what was paid reads nothing but the caches, their cut lines and
\* whether a reply is in hand.
LEMMA AccountStays ==
  ASSUME Account, UNCHANGED <<cache, torn, bill, cuts>>, InHand' = InHand
  PROVE  Account'
BY DEF Account, Readable, Unfinished

\* Outside the poser's loop that is all there is to keep.
LEMMA KeptOutside ==
  ASSUME AllKept, UNCHANGED <<cache, torn, bill, cuts>>,
         pc # "append", pc' \notin {"score", "append", "save"}
  PROVE  AllKept'
<1>1. InHand' = InHand
  BY DEF InHand
<1> QED
  BY <1>1, AccountStays DEF AllKept, Remembered, Paid

LEMMA InitFails == Init => IndInv
<1> SUFFICES ASSUME Init PROVE IndInv
  OBVIOUS
<1> USE DEF Init
<1>1. Input \in Seq(Records)
  BY InputAssumption, ClassAssumption DEF Records
<1>2. Stage(1, Input) \in Working /\ NoRows \in Rows /\ NoReplies \in Memories
  BY <1>1, StageNumbers, StageShape
<1>3. Shapes
  BY <1>2, SeqEmpty DEF Shapes
<1>4. AllBacked
  <2>1. \A r \in Records : NoRows[r] = None /\ ~Judged(NoRows[r])
    BY DEF NoRows, Judged
  <2>2. m.stage = 1 /\ m.rows = NoRows /\ m.all = NoRows
    BY DEF Stage
  <2>3. 1..(m.stage - 1) = {}
    BY <2>2
  <2> QED
    BY <2>1, <2>2, <2>3, SeqEmpty DEF AllBacked, FailClosed
<1>5. AllKept
  <2>1. Readable = {}
    BY DEF Readable, NoReplies
  <2>2. Unfinished = {} /\ InHand = 0
    BY DEF Unfinished, InHand
  <2> QED
    BY <2>1, <2>2, FS_EmptySet DEF AllKept, Remembered, Paid, Account
<1> QED
  BY <1>3, <1>4, <1>5 DEF IndInv

\* A poser that starts again remembers what is in the cache of its directory.
LEMMA StartKeeps == ASSUME IndInv, Start PROVE IndInv'
<1> USE DEF IndInv, disk, history
<1>1. Input \in Seq(Records)
  BY InputAssumption, ClassAssumption DEF Records
<1>2. m' \in Working
  BY <1>1, StageNumbers, StageShape DEF Start
<1>3. Shapes'
  BY <1>2 DEF Start, Shapes
<1>4. AllBacked'
  BY FreshStage, <1>1 DEF Start, AllBacked, FailClosed
<1>5. AllKept'
  BY KeptOutside DEF Start
<1> QED
  BY <1>3, <1>4, <1>5

\* A death takes an output file or leaves a cut line. It is charged with two
\* replies if one was in hand: that one, and the next of a cache it cut.
LEMMA DyingKeeps ==
  ASSUME IndInv, Dying, pc' \notin {"score", "append", "save"}
  PROVE  /\ AllKept' /\ raw' \in [Places -> Rows]
         /\ \A p \in Places : \A r \in Records : Judged(raw'[p][r]) => Judged(raw[p][r])
<1> USE DEF IndInv
<1>1. Here \in Places /\ Here[1] = m.stage /\ NoRows \in Rows
  BY BuildIsOne DEF NoRows, Rows
<1>2. raw' = raw \/ raw' = [raw EXCEPT ![Here] = NoRows]
  BY DEF Dying
<1>3. raw' \in [Places -> Rows]
  BY <1>1, <1>2 DEF Shapes
<1>4. \A p \in Places : \A r \in Records : Judged(raw'[p][r]) => Judged(raw[p][r])
  BY <1>2 DEF NoRows, Judged, Shapes
<1>5. /\ UNCHANGED <<cache, bill>> /\ cuts' = cuts + InHand
      /\ torn' = torn \/ (pc \in {"append", "save"} /\ torn' = torn \cup {Here})
  BY DEF Dying
<1>6. torn' \subseteq Places
  BY <1>1, <1>5 DEF AllKept
<1>7. InHand \in {0, 1} /\ InHand' = 0 /\ (pc = "append" => InHand = 1)
  BY DEF InHand
<1>8. Readable' = Readable
  BY <1>5 DEF Readable
<1>9. IsFiniteSet(Unfinished) /\ Cardinality(Unfinished) \in Nat
  BY FS_CardinalityType DEF AllKept, Account
<1>10. \/ Unfinished' = Unfinished
       \/ pc = "append" /\ Unfinished' = Unfinished \cup {Here}
  <2>1. CASE torn' = torn
    BY <2>1 DEF Unfinished
  <2>2. CASE pc = "save" /\ torn' = torn \cup {Here}
    BY <1>1, <2>2 DEF Unfinished, AllKept, Build
  <2>3. CASE pc = "append" /\ torn' = torn \cup {Here}
    BY <1>1, <2>3 DEF Unfinished, AllKept, Paid, Build
  <2> QED
    BY <1>5, <2>1, <2>2, <2>3
<1>11. IsFiniteSet(Unfinished') /\ Cardinality(Unfinished') \in Nat
       /\ Cardinality(Unfinished') <= Cardinality(Unfinished) + InHand
  <2>1. CASE Unfinished' = Unfinished
    BY <1>7, <1>9, <2>1
  <2>2. CASE pc = "append" /\ Unfinished' = Unfinished \cup {Here}
    <3>1. IsFiniteSet(Unfinished \cup {Here})
          /\ Cardinality(Unfinished \cup {Here})
               = IF Here \in Unfinished THEN Cardinality(Unfinished) ELSE Cardinality(Unfinished) + 1
      BY <1>9, FS_AddElement
    <3> QED
      BY <1>7, <1>9, <2>2, <3>1
  <2> QED
    BY <1>10, <2>1, <2>2
<1>12. Cardinality(Readable) \in Nat /\ bill \in Nat /\ cuts \in Nat
  BY FS_CardinalityType DEF AllKept, Account
<1>13. Account'
  BY <1>5, <1>7, <1>8, <1>9, <1>11, <1>12 DEF AllKept, Account
<1>14. AllKept'
  BY <1>6, <1>13 DEF AllKept, Remembered, Paid
<1> QED
  BY <1>3, <1>4, <1>14

LEMMA KillKeeps == ASSUME IndInv, Kill PROVE IndInv'
<1> USE DEF IndInv
<1>1. Input \in Seq(Records)
  BY InputAssumption, ClassAssumption DEF Records
<1>2. m' \in Working
  BY <1>1, StageNumbers, StageShape DEF Kill
<1>3. /\ AllKept' /\ raw' \in [Places -> Rows]
      /\ \A p \in Places : \A r \in Records : Judged(raw'[p][r]) => Judged(raw[p][r])
  BY DyingKeeps DEF Kill
<1>4. Shapes'
  BY <1>2, <1>3 DEF Kill, Dying, Shapes
<1>5. AllBacked'
  BY FreshStage, <1>1, <1>3 DEF Kill, Dying, AllBacked, FailClosed
<1> QED
  BY <1>3, <1>4, <1>5

LEMMA CrashKeeps == ASSUME IndInv, Crash PROVE IndInv'
<1> USE DEF IndInv
<1>1. /\ AllKept' /\ raw' \in [Places -> Rows]
      /\ \A p \in Places : \A r \in Records : Judged(raw'[p][r]) => Judged(raw[p][r])
  BY DyingKeeps DEF Crash
<1>2. Shapes'
  BY <1>1 DEF Crash, Dying, Shapes
<1>3. AllBacked'
  BY <1>1 DEF Crash, Dying, AllBacked, FailClosed
<1> QED
  BY <1>1, <1>2, <1>3

LEMMA LaunchKeeps == ASSUME IndInv, Launch PROVE IndInv'
<1> USE DEF IndInv, disk, history
<1>1. Here \in Places
  BY BuildIsOne
<1>2. NoRows \in Rows /\ <<>> \in Seq(Replied)
  BY SeqEmpty, StageShape, StageNumbers DEF Shapes, Working
<1>3. cache[Here] \in Memories
  BY <1>1 DEF Shapes
<1>4. m' \in Working
  BY <1>2, <1>3 DEF Launch, Shapes, Working
<1>5. Shapes'
  BY <1>4 DEF Launch, Shapes
<1>6. m'.rows = NoRows /\ m'.all = m.all /\ m'.stage = m.stage /\ m'.input = m.input
      /\ m'.attempt = m.attempt /\ m'.mem = cache[Here]
  BY DEF Launch, Shapes, Working
<1>7. \A r \in Records : ~Judged(NoRows[r])
  BY DEF NoRows, Judged
<1>8. AllBacked'
  BY <1>6, <1>7 DEF Launch, AllBacked, FailClosed
<1>9. Here' = Here /\ Build' = Build /\ pc' \in {"collect", "score"} /\ InHand' = InHand
      /\ UNCHANGED <<cache, torn, bill, cuts>>
  BY <1>6 DEF Launch, Here, Build, InHand
<1>10. AllKept'
  BY <1>6, <1>9, AccountStays DEF AllKept, Remembered, Paid
<1> QED
  BY <1>5, <1>8, <1>10

LEMMA NothingPendingKeeps == ASSUME IndInv, NothingPending PROVE IndInv'
BY KeptOutside DEF NothingPending, IndInv, disk, history, Shapes, AllBacked, FailClosed

LEMMA WriteManifestKeeps == ASSUME IndInv, WriteManifest PROVE IndInv'
BY KeptOutside DEF WriteManifest, IndInv, disk, history, Shapes, AllBacked, FailClosed

\* A row is written for the first record left: an error, or a status with an opinion behind it.
LEMMA RowKeeps ==
  ASSUME IndInv, NEW status \in Statuses, pc = "score", m.todo # <<>>,
         m' = Row(status), backed \subseteq backed',
         status # "error" => <<m.stage, Record>> \in backed',
         UNCHANGED <<pc, disk, bill, cuts>>
  PROVE  IndInv'
<1> USE DEF IndInv, disk
<1>1. m \in Working
  BY DEF Shapes
<1>2. Record \in Records /\ Tail(m.todo) \in Seq(Records)
  BY <1>1, SeqEnds DEF Working, Record
<1>3. [m.rows EXCEPT ![Record] = status] \in Rows
  BY <1>1, <1>2 DEF Working, Rows
<1>4. m' = [m EXCEPT !.rows = [m.rows EXCEPT ![Record] = status], !.todo = Tail(m.todo), !.sample = <<>>]
  BY <1>1 DEF Row, Working
<1>5. m' \in Working
  BY <1>1, <1>2, <1>3, <1>4, SeqEmpty DEF Working
<1>6. m'.rows = [m.rows EXCEPT ![Record] = status] /\ m'.all = m.all /\ m'.stage = m.stage
      /\ m'.input = m.input /\ m'.attempt = m.attempt /\ m'.mem = m.mem
  BY <1>1, <1>4 DEF Working
<1>7. Shapes'
  BY <1>5 DEF Shapes
<1>8. \A r \in Records : Judged(m'.rows[r]) => <<m.stage, r>> \in backed'
  <2> SUFFICES ASSUME NEW r \in Records, Judged(m'.rows[r]) PROVE <<m.stage, r>> \in backed'
    OBVIOUS
  <2>1. CASE r = Record
    BY <1>1, <1>2, <1>6, <2>1 DEF Working, Rows, Judged
  <2>2. CASE r # Record
    BY <1>1, <1>6, <2>2 DEF Working, Rows, AllBacked
  <2> QED
    BY <2>1, <2>2
<1>9. AllBacked'
  BY <1>6, <1>8 DEF AllBacked, FailClosed
<1>10. AllKept'
  BY <1>6, AccountStays DEF AllKept, Remembered, Paid, InHand, Here, Build
<1> QED
  BY <1>7, <1>9, <1>10

LEMMA SettledKeeps == ASSUME IndInv, Settled PROVE IndInv'
<1>1. m.todo # <<>> /\ m \in Working
  BY DEF Settled, Scoring, IndInv, Shapes
<1>2. Record \in Records
  BY <1>1, SeqEnds DEF Working, Record
<1>3. ByCode \in Statuses
  BY <1>2, CodeIsStatus DEF Settled, ByCode
<1> QED
  BY <1>1, <1>3, RowKeeps DEF Settled, Scoring

LEMMA ConcludeKeeps == ASSUME IndInv, Conclude PROVE IndInv'
<1>1. m.todo # <<>> /\ m \in Working /\ Build \in {"codex", "claude"}
  BY BuildIsOne DEF Conclude, Scoring, IndInv, Shapes
<1>2. m.sample \in Seq(Replied) /\ Len(m.sample) = Samples
  BY <1>1 DEF Working, Conclude
<1> DEFINE status == Verdict(Build, m.sample, Uphold)
<1>3. status \in Statuses /\ (status # "error" => Opined(Build, m.sample, Uphold))
  BY <1>1, <1>2, VerdictIsOpinion
<1>4. m' = Row(status) /\ pc = "score" /\ UNCHANGED <<pc, disk, bill, cuts>>
      /\ backed \subseteq backed' /\ (status # "error" => <<m.stage, Record>> \in backed')
  BY <1>3 DEF Conclude, Scoring
<1> HIDE DEF status
<1> QED
  BY <1>1, <1>3, <1>4, RowKeeps

LEMMA ServedKeeps == ASSUME IndInv, Served PROVE IndInv'
<1> USE DEF IndInv, disk, history
<1>1. m \in Working /\ m.todo # <<>> /\ Len(m.sample) < Samples
  BY DEF Shapes, Served, Asking, Scoring
<1>2. Record \in Records /\ Next1 \in 1..Samples
  BY <1>1, SeqEnds, VotesAssumption DEF Working, Record, Next1
<1>3. m.mem[Record][Next1] \in Replied /\ m.sample \in Seq(Replied)
  BY <1>1, <1>2 DEF Working, Memories
<1>4. Append(m.sample, m.mem[Record][Next1]) \in Seq(Replied)
  BY <1>3, AppendGrows
<1>5. m' \in Working
  BY <1>1, <1>4 DEF Served, Working
<1>6. m'.rows = m.rows /\ m'.all = m.all /\ m'.stage = m.stage
      /\ m'.input = m.input /\ m'.attempt = m.attempt /\ m'.mem = m.mem
  BY <1>1 DEF Served, Working
<1>7. Shapes'
  BY <1>5 DEF Served, Shapes
<1>8. UNCHANGED <<pc, cache, torn, raw, passed, final, backed, bill, cuts>> /\ pc = "score"
  BY DEF Served, Asking, Scoring
<1>9. AllBacked'
  BY <1>6, <1>8 DEF AllBacked, FailClosed
<1>10. AllKept'
  BY <1>6, <1>8, AccountStays DEF AllKept, Remembered, Paid, InHand, Here, Build
<1> QED
  BY <1>7, <1>9, <1>10

\* The Claude poser pays for no reply that its cache can be read for, because it
\* remembers those.
LEMMA CallKeeps == ASSUME IndInv, NEW reply \in Answers, Call(reply) PROVE IndInv'
<1> USE DEF IndInv, disk, history
<1>1. m \in Working /\ m.todo # <<>> /\ Len(m.sample) < Samples /\ pc = "score"
  BY DEF Shapes, Call, Asking, Scoring
<1>2. Record \in Records /\ Next1 \in 1..Samples /\ m.sample \in Seq(Replied)
  BY <1>1, SeqEnds, VotesAssumption DEF Working, Record, Next1
<1>3. reply \in Replies /\ reply \in Replied /\ NoReply \in Replied /\ reply # NoReply
  BY ClassAssumption DEF Replied, Replies, NoReply
<1>4. Append(m.sample, reply) \in Seq(Replied)
  BY <1>2, <1>3, AppendGrows
<1> DEFINE kept == IF Kept(reply) THEN reply ELSE NoReply
           mem == [m.mem EXCEPT ![Record] = [m.mem[Record] EXCEPT ![Next1] = kept]]
<1>5. mem \in Memories
  <2>1. kept \in Replied
    BY <1>3
  <2> HIDE DEF kept
  <2> QED
    BY <1>1, <1>2, <2>1 DEF Working, Memories
<1>6. m' = [m EXCEPT !.sample = Append(m.sample, reply), !.mem = mem]
  BY <1>1 DEF Call, Working
<1>7. \A r \in Records, i \in 1..Samples : m.mem[r][i] # NoReply => mem[r][i] # NoReply
  <2> HIDE DEF kept
  <2> QED
    BY <1>1, <1>2 DEF Call, Working, Memories
<1>8. mem[Record][Next1] = kept
  BY <1>1, <1>2 DEF Working, Memories
<1> HIDE DEF mem
<1>9. m' \in Working
  BY <1>1, <1>4, <1>5, <1>6 DEF Working
<1>10. m'.rows = m.rows /\ m'.all = m.all /\ m'.stage = m.stage /\ m'.todo = m.todo
       /\ m'.input = m.input /\ m'.attempt = m.attempt /\ m'.mem = mem
       /\ m'.sample = Append(m.sample, reply)
  BY <1>1, <1>6 DEF Working
<1>11. /\ UNCHANGED <<cache, torn, raw, passed, final, backed, cuts>>
       /\ pc' = IF Appends(reply) THEN "append" ELSE "score"
       /\ bill' = IF Appends(reply) THEN bill + 1 ELSE bill
       /\ m.mem[Record][Next1] = NoReply
  BY <1>1 DEF Call
<1>12. Build' = Build /\ Here' = Here /\ Record' = Record /\ Here \in Places
  BY <1>10, BuildIsOne DEF Build, Here, Record
<1>13. Shapes'
  BY <1>9, <1>11 DEF Shapes
<1>14. AllBacked'
  BY <1>10, <1>11 DEF AllBacked, FailClosed
<1>15. Remembered'
  <2> SUFFICES ASSUME Build = "claude", NEW r \in Records, NEW i \in 1..Samples,
                      cache[Here][r][i] # NoReply
               PROVE  mem[r][i] # NoReply
    BY <1>10, <1>11, <1>12 DEF Remembered
  <2>1. m.mem[r][i] # NoReply
    BY <1>1 DEF AllKept, Remembered
  <2> QED
    BY <1>7, <2>1
<1>16. Paid'
  <2> SUFFICES ASSUME Appends(reply)
               PROVE  /\ Build = "claude" /\ m.todo # <<>> /\ Len(m'.sample) \in 1..Samples
                      /\ m'.sample[Len(m'.sample)] # NoReply
                      /\ mem[Record][Len(m'.sample)] # NoReply
                      /\ cache[Here][Record][Len(m'.sample)] = NoReply
    BY <1>10, <1>11, <1>12 DEF Paid
  <2>1. Build = "claude" /\ Kept(reply)
    BY DEF Appends
  <2>2. Len(m'.sample) = Next1 /\ m'.sample[Next1] = reply
    BY <1>2, <1>3, <1>10 DEF Next1
  <2>3. cache[Here][Record][Next1] = NoReply
    BY <1>1, <1>2, <1>11, <2>1 DEF AllKept, Remembered
  <2> QED
    BY <1>1, <1>2, <1>3, <1>8, <2>1, <2>2, <2>3
<1>17. Account'
  <2>1. Readable' = Readable /\ Unfinished' = Unfinished
    BY <1>11 DEF Readable, Unfinished
  <2>2. Cardinality(Readable) \in Nat /\ Cardinality(Unfinished) \in Nat /\ bill \in Nat /\ cuts \in Nat
    BY FS_CardinalityType DEF AllKept, Account
  <2>3. InHand = 0 /\ InHand' = IF Appends(reply) THEN 1 ELSE 0
    BY <1>1, <1>11 DEF InHand
  <2> QED
    BY <1>11, <2>1, <2>2, <2>3 DEF AllKept, Account
<1>18. AllKept'
  BY <1>11, <1>15, <1>16, <1>17 DEF AllKept
<1> QED
  BY <1>13, <1>14, <1>18

\* The append adds a line that can be read, or pays the debt of a cut line.
LEMMA StoreKeeps == ASSUME IndInv, Store PROVE IndInv'
<1> USE DEF IndInv
<1> DEFINE n == Len(m.sample)
           x == <<Here, Record, n>>
           line == [cache[Here] EXCEPT ![Record] = [cache[Here][Record] EXCEPT ![n] = m.sample[n]]]
<1>1. /\ pc = "append" /\ pc' = "score" /\ UNCHANGED <<m, raw, passed, final, backed, bill, cuts>>
      /\ cache' = Stored /\ torn' = torn \ {Here}
  BY DEF Store, history
<1>2. m \in Working /\ Here \in Places /\ Here[1] = m.stage
  BY BuildIsOne DEF Shapes
<1>3. /\ Build = "claude" /\ m.todo # <<>> /\ n \in 1..Samples /\ m.sample[n] # NoReply
      /\ m.mem[Record][n] # NoReply /\ cache[Here][Record][n] = NoReply
  BY <1>1 DEF AllKept, Paid
<1>4. Record \in Records /\ m.sample[n] \in Replied /\ cache[Here] \in Memories
  BY <1>2, <1>3, SeqEnds DEF Working, Record, Shapes
<1>5. line \in Memories /\ line[Record][n] = m.sample[n]
      /\ \A r \in Records, i \in 1..Samples : <<r, i>> # <<Record, n>> => line[r][i] = cache[Here][r][i]
  BY <1>3, <1>4 DEF Memories
<1>6. cache' = IF Here \in torn THEN cache ELSE [cache EXCEPT ![Here] = line]
  BY <1>1, <1>2 DEF Stored, Shapes
<1> HIDE DEF line, n
<1>7. Shapes'
  BY <1>1, <1>2, <1>5, <1>6 DEF Shapes
<1>8. AllBacked'
  BY <1>1 DEF AllBacked, FailClosed
<1>9. Here' = Here /\ Build' = Build /\ Build = Stages[m.stage].build
  BY <1>1 DEF Here, Build
<1>10. Remembered'
  <2> SUFFICES ASSUME NEW r \in Records, NEW i \in 1..Samples, cache'[Here][r][i] # NoReply
               PROVE  m.mem[r][i] # NoReply
    BY <1>1, <1>9 DEF Remembered
  <2>1. CASE cache[Here][r][i] # NoReply
    BY <1>1, <1>3, <2>1 DEF AllKept, Remembered
  <2>2. CASE cache[Here][r][i] = NoReply
    <3>1. cache'[Here] = line
      BY <1>2, <1>6, <2>2 DEF Shapes
    <3>2. r = Record /\ i = n
      BY <1>5, <2>2, <3>1
    <3> QED
      BY <1>3, <3>2
  <2> QED
    BY <2>1, <2>2
<1>11. /\ IsFiniteSet(Readable) /\ IsFiniteSet(Unfinished) /\ Cardinality(Readable) \in Nat
       /\ Cardinality(Unfinished) \in Nat /\ bill \in Nat /\ cuts \in Nat
  BY FS_CardinalityType DEF AllKept, Account
<1>12. InHand = 1 /\ InHand' = 0
  BY <1>1 DEF InHand
<1>13. Account'
  <2>1. CASE Here \in torn
    <3>1. Readable' = Readable
      BY <1>6, <2>1 DEF Readable
    <3>2. Here \in Unfinished /\ Unfinished' = Unfinished \ {Here}
      BY <1>1, <1>2, <1>3, <1>9, <2>1 DEF Unfinished
    <3>3. IsFiniteSet(Unfinished') /\ Cardinality(Unfinished') = Cardinality(Unfinished) - 1
      BY <1>11, <3>2, FS_RemoveElement
    <3> QED
      BY <1>1, <1>11, <1>12, <3>1, <3>3 DEF AllKept, Account
  <2>2. CASE Here \notin torn
    <3>1. Unfinished' = Unfinished
      BY <1>1, <2>2 DEF Unfinished
    <3>2. Readable' = Readable \cup {x}
      <4>1. \A p \in Places, r \in Records, i \in 1..Samples :
              cache'[p][r][i] # NoReply <=> (cache[p][r][i] # NoReply \/ <<p, r, i>> = x)
        <5> SUFFICES ASSUME NEW p \in Places, NEW r \in Records, NEW i \in 1..Samples
                     PROVE  cache'[p][r][i] # NoReply <=> (cache[p][r][i] # NoReply \/ <<p, r, i>> = x)
          OBVIOUS
        <5>1. CASE p # Here
          BY <1>6, <2>2, <5>1 DEF Shapes
        <5>2. CASE p = Here
          <6>1. cache'[p] = line
            BY <1>2, <1>6, <2>2, <5>2 DEF Shapes
          <6> QED
            BY <1>3, <1>5, <5>2, <6>1
        <5> QED
          BY <5>1, <5>2
      <4>2. Stages[Here[1]].build = "claude" /\ x \in Places \X Records \X (1..Samples)
        BY <1>2, <1>3, <1>4, <1>9
      <4>3. \A y \in Places \X Records \X (1..Samples) :
              y = <<y[1], y[2], y[3]>> /\ y[1] \in Places /\ y[2] \in Records /\ y[3] \in 1..Samples
        OBVIOUS
      <4> HIDE DEF x
      <4>4. \A y \in Places \X Records \X (1..Samples) : y \in Readable' <=> y \in Readable \cup {x}
        <5> SUFFICES ASSUME NEW y \in Places \X Records \X (1..Samples)
                     PROVE  y \in Readable' <=> y \in Readable \cup {x}
          OBVIOUS
        <5>1. cache'[y[1]][y[2]][y[3]] # NoReply
                <=> (cache[y[1]][y[2]][y[3]] # NoReply \/ y = x)
          BY <4>1, <4>3
        <5>2. y = x => Stages[y[1][1]].build = "claude"
          BY <4>2 DEF x
        <5> QED
          BY <5>1, <5>2 DEF Readable
      <4> QED
        BY <4>2, <4>4 DEF Readable
    <3>3. x \notin Readable
      BY <1>3 DEF Readable
    <3>4. IsFiniteSet(Readable') /\ Cardinality(Readable') = Cardinality(Readable) + 1
      BY <1>11, <3>2, <3>3, FS_AddElement
    <3> QED
      BY <1>1, <1>11, <1>12, <3>1, <3>4 DEF AllKept, Account
  <2> QED
    BY <2>1, <2>2
<1>14. AllKept'
  BY <1>1, <1>10, <1>13 DEF AllKept, Paid
<1> QED
  BY <1>7, <1>8, <1>14

LEMMA WriteOutKeeps == ASSUME IndInv, WriteOut PROVE IndInv'
<1> USE DEF IndInv, history
<1>1. m \in Working /\ Here \in Places /\ Here[1] = m.stage
  BY BuildIsOne DEF Shapes
<1>2. /\ UNCHANGED <<m, cache, torn, passed, final, backed, bill, cuts>>
      /\ raw' = [raw EXCEPT ![Here] = m.rows] /\ pc = "score"
      /\ pc' = IF Build = "codex" THEN "save" ELSE "collect"
  BY DEF WriteOut
<1>3. m.rows \in Rows
  BY <1>1 DEF Working
<1>4. Shapes'
  BY <1>1, <1>2, <1>3 DEF Shapes
<1>5. \A p \in Places : \A r \in Records : Judged(raw'[p][r]) => <<p[1], r>> \in backed
  <2> SUFFICES ASSUME NEW p \in Places, NEW r \in Records, Judged(raw'[p][r]) PROVE <<p[1], r>> \in backed
    OBVIOUS
  <2>1. CASE p = Here
    BY <1>1, <1>2, <2>1 DEF AllBacked, Shapes
  <2>2. CASE p # Here
    BY <1>1, <1>2, <2>2 DEF AllBacked, Shapes
  <2> QED
    BY <2>1, <2>2
<1>6. AllBacked'
  BY <1>2, <1>5 DEF AllBacked, FailClosed
<1>7. InHand' = InHand /\ Build' = Build
  BY <1>2 DEF InHand, Build
<1>8. AllKept'
  BY <1>2, <1>7, AccountStays DEF AllKept, Remembered, Paid
<1> QED
  BY <1>4, <1>6, <1>8

LEMMA SaveCacheKeeps == ASSUME IndInv, SaveCache PROVE IndInv'
<1> USE DEF IndInv, history
<1>1. m \in Working /\ Here \in Places /\ Here[1] = m.stage /\ Build = "codex"
  BY BuildIsOne DEF Shapes, SaveCache, AllKept
<1>2. /\ UNCHANGED <<m, torn, raw, passed, final, backed, bill, cuts>>
      /\ cache' = [cache EXCEPT ![Here] = m.mem] /\ pc = "save" /\ pc' = "collect"
  BY DEF SaveCache
<1>3. m.mem \in Memories
  BY <1>1 DEF Working
<1>4. Shapes'
  BY <1>1, <1>2, <1>3 DEF Shapes
<1>5. AllBacked'
  BY <1>2 DEF AllBacked, FailClosed
<1>6. Readable' = Readable
  <2>1. \A p \in Places : Stages[p[1]].build = "claude" => cache'[p] = cache[p]
    BY <1>1, <1>2 DEF Shapes, Build
  <2> QED
    BY <2>1 DEF Readable
<1>7. Unfinished' = Unfinished /\ InHand' = InHand
  BY <1>2 DEF Unfinished, InHand
<1>8. Account'
  BY <1>2, <1>6, <1>7 DEF AllKept, Account
<1>9. AllKept'
  BY <1>2, <1>8 DEF AllKept, Remembered, Paid
<1> QED
  BY <1>4, <1>5, <1>9

\* The merge of an attempt makes up no status: it takes the rows of the output
\* file or what an earlier attempt said, and everything else is an error.
LEMMA CollectKeeps == ASSUME IndInv, Collect PROVE IndInv'
<1> USE DEF IndInv, disk, history
<1>1. m \in Working /\ Here \in Places /\ Here[1] = m.stage /\ raw \in [Places -> Rows]
  BY BuildIsOne DEF Shapes
<1>2. raw[Here] \in Rows /\ m.all \in Rows /\ m.pending \in Seq(Records)
  BY <1>1 DEF Working
<1>3. Normalised \in Rows
  BY <1>2 DEF Normalised, Rows, Statuses
<1>4. Merged \in Rows
  BY <1>2, <1>3 DEF Merged, Rows
<1>5. \A r \in Records : Judged(Merged[r]) => <<m.stage, r>> \in backed
  <2> SUFFICES ASSUME NEW r \in Records, Judged(Merged[r]) PROVE <<m.stage, r>> \in backed
    OBVIOUS
  <2>1. Judged(Normalised[r]) \/ Judged(m.all[r])
    BY DEF Merged, Judged
  <2>2. Judged(Normalised[r]) => Judged(raw[Here][r])
    BY DEF Normalised, Judged
  <2> QED
    BY <1>1, <2>1, <2>2 DEF AllBacked
<1>6. Errored \in Seq(Records)
  BY <1>2, OnlyKeeps DEF Errored, AsErrored
<1>7. NoRows \in Rows /\ NoReplies \in Memories /\ <<>> \in Seq(Records) /\ <<>> \in Seq(Replied)
  BY <1>2, SeqEmpty, StageShape, StageNumbers
<1>8. \A r \in Records : ~Judged(NoRows[r])
  BY DEF NoRows, Judged
<1>9. PICK a \in 0..Retries, pending \in Seq(Records) : m' = Collected(a, pending)
  <2>1. CASE Again
    <3>1. m.attempt + 1 \in 0..Retries
      BY <1>1, <2>1, RetriesAssumption DEF Again, Working
    <3> QED
      BY <1>6, <2>1, <3>1 DEF Collect
  <2>2. CASE ~Again
    BY <1>1, <1>2, <2>2 DEF Collect, Working
  <2> QED
    BY <2>1, <2>2
<1>10. m' \in Working /\ m'.rows = NoRows /\ m'.all = Merged /\ m'.stage = m.stage /\ m'.input = m.input
  BY <1>1, <1>4, <1>7, <1>9 DEF Collected, Working
<1>11. /\ pc = "collect" /\ pc' \notin {"score", "append", "save"}
       /\ UNCHANGED <<cache, torn, raw, passed, final, backed, bill, cuts>>
  BY DEF Collect
<1>12. Shapes'
  BY <1>10, <1>11 DEF Shapes
<1>13. AllBacked'
  BY <1>5, <1>8, <1>10, <1>11 DEF AllBacked, FailClosed
<1>14. AllKept'
  BY <1>11, KeptOutside
<1> QED
  BY <1>12, <1>13, <1>14

\* Whoever survives a stage, advisory or not, has an opinion of it.
LEMMA SettleKeeps == ASSUME IndInv, Settle PROVE IndInv'
<1> USE DEF IndInv, history
<1>1. m \in Working /\ m.stage \in 1..Len(Stages) /\ m.input \in Seq(Records)
  BY DEF Shapes, Working
<1> DEFINE through == Only(m.input, {r \in Records : Survives(r)})
<1>2. through \in Seq(Records) /\ ToSet(through) = ToSet(m.input) \cap {r \in Records : Survives(r)}
  BY <1>1, OnlyKeeps
<1>3. \A r \in ToSet(through) : \A t \in 1..m.stage : <<t, r>> \in backed
  <2> SUFFICES ASSUME NEW r \in ToSet(through), NEW t \in 1..m.stage PROVE <<t, r>> \in backed
    OBVIOUS
  <2>1. r \in Records /\ r \in ToSet(m.input) /\ Survives(r)
    BY <1>2
  <2>2. Judged(m.all[r])
    BY <2>1 DEF Survives, Latest, Judged
  <2>3. <<m.stage, r>> \in backed
    BY <2>1, <2>2 DEF AllBacked
  <2>4. t = m.stage \/ t \in 1..(m.stage - 1)
    BY <1>1
  <2> QED
    BY <2>1, <2>3, <2>4 DEF AllBacked
<1> HIDE DEF through
<1>4. /\ UNCHANGED <<cache, torn, raw, final, backed, bill, cuts>>
      /\ passed' = [passed EXCEPT ![m.stage] = through]
      /\ pc = "settle" /\ pc' \notin {"score", "append", "save"}
      /\ \/ m.stage < Len(Stages) /\ m' = Stage(m.stage + 1, passed'[m.stage])
         \/ m' = m
  BY DEF Settle, through
<1>5. passed'[m.stage] = through
  BY <1>1, <1>4 DEF Shapes
<1>6. passed' \in [1..Len(Stages) -> Seq(Records)]
  BY <1>2, <1>4 DEF Shapes
<1>7. m' \in Working
  <2>1. CASE m' = m
    BY <1>1, <2>1
  <2>2. CASE m.stage < Len(Stages) /\ m' = Stage(m.stage + 1, through)
    <3>1. m.stage + 1 \in 1..Len(Stages)
      BY <1>1, <2>2, StageNumbers
    <3> QED
      BY <1>2, <2>2, <3>1, StageShape
  <2> QED
    BY <1>4, <1>5, <2>1, <2>2
<1>8. Shapes'
  BY <1>4, <1>6, <1>7 DEF Shapes
<1>9. \A s \in 1..Len(Stages) : \A r \in ToSet(passed'[s]) : \A t \in 1..s : <<t, r>> \in backed
  <2> SUFFICES ASSUME NEW s \in 1..Len(Stages), NEW r \in ToSet(passed'[s]), NEW t \in 1..s
               PROVE  <<t, r>> \in backed
    OBVIOUS
  <2>1. CASE s = m.stage
    BY <1>3, <1>5, <2>1
  <2>2. CASE s # m.stage
    <3>1. passed'[s] = passed[s]
      BY <1>4, <2>2 DEF Shapes
    <3> QED
      BY <3>1 DEF AllBacked
  <2> QED
    BY <2>1, <2>2
<1>10. /\ \A r \in Records : Judged(m'.rows[r]) \/ Judged(m'.all[r]) => <<m'.stage, r>> \in backed
       /\ \A r \in ToSet(m'.input) : \A s \in 1..(m'.stage - 1) : <<s, r>> \in backed
  <2>1. CASE m' = m
    BY <2>1 DEF AllBacked
  <2>2. CASE m' = Stage(m.stage + 1, through)
    <3>1. m'.stage = m.stage + 1 /\ m'.input = through
          /\ \A r \in Records : ~Judged(m'.rows[r]) /\ ~Judged(m'.all[r])
      BY <2>2, FreshStage
    <3>2. m'.stage - 1 = m.stage
      BY <1>1, <3>1
    <3> QED
      BY <1>3, <3>1, <3>2
  <2> QED
    BY <1>4, <1>5, <2>1, <2>2
<1>11. AllBacked'
  BY <1>4, <1>9, <1>10 DEF AllBacked, FailClosed
<1>12. AllKept'
  BY <1>4, KeptOutside
<1> QED
  BY <1>8, <1>11, <1>12

LEMMA WriteCorpusKeeps == ASSUME IndInv, WriteCorpus PROVE IndInv'
<1> USE DEF IndInv, history
<1>1. UNCHANGED <<m, cache, torn, raw, passed, backed, bill, cuts>> /\ pc = "corpus" /\ pc' = "manifest"
      /\ final' = passed[Len(Stages)]
  BY DEF WriteCorpus
<1>2. \A r \in ToSet(final') : \A s \in 1..Len(Stages) : <<s, r>> \in backed
  BY <1>1, StageNumbers DEF AllBacked
<1>3. Shapes'
  BY <1>1 DEF Shapes
<1>4. AllBacked'
  BY <1>1, <1>2 DEF AllBacked, FailClosed
<1>5. AllKept'
  BY <1>1, KeptOutside
<1> QED
  BY <1>3, <1>4, <1>5

LEMMA StutterKeeps == ASSUME IndInv, UNCHANGED vars PROVE IndInv'
<1> USE DEF vars, disk, history
<1>1. Here' = Here /\ Build' = Build /\ Record' = Record /\ InHand' = InHand
  BY DEF Here, Build, Record, InHand
<1>2. Shapes' /\ AllBacked'
  BY DEF IndInv, Shapes, AllBacked, FailClosed
<1>3. AllKept'
  BY <1>1, AccountStays DEF IndInv, AllKept, Remembered, Paid
<1> QED
  BY <1>2, <1>3 DEF IndInv

LEMMA NextKeeps == IndInv /\ [Next]_vars => IndInv'
<1> SUFFICES ASSUME IndInv, [Next]_vars PROVE IndInv'
  OBVIOUS
<1>1. CASE Start
  BY <1>1, StartKeeps
<1>2. CASE Launch
  BY <1>2, LaunchKeeps
<1>3. CASE NothingPending
  BY <1>3, NothingPendingKeeps
<1>4. CASE Settled
  BY <1>4, SettledKeeps
<1>5. CASE Served
  BY <1>5, ServedKeeps
<1>6. CASE Conclude
  BY <1>6, ConcludeKeeps
<1>7. CASE WriteOut
  BY <1>7, WriteOutKeeps
<1>8. CASE SaveCache
  BY <1>8, SaveCacheKeeps
<1>9. CASE Collect
  BY <1>9, CollectKeeps
<1>10. CASE Settle
  BY <1>10, SettleKeeps
<1>11. CASE WriteCorpus
  BY <1>11, WriteCorpusKeeps
<1>12. CASE WriteManifest
  BY <1>12, WriteManifestKeeps
<1>13. CASE \E reply \in Answers : Call(reply)
  BY <1>13, CallKeeps
<1>14. CASE Crash
  BY <1>14, CrashKeeps
<1>15. CASE Kill
  BY <1>15, KillKeeps
<1>16. CASE UNCHANGED vars
  BY <1>16, StutterKeeps
<1>17. CASE Store
  BY <1>17, StoreKeeps
<1> QED
  BY <1>1, <1>2, <1>3, <1>4, <1>5, <1>6, <1>7, <1>8, <1>9, <1>10, <1>11, <1>12, <1>13,
     <1>14, <1>15, <1>16, <1>17 DEF Next, Step

\* In every state an opinion stands behind every status of every file and of the
\* memory, and what was paid for is in the caches, in hand, or charged to a death.
THEOREM CascadeIsInductive == Spec => []IndInv
<1>1. Init => IndInv
  BY InitFails
<1>2. IndInv /\ [Next]_vars => IndInv'
  BY NextKeeps
<1> QED
  BY <1>1, <1>2, PTL DEF Spec

\* A record is in the final corpus only if every stage once formed an opinion of
\* it, whatever crashed, was killed or came back as an error in between.
THEOREM CascadeFailsClosed == Spec => []FailClosed
<1>1. IndInv => FailClosed
  BY DEF IndInv, AllBacked
<1> QED
  BY <1>1, CascadeIsInductive, PTL

\* A death between the payment of a reply and the end of its append costs at most
\* two replies of the Claude poser, and nothing else costs any: all others stand
\* in a cache that the next invocation reads.
THEOREM RepliesAreKept == Spec => []RepliesKept
<1>1. IndInv => RepliesKept
  <2> SUFFICES ASSUME IndInv PROVE RepliesKept
    OBVIOUS
  <2>1. /\ bill \in Nat /\ cuts \in Nat /\ InHand \in {0, 1}
        /\ Cardinality(Readable) \in Nat /\ Cardinality(Unfinished) \in Nat
    BY FS_CardinalityType DEF IndInv, AllKept, Account, InHand
  <2> QED
    BY <2>1 DEF IndInv, AllKept, Account, RepliesKept
<1> QED
  BY <1>1, CascadeIsInductive, PTL
-----------------------------------------------------------------------------
(* The pipeline.                                                             *)

LEMMA OrderOfAll ==
  ASSUME NEW set
  PROVE  InOrder(Only(Input, set)) /\ ToSet(Only(Input, set)) = Records \cap set
<1>1. Input \in Seq(ToSet(Input)) /\ Records = ToSet(Input)
  BY InputAssumption DEF Records
<1> DEFINE S == ToSet(Input)
<1> HIDE DEF S
<1>2. Input \in Seq(S)
  BY <1>1 DEF S
<1>3. ToSet(Only(Input, set)) = ToSet(Input) \cap set
  BY <1>2, OnlyKeeps
<1>4. ToSet(Input) \cap set = ToSet(Input) \cap (ToSet(Input) \cap set)
  OBVIOUS
<1>5. Only(Input, set) = Only(Input, ToSet(Input) \cap set)
  BY <1>2, <1>4, OnlySame
<1> QED
  BY <1>1, <1>3, <1>5 DEF InOrder

LEMMA OrderOfPart ==
  ASSUME NEW seq, InOrder(seq), NEW set
  PROVE  InOrder(Only(seq, set)) /\ ToSet(Only(seq, set)) = ToSet(seq) \cap set
<1>1. Input \in Seq(ToSet(Input)) /\ Records = ToSet(Input)
  BY InputAssumption DEF Records
<1> DEFINE S == ToSet(Input)
           T == ToSet(seq)
<1> HIDE DEF S, T
<1>2. Input \in Seq(S)
  BY <1>1 DEF S
<1>3. seq = Only(Input, T)
  BY DEF InOrder, T
<1>4. Only(seq, set) = Only(Input, T \cap set)
  BY <1>2, <1>3, OnlyTwice
<1>5. Only(seq, set) = Only(Input, T \cap set)
  BY <1>4
<1>6. ToSet(seq) = ToSet(Input) \cap T
  BY <1>2, <1>3, OnlyKeeps
<1>7. ToSet(seq) = Records \cap T
  BY <1>1, <1>6
<1>8. ToSet(Only(Input, T \cap set)) = Records \cap (T \cap set)
  BY OrderOfAll
<1> QED
  BY <1>5, <1>7, <1>8, OrderOfAll

LEMMA OrderedRecords ==
  ASSUME NEW seq, InOrder(seq)
  PROVE  ToSet(seq) \subseteq Records
BY OrderOfAll DEF InOrder

LEMMA NoLength == ASSUME NEW S, NEW s \in Seq(S), Len(s) = 0 PROVE s = <<>>
<1>1. ASSUME s # <<>> PROVE Len(s) # 0
  BY <1>1
<1> QED
  BY <1>1

LEMMA NoElements ==
  ASSUME NEW S, NEW s \in Seq(S), ToSet(s) = {}
  PROVE  s = <<>>
<1>1. Len(s) \in Nat /\ DOMAIN s = 1..Len(s)
  OBVIOUS
<1>2. ~(1 \in DOMAIN s)
  <2>1. \A i : i \in DOMAIN s => s[i] \in ToSet(s)
    BY DEF ToSet
  <2> QED
    BY <2>1
<1>3. Len(s) = 0
  BY <1>1, <1>2
<1> QED
  BY <1>3, NoLength

LEMMA OrderOfNone == InOrder(<<>>) /\ ToSet(<<>>) = {}
<1> DEFINE none == Only(Input, {})
<1>1. ToSet(none) = {} /\ InOrder(none)
  BY OrderOfAll
<1>2. none \in Seq(ToSet(Input))
  <2>1. Input \in Seq(ToSet(Input))
    BY InputAssumption
  <2> DEFINE S == ToSet(Input)
  <2> HIDE DEF S
  <2>2. Input \in Seq(S)
    BY <2>1 DEF S
  <2>3. Only(Input, {}) \in Seq(S)
    BY <2>2, OnlyKeeps
  <2> QED
    BY <2>3 DEF S
<1> HIDE DEF none
<1>3. none = <<>>
  <2> DEFINE S == ToSet(Input)
  <2> HIDE DEF S
  <2>1. none \in Seq(S) /\ ToSet(none) = {}
    BY <1>1, <1>2 DEF S
  <2> QED
    BY <2>1, NoElements
<1> QED
  BY <1>1, <1>3

\* An uphold of votes stands behind a paper that counts as published.
LEMMA PublishedWon ==
  \A votes : PaperStatus(votes, Uphold) = "published" => Count(votes, {"published"}) >= Uphold
BY DEF PaperStatus

\* More passes never undo what the policy admitted.
LEMMA BackedStays ==
  ASSUME setup \in Setups, setup' = setup, said \subseteq said',
         NEW r, Backed(r)
  PROVE  Backed(r)'
<1> DEFINE before == {c \in Fleet : <<c, r>> \in said}
           after == {c \in Fleet : <<c, r>> \in said'}
<1>1. before \subseteq after /\ after \subseteq Fleet
  OBVIOUS
<1>2. IsFiniteSet(Fleet) /\ IsFiniteSet(after) /\ IsFiniteSet(before) /\ Cardinality(before) <= Cardinality(after)
  BY <1>1, FS_Subset, FleetAssumption
<1>3. Cardinality(before) \in Nat /\ Cardinality(after) \in Nat /\ Cardinality(Fleet) \in Nat
  BY <1>2, FS_CardinalityType
<1> HIDE DEF before, after
<1>4. CASE setup.policy = "majority"
  BY <1>1, <1>2, <1>3, <1>4 DEF Backed, before, after
<1>5. CASE setup.policy # "majority"
  BY <1>1, <1>5 DEF Backed, Setups, Policies, before, after
<1> QED
  BY <1>4, <1>5

\* What the gate admits has the passes the policy asks for.
LEMMA GateIsBacked ==
  ASSUME PipelineShapes, PassesSaid, NEW r \in Records, Gate(r) = "well_posed"
  PROVE  Backed(r)
<1> DEFINE status == Status(r)
           passes == {c \in Fleet : <<c, r>> \in said}
           winners == {c \in Fleet : status[c] = "well_posed"}
<1>1. DOMAIN status = Fleet /\ \A c \in Fleet : status[c] = "well_posed" => outputs[c][r] = "well_posed"
  BY DEF Status
<1> HIDE DEF status
<1>2. winners \subseteq passes /\ passes \subseteq Fleet
  BY <1>1 DEF PassesSaid
<1>3. /\ IsFiniteSet(Fleet) /\ IsFiniteSet(passes) /\ IsFiniteSet(winners)
      /\ Cardinality(winners) <= Cardinality(passes) /\ Cardinality(passes) <= Cardinality(Fleet)
      /\ Cardinality(winners) = Cardinality(Fleet) => winners = Fleet
  <2>1. IsFiniteSet(Fleet)
    BY FleetAssumption
  <2>2. IsFiniteSet(passes) /\ Cardinality(passes) <= Cardinality(Fleet)
    BY <1>2, <2>1, FS_Subset
  <2>3. IsFiniteSet(winners) /\ Cardinality(winners) <= Cardinality(passes)
    BY <1>2, <2>2, FS_Subset
  <2>4. Cardinality(winners) = Cardinality(Fleet) => winners = Fleet
    BY <2>1, FS_Subset
  <2> QED
    BY <2>1, <2>2, <2>3, <2>4
<1>4. Cardinality(winners) \in Nat /\ Cardinality(passes) \in Nat /\ Cardinality(Fleet) \in Nat
  BY <1>3, FS_CardinalityType
<1>5. CASE setup.policy = "prefer"
  <2>1. status[Target] = "well_posed" /\ Target \in Fleet
    BY <1>5, FleetAssumption DEF Gate, status
  <2> QED
    BY <1>1, <1>2, <1>5, <2>1 DEF Backed
<1>6. CASE setup.policy # "prefer"
  <2>1. Combined(setup.policy, status) = "well_posed"
    BY <1>6 DEF Gate, status
  <2>2. Admits(setup.policy, status)
    BY <2>1 DEF Combined
  <2>3. setup.policy \in {"intersect", "union", "majority"}
    BY <1>6 DEF PipelineShapes, Setups, Policies
  <2>4. CASE setup.policy = "intersect"
    <3>1. winners = Fleet
      BY <1>1, <1>3, <2>2, <2>4 DEF Admits
    <3> QED
      BY <1>2, <2>4, <3>1 DEF Backed
  <2>5. CASE setup.policy = "union"
    <3>1. Cardinality(winners) >= 1
      BY <1>1, <2>2, <2>5 DEF Admits
    <3>2. passes # {}
      <4> HIDE DEF passes, winners
      <4> QED
        BY <1>3, <1>4, <3>1, FS_EmptySet
    <3> QED
      BY <2>5, <3>2 DEF Backed
  <2>6. CASE setup.policy = "majority"
    <3>1. Cardinality(winners) * 2 > Cardinality(Fleet)
      BY <1>1, <2>2, <2>6 DEF Admits
    <3>2. Cardinality(passes) * 2 > Cardinality(Fleet)
      <4> HIDE DEF passes, winners
      <4> QED
        BY <1>3, <1>4, <3>1
    <3> QED
      BY <2>6, <3>2 DEF Backed
  <2> QED
    BY <2>3, <2>4, <2>5, <2>6
<1> QED
  BY <1>5, <1>6

\* What a file holds stays earned while the uphold, the passes and the labels
\* that were there are still there.
Upholds ==
  /\ setup' = setup /\ setup \in Setups
  /\ said \subseteq said' /\ upheld \subseteq upheld'
  /\ \A r \in Records : store[r] # None => store'[r] = store[r]

LEMMA PublishedStays ==
  ASSUME Upholds, PublishedEarned, published' = published
  PROVE  PublishedEarned'
BY DEF Upholds, PublishedEarned, InOrder, Won

LEMMA PassedStays ==
  ASSUME Upholds, PassedEarned, admitted' = admitted
  PROVE  PassedEarned'
<1>1. \A r \in ToSet(admitted) : r \in Records /\ Won(r)' /\ Backed(r)' /\ Worthwhile(r)'
  <2> SUFFICES ASSUME NEW r \in ToSet(admitted)
               PROVE  r \in Records /\ Won(r)' /\ Backed(r)' /\ Worthwhile(r)'
    OBVIOUS
  <2>1. r \in Records
    BY OrderedRecords DEF PassedEarned
  <2>2. Won(r) /\ Backed(r) /\ Worthwhile(r)
    BY DEF PassedEarned
  <2>3. Won(r)'
    BY <2>2 DEF Won, Upholds
  <2>4. Backed(r)'
    BY <2>2, BackedStays DEF Upholds
  <2>5. Worthwhile(r)'
    BY <2>1, <2>2 DEF Worthwhile, Scored, PassKFirst, Upholds
  <2> QED
    BY <2>1, <2>3, <2>4, <2>5
<1> QED
  BY <1>1 DEF PassedEarned, InOrder

LEMMA ScoredStays ==
  ASSUME Upholds, ScoredEarned, scored' = scored
  PROVE  ScoredEarned'
<1>1. \A r \in ToSet(scored) :
        r \in Records /\ Won(r)' /\ Scored(r)' /\ (PassKLast' => Backed(r)')
  <2> SUFFICES ASSUME NEW r \in ToSet(scored)
               PROVE  r \in Records /\ Won(r)' /\ Scored(r)' /\ (PassKLast' => Backed(r)')
    OBVIOUS
  <2>1. r \in Records
    BY OrderedRecords DEF ScoredEarned
  <2>2. Won(r) /\ Scored(r) /\ (PassKLast => Backed(r))
    BY DEF ScoredEarned
  <2>3. Won(r)'
    BY <2>2 DEF Won, Upholds
  <2>4. Scored(r)'
    BY <2>1, <2>2 DEF Scored, Upholds
  <2>5. PassKLast' => Backed(r)'
    BY <2>2, BackedStays DEF PassKLast, Upholds
  <2> QED
    BY <2>1, <2>3, <2>4, <2>5
<1> QED
  BY <1>1 DEF ScoredEarned, InOrder

LEMMA FinalStays ==
  ASSUME Upholds, FinalEarned, corpus' = corpus
  PROVE  FinalEarned'
<1>1. InOrder(corpus)
  BY DEF FinalEarned, InOrder
<1>2. \A r \in ToSet(corpus) :
        /\ Paper[r] \in upheld' /\ Backed(r)'
        /\ setup'.passk = "on" => store'[r] # None
        /\ PassKFirst' => Solvable(store'[r])
  <2> SUFFICES ASSUME NEW r \in ToSet(corpus)
               PROVE  /\ Paper[r] \in upheld' /\ Backed(r)'
                      /\ setup'.passk = "on" => store'[r] # None
                      /\ PassKFirst' => Solvable(store'[r])
    OBVIOUS
  <2>1. r \in Records
    BY <1>1, OrderedRecords
  <2>2. /\ Paper[r] \in upheld /\ Backed(r)
        /\ setup.passk = "on" => store[r] # None
        /\ PassKFirst => Solvable(store[r])
    BY DEF FinalEarned
  <2>3. Backed(r)'
    BY <2>2, BackedStays DEF Upholds
  <2>4. PassKFirst' = PassKFirst /\ (PassKFirst => setup.passk = "on")
    BY DEF PassKFirst, Upholds
  <2> QED
    BY <2>1, <2>2, <2>3, <2>4 DEF Upholds
<1> QED
  BY <1>2 DEF FinalEarned

Files == <<published, admitted, scored, corpus>>

\* A step that leaves the files of the records alone only has to answer for the
\* verdicts on papers and for the posers' files.
LEMMA FilesStay ==
  ASSUME PipelineInv, Upholds, UNCHANGED Files, PipelineShapes', PapersWon', PassesSaid', Looked'
  PROVE  PipelineInv'
BY PublishedStays, PassedStays, ScoredStays, FinalStays DEF PipelineInv, Earned, Files

LEMMA NothingStays ==
  ASSUME PipelineShapes, UNCHANGED <<setup, said, upheld, store>>
  PROVE  Upholds
BY DEF Upholds, PipelineShapes

LEMMA PipelineInitFails == PipelineInit => PipelineInv
<1> SUFFICES ASSUME PipelineInit PROVE PipelineInv
  OBVIOUS
<1> USE DEF PipelineInit
<1>1. PipelineShapes
  BY DEF PipelineShapes, NoVerdicts
<1>2. PapersWon /\ PassesSaid
  BY DEF PapersWon, PassesSaid, NoVerdicts, None
<1>3. InOrder(<<>>) /\ ToSet(<<>>) = {}
  BY OrderOfNone
<1>4. PublishedEarned /\ PassedEarned /\ ScoredEarned
  BY <1>3 DEF PublishedEarned, PassedEarned, ScoredEarned
<1>5. FinalEarned
  BY <1>3 DEF FinalEarned, InOrder
<1>6. Looked
  BY DEF Looked
<1> QED
  BY <1>1, <1>2, <1>4, <1>5, <1>6 DEF PipelineInv, Earned

LEMMA BeginKeeps == ASSUME PipelineInv, Begin PROVE PipelineInv'
<1>1. /\ phase' = "lookup" /\ found' = [p \in Papers |-> IF p \in Wanted THEN gtcache[p] ELSE None]
      /\ UNCHANGED <<setup, gtcache, published, store, scored, upheld, said, outputs, admitted, corpus>>
  BY DEF Begin, files, FoundCached
<1>2. Upholds /\ UNCHANGED Files
  BY <1>1, NothingStays DEF PipelineInv, Files
<1>3. PipelineShapes'
  BY <1>1 DEF PipelineInv, PipelineShapes
<1>4. PapersWon' /\ PassesSaid'
  BY <1>1 DEF PipelineInv, Earned, PapersWon, PassesSaid, None
<1>5. Wanted \subseteq Papers
  BY DEF Wanted, Papers, Queued
<1>6. Looked'
  BY <1>1, <1>5 DEF Looked
<1> QED
  BY <1>2, <1>3, <1>4, <1>6, FilesStay

LEMMA LookupKeeps ==
  ASSUME PipelineInv, NEW p \in Papers, NEW votes, Lookup(p, votes)
  PROVE  PipelineInv'
<1> DEFINE verdict == PaperStatus(votes, Uphold)
<1>1. /\ phase = "lookup" /\ found[p] = None /\ p \in Wanted
      /\ found' = [found EXCEPT ![p] = verdict]
      /\ upheld' = IF Count(votes, {"published"}) >= Uphold THEN upheld \cup {p} ELSE upheld
      /\ UNCHANGED <<phase, setup, gtcache, published, store, scored, said, outputs, admitted, corpus>>
  BY DEF Lookup, files
<1>2. verdict = "published" => p \in upheld'
  BY <1>1, PublishedWon
<1> HIDE DEF verdict
<1>3. Upholds /\ UNCHANGED Files
  BY <1>1 DEF PipelineInv, PipelineShapes, Upholds, Files
<1>4. \A q \in Papers : found'[q] = IF q = p THEN verdict ELSE found[q]
  BY <1>1 DEF PipelineInv, PipelineShapes
<1>5. PipelineShapes'
  BY <1>1 DEF PipelineInv, PipelineShapes
<1>6. PapersWon'
  BY <1>1, <1>2, <1>4 DEF PipelineInv, Earned, PapersWon
<1>7. PassesSaid'
  BY <1>1 DEF PipelineInv, Earned, PassesSaid
<1>8. Wanted \subseteq Papers
  BY DEF Wanted, Papers, Queued
<1>9. Looked'
  BY <1>1, <1>4, <1>8 DEF PipelineInv, Looked
<1> QED
  BY <1>3, <1>5, <1>6, <1>7, <1>9, FilesStay

LEMMA PersistCacheKeeps == ASSUME PipelineInv, PersistCache PROVE PipelineInv'
<1>1. /\ phase' = "publish"
      /\ gtcache' = [p \in Papers |-> IF found[p] # None THEN found[p] ELSE gtcache[p]]
      /\ UNCHANGED <<setup, found, published, store, scored, upheld, said, outputs, admitted, corpus>>
  BY DEF PersistCache
<1>2. Upholds /\ UNCHANGED Files
  BY <1>1, NothingStays DEF PipelineInv, Files
<1>3. PipelineShapes'
  BY <1>1 DEF PipelineInv, PipelineShapes
<1>4. PapersWon' /\ PassesSaid'
  BY <1>1 DEF PipelineInv, Earned, PapersWon, PassesSaid
<1>5. Looked'
  BY <1>1 DEF Looked
<1> QED
  BY <1>2, <1>3, <1>4, <1>5, FilesStay

LEMMA PublishKeeps == ASSUME PipelineInv, Publish PROVE PipelineInv'
<1>1. /\ published' = Only(Input, {r \in Records : Published(r)})
      /\ phase' \in {"empty", "passk", "fleet"}
      /\ UNCHANGED <<setup, found, gtcache, store, scored, upheld, said, outputs, admitted, corpus>>
  BY DEF Publish
<1>2. Upholds
  BY <1>1, NothingStays DEF PipelineInv
<1>3. PipelineShapes' /\ PapersWon' /\ PassesSaid' /\ Looked'
  BY <1>1 DEF PipelineInv, Earned, PipelineShapes, PapersWon, PassesSaid, Looked
<1>4. InOrder(published') /\ ToSet(published') = Records \cap {r \in Records : Published(r)}
  BY <1>1, OrderOfAll
<1>5. \A r \in Records : Published(r) => Won(r)
  BY DEF PipelineInv, Earned, PapersWon, Published, Won, Queued, Papers
<1>6. \A r \in ToSet(published') : Won(r)'
  BY <1>1, <1>4, <1>5 DEF Won
<1>7. PublishedEarned'
  BY <1>4, <1>6 DEF PublishedEarned, InOrder
<1>8. PassedEarned' /\ ScoredEarned' /\ FinalEarned'
  BY <1>1, <1>2, PassedStays, ScoredStays, FinalStays DEF PipelineInv, Earned
<1> QED
  BY <1>3, <1>7, <1>8 DEF PipelineInv, Earned

\* What goes to the posers has won and, when pass@k is first, a label worth solving.
LEMMA FleetInputEarned ==
  ASSUME PipelineInv
  PROVE  /\ InOrder(FleetInput)
         /\ \A r \in ToSet(FleetInput) : r \in Records /\ Won(r) /\ Worthwhile(r)
<1>1. CASE PassKFirst
  <2> DEFINE solvable == {r \in Records : Solvable(store[r])}
  <2>1. FleetInput = Only(scored, solvable)
    BY <1>1 DEF FleetInput, SolvableOnly
  <2>2. InOrder(scored) /\ \A r \in ToSet(scored) : Won(r) /\ Scored(r)
    BY DEF PipelineInv, Earned, ScoredEarned
  <2>3. InOrder(FleetInput) /\ ToSet(FleetInput) = ToSet(scored) \cap solvable
    BY <2>1, <2>2, OrderOfPart
  <2> QED
    BY <2>2, <2>3 DEF Worthwhile
<1>2. CASE ~PassKFirst
  <2>1. FleetInput = published
    BY <1>2 DEF FleetInput
  <2>2. InOrder(published) /\ \A r \in ToSet(published) : Won(r)
    BY DEF PipelineInv, Earned, PublishedEarned
  <2>3. ToSet(published) \subseteq Records
    BY <2>2, OrderedRecords
  <2> QED
    BY <1>2, <2>1, <2>2, <2>3 DEF Worthwhile
<1> QED
  BY <1>1, <1>2

LEMMA PoserKeeps ==
  ASSUME PipelineInv, NEW c \in Fleet, NEW verdict, Poser(c, verdict)
  PROVE  PipelineInv'
<1> DEFINE in == ToSet(FleetInput)
           rows == [r \in Records |-> IF r \in in THEN verdict[r] ELSE None]
<1> HIDE DEF in
<1>1. /\ outputs' = [outputs EXCEPT ![c] = rows]
      /\ said' = said \cup {<<c, r>> : r \in {q \in in : verdict[q] = "well_posed"}}
      /\ phase = "fleet"
      /\ UNCHANGED <<phase, setup, found, gtcache, published, store, scored, upheld, admitted, corpus>>
  BY DEF Poser, in
<1>2. Upholds /\ UNCHANGED Files
  BY <1>1 DEF PipelineInv, PipelineShapes, Upholds, Files
<1>3. \A d \in Fleet : outputs'[d] = IF d = c THEN rows ELSE outputs[d]
  BY <1>1 DEF PipelineInv, PipelineShapes
<1>4. PipelineShapes'
  <2>1. outputs' = [d \in Fleet |-> outputs'[d]]
    BY <1>1, <1>3 DEF PipelineInv, PipelineShapes
  <2>2. \A d \in Fleet : outputs'[d] = [r \in Records |-> outputs'[d][r]]
    BY <1>3 DEF PipelineInv, PipelineShapes
  <2> HIDE DEF rows
  <2> QED
    BY <1>1, <2>1, <2>2 DEF PipelineInv, PipelineShapes
<1>5. PapersWon' /\ Looked'
  BY <1>1 DEF PipelineInv, Earned, PapersWon, Looked
<1>6. PassesSaid'
  <2> SUFFICES ASSUME NEW d \in Fleet, NEW r \in Records, outputs'[d][r] = "well_posed"
               PROVE  <<d, r>> \in said'
    BY DEF PassesSaid
  <2>1. CASE d = c
    <3>1. rows[r] = "well_posed"
      BY <1>3, <2>1
    <3>2. r \in in /\ verdict[r] = "well_posed"
      BY <3>1 DEF None
    <3> QED
      BY <1>1, <2>1, <3>2
  <2>2. CASE d # c
    BY <1>1, <1>3, <2>2 DEF PipelineInv, Earned, PassesSaid
  <2> QED
    BY <2>1, <2>2
<1> QED
  BY <1>2, <1>4, <1>5, <1>6, FilesStay

LEMMA PoserDiesKeeps == ASSUME PipelineInv, NEW c \in Fleet, PoserDies(c) PROVE PipelineInv'
<1>1. /\ phase = "fleet"
      /\ UNCHANGED <<phase, setup, found, gtcache, published, store, scored, upheld, said, outputs, admitted, corpus>>
  BY DEF PoserDies, files
<1>2. Upholds /\ UNCHANGED Files
  BY <1>1, NothingStays DEF PipelineInv, Files
<1>3. PipelineShapes' /\ PapersWon' /\ PassesSaid' /\ Looked'
  BY <1>1 DEF PipelineInv, Earned, PipelineShapes, PapersWon, PassesSaid, Looked
<1> QED
  BY <1>2, <1>3, FilesStay

LEMMA WritePassedKeeps == ASSUME PipelineInv, WritePassed PROVE PipelineInv'
<1> DEFINE winners == {r \in Records : Gate(r) = "well_posed"}
<1>1. /\ admitted' = Only(FleetInput, winners) /\ phase' \in {"passk", "final"}
      /\ UNCHANGED <<setup, found, gtcache, published, store, scored, upheld, said, outputs, corpus>>
  BY DEF WritePassed
<1>2. Upholds
  BY <1>1, NothingStays DEF PipelineInv
<1>3. PipelineShapes' /\ PapersWon' /\ PassesSaid' /\ Looked'
  BY <1>1 DEF PipelineInv, Earned, PipelineShapes, PapersWon, PassesSaid, Looked
<1>4. InOrder(admitted') /\ ToSet(admitted') = ToSet(FleetInput) \cap winners
  BY <1>1, FleetInputEarned, OrderOfPart
<1>5. \A r \in winners : Backed(r)
  BY GateIsBacked DEF PipelineInv, Earned
<1>6. \A r \in ToSet(admitted') : Won(r) /\ Backed(r) /\ Worthwhile(r)
  BY <1>4, <1>5, FleetInputEarned
<1> HIDE DEF winners
<1>7. \A r \in ToSet(admitted') : Won(r)' /\ Backed(r)' /\ Worthwhile(r)'
  BY <1>1, <1>6 DEF Won, Backed, Worthwhile, Scored, PassKFirst
<1>8. PassedEarned'
  BY <1>4, <1>7 DEF PassedEarned, InOrder
<1>9. PublishedEarned' /\ ScoredEarned' /\ FinalEarned'
  BY <1>1, <1>2, PublishedStays, ScoredStays, FinalStays DEF PipelineInv, Earned
<1> QED
  BY <1>3, <1>8, <1>9 DEF PipelineInv, Earned

LEMMA ScoreKeeps ==
  ASSUME PipelineInv, NEW r \in Records, NEW label \in Scores, Score(r, label)
  PROVE  PipelineInv'
<1>1. /\ store' = [store EXCEPT ![r] = label] /\ store[r] = None /\ phase = "passk"
      /\ UNCHANGED <<phase, setup, found, gtcache, published, scored, upheld, said, outputs, admitted, corpus>>
  BY DEF Score, Unscored
<1>2. \A q \in Records : store'[q] = IF q = r THEN label ELSE store[q]
  BY <1>1 DEF PipelineInv, PipelineShapes
<1>3. Upholds /\ UNCHANGED Files
  BY <1>1, <1>2 DEF PipelineInv, PipelineShapes, Upholds, Files
<1>4. PipelineShapes' /\ PapersWon' /\ PassesSaid' /\ Looked'
  BY <1>1 DEF PipelineInv, Earned, PipelineShapes, PapersWon, PassesSaid, Looked
<1> QED
  BY <1>3, <1>4, FilesStay

\* What pass@k emits has a label and, when it is last, the fleet's passes.
LEMMA EmittedKeeps ==
  ASSUME PipelineInv, phase = "passk", scored' = Emitted, phase' = AfterPassK,
         UNCHANGED <<setup, found, gtcache, published, store, upheld, said, outputs, admitted, corpus>>
  PROVE  PipelineInv'
<1> DEFINE labelled == {r \in Records : store[r] # None}
<1>1. scored' = Only(ScoreInput, labelled) /\ phase' \in {"fleet", "final"}
  BY DEF Emitted, AfterPassK
<1>2. Upholds
  BY NothingStays DEF PipelineInv
<1>3. PipelineShapes' /\ PapersWon' /\ PassesSaid' /\ Looked'
  BY <1>1 DEF PipelineInv, Earned, PipelineShapes, PapersWon, PassesSaid, Looked
<1>4. InOrder(ScoreInput)
      /\ \A r \in ToSet(ScoreInput) : Won(r) /\ (PassKLast => Backed(r))
  <2>1. PassKFirst => ~PassKLast
    BY DEF PassKFirst, PassKLast
  <2> QED
    BY <2>1 DEF ScoreInput, PipelineInv, Earned, PublishedEarned, PassedEarned
<1>5. InOrder(scored') /\ ToSet(scored') = ToSet(ScoreInput) \cap labelled
  BY <1>1, <1>4, OrderOfPart
<1>6. \A r \in ToSet(scored') : Won(r) /\ Scored(r) /\ (PassKLast => Backed(r))
  BY <1>4, <1>5 DEF Scored
<1> HIDE DEF labelled
<1>7. \A r \in ToSet(scored') : Won(r)' /\ Scored(r)' /\ (PassKLast' => Backed(r)')
  BY <1>6 DEF Won, Backed, Scored, PassKLast
<1>8. ScoredEarned'
  BY <1>5, <1>7 DEF ScoredEarned, InOrder
<1>9. PublishedEarned' /\ PassedEarned' /\ FinalEarned'
  BY <1>1, <1>2, PublishedStays, PassedStays, FinalStays DEF PipelineInv, Earned
<1> QED
  BY <1>3, <1>8, <1>9 DEF PipelineInv, Earned

LEMMA FinaliseKeeps == ASSUME PipelineInv, Finalise PROVE PipelineInv'
<1>1. /\ corpus' = FinalSource /\ phase' = "done" /\ phase \in {"empty", "final"}
      /\ UNCHANGED <<setup, found, gtcache, published, store, scored, upheld, said, outputs, admitted>>
  BY DEF Finalise
<1>2. Upholds
  BY <1>1, NothingStays DEF PipelineInv
<1>3. PipelineShapes' /\ PapersWon' /\ PassesSaid' /\ Looked'
  BY <1>1 DEF PipelineInv, Earned, PipelineShapes, PapersWon, PassesSaid, Looked
<1>4. \/ corpus' = <<>>
      \/ corpus' = admitted /\ (setup.passk = "on" => PassKFirst)
      \/ corpus' = scored /\ PassKLast
  <2>1. setup.passk = "on" => PassKFirst \/ PassKLast
    BY DEF PipelineInv, PipelineShapes, Setups, PassKFirst, PassKLast
  <2>2. PassKFirst => ~PassKLast
    BY DEF PassKFirst, PassKLast
  <2> QED
    BY <1>1, <2>1, <2>2 DEF FinalSource
<1>5. /\ InOrder(corpus')
      /\ \A r \in ToSet(corpus') :
           /\ Won(r) /\ Backed(r)
           /\ setup.passk = "on" => Scored(r)
           /\ PassKFirst => Solvable(store[r])
  <2>1. CASE corpus' = <<>>
    BY <2>1, OrderOfNone
  <2>2. CASE corpus' = admitted /\ (setup.passk = "on" => PassKFirst)
    BY <2>2 DEF PipelineInv, Earned, PassedEarned, Worthwhile
  <2>3. CASE corpus' = scored /\ PassKLast
    <3>1. ~PassKFirst
      BY <2>3 DEF PassKFirst, PassKLast
    <3> QED
      BY <2>3, <3>1 DEF PipelineInv, Earned, ScoredEarned
  <2> QED
    BY <1>4, <2>1, <2>2, <2>3
<1>6. \A r \in ToSet(corpus') :
        /\ Paper[r] \in upheld' /\ Backed(r)'
        /\ setup'.passk = "on" => store'[r] # None
        /\ PassKFirst' => Solvable(store'[r])
  BY <1>1, <1>5 DEF Won, Backed, Scored, PassKFirst
<1>7. FinalEarned'
  BY <1>5, <1>6 DEF FinalEarned, InOrder
<1>8. PublishedEarned' /\ PassedEarned' /\ ScoredEarned'
  BY <1>1, <1>2, PublishedStays, PassedStays, ScoredStays DEF PipelineInv, Earned
<1> QED
  BY <1>3, <1>7, <1>8 DEF PipelineInv, Earned

LEMMA InterruptKeeps == ASSUME PipelineInv, Interrupt PROVE PipelineInv'
<1>1. /\ phase' = "ready"
      /\ gtcache' = gtcache \/ gtcache' = [p \in Papers |-> None]
      /\ UNCHANGED <<setup, found, published, store, scored, upheld, said, outputs, admitted, corpus>>
  BY DEF Interrupt, FoundNothing
<1>2. Upholds /\ UNCHANGED Files
  BY <1>1, NothingStays DEF PipelineInv, Files
<1>3. PipelineShapes' /\ PassesSaid' /\ Looked'
  BY <1>1 DEF PipelineInv, Earned, PipelineShapes, PassesSaid, Looked
<1>4. PapersWon'
  BY <1>1 DEF PipelineInv, Earned, PapersWon, None
<1> QED
  BY <1>2, <1>3, <1>4, FilesStay

LEMMA ResumeKeeps == ASSUME PipelineInv, Resume PROVE PipelineInv'
<1>1. /\ phase' = "ready"
      /\ UNCHANGED <<setup, found, gtcache, published, store, scored, upheld, said, outputs, admitted, corpus>>
  BY DEF Resume, files
<1>2. Upholds /\ UNCHANGED Files
  BY <1>1, NothingStays DEF PipelineInv, Files
<1>3. PipelineShapes' /\ PapersWon' /\ PassesSaid' /\ Looked'
  BY <1>1 DEF PipelineInv, Earned, PipelineShapes, PapersWon, PassesSaid, Looked
<1> QED
  BY <1>2, <1>3, FilesStay

LEMMA PipelineStutterKeeps == ASSUME PipelineInv, UNCHANGED pipelineVars PROVE PipelineInv'
<1>1. UNCHANGED <<phase, setup, found, gtcache, published, store, scored, upheld, said, outputs, admitted, corpus>>
  BY DEF pipelineVars, files
<1>2. Upholds /\ UNCHANGED Files
  BY <1>1, NothingStays DEF PipelineInv, Files
<1>3. PipelineShapes' /\ PapersWon' /\ PassesSaid' /\ Looked'
  BY <1>1 DEF PipelineInv, Earned, PipelineShapes, PapersWon, PassesSaid, Looked
<1> QED
  BY <1>2, <1>3, FilesStay

LEMMA PipelineNextKeeps == ASSUME PipelineInv, [PipelineNext]_pipelineVars PROVE PipelineInv'
<1>1. CASE Begin
  BY <1>1, BeginKeeps
<1>2. CASE \E p \in Papers : \E votes \in [1..Samples -> PaperVotes] : Lookup(p, votes)
  BY <1>2, LookupKeeps
<1>3. CASE PersistCache
  BY <1>3, PersistCacheKeeps
<1>4. CASE Publish
  BY <1>4, PublishKeeps
<1>5. CASE \E c \in Fleet : \E verdict \in [Records -> Verdicts] : Poser(c, verdict)
  BY <1>5, PoserKeeps
<1>6. CASE \E c \in Fleet : PoserDies(c)
  BY <1>6, PoserDiesKeeps
<1>7. CASE WritePassed
  BY <1>7, WritePassedKeeps
<1>8. CASE \E r \in Records : \E label \in Scores : Score(r, label)
  BY <1>8, ScoreKeeps
<1>9. CASE Emit \/ Pause
  <2>1. /\ phase = "passk" /\ scored' = Emitted /\ phase' = AfterPassK
        /\ UNCHANGED <<setup, found, gtcache, published, store, upheld, said, outputs, admitted, corpus>>
    BY <1>9 DEF Emit, Pause
  <2> QED
    BY <2>1, EmittedKeeps
<1>10. CASE Finalise
  BY <1>10, FinaliseKeeps
<1>11. CASE Interrupt
  BY <1>11, InterruptKeeps
<1>12. CASE Resume
  BY <1>12, ResumeKeeps
<1>13. CASE UNCHANGED pipelineVars
  BY <1>13, PipelineStutterKeeps
<1> QED
  BY <1>1, <1>2, <1>3, <1>4, <1>5, <1>6, <1>7, <1>8, <1>9, <1>10, <1>11, <1>12, <1>13 DEF PipelineNext

\* Every file of the pipeline, of whichever invocation, holds records in input
\* order that have earned their place in it.
THEOREM PipelineIsInductive == PipelineSpec => []PipelineInv
<1>1. PipelineInit => PipelineInv
  BY PipelineInitFails
<1>2. PipelineInv /\ [PipelineNext]_pipelineVars => PipelineInv'
  BY PipelineNextKeeps
<1> QED
  BY <1>1, <1>2, PTL DEF PipelineSpec

\* A record of the final corpus is of a paper that won an uphold, the fleet
\* admitted it, and pass@k labelled it, in whatever invocations that was.
THEOREM FinalCorpusIsEarned == PipelineSpec => []FinalEarned
<1>1. PipelineInv => FinalEarned
  BY DEF PipelineInv, Earned
<1> QED
  BY <1>1, PipelineIsInductive, PTL

\* No step replaces the cached verdict of a paper by another verdict.
THEOREM VerdictsStand == PipelineSpec => VerdictStands
<1> DEFINE Stands == \A p \in Papers : gtcache[p] # None => gtcache'[p] \in {gtcache[p], None}
<1>1. ASSUME PipelineInv, PipelineNext PROVE Stands
  <2> SUFFICES ASSUME NEW p \in Papers, gtcache[p] # None
               PROVE  gtcache'[p] \in {gtcache[p], None}
    OBVIOUS
  <2>1. CASE PersistCache
    <3>1. phase = "lookup" /\ gtcache'[p] = IF found[p] # None THEN found[p] ELSE gtcache[p]
      BY <2>1 DEF PersistCache
    <3>2. found[p] # None => found[p] = gtcache[p]
      BY <1>1, <3>1 DEF PipelineInv, Looked
    <3> QED
      BY <3>1, <3>2
  <2>2. CASE Interrupt
    BY <2>2 DEF Interrupt, FoundNothing
  <2>3. CASE ~PersistCache /\ ~Interrupt
    <3>1. gtcache' = gtcache
      BY <1>1, <2>3 DEF PipelineNext, Begin, Lookup, Publish, Poser, PoserDies, WritePassed,
         Score, Emit, Pause, Finalise, Resume, files
    <3> QED
      BY <3>1
  <2> QED
    BY <2>1, <2>2, <2>3
<1>2. PipelineInv /\ [PipelineNext]_pipelineVars => [Stands]_pipelineVars
  BY <1>1
<1>3. PipelineSpec => []PipelineInv
  BY PipelineIsInductive
<1> QED
  BY <1>2, <1>3, PTL DEF PipelineSpec, VerdictStands
=============================================================================
