------------------------------ MODULE Handoff ------------------------------
(***************************************************************************)
(* The pure part of an acquisition run: what a plan is estimated to cost,  *)
(* which papers of a listing are mined, and what write_run makes of the    *)
(* candidate rows.  A row is the theorem (or question) it states; what the *)
(* code reads off a row are the functions below.                           *)
(***************************************************************************)
EXTENDS Naturals, Sequences, FiniteSets, SequencesExt

CONSTANTS
  Thm,               \* theorems, one for each distinct source statement
  Key,               \* [Thm -> key]: the statement, casefolded, spaces collapsed
  NoStatement,       \* rows without a statement
  BadField,          \* rows with an unknown provenance or truth policy
  Dangling,          \* rows with a reference the miner could not resolve
  Guard,             \* qa_ref_guard
  PapersPerRecord, CandidatesPerPaper, PerPage,   \* planning ratios
  Safety             \* the safety multiplier, in halves (3 for 1.5)

CeilDiv(a, b) == (a + b - 1) \div b

\* realmath_scrape._estimated_calls and arxiv_bulk._estimated_calls (which
\* _validate_manifest calls without the window): pages, one source fetch or
\* chunk per paper, one generator call per theorem, padded.
EstimatedCalls(adapter, mode, target) ==
  LET papers == target * PapersPerRecord
      pages  == IF papers = 0 THEN 1 ELSE CeilDiv(papers, PerPage)
      qa     == IF mode = "qa" THEN papers * CandidatesPerPaper ELSE 0
  IN  CeilDiv((pages + papers + qa) * Safety, 2)

Flagged(t) == Guard # "off" /\ t \in Dangling

\* normalise, one row: without a statement it is quarantined, with a statement
\* already accepted it is dropped, guarded or not canonical it is quarantined.
Accept(acc, t) ==
  IF t \in NoStatement
    THEN [acc EXCEPT !.quarantined = Append(@, t)]
  ELSE IF Key[t] \in {Key[acc.records[i]] : i \in DOMAIN acc.records}
    THEN [acc EXCEPT !.dropped = @ + 1]
  ELSE IF t \in BadField \/ (Flagged(t) /\ Guard = "strict")
    THEN [acc EXCEPT !.quarantined = Append(@, t)]
  ELSE [acc EXCEPT !.records = Append(@, t)]

Normalise(rows) ==
  LET after[n \in 0..Len(rows)] ==
        IF n = 0 THEN [records |-> <<>>, quarantined |-> <<>>, dropped |-> 0]
        ELSE Accept(after[n - 1], rows[n])
  IN  after[Len(rows)]

\* The members of a finite set of numbers, each after all lesser ones.
InOrder(S) ==
  [i \in 1..Cardinality(S) |-> CHOOSE x \in S : Cardinality({y \in S : y < x}) = i - 1]

\* What a sequence has at some of its places, in order.
Picked(s, places) ==
  LET order == InOrder(places)
  IN  [k \in DOMAIN order |-> s[order[k]]]

\* write_run, the surplus pool: normalised on its own, and a row whose exact
\* statement the handoff has is left out (the handoff compares casefolded keys).
SurplusRecords(handoff, surplus) ==
  LET pool == Normalise(surplus).records
  IN  Picked(pool, {i \in DOMAIN pool : pool[i] \notin ToSet(handoff)})

\* Records account for a row: its statement is among theirs, or normalise would
\* quarantine the row anyway.
AccountedFor(t, records) ==
  \/ Key[t] \in {Key[u] : u \in records}
  \/ t \in NoStatement \cup BadField
  \/ Guard = "strict" /\ t \in Dangling

-----------------------------------------------------------------------------
\* The places of a listing that count: primary category fits, not excluded, and
\* the first such of its title (an id listed again comes with the title it had).
Counting(listing, title, scope, exclude) ==
  LET Fits(i) == listing[i] \in scope \ exclude
  IN  {i \in DOMAIN listing :
         Fits(i) /\ \A j \in 1..(i - 1) : Fits(j) => title[listing[j]] # title[listing[i]]}

FirstOf(s, n) == SubSeq(s, 1, IF Len(s) < n THEN Len(s) ELSE n)

\* What an uninterrupted run selects: the first target rows of the papers in
\* order, at most perPaper of each.
RowsInOrder(papers, rowsOf, perPaper) ==
  FlattenSeq([i \in DOMAIN papers |-> FirstOf(rowsOf[papers[i]], perPaper)])
Selected(papers, rowsOf, perPaper, target) ==
  FirstOf(RowsInOrder(papers, rowsOf, perPaper), target)

\* manifest.chunks_for_ids: the chunks that hold a wanted id, in manifest order.
ChunksForIds(members, wanted) ==
  InOrder({c \in DOMAIN members : members[c] \cap wanted # {}})
=============================================================================
