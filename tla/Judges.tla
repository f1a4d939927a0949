------------------------------- MODULE Judges -------------------------------
(* How replies become verdicts and verdicts become admission: the vote rules *)
(* of the two posers, of the publication check, and the fleet policies.      *)
EXTENDS Naturals, Sequences, FiniteSets, SequencesExt

CONSTANTS
  Input,            \* the records, in input order
  Samples, Uphold   \* of a judge: how often it is asked, how many must agree

ASSUME InputAssumption == Input \in Seq(ToSet(Input))
ASSUME VotesAssumption == Samples \in Nat \ {0} /\ Uphold \in 1..Samples

Records == ToSet(Input)
None == "none"

Statuses == {"well_posed", "ill_posed", "defer", "error"}
Policies == {"intersect", "union", "majority"}
Labels == {"solved", "band", "misdirection", "collapse", "drop"}

\* One parsed judge reply. A reply that is no verdict at all can still claim
\* that context is missing, which is why the two are separate.
Replies == [verdict : {"pass", "flag", "error"}, ic : {"yes", "no"}]

Count(votes, Kind) == Cardinality({i \in DOMAIN votes : votes[i] \in Kind})

Pass == {[verdict |-> "pass", ic |-> "no"]}
Flag == {[verdict |-> "flag", ic |-> "no"]}
IC == {r \in Replies : r.ic = "yes"}
Junk == {r \in Replies : r.verdict = "error"}

\* Claude poser: errors that break the quorum override whatever else won.
Corroborate(votes, uphold) ==
  IF Count(votes, Junk) > Len(votes) - uphold THEN "judge_errors"
  ELSE IF Count(votes, IC) >= uphold THEN "insufficient_context"
  ELSE IF Count(votes, Flag) >= uphold THEN "flag"
  ELSE IF Count(votes, Pass) >= uphold THEN "pass"
  ELSE "split"

\* The adapter's map, with the deferral of a broken quorum turned into an error.
ClaudeStatus(outcome) ==
  CASE outcome = "pass" -> "well_posed"
    [] outcome \in {"flag", "insufficient_context"} -> "ill_posed"
    [] outcome = "split" -> "defer"
    [] outcome = "judge_errors" -> "error"

\* Codex poser: only unparsed replies abstain, and whatever does not reach the
\* uphold of ill-posed votes passes.
CodexStatus(votes, uphold) ==
  LET quorum == IF uphold > Len(votes) THEN Len(votes) ELSE uphold
  IN CASE Count(votes, Junk) = Len(votes) -> "error"
       [] Count(votes, {r \in Replies : r.verdict = "flag"}) >= quorum -> "ill_posed"
       [] OTHER -> "well_posed"

Verdict(build, votes, uphold) ==
  IF build = "codex" THEN CodexStatus(votes, uphold)
                     ELSE ClaudeStatus(Corroborate(votes, uphold))

\* What a poser settles without asking a judge, or "judge". A class says what
\* the code tier sees: the provenance, a dangling reference, a missing statement.
Classes == {"plain", "computed", "trusted", "dangling", "bare"}

CodexCode(class, tier) ==
  CASE class = "bare" -> "error"
    [] class = "dangling" -> "ill_posed"
    [] class = "computed" -> "well_posed"
    [] OTHER -> IF tier = "judge" THEN "judge" ELSE "defer"

ClaudeCode(class, tier, policy) ==
  CASE class \in {"computed", "trusted"} -> "well_posed"
    [] tier = "judge" /\ (policy = "always" \/ class = "dangling") -> "judge"
    [] class = "dangling" -> "ill_posed"
    [] OTHER -> "well_posed"

CodeStatus(build, class, tier, policy) ==
  IF build = "codex" THEN CodexCode(class, tier)
                     ELSE ClaudeCode(class, tier, policy)

\* The replies without which no opinion is one: Claude needs an uphold of
\* parsed samples, Codex a single one.
Opined(build, votes, uphold) ==
  Len(votes) - Count(votes, Junk) >= (IF build = "codex" THEN 1 ELSE uphold)

\* Publication check: an uphold of errors is an error, otherwise they abstain.
PaperVotes == {"published", "unpublished", "defer", "error"}
PaperStatus(votes, uphold) ==
  LET Upheld(s) == Count(votes, {s}) >= uphold
  IN CASE Upheld("error") -> "error"
       [] Upheld("published") /\ ~Upheld("error") -> "published"
       [] Upheld("unpublished") /\ ~Upheld("error") /\ ~Upheld("published") -> "unpublished"
       [] OTHER -> "defer"

\* One combined status for a record that each combo gave a status.
Admits(policy, status) ==
  LET n == Cardinality(DOMAIN status)
      passes == Cardinality({c \in DOMAIN status : status[c] = "well_posed"})
  IN CASE policy = "intersect" -> passes = n
       [] policy = "union" -> passes >= 1
       [] policy = "majority" -> passes * 2 > n

Combined(policy, status) ==
  LET seen == {status[c] : c \in DOMAIN status}
  IN CASE Admits(policy, status) -> "well_posed"
       [] ~Admits(policy, status) /\ "ill_posed" \in seen -> "ill_posed"
       [] ~Admits(policy, status) /\ seen \cap {"ill_posed", "error"} = {"error"} -> "error"
       [] OTHER -> "defer"

\* The records of a sequence that are in a set, in their order.
Only(seq, set) ==
  LET first[n \in 0..Len(seq)] ==
        IF n = 0 THEN <<>>
        ELSE IF seq[n] \in set THEN Append(first[n - 1], seq[n]) ELSE first[n - 1]
  IN first[Len(seq)]

Solvable(label) == label \notin {"drop", "collapse", "misdirection"}
=============================================================================
