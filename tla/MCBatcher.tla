----------------------------- MODULE MCBatcher -----------------------------
(* Small instances of Batcher for TLC. *)
EXTENDS Batcher

CONSTANTS a, aEdited, aSpaced, b, c, d, e

\* aEdited repeats the statement of a with other content; aSpaced is a
\* whitespace variant of it: another statement with the same normal form.
MCRow         == {a, aEdited, aSpaced, b, c, d, e}
MCStatement   == MCRow \ {aEdited}
MCNormalForm  == MCStatement \ {aSpaced}
MCStatementOf == [r \in MCRow |-> IF r = aEdited THEN a ELSE r]
MCKeyOf       == [s \in MCStatement |-> IF s = aSpaced THEN a ELSE s]

\* The backfill knows e; d comes from the warn-only orphan run.
HistRow(row, warn) ==
    [uid |-> <<CampaignSource, row>>, key |-> row, content |-> row,
     batch |-> HistBatch, warn |-> warn]
MCHistory == <<HistRow(e, FALSE), HistRow(d, TRUE)>>

\* Two full batches; refills over replays, variants and known rows; a uid
\* conflict before and after a slice; a malformed and a corrupt line.
MCJournals ==
    {<<a, b, c, d>>, <<a, a, aSpaced, e, b, c>>, <<a, aEdited, b, c>>,
     <<b, a, aEdited>>, <<a, Malformed, b>>, <<a, b, Corrupt, c, d>>,
     <<a, b, aSpaced, a>>}
MCWatchJournals == {<<aSpaced>>, <<Malformed, b>>, <<c, Corrupt>>}

=============================================================================
