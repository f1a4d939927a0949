---------------------------- MODULE MCAcquire -----------------------------
\* Instances of Acquire for TLC.
EXTENDS Acquire

\* Six papers: 2 is not of the category, 4 has the title of 1, 5 is excluded.
MCPaper == 1..6
MCListing == <<1, 2, 3, 1, 6, 4, 5>>
MCTitle == [p \in MCPaper |-> IF p = 4 THEN 1 ELSE p]
MCInScope == {1, 3, 4, 5, 6}
MCExclude == {5}

\* Theorem c is another spelling of a, b has no answer, d is in two papers.
MCThm == {"a", "b", "c", "d", "e", "f", "g"}
MCKey == [t \in MCThm |-> IF t = "c" THEN "a" ELSE t]
MCTheorems ==
  [p \in MCPaper |-> CASE p = 1 -> <<"a", "b", "d">> [] p = 3 -> <<"d", "c", "e">>
                       [] p = 6 -> <<"g", "f">> [] p = 4 -> <<"g">> [] OTHER -> <<"e">>]
MCMembers == <<{1, 2}, {3}, {4, 5, 6}>>
MCFixture == <<"a", "f", "c", "e", "g">>
MCJobs == {"api", "bulk"} \X {"latex", "qa"} \cup {<<"fixture", "latex">>}

\* The backstop of the pages does not cut a run of this instance short.
ASSUME PagesAreABackstop == PagesReach
=============================================================================
