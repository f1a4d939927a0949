------------------------------ MODULE Acquire ------------------------------
(***************************************************************************)
(* An acquisition run: realmath_scrape (papers listed by the arXiv API,    *)
(* sources fetched one by one) or arxiv_bulk (ids from an OAI index,       *)
(* sources from chunks of the src bucket), with the checkpoint that lets a *)
(* person pause it, kill it and run the same command again.                *)
(***************************************************************************)
EXTENDS Handoff

CONSTANTS
  Paper, Listing,          \* the papers, and the ids in the order of the listing
  Title, InScope, Exclude, \* title of a paper; primary category fits; excluded ids
  Theorems,                \* [Paper -> Seq(Thm)]: what the miner finds in the source
  Answered,                \* theorems for which the generator states an answer
  Members, Absent,         \* [1..n -> SUBSET Paper]: ids a chunk covers; ids whose
                           \* member is missing from the tar
  OaiPages,                \* pages of the OAI walk
  NoTheorem,               \* no answer is in hand
  Fixture,                 \* rows of the flow_testing fixture
  Jobs,                    \* the commands: subset of Adapters \X {"latex", "qa"}
  Target, MaxPapers, MaxPerPaper, Budget,
  PageSize, PageFloor, CleanStreak, MaxPages,
  MaxKills, MaxPauses, MaxFaults                \* bounds of the model

Adapters == {"api", "bulk", "fixture"}
Chunk == DOMAIN Members

ASSUME JobsAssumption == Jobs \subseteq Adapters \X {"latex", "qa"}
ASSUME NoTheoremAssumption == NoTheorem \notin Thm
ASSUME BudgetAssumption == Budget \in Nat
\* Papers are numbered in the order of their ids, as _ids_in_scope meets them.
ASSUME PapersAssumption ==
  /\ Paper \subseteq Nat /\ InScope \subseteq Paper /\ IsFiniteSet(InScope)
  /\ Theorems \in [Paper -> Seq(Thm)]
  /\ Members \in Seq(SUBSET Paper)
ASSUME ListingAssumption == Listing \in Seq(Paper)
ASSUME PagesAssumption ==
  /\ {PageSize, PageFloor, MaxPages} \subseteq Nat /\ PageFloor <= PageSize
\* A cap that is None is a number nothing reaches.
ASSUME CapsAssumption == {Target, MaxPapers, MaxPerPaper} \subseteq Nat \ {0}

VARIABLES
  job,        \* the approved manifest: <<adapter, extraction>>
  pc,         \* where the process is, "idle" when there is none
  m,          \* the rest of its memory
  chunk,      \* the chunk in hand, 0 for none
  asked,      \* the theorem whose answer has come but is not in the cache yet
  \* files, which the process reads at its start and keeps in step
  marker,     \* INCOMPLETE
  rows,       \* candidates.jsonl: [Paper -> Seq(Thm)], of each paper its lines in order
  done,       \* papers_done.jsonl
  cache,      \* qa_cache.jsonl
  stamp,      \* rate_limited_at: "none", "fresh", "stale"
  journal,    \* chunks_done.jsonl
  tars,       \* _chunks/: [Chunk -> {"none", "partial", "whole"}]
  oai,        \* cached OAI pages
  out,        \* handoff and surplus files
  \* history
  paid,       \* [Thm -> Nat]: generator calls
  excused,    \* [Thm -> Nat]: those that failed, or whose answer a stop lost
  billed,     \* [Chunk -> Nat]: verified downloads
  missed,     \* <<paper, place>> of the theorems given up when the paper was mined
  twice,      \* papers committed again over the rows of a commit that was cut off
  corrupt,    \* chunks whose checksum ever failed
  kills, pauses, faults

files   == <<marker, rows, done, cache, stamp, journal, tars, oai, out>>
history == <<paid, excused, billed, missed, twice, corrupt, kills, pauses, faults>>
vars    == <<job, pc, m, chunk, asked, files, history>>

NoFile == [written |-> FALSE, handoff |-> <<>>, surplus |-> <<>>, skipped |-> {}]

adapter == job[1]
mode    == job[2]

NoRun ==
  [store |-> [p \in Paper |-> <<>>], size |-> PageSize, halve |-> FALSE, streak |-> 0,
   start |-> 0, page |-> <<>>, seen |-> {}, titles |-> {}, taken |-> 0,
   calls |-> 0, queries |-> 0, walked |-> 0, todo |-> <<>>,
   bytes |-> TRUE, skipped |-> {}, paper |-> 0, left |-> <<>>, got |-> <<>>,
   cands |-> <<>>, surplus |-> <<>>, full |-> FALSE, over |-> FALSE]

Init ==
  /\ job \in Jobs
  /\ pc = "idle" /\ m = NoRun /\ chunk = 0 /\ asked = NoTheorem
  /\ marker = FALSE /\ rows = [p \in Paper |-> <<>>] /\ done = {} /\ cache = {} /\ stamp = "none"
  /\ journal = {} /\ tars = [c \in Chunk |-> "none"] /\ oai = 0 /\ out = NoFile
  /\ paid = [t \in Thm |-> 0] /\ excused = [t \in Thm |-> 0]
  /\ billed = [c \in Chunk |-> 0] /\ missed = {} /\ twice = {} /\ corrupt = {}
  /\ kills = 0 /\ pauses = 0 /\ faults = 0

-----------------------------------------------------------------------------
(* Starting: the gates of run, the checkpoint's _load, the cooldown, begin. *)

Approved == Budget >= EstimatedCalls(adapter, mode, Target)

\* ScrapeCheckpoint._load: all rows of a paper, whichever commit wrote them.
Loaded(p) == rows[p]

Start ==
  /\ pc = "idle" /\ adapter # "fixture" /\ Approved
  /\ stamp # "fresh"                            \* enforce_rate_limit_cooldown
  /\ marker' = TRUE                             \* begin
  /\ m' = [NoRun EXCEPT !.store = [p \in Paper |-> Loaded(p)], !.seen = Exclude]
  /\ pc' = IF adapter = "api" THEN "query" ELSE "index"
  /\ UNCHANGED <<job, chunk, asked, rows, done, cache, stamp, journal, tars, oai, out, history>>

\* The cooldown window passes.
Elapse ==
  /\ stamp = "fresh" /\ pc = "idle"
  /\ stamp' = "stale"
  /\ UNCHANGED <<job, pc, m, chunk, asked, marker, rows, done, cache, journal, tars, oai, out, history>>

\* flow_testing: the rows of the fixture go through the same writer.
Replay ==
  /\ pc = "idle" /\ adapter = "fixture"
  /\ m' = [NoRun EXCEPT !.cands = Fixture]
  /\ pc' = "write"
  /\ UNCHANGED <<job, chunk, asked, files, history>>

-----------------------------------------------------------------------------
(* What ends the loop early. *)

\* _BudgetExhausted, before a paid call: a pause.
Spent == m.calls >= Budget
Exhausted ==
  /\ Spent
  /\ m' = [m EXCEPT !.over = TRUE]
  /\ pc' = "write"

\* An exception nobody catches: no output, the marker stays.
Dies ==
  /\ pc' = "idle" /\ m' = NoRun /\ chunk' = 0 /\ asked' = NoTheorem

\* An HTTP exchange with arXiv, retried: it succeeds, succeeds after a 429, or
\* fails with one.  on_rate_limit stamps, on_success clears and sets the page size.
Clean(r) ==
  IF r.halve
    THEN [r EXCEPT !.halve = FALSE, !.streak = 0,
                   !.size = IF @ \div 2 < PageFloor THEN PageFloor ELSE @ \div 2]
  ELSE IF r.size < PageSize
    THEN IF r.streak + 1 < CleanStreak THEN [r EXCEPT !.streak = @ + 1]
         ELSE [r EXCEPT !.streak = 0,
                        !.size = IF 2 * @ < PageSize THEN 2 * @ ELSE PageSize]
  ELSE r
Throttled(r) == [r EXCEPT !.halve = TRUE, !.streak = 0]

Answers == /\ stamp' = "none" /\ UNCHANGED faults
Fault == faults < MaxFaults /\ faults' = faults + 1

-----------------------------------------------------------------------------
(* realmath.scrape: the pages of the listing. *)

Charged(kind) == [m EXCEPT !.calls = @ + 1, !.queries = IF kind = "queries" THEN @ + 1 ELSE @]

TurnedByNewSize(r, size) ==
  LET end  == IF r.start + size < Len(Listing) THEN r.start + size ELSE Len(Listing)
  IN  [r EXCEPT !.page = SubSeq(Listing, r.start + 1, end), !.start = @ + r.size]

\* The papers of a page, and where the next begins: by the size requested.
Turned(r, size) ==
  LET end  == IF r.start + size < Len(Listing) THEN r.start + size ELSE Len(Listing)
  IN  [r EXCEPT !.page = SubSeq(Listing, r.start + 1, end), !.start = @ + size]

Query ==
  /\ pc = "query"
  /\ UNCHANGED <<job, chunk, marker, rows, done, cache, journal, tars, oai, out,
                 paid, excused, billed, missed, twice, corrupt, kills, pauses>>
  /\ \/ /\ Len(m.cands) >= Target \/ m.queries >= MaxPages
        /\ pc' = "write"
        /\ UNCHANGED <<m, asked, stamp, faults>>
     \/ /\ Len(m.cands) < Target /\ m.queries < MaxPages
        /\ \/ Exhausted /\ UNCHANGED <<asked, stamp, faults>>
           \/ /\ ~Spent
              /\ LET r == Charged("queries")
                     Take(q) == m' = Turned(q, m.size)
                     More == pc' = IF m.start >= Len(Listing) THEN "write" ELSE "page"
                 IN  \/ Answers /\ Take(Clean(r)) /\ More /\ UNCHANGED asked
                     \/ Fault /\ stamp' = "none" /\ Take(Clean(Throttled(r))) /\ More /\ UNCHANGED asked
                     \/ Fault /\ stamp' = "fresh" /\ pc' = "idle" /\ m' = NoRun /\ UNCHANGED asked

\* One paper of the page: the caps and filters, the store, or the extractor.
Taken(p) == [m EXCEPT !.page = Tail(@), !.seen = @ \cup {p}, !.titles = @ \cup {Title[p]},
                      !.taken = @ + 1, !.paper = p,
                      !.got = IF p \in done THEN m.store[p] ELSE <<>>]

ApiPaper ==
  /\ pc = "page" /\ adapter = "api"
  /\ UNCHANGED <<job, chunk, asked, files, history>>
  /\ \/ /\ m.page = <<>>
        /\ pc' = "query" /\ UNCHANGED m
     \/ /\ m.page # <<>> /\ m.taken >= MaxPapers
        /\ pc' = "write" /\ UNCHANGED m
     \/ /\ m.page # <<>> /\ m.taken < MaxPapers
        /\ LET p == Head(m.page)
           IN  IF p \in m.seen \/ p \notin InScope \/ Title[p] \in m.titles
                 THEN /\ m' = [m EXCEPT !.page = Tail(@), !.seen = @ \cup {p}]
                      /\ pc' = "page"
                 ELSE /\ m' = Taken(p)
                      /\ pc' = IF p \in done THEN "keep" ELSE "fetch"

\* latex_extractor: a source that cannot be fetched is a paper without theorems.
ApiFetch ==
  /\ pc = "fetch" /\ adapter = "api"
  /\ UNCHANGED <<job, chunk, asked, marker, rows, done, cache, journal, tars, oai, out,
                 paid, excused, billed, twice, corrupt, kills, pauses>>
  /\ \/ Exhausted /\ UNCHANGED <<stamp, missed, faults>>
     \/ /\ ~Spent
        /\ pc' = "ask"
        /\ LET r == Charged("latex_fetches")
               known == {u \in missed : u[1] # m.paper}
           IN  \/ /\ Answers
                  /\ m' = [Clean(r) EXCEPT !.left = Theorems[m.paper]]
                  /\ missed' = known
               \/ /\ Fault /\ stamp' = "none"
                  /\ m' = [Clean(Throttled(r)) EXCEPT !.left = Theorems[m.paper]]
                  /\ missed' = known
               \/ /\ Fault /\ stamp' = "fresh"
                  /\ m' = [Throttled(r) EXCEPT !.left = <<>>]
                  /\ missed' = known \cup ({m.paper} \X DOMAIN Theorems[m.paper])

-----------------------------------------------------------------------------
(* _bulk_acquire: the index, the chunks, the papers of a chunk. *)

Ids == InOrder(InScope)
Wanted == FirstOf(Ids, MaxPapers)                     \* _ids_in_scope

\* _fetch_with_retry: a page, a 503 (the request counts, and is made again), or
\* the OAIError of another status or of the last attempt.
OaiRequest ==
  \/ /\ m' = [Charged("oai_requests") EXCEPT !.walked = @ + 1]
     /\ oai' = oai + 1
     /\ UNCHANGED <<pc, faults>>
  \/ /\ Fault
     /\ m' = Charged("oai_requests")
     /\ UNCHANGED <<pc, oai>>
  \/ /\ Fault
     /\ pc' = "idle" /\ m' = NoRun
     /\ UNCHANGED oai

\* CategoryIndex.build: cached pages are replayed, the others requested one by one.
Index ==
  /\ pc = "index"
  /\ UNCHANGED <<job, chunk, asked, marker, rows, done, cache, stamp, journal, tars, out,
                 paid, excused, billed, missed, twice, corrupt, kills, pauses>>
  /\ \/ /\ m.walked < oai
        /\ m' = [m EXCEPT !.walked = oai]
        /\ UNCHANGED <<pc, oai, faults>>
     \/ /\ m.walked = oai /\ oai = OaiPages
        /\ m' = [m EXCEPT !.todo = ChunksForIds(Members, ToSet(Wanted))]
        /\ pc' = "chunk"
        /\ UNCHANGED <<oai, faults>>
     \/ /\ m.walked = oai /\ oai < OaiPages
        /\ \/ Exhausted /\ UNCHANGED <<oai, faults>>
           \/ ~Spent /\ OaiRequest

\* The papers of a chunk, from the tar or (journaled) from the checkpoint only.
PapersOf(c) == InOrder(ToSet(Wanted) \cap Members[c])
Open(c, bytes) ==
  /\ m' = [m EXCEPT !.bytes = bytes,
                    !.page = PapersOf(c)]
  /\ chunk' = c /\ pc' = "page"

\* ChunkStore.fetch adopts a file that verifies.
AdoptedNever(c) == FALSE
Adopted(c) == tars[c] = "whole"

NextChunk ==
  /\ pc = "chunk"
  /\ UNCHANGED <<job, asked, marker, rows, done, cache, stamp, journal, oai, out, history>>
  /\ IF Len(m.cands) >= Target \/ m.todo = <<>>
       THEN pc' = "write" /\ UNCHANGED <<m, chunk, tars>>
       ELSE LET c == Head(m.todo)
            IN  \/ /\ c \in journal
                   /\ Open(c, FALSE) /\ UNCHANGED tars
                \/ /\ c \notin journal
                   /\ Exhausted /\ UNCHANGED <<chunk, tars>>
                \/ /\ c \notin journal /\ ~Spent /\ Adopted(c)
                   /\ Open(c, TRUE) /\ UNCHANGED tars
                \/ /\ c \notin journal /\ ~Spent /\ ~Adopted(c)
                   /\ tars' = [tars EXCEPT ![c] = "partial"]
                   /\ chunk' = c /\ pc' = "download" /\ UNCHANGED m

\* ChunkStore.fetch: verified, corrupt (deleted, the chunk skipped), or broken off.
Download ==
  /\ pc = "download"
  /\ UNCHANGED <<job, asked, marker, rows, done, cache, stamp, journal, oai, out,
                 paid, excused, missed, twice, kills, pauses>>
  /\ \/ /\ tars' = [tars EXCEPT ![chunk] = "whole"]
        /\ billed' = [billed EXCEPT ![chunk] = @ + 1]
        /\ m' = [Charged("chunk_downloads") EXCEPT !.bytes = TRUE,
                   !.page = PapersOf(chunk)]
        /\ pc' = "page"
        /\ UNCHANGED <<chunk, corrupt, faults>>
     \/ /\ Fault
        /\ tars' = [tars EXCEPT ![chunk] = "none"]
        /\ corrupt' = corrupt \cup {chunk}
        /\ m' = [m EXCEPT !.skipped = @ \cup {chunk}, !.todo = Tail(@)]
        /\ pc' = "chunk" /\ chunk' = 0
        /\ UNCHANGED billed
     \/ /\ Fault
        /\ tars' = [tars EXCEPT ![chunk] = "none"]
        /\ pc' = "idle" /\ m' = NoRun /\ chunk' = 0
        /\ UNCHANGED <<billed, corrupt>>

BulkPaper ==
  /\ pc = "page" /\ adapter = "bulk"
  /\ UNCHANGED <<job, chunk, asked, files, history>>
  /\ IF m.page = <<>>
       THEN pc' = "mark" /\ UNCHANGED m
       ELSE LET p == Head(m.page)
                r == [m EXCEPT !.page = Tail(@), !.seen = @ \cup {p}]
            IN  IF p \in m.seen \/ (p \notin done /\ (~m.bytes \/ p \in Absent))
                  THEN m' = r /\ pc' = "page"
                  ELSE /\ m' = [r EXCEPT !.paper = p,
                                         !.got = IF p \in done THEN m.store[p] ELSE <<>>]
                       /\ pc' = IF p \in done THEN "keep" ELSE "fetch"

\* The source is in memory: nothing to charge, nothing to fail.
BulkFetch ==
  /\ pc = "fetch" /\ adapter = "bulk"
  /\ m' = [m EXCEPT !.left = Theorems[m.paper]]
  /\ missed' = {u \in missed : u[1] # m.paper}
  /\ pc' = "ask"
  /\ UNCHANGED <<job, chunk, asked, files, paid, excused, billed, twice, corrupt, kills, pauses, faults>>

-----------------------------------------------------------------------------
(* qa_extractor behind caching_generator, then commit. *)

Usable(t) == mode = "latex" \/ t \in Answered
Consumed(r, t) == [r EXCEPT !.left = Tail(@), !.got = IF Usable(t) THEN Append(@, t) ELSE @]

\* Where in its source the theorem in hand stands.
Place(r) == Len(Theorems[r.paper]) - Len(r.left) + 1

Ask ==
  /\ pc = "ask"
  /\ UNCHANGED <<job, chunk, files, billed, twice, corrupt, kills, pauses>>
  /\ \/ /\ m.left = <<>>
        /\ pc' = "commit"
        /\ UNCHANGED <<m, asked, paid, excused, missed, faults>>
     \/ /\ m.left # <<>> /\ (mode = "latex" \/ Head(m.left) \in cache)
        /\ m' = Consumed(m, Head(m.left))
        /\ UNCHANGED <<pc, asked, paid, excused, missed, faults>>
     \/ /\ m.left # <<>> /\ mode = "qa" /\ Head(m.left) \notin cache
        /\ \/ Exhausted /\ UNCHANGED <<asked, paid, excused, missed, faults>>
           \/ /\ ~Spent                                         \* an answer, or None
              /\ m' = Charged("qa_calls")
              /\ asked' = Head(m.left)
              /\ paid' = [paid EXCEPT ![Head(m.left)] = @ + 1]
              /\ pc' = "remember"
              /\ UNCHANGED <<excused, missed, faults>>
           \/ /\ ~Spent /\ Fault                                \* an exception: skipped
              /\ m' = [Charged("qa_calls") EXCEPT !.left = Tail(@)]
              /\ paid' = [paid EXCEPT ![Head(m.left)] = @ + 1]
              /\ excused' = [excused EXCEPT ![Head(m.left)] = @ + 1]
              /\ missed' = missed \cup {<<m.paper, Place(m)>>}
              /\ UNCHANGED <<pc, asked>>

\* None is an answer too.
RememberedTruthy(t) == IF t \in Answered THEN cache \cup {t} ELSE cache
Remembered(t) == cache \cup {t}

Remember ==
  /\ pc = "remember"
  /\ cache' = Remembered(asked)
  /\ m' = Consumed(m, asked)
  /\ asked' = NoTheorem
  /\ pc' = "ask"
  /\ UNCHANGED <<job, chunk, marker, rows, done, stamp, journal, tars, oai, out, history>>

\* commit appends the rows of the paper first ...
CommitRows ==
  /\ pc = "commit"
  /\ rows' = [rows EXCEPT ![m.paper] = @ \o m.got]
  /\ twice' = IF rows[m.paper] # <<>> THEN twice \cup {m.paper} ELSE twice
  /\ pc' = "settle"
  /\ UNCHANGED <<job, m, chunk, asked, marker, done, cache, stamp, journal, tars, oai, out,
                 paid, excused, billed, missed, corrupt, kills, pauses, faults>>

\* ... then the paper itself.
CommitPaper ==
  /\ pc = "settle"
  /\ done' = done \cup {m.paper}
  /\ m' = [m EXCEPT !.store[m.paper] = m.got]
  /\ pc' = "keep"
  /\ UNCHANGED <<job, chunk, asked, marker, rows, cache, stamp, journal, tars, oai, out, history>>

OverflowDropped(n) == <<>>
Overflow(n) == SubSeq(m.got, n + 1, Len(m.got))

\* The rows of a paper: the first go to the candidates, the rest to the surplus.
Keep ==
  /\ pc = "keep"
  /\ LET room == Target - Len(m.cands)
         n    == Len(FirstOf(m.got, IF room < MaxPerPaper THEN room ELSE MaxPerPaper))
         hit  == Len(m.cands) + n >= Target
     IN  /\ m' = [m EXCEPT !.cands = @ \o SubSeq(m.got, 1, n),
                           !.surplus = @ \o Overflow(n),
                           !.full = hit]
         /\ pc' = IF ~hit THEN "page" ELSE IF adapter = "api" THEN "query" ELSE "mark"
  /\ UNCHANGED <<job, chunk, asked, files, history>>

\* _ChunkJournal.mark, then ChunkStore.release.
Mark ==
  /\ pc = "mark"
  /\ journal' = journal \cup {chunk}
  /\ pc' = "release"
  /\ UNCHANGED <<job, m, chunk, asked, marker, rows, done, cache, stamp, tars, oai, out, history>>

FreedUnlessFull == IF m.full THEN tars ELSE [tars EXCEPT ![chunk] = "none"]
Freed == [tars EXCEPT ![chunk] = "none"]

Release ==
  /\ pc = "release"
  /\ tars' = Freed
  /\ chunk' = 0
  /\ m' = [m EXCEPT !.todo = Tail(@)]
  /\ pc' = IF m.full THEN "write" ELSE "chunk"
  /\ UNCHANGED <<job, asked, marker, rows, done, cache, stamp, journal, oai, out, history>>

-----------------------------------------------------------------------------
(* write_run, then mark_complete when the run was not paused. *)

WriteHandoff ==
  /\ pc = "write"
  /\ out' = [out EXCEPT !.written = TRUE, !.handoff = Normalise(m.cands).records,
                        !.skipped = m.skipped]
  /\ pc' = "surplus"
  /\ UNCHANGED <<job, m, chunk, asked, marker, rows, done, cache, stamp, journal, tars, oai, history>>

\* An empty pool removes the file of an earlier invocation.
WriteSurplus ==
  /\ pc = "surplus"
  /\ out' = [out EXCEPT !.surplus = SurplusRecords(out.handoff, m.surplus)]
  /\ pc' = "finish"
  /\ UNCHANGED <<job, m, chunk, asked, marker, rows, done, cache, stamp, journal, tars, oai, history>>

CompletedAtTarget == Len(m.cands) >= Target
Completed == ~m.over

Finish ==
  /\ pc = "finish"
  /\ marker' = IF Completed THEN FALSE ELSE marker
  /\ pc' = "idle" /\ m' = NoRun /\ chunk' = 0
  /\ UNCHANGED <<job, asked, rows, done, cache, stamp, journal, tars, oai, out, history>>

-----------------------------------------------------------------------------
(* Ctrl-C and kill.  An answer not yet in the cache is lost with the process. *)

Excuse == excused' = IF asked = NoTheorem THEN excused
                     ELSE [excused EXCEPT ![asked] = @ + 1]

\* KeyboardInterrupt: caught around the whole loop; a download is unlinked.
Pause ==
  /\ pauses < MaxPauses /\ pauses' = pauses + 1
  /\ pc \notin {"idle", "write", "surplus", "finish"}
  /\ Excuse /\ asked' = NoTheorem
  /\ tars' = IF pc = "download" THEN [tars EXCEPT ![chunk] = "none"] ELSE tars
  /\ m' = [m EXCEPT !.over = TRUE]
  /\ pc' = "write"
  /\ UNCHANGED <<job, chunk, marker, rows, done, cache, stamp, journal, oai, out,
                 paid, billed, missed, twice, corrupt, kills, faults>>

Kill ==
  /\ kills < MaxKills /\ kills' = kills + 1
  /\ pc # "idle"
  /\ Excuse /\ Dies
  /\ UNCHANGED <<job, files, paid, billed, missed, twice, corrupt, pauses, faults>>

Run == \/ Replay \/ Query \/ ApiPaper \/ ApiFetch \/ Index \/ NextChunk \/ Download
       \/ BulkPaper \/ BulkFetch \/ Ask \/ Remember \/ CommitRows \/ CommitPaper
       \/ Keep \/ Mark \/ Release \/ WriteHandoff \/ WriteSurplus \/ Finish

Next == Start \/ Elapse \/ Run \/ Pause \/ Kill

\* A running process goes on; the person runs the command again until it is
\* complete; a cooldown ends.
Spec == /\ Init /\ [][Next]_vars
        /\ WF_vars(Run) /\ WF_vars(Start) /\ WF_vars(Elapse)

-----------------------------------------------------------------------------
(* Properties. *)

Final == pc = "idle" /\ ~marker /\ out.written

\* What the miner and the generator yield of a paper.
Yielding(p) == {i \in DOMAIN Theorems[p] : Usable(Theorems[p][i]) /\ <<p, i>> \notin missed}
RowsOf(p) == Picked(Theorems[p], Yielding(p))
Yield == [p \in Paper |-> RowsOf(p)]

\* The papers an uninterrupted run mines: of the listing the first that count; of the
\* chunks it did not skip those that are not met before, excluded or absent.
Needed == ChunksForIds(Members, ToSet(Wanted))
Met(n, skipped) ==
  UNION {ToSet(PapersOf(Needed[i])) : i \in {i \in 1..n : Needed[i] \notin skipped}}
Fresh(n, skipped) ==
  (Met(n, skipped) \ Met(n - 1, skipped)) \ (Exclude \cup Absent)
MinedIn(n, skipped) == FlattenSeq([i \in 1..n |-> InOrder(Fresh(i, skipped))])

Counted == Counting(Listing, Title, InScope, Exclude)
Mined(skipped) ==
  IF adapter = "api" THEN FirstOf(Picked(Listing, Counted), MaxPapers)
  ELSE MinedIn(Len(Needed), skipped)

\* A run that is complete, however often it was paused, killed, throttled or out
\* of budget on the way, hands off the rows one uninterrupted run over the same
\* listing would: scrape and _bulk_acquire resume from the checkpoint without
\* skipping a paper or counting one twice.  The exception is a stop between the
\* two appends of a commit (checkpoint.py 141-148), which leaves a paper's rows twice.
AsUninterrupted ==
  Final /\ twice = {} /\ adapter # "fixture" =>
    out.handoff = Normalise(Selected(Mined(out.skipped), Yield, MaxPerPaper, Target)).records

\* A row that was mined and paid for is in the handoff or the surplus of a
\* complete run, unless normalise quarantines it or has its statement already:
\* what the caps keep out is never on the floor (realmath.py 338).
NeverOnTheFloor ==
  Final /\ twice = {} /\ corrupt = {} =>
    \A p \in Paper : \A t \in ToSet(rows[p]) :
      AccountedFor(t, ToSet(out.handoff) \cup ToSet(out.surplus))

\* No generator call is made again once it was answered, over all invocations
\* and all papers with the same statement, save one that failed and one whose
\* answer a stop lost before the cache had it ("cached QA answers are never re-billed").
PaidOnce == \A t \in Thm : paid[t] <= 1 + excused[t]

\* The egress of a chunk is billed once: it is adopted from disk or journaled
\* after that, whatever stops the run ("a journaled chunk is never re-downloaded").
BilledOnce == \A c \in Chunk : billed[c] <= 1

\* A complete run leaves no chunk in _chunks/ (arxiv_bulk.py 699), and on the way
\* there is never more than the one in hand; corrupt chunks and doubled rows excepted.
ChunksGone ==
  corrupt = {} /\ twice = {} =>
    /\ Final => \A c \in Chunk : tars[c] = "none"
    /\ \A c, d \in Chunk : tars[c] # "none" /\ tars[d] # "none" => c = d

\* Running the same command again gets there: what is cached costs nothing
\* against the fresh budget (realmath.py 166-168).
Converges == <>Final

\* Why nothing is billed or paid twice: what was billed is in a whole tar or in
\* the journal, what was paid is in the cache or in hand.
Shapes ==
  /\ tars \in [Chunk -> {"none", "partial", "whole"}] /\ billed \in [Chunk -> Nat]
  /\ paid \in [Thm -> Nat] /\ excused \in [Thm -> Nat]
InHand ==
  /\ pc # "remember" => asked = NoTheorem
  /\ pc = "download" => chunk \notin journal /\ (chunk \in Chunk => tars[chunk] # "whole")
  /\ pc = "release" => chunk \in journal
Delivered(c) == billed[c] <= 1 /\ (billed[c] = 1 => tars[c] = "whole" \/ c \in journal)
Due(t) == IF t = asked \/ t \in cache THEN 1 ELSE 0
IndInv ==
  /\ Shapes /\ InHand
  /\ \A c \in Chunk : Delivered(c)
  /\ \A t \in Thm : paid[t] <= excused[t] + Due(t)

\* Why no chunk is left: Needed is the path of every bulk run, and the journal its
\* first chunks. What the papers of these offered did not reach the target, so a
\* rerun passes them again, releases what was left of them, and nothing is left
\* but the chunk after them.
Upto(n) == UNION {ToSet(PapersOf(Needed[i])) : i \in 1..n}
Quota(s) == IF Len(s) < MaxPerPaper THEN Len(s) ELSE MaxPerPaper
Offered(lines, papers) == Cardinality(UNION {{p} \X (1..Quota(lines[p])) : p \in papers})
NoTar == \A c \in Chunk : tars[c] = "none"
OnlyTar == \A c, d \in Chunk : tars[c] # "none" /\ tars[d] # "none" => c = d

IsPassed(n, k) == n < k \/ (n = k /\ n < Len(Needed) /\ tars[Needed[n + 1]] # "none")
OnDisk(k) ==
  /\ journal = {Needed[i] : i \in 1..k}
  /\ \A c \in Chunk : tars[c] # "none" => \E i \in {k, k + 1} \cap (1..Len(Needed)) : c = Needed[i]
  /\ OnlyTar
  /\ \A n \in 0..k : IsPassed(n, k) => Offered(rows, done \cap Upto(n)) < Target
  /\ ~marker => NoTar

OnPaper == {"fetch", "ask", "remember", "commit", "settle"}
InChunk == OnPaper \cup {"page", "keep", "mark"}
Walking == InChunk \cup {"chunk", "download", "release"}
Visited == (done \cap m.seen) \ (IF pc = "keep" THEN {m.paper} ELSE {})
Seen(j) ==
  /\ pc \in {"chunk", "download"} => m.seen = Exclude \cup Upto(j)
  /\ pc \in InChunk \cup {"release"} => m.seen \cup ToSet(m.page) = Exclude \cup Upto(j + 1)
  /\ Exclude \cup Upto(j) \subseteq m.seen
  /\ pc \in {"mark", "release"} /\ ~m.full => m.page = <<>>
AtChunk(j, k) ==
  /\ m.todo = SubSeq(Needed, j + 1, Len(Needed))
  /\ \A i \in 1..j : tars[Needed[i]] = "none"
  /\ pc # "chunk" => j < Len(Needed) /\ chunk = Needed[j + 1]
  /\ pc \in InChunk => (m.bytes <=> j = k)
  /\ pc = "download" => j = k /\ tars[chunk] # "none"
  /\ pc = "release" => j < k
InWork(j, k) ==
  /\ pc \in OnPaper => m.bytes /\ m.paper \in (Paper \cap m.seen) \ (done \cup Exclude \cup Upto(j))
  /\ pc = "settle" => rows[m.paper] = m.got
  /\ pc = "keep" => m.paper \in done \cap m.seen /\ m.got = rows[m.paper]
Count(j) ==
  /\ IF pc \in {"mark", "release"} /\ m.full THEN Offered(rows, Visited) >= Target
     ELSE ~m.full /\ Len(m.cands) = Offered(rows, Visited)
  /\ pc # "chunk" => Offered(rows, done \cap Upto(j)) < Target
Held ==
  /\ DOMAIN m = DOMAIN NoRun /\ m.store \in [Paper -> Seq(Thm)]
  /\ m.page \in Seq(Paper) /\ m.left \in Seq(Thm) /\ m.got \in Seq(Thm) /\ m.cands \in Seq(Thm)
  /\ \A p \in done : m.store[p] = rows[p]
InMemory(k) ==
  /\ pc # "idle" => Held /\ marker
  /\ pc = "index" => m.seen = Exclude /\ m.cands = <<>> /\ ~m.full
  /\ pc \in Walking => \E j \in 0..k : AtChunk(j, k) /\ Seen(j) /\ InWork(j, k) /\ Count(j)
  /\ pc \in {"write", "surplus", "finish"} /\ ~m.over => NoTar
Bulk ==
  /\ pc \in Walking \cup {"idle", "index", "write", "surplus", "finish"}
  /\ rows \in [Paper -> Seq(Thm)] /\ done \subseteq Paper \ Exclude /\ IsFiniteSet(done)
  /\ pc = "remember" => asked \in Thm /\ m.left # <<>>
  /\ \E k \in 0..Len(Needed) : OnDisk(k) /\ InMemory(k)
GoneInv ==
  /\ job \in Jobs
  /\ adapter # "bulk" =>
       NoTar /\ pc \notin {"index", "chunk", "download", "mark", "release"}
  /\ adapter = "fixture" => pc \in {"idle", "write", "surplus", "finish"}
  /\ adapter = "bulk" /\ corrupt = {} /\ twice = {} => Bulk

\* Why a resumed run ends as an uninterrupted one: what the process has passed is a
\* first part of what is mined, all of it done; the candidates are the rows of that
\* part; and what is done has the rows the miner and the generator yield.
Limit   == IF m.start < Len(Listing) THEN m.start ELSE Len(Listing)
Reached == Limit - Len(m.page)
Gone    == Len(Needed) - Len(m.todo)
Turn    == Len(PapersOf(chunk)) - Len(m.page)
InPaper == pc \in OnPaper \cup {"keep"}
Current == IF InPaper THEN {m.paper} ELSE {}
Behind(n) == {i \in Counted : i <= n}
\* It asks that _MAX_PAGES stay a backstop: as many pages, all of them throttled, reach
\* the end of the listing or the cap of papers.  Past that a throttled run ends sooner.
PagesReach ==
  LET last == MaxPages * PageFloor
  IN  Len(Listing) <= last \/ Cardinality(Behind(last)) >= MaxPapers
ApiPassed == Picked(Listing, Behind(IF InPaper THEN Reached - 1 ELSE Reached))
BulkPassed ==
  IF pc \in InChunk \cup {"release"}
    THEN MinedIn(Gone, m.skipped) \o InOrder(Fresh(Gone + 1, m.skipped) \ (ToSet(m.page) \cup Current))
    ELSE MinedIn(Gone, m.skipped)
Passed == IF adapter = "api" THEN ApiPassed ELSE BulkPassed

ApiWalk ==
  /\ {m.start, m.size, m.queries} \subseteq Nat
  /\ Len(m.page) <= Limit /\ m.page = SubSeq(Listing, Reached + 1, Limit)
  /\ m.seen = Exclude \cup {Listing[i] : i \in 1..Reached}
  /\ m.titles = {Title[Listing[i]] : i \in {j \in 1..Reached : Listing[j] \in InScope \ Exclude}}
  /\ m.taken = Cardinality(Behind(Reached)) /\ m.taken <= MaxPapers
  /\ m.size >= PageFloor /\ m.start >= m.queries * PageFloor
  /\ pc = "query" => m.page = <<>> \/ Len(m.cands) >= Target
  /\ InPaper => Reached \in Counted /\ m.paper = Listing[Reached]
OnPath ==
  /\ m.todo \in Seq(Chunk) /\ Len(m.todo) <= Len(Needed)
  /\ m.todo = SubSeq(Needed, Gone + 1, Len(Needed))
  /\ pc # "chunk" => Gone < Len(Needed) /\ chunk = Needed[Gone + 1]
  /\ \A i \in 1..Gone : Needed[i] \in journal \cup m.skipped
  /\ m.skipped \subseteq {Needed[i] : i \in 1..Gone} \ journal
OnPage ==
  /\ Len(m.page) <= Len(PapersOf(chunk))
  /\ m.page = SubSeq(PapersOf(chunk), Turn + 1, Len(PapersOf(chunk)))
  /\ m.seen = Exclude \cup Met(Gone, m.skipped) \cup {PapersOf(chunk)[i] : i \in 1..Turn}
  /\ pc # "release" => (m.bytes <=> chunk \notin journal)
  /\ pc \in {"mark", "release"} /\ ~m.full => m.page = <<>>
  /\ InPaper => Turn >= 1 /\ m.paper = PapersOf(chunk)[Turn] /\ m.paper \in Fresh(Gone + 1, m.skipped)
BulkWalk ==
  /\ OnPath
  /\ IF pc \in InChunk \cup {"release"} THEN OnPage ELSE m.seen = Exclude \cup Met(Gone, m.skipped)
  /\ ToSet(Passed) = m.seen \ (Exclude \cup Absent \cup Current)
  /\ Len(RowsInOrder(Passed, rows, MaxPerPaper)) = Offered(rows, ToSet(Passed))

Tally ==
  /\ ToSet(Passed) \subseteq done
  /\ m.cands = FirstOf(RowsInOrder(Passed, rows, MaxPerPaper), Target)
  /\ \A p \in ToSet(Passed) : ToSet(rows[p]) \subseteq ToSet(m.cands) \cup ToSet(m.surplus)
  /\ m.full <=> Len(m.cands) >= Target
  /\ m.full => pc \in {"query", "mark", "release"}
Mining ==
  /\ Len(m.left) <= Len(Theorems[m.paper])
  /\ m.left = SubSeq(Theorems[m.paper], Place(m), Len(Theorems[m.paper]))
  /\ m.got = Picked(Theorems[m.paper], {i \in Yielding(m.paper) : i < Place(m)})
  /\ \A i \in DOMAIN Theorems[m.paper] : <<m.paper, i>> \in missed => i < Place(m)
Extracting ==
  /\ pc \in OnPaper => m.paper \notin done
  /\ pc = "fetch" => m.got = <<>>
  /\ pc \in {"ask", "remember", "commit"} => Mining
  /\ pc = "remember" => m.left # <<>> /\ asked = Head(m.left)
  /\ pc = "commit" => m.left = <<>>
  /\ pc = "settle" => m.got = RowsOf(m.paper) /\ rows[m.paper] = m.got
  /\ pc = "keep" => m.paper \in done /\ m.got = rows[m.paper]

\* A chunk is journaled when its papers are done or the target is reached before them.
Before(c, p) ==
  {q \in ToSet(PapersOf(c)) : q < p} \cup UNION {ToSet(PapersOf(b)) : b \in {b \in journal : b < c}}
Journaled ==
  /\ journal \subseteq ToSet(Needed)
  /\ \A c \in journal : \A p \in ToSet(PapersOf(c)) \ (done \cup Exclude \cup Absent) :
       Offered(rows, done \cap Before(c, p)) >= Target
AllThere ==
  \A p \in done : /\ rows[p] = RowsOf(p) /\ p \notin Exclude
                  /\ adapter = "bulk" => p \notin Absent
OnFile ==
  /\ rows \in [Paper -> Seq(Thm)] /\ done \subseteq Paper
  /\ AllThere
  /\ adapter = "bulk" => Journaled

Uninterrupted(skipped) == Selected(Mined(skipped), Yield, MaxPerPaper, Target)
Promised == out.handoff = Normalise(Uninterrupted(out.skipped)).records
Ending ==
  /\ pc = "write" /\ ~m.over => m.cands = Uninterrupted(m.skipped)
  /\ pc \in {"surplus", "finish"} /\ ~m.over => Promised
  /\ Final => Promised

Working ==
  /\ pc # "idle" => Held /\ marker /\ m.surplus \in Seq(Thm)
  /\ pc = "index" => m.seen = Exclude /\ m.cands = <<>> /\ m.skipped = {} /\ ~m.full
  /\ adapter = "api" /\ pc \in OnPaper \cup {"query", "page", "keep"} => ApiWalk
  /\ adapter = "bulk" /\ pc \in Walking => BulkWalk
  /\ pc \in Walking \cup {"query"} => Tally /\ Extracting
Retracing ==
  /\ OnFile /\ Working /\ Ending
  /\ adapter = "api" => pc \notin {"index", "chunk", "download", "mark", "release"}
  /\ adapter = "bulk" => pc # "query"
RetraceInv ==
  /\ DOMAIN out = DOMAIN NoFile
  /\ adapter # "fixture" /\ twice = {} => Retracing

\* Why nothing is left on the floor: a paper has rows only when what comes before it
\* on the constant path is done and falls short of the target, so every run passes it.
InTime ==
  \A p \in Paper : rows[p] # <<>> =>
    \E n \in DOMAIN Mined({}) :
      /\ Mined({})[n] = p /\ \A i \in 1..(n - 1) : Mined({})[i] \in done
      /\ Len(RowsInOrder(SubSeq(Mined({}), 1, n - 1), rows, MaxPerPaper)) < Target
KeptAll ==
  \A p \in Paper : \A t \in ToSet(rows[p]) :
    AccountedFor(t, ToSet(out.handoff) \cup ToSet(out.surplus))
Sweeping ==
  /\ InTime
  /\ pc # "idle" => m.skipped = {}
  /\ pc \in {"write", "surplus"} /\ ~m.over =>
       \A p \in Paper : ToSet(rows[p]) \subseteq ToSet(m.cands) \cup ToSet(m.surplus)
  /\ pc = "surplus" => out.handoff = Normalise(m.cands).records
  /\ (pc = "finish" /\ ~m.over) \/ Final => KeptAll
FloorInv ==
  /\ adapter # "fixture" /\ twice = {} /\ corrupt = {} => Sweeping
  /\ adapter = "fixture" => rows = [p \in Paper |-> <<>>]
=============================================================================
