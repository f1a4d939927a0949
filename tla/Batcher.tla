------------------------------ MODULE Batcher ------------------------------
(***************************************************************************)
(* The bulk-batcher daemon of icepick (src/icepick/batcher): it tails the  *)
(* journal of accepted candidates an extraction run appends to, cuts       *)
(* slices of exactly SliceSize records from it under the collision matrix  *)
(* of the ledger, and takes each batch through mount, cascade and pass@k.  *)
(*                                                                         *)
(* One action is one durable write of the daemon (an os.replace, an        *)
(* fsync'd ledger line, a mkdir, a flag file) together with the in-memory  *)
(* work that precedes it, so that Crash may fall between any two writes.   *)
(* Variables ending in "D" are files; their namesakes are what the         *)
(* running process holds in memory.                                        *)
(***************************************************************************)
EXTENDS Integers, Sequences, FiniteSets

CONSTANTS
    Row,             \* candidate rows (a row is its own content hash)
    Statement,       \* statements candidates carry
    NormalForm,      \* values of the case- and whitespace-folded statement
    StatementOf,     \* [Row -> Statement]
    KeyOf,           \* [Statement -> NormalForm]: the stmt_key recipe
    Malformed,       \* a JSON line without candidate or statement
    Corrupt,         \* a newline-terminated line that is not JSON
    CampaignSource,  \* config.campaign_source
    WatchSource,     \* source_name in the watched run's manifest
    History,         \* ledger rows seeded by the backfill
    SliceSize,       \* config.slice_size
    Policy,          \* config.cross_source_statement_policy
    FirstBatch,      \* first value of next_batch_number
    MaxBatch,        \* bound: last batch number of the model
    Journals,        \* what may come to be written to the campaign journal
    WatchJournals,   \* what may come to be written to the watched journal
    MaxCrashes       \* bound: crashes of the daemon process

Source  == {CampaignSource, WatchSource}
BatchNo == FirstBatch..MaxBatch

\* The "batch" field of a ledger row that no slice of this queue wrote.
HistBatch  == 0
WatchBatch == 1

\* compute_uid, stmt_key: injective hashes of what they are computed from.
Uid(source, row) == <<source, StatementOf[row]>>
StmtKey(row)     == KeyOf[StatementOf[row]]

LedgerRow == [uid     : Source \X Statement,
              key     : NormalForm,
              content : Row,
              batch   : {HistBatch, WatchBatch} \cup BatchNo,
              warn    : BOOLEAN]

Line == Row \cup {Malformed, Corrupt}

NoSlice == [lines |-> {}, through |-> 0]
Slice   == [lines : SUBSET Nat, through : Nat]

States == {"SLICED", "MOUNTED", "CASCADE_DONE", "PASSK_DONE", "READY", "FROZEN"}
DoneStates == {"READY", "FROZEN"}
NoState == "no state.json"

ASSUME ConstantAssumption ==
    /\ StatementOf \in [Row -> Statement]
    /\ KeyOf \in [Statement -> NormalForm]
    /\ Malformed \notin Row /\ Corrupt \notin Row /\ Malformed # Corrupt
    /\ SliceSize \in Nat \ {0}
    /\ Policy \in {"skip", "abort", "allow"}
    /\ FirstBatch \in Nat /\ FirstBatch > WatchBatch
    /\ MaxBatch \in Nat /\ MaxCrashes \in Nat
    /\ Journals \subseteq Seq(Line) /\ WatchJournals \subseteq Seq(Line)
    /\ History \in Seq(LedgerRow)
    /\ \A i \in DOMAIN History :
          /\ History[i].batch = HistBatch
          /\ History[i].key = KeyOf[History[i].uid[2]]

VARIABLES
    journal,   \* complete lines of the campaign's candidates.jsonl
    watch,     \* complete lines of the watched candidates.jsonl
    cur, curD, \* CursorStore: lines consumed of each journal
    ledger,    \* consumed_uids.jsonl; its index is rebuilt from it on load
    dirs,      \* numbers of the existing batch<N> directories
    man,       \* slice_manifest.json of each batch, NoSlice when absent
    st,        \* state.json of each batch
    flag,      \* batches whose READY_TO_FOLD flag exists
    q, qD,     \* queue_state.json: next_batch_number, halt, spend
    pc,        \* the daemon's next step, "down" when no process runs
    slice,     \* the commit or recovery in progress: batch number, content
    wnext,     \* watch ingestion: next line to process
    wend,      \* watch ingestion: last line read_new returned
    crashes    \* crashes so far

files   == <<journal, watch, ledger, dirs, man, st, flag>>
cursors == <<cur, curD>>
queue   == <<q, qD>>
work    == <<slice, wnext, wend>>
vars    == <<files, cursors, queue, pc, work, crashes>>

NoWork == [no |-> 0, lines |-> {}, through |-> 0]

Init ==
    /\ journal = <<>> /\ watch = <<>>
    /\ cur = [main |-> 0, watch |-> 0] /\ curD = cur
    /\ ledger = History
    /\ dirs = {} /\ man = [n \in BatchNo |-> NoSlice]
    /\ st = [n \in BatchNo |-> NoState] /\ flag = {}
    /\ q = [next |-> FirstBatch, halt |-> FALSE, spend |-> 0] /\ qD = q
    /\ pc = "down"
    /\ slice = NoWork /\ wnext = 1 /\ wend = 0
    /\ crashes = 0

----------------------------------------------------------------------------
(* The ledger: first row wins, warn-only rows never block. *)

Blocking     == {i \in DOMAIN ledger : ~ledger[i].warn}
PriorRows(u) == {i \in Blocking : ledger[i].uid = u}
FirstPrior(u) == CHOOSE i \in PriorRows(u) : \A j \in PriorRows(u) : i =< j

\* Ledger.check: uid first, then stmt_key, then the warn-only index.
Check(u, k, content) ==
    IF PriorRows(u) # {}
    THEN IF ledger[FirstPrior(u)].content = content THEN "replay" ELSE "uid_conflict"
    ELSE IF \E i \in Blocking : ledger[i].key = k THEN "stmt_conflict"
    ELSE IF \E i \in DOMAIN ledger \ Blocking : ledger[i].uid = u \/ ledger[i].key = k
    THEN "warn"
    ELSE "new"

\* Ledger.append_all for one row: (uid, batch) pairs already there are skipped.
Recorded(u, n) == \E i \in DOMAIN ledger : ledger[i].uid = u /\ ledger[i].batch = n

AppendRow(row) ==
    ledger' = IF Recorded(row.uid, row.batch) THEN ledger ELSE Append(ledger, row)

RowFor(source, line, n) ==
    [uid |-> Uid(source, line), key |-> StmtKey(line), content |-> line,
     batch |-> n, warn |-> FALSE]

CampaignUid(i)  == Uid(CampaignSource, journal[i])
InLedger(i, n)  == Recorded(CampaignUid(i), n)

----------------------------------------------------------------------------
(* cut_slice: the scan of the rows read_new returned. *)

\* Slip: the slice in the making is not looked at.
VerdictLedgerOnly(i, A) ==
    IF journal[i] = Malformed THEN "malformed"
    ELSE Check(CampaignUid(i), StmtKey(journal[i]), journal[i])

\* The verdict on line i when A is the set of lines accepted before it:
\* _intra_check comes before the ledger.
Verdict(i, A) ==
    LET row     == journal[i]
        sameUid == {j \in A : StatementOf[journal[j]] = StatementOf[row]}
    IN  IF row = Malformed THEN "malformed"
        ELSE IF sameUid # {}
        THEN IF \E j \in sameUid : journal[j] = row THEN "replay" ELSE "uid_conflict"
        ELSE IF \E j \in A : StmtKey(journal[j]) = StmtKey(row) THEN "stmt_conflict"
        ELSE Check(CampaignUid(i), StmtKey(row), row)

\* Slip: a replay is taken again.
AcceptsReplay(v) == v \in {"new", "warn", "replay"}

Accepts(v) == v \in {"new", "warn"} \/ (v = "stmt_conflict" /\ Policy = "allow")
Aborts(v)  == v \in {"malformed", "uid_conflict"}
              \/ (v = "stmt_conflict" /\ Policy = "abort")

RowLines(from, through) == {i \in from..through : journal[i] \in Row}

\* A is what the loop has accepted when it has passed the lines from..through.
\* (The condition determines A line by line, so there is one such A.)
Scan(from, through, A) ==
    \A i \in from..through :
        LET v == Verdict(i, A \cap from..(i - 1))
        IN  ~Aborts(v) /\ (i \in A <=> Accepts(v))

----------------------------------------------------------------------------
(* The journals' writers (other processes). *)

\* The next line of one of the contents a file may grow to.
Grow(file, contents) ==
    {Append(file, f[Len(file) + 1]) :
        f \in {g \in contents : Len(file) < Len(g) /\ SubSeq(g, 1, Len(file)) = file}}

AppendJournal ==
    /\ journal' \in Grow(journal, Journals)
    /\ UNCHANGED <<watch, ledger, dirs, man, st, flag, cursors, queue, pc, work, crashes>>

AppendWatch ==
    /\ watch' \in Grow(watch, WatchJournals)
    /\ UNCHANGED <<journal, ledger, dirs, man, st, flag, cursors, queue, pc, work, crashes>>

----------------------------------------------------------------------------
(* startup: lock, queue state with its numbering check, cursor, ledger, then
   recover_pending_slice on the highest-numbered batch directory. *)

Highest(n) == n \in dirs /\ \A m \in dirs : m =< n
NumberingOk == \A n \in dirs : n < qD.next

Startup ==
    /\ pc = "down"
    /\ NumberingOk
    /\ q' = qD /\ cur' = curD
    /\ IF \E n \in dirs : Highest(n) /\ man[n] # NoSlice
       THEN /\ pc' = "redo_ledger"
            /\ \E n \in dirs :
                 /\ Highest(n)
                 /\ slice' = [no |-> n, lines |-> man[n].lines, through |-> man[n].through]
       ELSE pc' = "tick" /\ UNCHANGED slice
    /\ UNCHANGED <<files, curD, qD, wnext, wend, crashes>>

\* Steps d of cut_slice and of its recovery: the rows go out in journal order.
LedgerAppend ==
    /\ pc \in {"ledger", "redo_ledger"}
    /\ \E i \in slice.lines :
         /\ ~InLedger(i, slice.no)
         /\ \A j \in slice.lines : j < i => InLedger(j, slice.no)
         /\ AppendRow(RowFor(CampaignSource, journal[i], slice.no))
    /\ UNCHANGED <<journal, watch, dirs, man, st, flag, cursors, queue, pc, work, crashes>>

LedgerDone == \A i \in slice.lines : InLedger(i, slice.no)

\* Slip: the recovery also writes the batch's first state again.
RecoverState ==
    /\ pc = "redo_ledger" /\ LedgerDone
    /\ st' = [st EXCEPT ![slice.no] = "SLICED"]
    /\ pc' = "tick" /\ slice' = NoWork
    /\ UNCHANGED <<journal, watch, ledger, dirs, man, flag, cursors, queue,
                   wnext, wend, crashes>>

\* Step f of the recovery: only a cursor behind the committed span moves.
RecoverCursor ==
    /\ pc = "redo_ledger" /\ LedgerDone
    /\ IF cur.main < slice.through
       THEN cur' = [cur EXCEPT !.main = slice.through] /\ curD' = cur'
       ELSE UNCHANGED cursors
    /\ pc' = "tick" /\ slice' = NoWork
    /\ UNCHANGED <<files, queue, wnext, wend, crashes>>

----------------------------------------------------------------------------
(* tick (b): watch ingestion.  read_new advances the in-memory cursor over
   every line it returns; the loop then sets it again row by row. *)

CorruptLines(lines, from) == {i \in (from + 1)..Len(lines) : lines[i] = Corrupt}
FirstCorrupt(lines, from) ==
    {i \in CorruptLines(lines, from) : \A j \in CorruptLines(lines, from) : i =< j}

ReadWatch ==
    /\ pc = "tick"
    /\ IF CorruptLines(watch, cur.watch) # {}
       THEN /\ \E i \in FirstCorrupt(watch, cur.watch) : cur' = [cur EXCEPT !.watch = i - 1]
            /\ pc' = "decide" /\ UNCHANGED <<wnext, wend>>
       ELSE /\ cur' = [cur EXCEPT !.watch = Len(watch)]
            /\ wnext' = cur.watch + 1 /\ wend' = Len(watch)
            /\ pc' = "watch"
    /\ UNCHANGED <<files, curD, queue, slice, crashes>>

\* A malformed row moves the cursor in memory only.
WatchMalformed ==
    /\ pc = "watch" /\ wnext =< wend
    /\ watch[wnext] = Malformed
    /\ cur' = [cur EXCEPT !.watch = wnext]
    /\ wnext' = wnext + 1
    /\ UNCHANGED <<files, curD, queue, pc, slice, wend, crashes>>

WatchLedger ==
    /\ pc = "watch" /\ wnext =< wend
    /\ watch[wnext] # Malformed
    /\ LET row == watch[wnext]
       IN  IF Check(Uid(WatchSource, row), StmtKey(row), row) \in {"new", "warn"}
           THEN AppendRow(RowFor(WatchSource, row, WatchBatch))
           ELSE UNCHANGED ledger
    /\ pc' = "watch_cursor"
    /\ UNCHANGED <<journal, watch, dirs, man, st, flag, cursors, queue, work, crashes>>

\* cursor.save() writes the positions of all journals.
WatchCursor ==
    /\ pc = "watch_cursor"
    /\ cur' = [cur EXCEPT !.watch = wnext] /\ curD' = cur'
    /\ wnext' = wnext + 1
    /\ pc' = "watch"
    /\ UNCHANGED <<files, queue, slice, wend, crashes>>

WatchDone ==
    /\ pc = "watch" /\ wnext > wend
    /\ pc' = "decide" /\ wnext' = 1 /\ wend' = 0
    /\ UNCHANGED <<files, cursors, queue, slice, crashes>>

----------------------------------------------------------------------------
(* tick (c): a halted queue does nothing more. *)

Halted ==
    /\ pc = "decide" /\ q.halt
    /\ pc' = "tick"
    /\ UNCHANGED <<files, cursors, queue, work, crashes>>

----------------------------------------------------------------------------
(* tick (d): one stage of the lowest-numbered batch that is neither READY
   nor FROZEN.  What a stage does inside is modelled in BatchStages. *)

InFlight == {n \in dirs : st[n] \notin DoneStates}
Current(n) == n \in InFlight /\ \A m \in InFlight : n =< m
Dispatch(n, s) == pc = "decide" /\ ~q.halt /\ Current(n) /\ st[n] = s

\* Batch n goes to state s and the tick ends.
EndTick(n, s) ==
    /\ st' = [st EXCEPT ![n] = s]
    /\ pc' = "tick"
    /\ UNCHANGED <<journal, watch, ledger, dirs, man, flag, cursors, queue, work, crashes>>

Mount == \E n \in BatchNo :
    Dispatch(n, "SLICED") /\ \E s \in {"MOUNTED", "FROZEN"} : EndTick(n, s)

\* The cascade went through: _add_spend is saved before the new state is.
CascadeSpend == \E n \in BatchNo :
    /\ Dispatch(n, "MOUNTED")
    /\ q' = [q EXCEPT !.spend = @ + 1] /\ qD' = q'
    /\ pc' = "cascade_done" /\ slice' = [NoWork EXCEPT !.no = n]
    /\ UNCHANGED <<files, cursors, wnext, wend, crashes>>

CascadeDone ==
    /\ pc = "cascade_done"
    /\ st' = [st EXCEPT ![slice.no] = "CASCADE_DONE"]
    /\ pc' = "tick" /\ slice' = NoWork
    /\ UNCHANGED <<journal, watch, ledger, dirs, man, flag, cursors, queue,
                   wnext, wend, crashes>>

CascadeFails == \E n \in BatchNo : Dispatch(n, "MOUNTED") /\ EndTick(n, "FROZEN")

\* The cost guard: the batch is frozen first, the queue halted after.
CostGuard == \E n \in BatchNo :
    /\ Dispatch(n, "MOUNTED")
    /\ st' = [st EXCEPT ![n] = "FROZEN"]
    /\ pc' = "set_halt"
    /\ UNCHANGED <<journal, watch, ledger, dirs, man, flag, cursors, queue, work, crashes>>

\* Slip: the halt is written to the file but not to the daemon's copy, so the
\* next save from the copy takes it back.
SetHaltFileOnly ==
    /\ pc = "set_halt"
    /\ qD' = [qD EXCEPT !.halt = TRUE] /\ q' = q
    /\ pc' = "tick"
    /\ UNCHANGED <<files, cursors, work, crashes>>

SetHalt ==
    /\ pc = "set_halt"
    /\ q' = [q EXCEPT !.halt = TRUE] /\ qD' = q'
    /\ pc' = "tick"
    /\ UNCHANGED <<files, cursors, work, crashes>>

PassK == \E n \in BatchNo :
    Dispatch(n, "CASCADE_DONE") /\ \E s \in {"PASSK_DONE", "FROZEN"} : EndTick(n, s)

\* waiting_cascade, waiting_qwen, and unknown_state for a batch without state.json.
Wait ==
    /\ \E n \in BatchNo, s \in {"MOUNTED", "CASCADE_DONE", NoState} : Dispatch(n, s)
    /\ pc' = "tick"
    /\ UNCHANGED <<files, cursors, queue, work, crashes>>

\* transition to READY writes state.json, then the flag.
Ready == \E n \in BatchNo :
    /\ Dispatch(n, "PASSK_DONE")
    /\ st' = [st EXCEPT ![n] = "READY"]
    /\ pc' = "flag" /\ slice' = [NoWork EXCEPT !.no = n]
    /\ UNCHANGED <<journal, watch, ledger, dirs, man, flag, cursors, queue,
                   wnext, wend, crashes>>

ReadyFlag ==
    /\ pc = "flag"
    /\ flag' = flag \cup {slice.no}
    /\ pc' = "tick" /\ slice' = NoWork
    /\ UNCHANGED <<journal, watch, ledger, dirs, man, st, cursors, queue,
                   wnext, wend, crashes>>

----------------------------------------------------------------------------
(* tick (f): cut_slice.  In every outcome read_new has moved the in-memory
   cursor over all the lines it read. *)

\* Slip: a slice is cut while a batch is on its way.
SlicingAnyway == pc = "decide" /\ ~q.halt

Slicing == pc = "decide" /\ ~q.halt /\ InFlight = {}
Readable == CorruptLines(journal, cur.main) = {}
From == cur.main + 1

JournalCorruption ==
    /\ Slicing
    /\ \E i \in FirstCorrupt(journal, cur.main) : cur' = [cur EXCEPT !.main = i - 1]
    /\ pc' = "set_halt"
    /\ UNCHANGED <<files, curD, queue, work, crashes>>

Insufficient ==
    /\ Slicing /\ Readable
    /\ \E A \in SUBSET RowLines(From, Len(journal)) :
         Cardinality(A) < SliceSize /\ Scan(From, Len(journal), A)
    /\ cur' = [cur EXCEPT !.main = Len(journal)]
    /\ pc' = "tick"
    /\ UNCHANGED <<files, curD, queue, work, crashes>>

AbortSlice ==
    /\ Slicing /\ Readable
    /\ \E t \in From..Len(journal) : \E A \in SUBSET RowLines(From, t - 1) :
         /\ Cardinality(A) < SliceSize
         /\ Scan(From, t - 1, A) /\ Aborts(Verdict(t, A))
    /\ cur' = [cur EXCEPT !.main = Len(journal)]
    /\ pc' = "set_halt"
    /\ UNCHANGED <<files, curD, queue, work, crashes>>

\* The slice is full at line t.  Step a: mkdir.
CommitMkdir ==
    /\ Slicing /\ Readable /\ q.next =< MaxBatch
    /\ \E t \in From..Len(journal) : \E A \in SUBSET RowLines(From, t) :
         /\ Cardinality(A) = SliceSize /\ t \in A /\ Scan(From, t, A)
         /\ IF q.next \in dirs /\ man[q.next] # NoSlice
            THEN pc' = "set_halt" /\ UNCHANGED <<dirs, slice>>
            ELSE /\ dirs' = dirs \cup {q.next}
                 /\ slice' = [no |-> q.next, lines |-> A, through |-> t]
                 /\ pc' = "manifest"
    /\ cur' = [cur EXCEPT !.main = Len(journal)]
    /\ UNCHANGED <<journal, watch, ledger, man, st, flag, curD, queue, wnext, wend, crashes>>

\* Steps b and c: slice_records.jsonl, then the manifest that commits to it.
CommitManifest ==
    /\ pc = "manifest"
    /\ man' = [man EXCEPT ![slice.no] = [lines |-> slice.lines, through |-> slice.through]]
    /\ pc' = "ledger"
    /\ UNCHANGED <<journal, watch, ledger, dirs, st, flag, cursors, queue, work, crashes>>

\* Slip: the cursor is saved before the ledger is complete.
CommitCursorEarly ==
    /\ pc = "ledger"
    /\ cur' = [cur EXCEPT !.main = slice.through] /\ curD' = cur'
    /\ pc' = "number"
    /\ UNCHANGED <<files, queue, work, crashes>>

\* Slip: the cursor moves in memory and is not saved.
CommitCursorUnsaved ==
    /\ pc = "ledger" /\ LedgerDone
    /\ cur' = [cur EXCEPT !.main = slice.through] /\ UNCHANGED curD
    /\ pc' = "number"
    /\ UNCHANGED <<files, queue, work, crashes>>

\* Step f (step d is LedgerAppend).
CommitCursor ==
    /\ pc = "ledger" /\ LedgerDone
    /\ cur' = [cur EXCEPT !.main = slice.through] /\ curD' = cur'
    /\ pc' = "number"
    /\ UNCHANGED <<files, queue, work, crashes>>

IncBatchNumber ==
    /\ pc = "number"
    /\ q' = [q EXCEPT !.next = @ + 1] /\ qD' = q'
    /\ pc' = "first_state"
    /\ UNCHANGED <<files, cursors, work, crashes>>

FirstState ==
    /\ pc = "first_state"
    /\ st' = [st EXCEPT ![slice.no] = "SLICED"]
    /\ pc' = "tick" /\ slice' = NoWork
    /\ UNCHANGED <<journal, watch, ledger, dirs, man, flag, cursors, queue,
                   wnext, wend, crashes>>

----------------------------------------------------------------------------
(* The process ends: by a signal or a disarm between ticks, or by a kill. *)

Down ==
    /\ pc' = "down"
    /\ cur' = curD /\ q' = qD
    /\ slice' = NoWork /\ wnext' = 1 /\ wend' = 0
    /\ UNCHANGED <<files, curD, qD>>

Stop  == pc = "tick" /\ Down /\ UNCHANGED crashes
Crash == pc # "down" /\ crashes < MaxCrashes /\ Down /\ crashes' = crashes + 1

(* The operator. *)

\* icepick batcher clear-halt edits the file only; a running daemon keeps
\* the halt it holds in memory.
ClearHalt ==
    /\ qD.halt
    /\ qD' = [qD EXCEPT !.halt = FALSE]
    /\ q' = IF pc = "down" THEN qD' ELSE q
    /\ UNCHANGED <<files, cursors, pc, work, crashes>>

\* The numbering_mismatch message sends the operator to the batches
\* directory: a directory without manifest goes, one with a manifest counts.
RepairNumbering ==
    /\ pc = "down"
    /\ \E n \in dirs :
         /\ Highest(n) /\ ~(n < qD.next)
         /\ IF man[n] = NoSlice
            THEN dirs' = dirs \ {n} /\ UNCHANGED queue
            ELSE /\ qD' = [qD EXCEPT !.next = n + 1] /\ q' = qD'
                 /\ UNCHANGED dirs
    /\ UNCHANGED <<journal, watch, ledger, man, st, flag, cursors, pc, work, crashes>>

\* The operator writes the state.json that a kill left out.
RepairState ==
    /\ pc = "down"
    /\ \E n \in dirs :
         /\ st[n] = NoState /\ man[n] # NoSlice /\ n < qD.next
         /\ st' = [st EXCEPT ![n] = "SLICED"]
    /\ UNCHANGED <<journal, watch, ledger, dirs, man, flag, cursors, queue, pc, work, crashes>>

----------------------------------------------------------------------------

Environment == AppendJournal \/ AppendWatch
Ingest == ReadWatch \/ WatchMalformed \/ WatchLedger \/ WatchCursor \/ WatchDone
Stages == Mount \/ CascadeSpend \/ CascadeDone \/ CascadeFails \/ CostGuard
          \/ PassK \/ Wait \/ Ready \/ ReadyFlag
CutSlice == JournalCorruption \/ Insufficient \/ AbortSlice \/ CommitMkdir
            \/ CommitManifest \/ LedgerAppend \/ CommitCursor
            \/ IncBatchNumber \/ FirstState
Daemon == Startup \/ RecoverCursor \/ Ingest \/ Halted \/ Stages \/ CutSlice \/ SetHalt
Operator == ClearHalt \/ RepairNumbering \/ RepairState

Next == Environment \/ Daemon \/ Stop \/ Crash \/ Operator

Spec == Init /\ [][Next]_vars

----------------------------------------------------------------------------
(* Properties. *)

PCs == {"down", "tick", "decide", "watch", "watch_cursor", "redo_ledger",
        "manifest", "ledger", "number", "first_state", "cascade_done",
        "set_halt", "flag"}

Cursor     == [main : Nat, watch : Nat]
QueueState == [next : {n \in Nat : n >= FirstBatch}, halt : BOOLEAN, spend : Nat]

\* Every variable keeps the shape the files and objects of the daemon have.
TypeOK ==
    /\ journal \in Seq(Line) /\ watch \in Seq(Line)
    /\ cur \in Cursor /\ curD \in Cursor
    /\ ledger \in Seq(LedgerRow)
    /\ dirs \in SUBSET BatchNo
    /\ man \in [BatchNo -> Slice]
    /\ st \in [BatchNo -> States \cup {NoState}]
    /\ flag \in SUBSET BatchNo
    /\ q \in QueueState /\ qD \in QueueState
    /\ pc \in PCs
    /\ slice \in [no : Nat, lines : SUBSET Nat, through : Nat]
    /\ wnext \in Nat /\ wend \in Nat /\ crashes \in Nat

\* A record clashes with another when it must not be funneled next to it: the
\* same uid always, the same normal form unless the policy allows that.
Clash(u, k, v, l) == u = v \/ (Policy # "allow" /\ k = l)

\* The slicer's second absolute: no record enters two batches, nor one batch
\* twice, nor a batch when the history or the watched run already has it.
NoDuplicate ==
    \A n \in BatchNo : \A i \in man[n].lines :
        /\ \A m \in BatchNo : \A j \in man[m].lines :
              Clash(CampaignUid(i), StmtKey(journal[i]), CampaignUid(j), StmtKey(journal[j]))
                  => n = m /\ i = j
        /\ \A k \in Blocking :
              Clash(CampaignUid(i), StmtKey(journal[i]), ledger[k].uid, ledger[k].key)
                  => ledger[k].batch = n

\* Outside a commit and a recovery, the ledger and the saved cursor cover
\* every committed batch, whatever kills came before.
Covered(n) ==
    man[n] # NoSlice =>
        (\A i \in man[n].lines : InLedger(i, n)) /\ curD.main >= man[n].through
Committing == pc \in {"down", "redo_ledger", "ledger"}
Settled == ~Committing => \A n \in BatchNo : Covered(n)

\* CursorStore's ordering contract: the saved cursor passes a committed row
\* only when the ledger has it.
LedgerBeforeCursor ==
    \A n \in BatchNo : \A i \in man[n].lines :
        i =< curD.main => InLedger(i, n)

\* At most one batch is on its way, and no batch after it has been cut.
OneInFlight == \A n \in InFlight : Highest(n)

\* No update of queue_state.json is lost to a stale copy: a running daemon
\* knows the number, the spend and every halt the file records (a halt the
\* operator cleared is the one thing it may not have heard of).
QueueInSync ==
    /\ q.next = qD.next /\ q.spend = qD.spend
    /\ qD.halt => q.halt

\* A batch moves one stage at a time or freezes, only the oldest unfinished
\* batch moves, and neither a kill nor a restart takes a stage back.
Forward ==
    {<<NoState, "SLICED">>, <<"SLICED", "MOUNTED">>, <<"MOUNTED", "CASCADE_DONE">>,
     <<"CASCADE_DONE", "PASSK_DONE">>, <<"PASSK_DONE", "READY">>,
     <<"SLICED", "FROZEN">>, <<"MOUNTED", "FROZEN">>, <<"CASCADE_DONE", "FROZEN">>}
StageOrder ==
    [][\A n \in BatchNo : st'[n] # st[n] =>
          /\ <<st[n], st'[n]>> \in Forward
          /\ \A m \in dirs : m < n => st[m] \in DoneStates]_vars

\* What the batcher promises to the rest of the funnel (module BatchQueue).
Committed == [n \in BatchNo |-> {CampaignUid(i) : i \in man[n].lines}]
Elsewhere == {ledger[k].uid : k \in {j \in Blocking : ledger[j].batch \notin BatchNo}}

Queue == INSTANCE BatchQueue WITH
    Record <- Source \X Statement, Batch <- BatchNo, Size <- SliceSize,
    Known <- {History[k].uid : k \in {j \in DOMAIN History : ~History[j].warn}},
    out <- Committed, elsewhere <- Elsewhere

\* The daemon, kills and repairs included, implements the abstract queue.
RefinesQueue == Queue!Spec

----------------------------------------------------------------------------
(* The inductive invariant behind Settled, LedgerBeforeCursor and OneInFlight. *)

\* A manifest names rows of the journal and sits in its directory; a batch
\* without one has no state.
Manifests ==
    \A n \in BatchNo :
        /\ man[n].lines \subseteq RowLines(1, Len(journal))
        /\ man[n].through =< Len(journal)
        /\ man[n] # NoSlice => n \in dirs
        /\ man[n] = NoSlice => st[n] = NoState

LedgerRows ==
    \A k \in DOMAIN ledger :
        /\ ledger[k].key = KeyOf[ledger[k].uid[2]]
        /\ ledger[k].batch \in BatchNo => ~ledger[k].warn

\* From the mkdir to the increment the new directory has the next number;
\* otherwise a running daemon has numbered all directories.
Cutting == pc \in {"manifest", "ledger", "number"}
Numbering ==
    /\ Cutting => slice.no = q.next
    /\ pc # "down" /\ ~Cutting => \A n \in dirs : n < q.next

\* What the daemon is working on.
Working ==
    /\ Cutting \/ pc \in {"first_state", "redo_ledger"} => Highest(slice.no)
    /\ Cutting \/ pc = "first_state" => st[slice.no] = NoState
    /\ pc = "cascade_done" => slice.no \in dirs /\ st[slice.no] = "MOUNTED"
    /\ pc = "flag" => slice.no \in dirs /\ st[slice.no] = "READY"
    /\ pc \in {"ledger", "number", "first_state", "redo_ledger"} =>
          /\ man[slice.no] = [lines |-> slice.lines, through |-> slice.through]
          /\ man[slice.no] # NoSlice
    /\ pc = "manifest" =>
          /\ man[slice.no] = NoSlice /\ Cardinality(slice.lines) = SliceSize
          /\ slice.lines \subseteq RowLines(1, Len(journal))
          /\ slice.through =< Len(journal)
          /\ \A i \in slice.lines : i > curD.main
    /\ pc \in {"manifest", "ledger"} => slice.through > curD.main
    /\ pc \in {"watch", "watch_cursor"} =>
          wnext > 0 /\ \A i \in wnext..wend : i =< Len(watch) /\ watch[i] # Corrupt

\* The saved cursor is never ahead of the one in memory, nor that of the file.
Cursors ==
    /\ curD.main =< cur.main /\ cur.main =< Len(journal)
    /\ pc \in {"down", "redo_ledger"} => cur = curD

\* The one batch a kill can leave uncovered is the one recovery looks at.
Recoverable ==
    \A n \in BatchNo :
        Covered(n) \/ (Committing /\ Highest(n))

IndInv ==
    /\ TypeOK /\ Manifests /\ LedgerRows /\ Numbering /\ Working /\ Cursors
    /\ Recoverable /\ LedgerBeforeCursor /\ OneInFlight /\ QueueInSync

\* A slice about to be committed is new to the ledger and to itself.
FreshSlice ==
    pc = "manifest" =>
        \A i \in slice.lines :
            /\ \A k \in Blocking : ledger[k].key # StmtKey(journal[i])
            /\ \A j \in slice.lines :
                  StmtKey(journal[i]) = StmtKey(journal[j]) => i = j

----------------------------------------------------------------------------
(* What the documentation says and the code does not do (refuted). *)

\* journal.py: the batcher "never loses or double-reads a record across
\* restarts or crashes" - every row behind the saved cursor has been
\* batched or is known to the ledger.
NoLostRow ==
    \A i \in 1..curD.main : i \in DOMAIN journal /\ journal[i] \in Row =>
        \/ \E n \in BatchNo : i \in man[n].lines
        \/ \E k \in Blocking : ledger[k].uid = CampaignUid(i)
                                \/ ledger[k].key = StmtKey(journal[i])

=============================================================================
