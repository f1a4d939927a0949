---------------------------- MODULE BatcherProof ----------------------------
(***************************************************************************)
(* Proofs about Batcher for every choice of its constants.  The order of   *)
(* the durable writes is what carries the argument: IndInv says, for every *)
(* program counter, which of the batch's files are already on disk.        *)
(***************************************************************************)
EXTENDS Batcher, SequenceTheorems, FiniteSetTheorems, TLAPS

----------------------------------------------------------------------------
(* Lemmas about the operators of the model. *)

\* A journal only grows, by one line.
LEMMA GrowAppends ==
    ASSUME NEW S, NEW file \in Seq(S), NEW contents \in SUBSET Seq(S),
           NEW new \in Grow(file, contents)
    PROVE  \E x \in S : new = Append(file, x)
<1>1. PICK f \in contents : Len(file) < Len(f) /\ new = Append(file, f[Len(file) + 1])
  BY DEF Grow
<1>2. f \in Seq(S) /\ Len(file) + 1 \in 1..Len(f)
  BY <1>1
<1>3. f[Len(file) + 1] \in S
  BY <1>2
<1> QED BY <1>1, <1>3

\* The rows of a journal stay where they are when it grows.
LEMMA GrowKeeps ==
    ASSUME NEW S, NEW file \in Seq(S), NEW x \in S
    PROVE  /\ Append(file, x) \in Seq(S)
           /\ Len(Append(file, x)) = Len(file) + 1
           /\ DOMAIN Append(file, x) = DOMAIN file \cup {Len(file) + 1}
           /\ \A i \in DOMAIN file : Append(file, x)[i] = file[i]
           /\ Append(file, x)[Len(file) + 1] = x
BY AppendProperties

\* append_all of one row: the ledger stays, or grows by that row.
LEMMA AppendRowEffect ==
    ASSUME ledger \in Seq(LedgerRow), NEW row \in LedgerRow, AppendRow(row)
    PROVE  /\ ledger' \in Seq(LedgerRow)
           /\ \A k \in DOMAIN ledger : k \in DOMAIN ledger' /\ ledger'[k] = ledger[k]
           /\ \A k \in DOMAIN ledger' : k \in DOMAIN ledger \/ ledger'[k] = row
           /\ Recorded(row.uid, row.batch)'
<1>1. CASE Recorded(row.uid, row.batch)
  BY <1>1 DEF AppendRow, Recorded
<1>2. CASE ~Recorded(row.uid, row.batch)
  <2>1. ledger' = Append(ledger, row)
    BY <1>2 DEF AppendRow
  <2> QED BY <2>1, GrowKeeps DEF Recorded
<1> QED BY <1>1, <1>2


\* RowFor builds a ledger row from a candidate row, as cut_slice does.
LEMMA RowForType ==
    ASSUME NEW source \in Source, NEW row \in Row,
           NEW n \in {WatchBatch} \cup BatchNo
    PROVE  RowFor(source, row, n) \in LedgerRow
BY ConstantAssumption DEF RowFor, LedgerRow, Uid, StmtKey, WatchBatch

\* What the scan accepts are rows between the cursor and the end of the file.
LEMMA RowLinesType ==
    ASSUME journal \in Seq(Line), NEW from \in Nat, NEW to \in Nat,
           to =< Len(journal), from > 0
    PROVE  RowLines(from, to) \subseteq RowLines(1, Len(journal))
           /\ RowLines(from, to) \subseteq Nat
BY DEF RowLines

----------------------------------------------------------------------------
(* Type correctness.  The program counter decides which work item exists, so
   Working and Manifests are needed for the steps that use it. *)

\* Setting one position of the cursor (CursorStore.set) leaves a cursor.
LEMMA CursorUpdate ==
    ASSUME NEW c \in Cursor, NEW k \in Nat
    PROVE  /\ [c EXCEPT !.main = k] \in Cursor
           /\ [c EXCEPT !.main = k].main = k
           /\ [c EXCEPT !.watch = k] \in Cursor
           /\ [c EXCEPT !.watch = k].main = c.main
BY DEF Cursor

\* Writing one field of queue_state.json leaves a queue state.
LEMMA QueueUpdate ==
    ASSUME NEW x \in QueueState
    PROVE  /\ [x EXCEPT !.next = @ + 1] \in QueueState
           /\ [x EXCEPT !.spend = @ + 1] \in QueueState
           /\ \A h \in BOOLEAN : [x EXCEPT !.halt = h] \in QueueState
           /\ \A n \in BatchNo : [x EXCEPT !.next = n + 1] \in QueueState
<1> FirstBatch \in Nat /\ BatchNo \subseteq {n \in Nat : n >= FirstBatch}
  BY ConstantAssumption DEF BatchNo
<1> QED BY DEF QueueState

\* A fresh installation has files of the right shape.
LEMMA InitType == Init => TypeOK
<1> SUFFICES ASSUME Init PROVE TypeOK
  OBVIOUS
<1>1. journal \in Seq(Line) /\ watch \in Seq(Line) /\ ledger \in Seq(LedgerRow)
  BY ConstantAssumption DEF Init
<1>2. man \in [BatchNo -> Slice] /\ st \in [BatchNo -> States \cup {NoState}]
  BY DEF Init, Slice, NoSlice
<1> QED
  BY <1>1, <1>2, ConstantAssumption DEF Init, TypeOK, QueueState, Cursor, PCs, NoWork

\* Every step keeps the shapes.
LEMMA StepType ==
    ASSUME TypeOK, Manifests, Working, Next
    PROVE  TypeOK'
<1> USE DEF files, cursors, queue, work
<1> DEFINE Work == [no : Nat, lines : SUBSET Nat, through : Nat]
<1>0. BatchNo \subseteq Nat /\ NoWork \in Work /\ \A n \in Nat : [NoWork EXCEPT !.no = n] \in Work
  BY ConstantAssumption DEF BatchNo, NoWork
<1>1. CASE AppendJournal
  <2>1. journal \in Seq(Line) /\ Journals \in SUBSET Seq(Line)
        /\ journal' \in Grow(journal, Journals)
    BY <1>1, ConstantAssumption DEF AppendJournal, TypeOK
  <2>2. journal' \in Seq(Line)
    BY <2>1, GrowAppends, GrowKeeps
  <2> QED BY <1>1, <2>2 DEF AppendJournal, TypeOK
<1>2. CASE AppendWatch
  <2>1. watch \in Seq(Line) /\ WatchJournals \in SUBSET Seq(Line)
        /\ watch' \in Grow(watch, WatchJournals)
    BY <1>2, ConstantAssumption DEF AppendWatch, TypeOK
  <2>2. watch' \in Seq(Line)
    BY <2>1, GrowAppends, GrowKeeps
  <2> QED BY <1>2, <2>2 DEF AppendWatch, TypeOK
<1>3. CASE Startup
  <2>1. slice' \in Work /\ pc' \in PCs
    BY <1>0, <1>3 DEF Startup, Highest, TypeOK, Slice, PCs
  <2> QED BY <1>3, <2>1 DEF Startup, TypeOK
<1>4. CASE LedgerAppend
  <2>1. PICK i \in slice.lines : AppendRow(RowFor(CampaignSource, journal[i], slice.no))
    BY <1>4 DEF LedgerAppend
  <2>2. slice.no \in BatchNo /\ slice.lines = man[slice.no].lines
    BY <1>4 DEF LedgerAppend, Working, Cutting, Highest, TypeOK
  <2>3. journal[i] \in Row
    BY <2>1, <2>2 DEF Manifests, RowLines
  <2>4. ledger' \in Seq(LedgerRow)
    BY <2>1, <2>2, <2>3, RowForType, AppendRowEffect DEF Source, TypeOK
  <2> QED BY <1>4, <2>4 DEF LedgerAppend, TypeOK
<1>5. CASE RecoverCursor
  <2>1. cur' \in Cursor /\ curD' \in Cursor
    <3>1. CASE cur.main < slice.through
      <4>1. cur' = [cur EXCEPT !.main = slice.through] /\ curD' = cur'
        BY <1>5, <3>1 DEF RecoverCursor
      <4>2. cur \in Cursor /\ slice.through \in Nat
        BY DEF TypeOK
      <4> QED BY <4>1, <4>2, CursorUpdate
    <3>2. CASE ~(cur.main < slice.through)
      BY <1>5, <3>2 DEF RecoverCursor, TypeOK
    <3> QED BY <3>1, <3>2
  <2> QED BY <1>0, <1>5, <2>1 DEF RecoverCursor, TypeOK, PCs
<1>6. CASE ReadWatch
  <2>1. \A i \in FirstCorrupt(watch, cur.watch) : i - 1 \in Nat
    BY DEF FirstCorrupt, CorruptLines, TypeOK, Cursor
  <2>2. Len(watch) \in Nat /\ cur.watch + 1 \in Nat
    BY DEF TypeOK, Cursor
  <2>3. cur' \in Cursor /\ wnext' \in Nat /\ wend' \in Nat
    <3>1. CASE CorruptLines(watch, cur.watch) # {}
      <4>1. PICK i \in FirstCorrupt(watch, cur.watch) : cur' = [cur EXCEPT !.watch = i - 1]
        BY <1>6, <3>1 DEF ReadWatch
      <4>2. wnext' = wnext /\ wend' = wend
        BY <1>6, <3>1 DEF ReadWatch
      <4> QED BY <2>1, <4>1, <4>2, CursorUpdate DEF TypeOK
    <3>2. CASE CorruptLines(watch, cur.watch) = {}
      BY <1>6, <3>2, <2>2, CursorUpdate DEF ReadWatch, TypeOK
    <3> QED BY <3>1, <3>2
  <2> QED BY <1>6, <2>3 DEF ReadWatch, TypeOK, PCs
<1>7. CASE WatchMalformed
  <2>1. cur' \in Cursor /\ wnext' \in Nat
    <3>1. cur' = [cur EXCEPT !.watch = wnext] /\ wnext' = wnext + 1
      BY <1>7 DEF WatchMalformed
    <3>2. cur \in Cursor /\ wnext \in Nat
      BY DEF TypeOK
    <3>3. [cur EXCEPT !.watch = wnext] \in Cursor
      BY <3>2, CursorUpdate
    <3> QED BY <3>1, <3>2, <3>3
  <2> QED BY <1>7, <2>1 DEF WatchMalformed, TypeOK
<1>8. CASE WatchLedger
  <2>1. wnext \in wnext..wend
    BY <1>8 DEF WatchLedger, TypeOK
  <2>2. watch[wnext] \in Row
    BY <1>8, <2>1 DEF WatchLedger, Working, TypeOK, Line
  <2>3. RowFor(WatchSource, watch[wnext], WatchBatch) \in LedgerRow
    BY <2>2, RowForType DEF Source
  <2>4. ledger' \in Seq(LedgerRow)
    BY <1>8, <2>3, AppendRowEffect DEF WatchLedger, TypeOK
  <2> QED BY <1>8, <2>4 DEF WatchLedger, TypeOK, PCs
<1>9. CASE WatchCursor
  <2>1. cur' \in Cursor /\ curD' \in Cursor
    BY <1>9, CursorUpdate DEF WatchCursor, TypeOK
  <2> QED BY <1>9, <2>1 DEF WatchCursor, TypeOK, PCs
<1>10. CASE WatchDone
  BY <1>10 DEF WatchDone, TypeOK, PCs
<1>11. CASE Halted
  BY <1>11 DEF Halted, TypeOK, PCs
<1>12. CASE Mount
  BY <1>12 DEF Mount, EndTick, States, TypeOK, PCs
<1>13. CASE CascadeSpend
  <2>1. q' \in QueueState /\ qD' \in QueueState
    BY <1>13, QueueUpdate DEF CascadeSpend, TypeOK
  <2> QED BY <1>0, <1>13, <2>1 DEF CascadeSpend, TypeOK, PCs
<1>14. CASE CascadeDone
  BY <1>0, <1>14 DEF CascadeDone, States, TypeOK, PCs
<1>15. CASE CascadeFails
  BY <1>15 DEF CascadeFails, EndTick, States, TypeOK, PCs
<1>16. CASE CostGuard
  BY <1>16 DEF CostGuard, States, TypeOK, PCs
<1>17. CASE SetHalt
  <2>1. q' \in QueueState /\ qD' \in QueueState
    BY <1>17, QueueUpdate DEF SetHalt, TypeOK
  <2> QED BY <1>17, <2>1 DEF SetHalt, TypeOK, PCs
<1>18. CASE PassK
  BY <1>18 DEF PassK, EndTick, States, TypeOK, PCs
<1>19. CASE Wait
  BY <1>19 DEF Wait, TypeOK, PCs
<1>20. CASE Ready
  BY <1>0, <1>20 DEF Ready, States, TypeOK, PCs
<1>21. CASE ReadyFlag
  BY <1>0, <1>21 DEF ReadyFlag, Working, TypeOK, PCs
<1>22. CASE JournalCorruption
  <2>1. \A i \in FirstCorrupt(journal, cur.main) : i - 1 \in Nat
    BY DEF FirstCorrupt, CorruptLines, TypeOK, Cursor
  <2>2. cur' \in Cursor
    <3>1. PICK i \in FirstCorrupt(journal, cur.main) : cur' = [cur EXCEPT !.main = i - 1]
      BY <1>22 DEF JournalCorruption
    <3> QED BY <2>1, <3>1, CursorUpdate DEF TypeOK
  <2> QED BY <1>22, <2>2 DEF JournalCorruption, TypeOK, PCs
<1>23. CASE Insufficient
  <2>1. Len(journal) \in Nat
    BY DEF TypeOK
  <2>2. cur' \in Cursor
    BY <1>23, <2>1, CursorUpdate DEF Insufficient, TypeOK
  <2> QED BY <1>23, <2>2 DEF Insufficient, TypeOK, PCs
<1>24. CASE AbortSlice
  <2>1. Len(journal) \in Nat
    BY DEF TypeOK
  <2>2. cur' \in Cursor
    BY <1>24, <2>1, CursorUpdate DEF AbortSlice, TypeOK
  <2> QED BY <1>24, <2>2 DEF AbortSlice, TypeOK, PCs
<1>25. CASE CommitMkdir
  <2>1. Len(journal) \in Nat /\ From \in Nat /\ q.next \in Nat /\ q.next >= FirstBatch
    BY DEF TypeOK, From, Cursor, QueueState
  <2>2. cur' \in Cursor
    BY <1>25, <2>1, CursorUpdate DEF CommitMkdir, TypeOK
  <2>3. PICK t \in From..Len(journal) : \E A \in SUBSET RowLines(From, t) :
          IF q.next \in dirs /\ man[q.next] # NoSlice
          THEN pc' = "set_halt" /\ UNCHANGED <<dirs, slice>>
          ELSE /\ dirs' = dirs \cup {q.next}
               /\ slice' = [no |-> q.next, lines |-> A, through |-> t]
               /\ pc' = "manifest"
    BY <1>25 DEF CommitMkdir
  <2>4. \A A \in SUBSET RowLines(From, t) : A \in SUBSET Nat /\ t \in Nat
    BY <2>1 DEF RowLines
  <2>5. q.next \in BatchNo
    BY <1>25, <2>1, ConstantAssumption DEF CommitMkdir, BatchNo
  <2>6. slice' \in Work /\ dirs' \in SUBSET BatchNo /\ pc' \in PCs
    BY <2>1, <2>3, <2>4, <2>5 DEF TypeOK, PCs
  <2> QED BY <1>25, <2>2, <2>6 DEF CommitMkdir, TypeOK
<1>26. CASE CommitManifest
  BY <1>26 DEF CommitManifest, TypeOK, PCs, Slice
<1>27. CASE CommitCursor
  <2>1. cur' \in Cursor /\ curD' \in Cursor
    BY <1>27, CursorUpdate DEF CommitCursor, TypeOK
  <2> QED BY <1>27, <2>1 DEF CommitCursor, TypeOK, PCs
<1>28. CASE IncBatchNumber
  <2>1. q' \in QueueState /\ qD' \in QueueState
    BY <1>28, QueueUpdate DEF IncBatchNumber, TypeOK
  <2> QED BY <1>28, <2>1 DEF IncBatchNumber, TypeOK, PCs
<1>29. CASE FirstState
  BY <1>0, <1>29 DEF FirstState, States, TypeOK, PCs
<1>30. CASE Stop
  BY <1>0, <1>30 DEF Stop, Down, TypeOK, PCs
<1>31. CASE Crash
  BY <1>0, <1>31 DEF Crash, Down, TypeOK, PCs
<1>32. CASE ClearHalt
  <2>1. q' \in QueueState /\ qD' \in QueueState
    BY <1>32, QueueUpdate DEF ClearHalt, TypeOK
  <2> QED BY <1>32, <2>1 DEF ClearHalt, TypeOK
<1>33. CASE RepairNumbering
  <2>1. PICK n \in dirs :
          IF man[n] = NoSlice
          THEN dirs' = dirs \ {n} /\ UNCHANGED queue
          ELSE qD' = [qD EXCEPT !.next = n + 1] /\ q' = qD' /\ UNCHANGED dirs
    BY <1>33 DEF RepairNumbering
  <2>2. q' \in QueueState /\ qD' \in QueueState /\ dirs' \in SUBSET BatchNo
    <3>1. n \in BatchNo /\ qD \in QueueState /\ q \in QueueState
      BY DEF TypeOK
    <3>2. [qD EXCEPT !.next = n + 1] \in QueueState
      BY <3>1, QueueUpdate
    <3> QED BY <2>1, <3>1, <3>2 DEF TypeOK
  <2> QED BY <1>33, <2>2 DEF RepairNumbering, TypeOK
<1>34. CASE RepairState
  BY <1>34 DEF RepairState, States, TypeOK
<1> QED
  BY <1>1, <1>2, <1>3, <1>4, <1>5, <1>6, <1>7, <1>8, <1>9, <1>10, <1>11, <1>12,
     <1>13, <1>14, <1>15, <1>16, <1>17, <1>18, <1>19, <1>20, <1>21, <1>22, <1>23,
     <1>24, <1>25, <1>26, <1>27, <1>28, <1>29, <1>30, <1>31, <1>32, <1>33, <1>34
  DEF Next, Environment, Daemon, Ingest, Stages, CutSlice, Operator

----------------------------------------------------------------------------
(* Which steps write what. *)

\* Only the mkdir of a commit and the operator change the set of batch
\* directories, and only the commit writes a manifest.
LEMMA DirectoryWriters ==
    Next => \/ AppendJournal \/ CommitMkdir \/ CommitManifest \/ RepairNumbering
            \/ UNCHANGED <<journal, man, dirs>>
<1> SUFFICES ASSUME Next,
             ~AppendJournal, ~CommitMkdir, ~CommitManifest, ~RepairNumbering
             PROVE UNCHANGED <<journal, man, dirs>>
  OBVIOUS
<1> USE DEF files, cursors, queue, work
<1>1. CASE AppendWatch \/ Startup \/ RecoverCursor \/ Ingest \/ Halted \/ SetHalt
  BY <1>1 DEF AppendWatch, Startup, RecoverCursor, Ingest, ReadWatch,
     WatchMalformed, WatchLedger, WatchCursor, WatchDone, Halted, SetHalt
<1>2. CASE Stages
  BY <1>2 DEF Stages, Mount, CascadeSpend, CascadeDone, CascadeFails, CostGuard,
     PassK, Wait, Ready, ReadyFlag, EndTick
<1>3. CASE CutSlice
  BY <1>3 DEF CutSlice, JournalCorruption, Insufficient, AbortSlice, LedgerAppend,
     CommitCursor, IncBatchNumber, FirstState
<1>4. CASE Stop \/ Crash \/ ClearHalt \/ RepairState
  BY <1>4 DEF Stop, Crash, Down, ClearHalt, RepairState
<1> QED BY <1>1, <1>2, <1>3, <1>4 DEF Next, Environment, Daemon, Operator

\* Only a slice commit (or its recovery) and watch ingestion append to the ledger.
LEMMA LedgerWriters == Next => LedgerAppend \/ WatchLedger \/ UNCHANGED ledger
<1> SUFFICES ASSUME Next, ~LedgerAppend, ~WatchLedger PROVE UNCHANGED ledger
  OBVIOUS
<1> USE DEF files, cursors, queue, work
<1>1. CASE Environment \/ Startup \/ RecoverCursor \/ Ingest \/ Halted \/ SetHalt
  BY <1>1 DEF Environment, AppendJournal, AppendWatch, Startup, RecoverCursor,
     Ingest, ReadWatch, WatchMalformed, WatchCursor, WatchDone, Halted, SetHalt
<1>2. CASE Stages
  BY <1>2 DEF Stages, Mount, CascadeSpend, CascadeDone, CascadeFails, CostGuard,
     PassK, Wait, Ready, ReadyFlag, EndTick
<1>3. CASE CutSlice
  BY <1>3 DEF CutSlice, JournalCorruption, Insufficient, AbortSlice, CommitMkdir,
     CommitManifest, CommitCursor, IncBatchNumber, FirstState
<1>4. CASE Stop \/ Crash \/ Operator
  BY <1>4 DEF Stop, Crash, Down, Operator, ClearHalt, RepairNumbering, RepairState
<1> QED BY <1>1, <1>2, <1>3, <1>4 DEF Next, Daemon

\* The steps that move the campaign cursor, in memory or on disk.
LEMMA CursorWriters ==
    Next => RecoverCursor \/ WatchCursor \/ CommitCursor \/ UNCHANGED curD
<1> SUFFICES ASSUME Next, ~RecoverCursor, ~WatchCursor, ~CommitCursor
             PROVE UNCHANGED curD
  OBVIOUS
<1> USE DEF files, cursors, queue, work
<1>1. CASE Environment \/ Startup \/ Ingest \/ Halted \/ SetHalt
  BY <1>1 DEF Environment, AppendJournal, AppendWatch, Startup,
     Ingest, ReadWatch, WatchMalformed, WatchLedger, WatchDone, Halted, SetHalt
<1>2. CASE Stages
  BY <1>2 DEF Stages, Mount, CascadeSpend, CascadeDone, CascadeFails, CostGuard,
     PassK, Wait, Ready, ReadyFlag, EndTick
<1>3. CASE CutSlice
  BY <1>3 DEF CutSlice, JournalCorruption, Insufficient, AbortSlice, CommitMkdir,
     CommitManifest, LedgerAppend, IncBatchNumber, FirstState
<1>4. CASE Stop \/ Crash \/ Operator
  BY <1>4 DEF Stop, Crash, Down, Operator, ClearHalt, RepairNumbering, RepairState
<1> QED BY <1>1, <1>2, <1>3, <1>4 DEF Next, Daemon

\* A state.json is written for a committed batch that is on its way, and moves
\* it along Forward.
LEMMA StateWriters ==
    ASSUME TypeOK, Manifests, Working, Next
    PROVE  \/ UNCHANGED st
           \/ /\ UNCHANGED <<journal, man, dirs>>
              /\ \E n \in InFlight : \E s \in States :
                   /\ st' = [st EXCEPT ![n] = s]
                   /\ <<st[n], s>> \in Forward /\ man[n] # NoSlice
<1> USE DEF files, cursors, queue, work
<1>0. \A n \in dirs : n \in BatchNo /\ (st[n] # NoState => man[n] # NoSlice)
  BY DEF TypeOK, Manifests
<1>1. CASE Mount \/ CascadeFails \/ PassK
  <2>1. PICK n \in BatchNo : n \in InFlight /\ st[n] \in {"SLICED", "MOUNTED", "CASCADE_DONE"}
          /\ \E s \in States : <<st[n], s>> \in Forward /\ EndTick(n, s)
    BY <1>1 DEF Mount, CascadeFails, PassK, Dispatch, Current, Forward, States
  <2>2. man[n] # NoSlice
    BY <1>0, <2>1 DEF InFlight, NoState
  <2> QED BY <2>1, <2>2 DEF EndTick
<1>2. CASE CostGuard \/ Ready
  <2>1. PICK n \in BatchNo : n \in InFlight /\ st[n] \in {"MOUNTED", "PASSK_DONE"}
          /\ \E s \in States : <<st[n], s>> \in Forward /\ st' = [st EXCEPT ![n] = s]
    BY <1>2 DEF CostGuard, Ready, Dispatch, Current, Forward, States
  <2>2. man[n] # NoSlice /\ UNCHANGED <<journal, man, dirs>>
    BY <1>0, <1>2, <2>1 DEF InFlight, NoState, CostGuard, Ready
  <2> QED BY <2>1, <2>2
<1>3. CASE CascadeDone \/ FirstState
  <2>1. slice.no \in InFlight /\ man[slice.no] # NoSlice
    BY <1>0, <1>3 DEF CascadeDone, FirstState, Working, Highest, InFlight, DoneStates, NoState
  <2>2. \E s \in States : <<st[slice.no], s>> \in Forward /\ st' = [st EXCEPT ![slice.no] = s]
    BY <1>3 DEF CascadeDone, FirstState, Working, Forward, States
  <2> QED BY <1>3, <2>1, <2>2 DEF CascadeDone, FirstState
<1>4. CASE RepairState
  <2>1. PICK n \in dirs : st[n] = NoState /\ man[n] # NoSlice /\ st' = [st EXCEPT ![n] = "SLICED"]
    BY <1>4 DEF RepairState
  <2>2. n \in InFlight /\ <<st[n], "SLICED">> \in Forward
    BY <2>1 DEF InFlight, DoneStates, NoState, Forward
  <2> QED BY <1>4, <2>1, <2>2 DEF RepairState, States
<1>5. CASE Environment \/ Startup \/ RecoverCursor \/ Ingest \/ Halted \/ SetHalt
  BY <1>5 DEF Environment, AppendJournal, AppendWatch, Startup, RecoverCursor, Ingest,
     ReadWatch, WatchMalformed, WatchLedger, WatchCursor, WatchDone, Halted, SetHalt
<1>6. CASE CascadeSpend \/ Wait \/ ReadyFlag
  BY <1>6 DEF CascadeSpend, Wait, ReadyFlag
<1>7. CASE JournalCorruption \/ Insufficient \/ AbortSlice \/ CommitMkdir
           \/ CommitManifest \/ LedgerAppend \/ CommitCursor \/ IncBatchNumber
  BY <1>7 DEF JournalCorruption, Insufficient, AbortSlice, CommitMkdir, CommitManifest,
     LedgerAppend, CommitCursor, IncBatchNumber
<1>8. CASE Stop \/ Crash \/ ClearHalt \/ RepairNumbering
  BY <1>8 DEF Stop, Crash, Down, ClearHalt, RepairNumbering
<1> QED BY <1>1, <1>2, <1>3, <1>4, <1>5, <1>6, <1>7, <1>8
  DEF Next, Daemon, Stages, CutSlice, Operator

----------------------------------------------------------------------------
(* The conjuncts of IndInv, one lemma each. *)

\* A step keeps manifests inside their directories and naming rows of the journal.
LEMMA StepManifests ==
    ASSUME TypeOK, Manifests, Working, Next
    PROVE  Manifests'
<1>1. CASE AppendJournal
  <2>1. journal \in Seq(Line) /\ Journals \in SUBSET Seq(Line)
        /\ journal' \in Grow(journal, Journals)
    BY <1>1, ConstantAssumption DEF AppendJournal, TypeOK
  <2>2. PICK x \in Line : journal' = Append(journal, x)
    BY <2>1, GrowAppends
  <2>3. /\ Len(journal') = Len(journal) + 1 /\ Len(journal) \in Nat
        /\ \A i \in 1..Len(journal) : journal'[i] = journal[i]
    BY <2>1, <2>2, GrowKeeps
  <2>4. RowLines(1, Len(journal)) \subseteq RowLines(1, Len(journal))'
    BY <2>3 DEF RowLines
  <2>5. \A n \in BatchNo : man[n].through \in Nat
    BY DEF TypeOK, Slice
  <2> QED BY <1>1, <2>3, <2>4, <2>5 DEF AppendJournal, Manifests
<1>2. CASE CommitMkdir
  <2>1. UNCHANGED <<journal, man, st>> /\ dirs \subseteq dirs'
    BY <1>2 DEF CommitMkdir
  <2> QED BY <2>1 DEF Manifests, RowLines
<1>3. CASE CommitManifest
  <2>1. /\ UNCHANGED <<journal, dirs, st>> /\ slice.no \in dirs
        /\ slice.lines \subseteq RowLines(1, Len(journal))
        /\ slice.through =< Len(journal)
        /\ st[slice.no] = NoState
        /\ man' = [man EXCEPT ![slice.no] = [lines |-> slice.lines, through |-> slice.through]]
    BY <1>3 DEF CommitManifest, Working, Cutting, Highest
  <2>2. ASSUME NEW n \in BatchNo
        PROVE  \/ n = slice.no /\ man'[n].lines = slice.lines /\ man'[n].through = slice.through
               \/ n # slice.no /\ man'[n] = man[n]
    BY <2>1 DEF TypeOK
  <2> QED BY <2>1, <2>2 DEF Manifests, RowLines
<1>4. CASE RepairNumbering
  <2>1. UNCHANGED <<journal, man, st>>
        /\ \E n \in dirs : dirs' = dirs \/ (man[n] = NoSlice /\ dirs' = dirs \ {n})
    BY <1>4 DEF RepairNumbering
  <2> QED BY <2>1 DEF Manifests, RowLines
<1>5. CASE UNCHANGED <<journal, man, dirs>>
  <2>1. ASSUME NEW n \in BatchNo, man[n] = NoSlice
        PROVE  st'[n] = NoState
    <3>1. CASE UNCHANGED st
      BY <2>1, <3>1 DEF Manifests
    <3>2. CASE ~UNCHANGED st
      <4>1. PICK m \in InFlight, s \in States :
               st' = [st EXCEPT ![m] = s] /\ man[m] # NoSlice
        BY <3>2, StateWriters
      <4> QED BY <1>5, <2>1, <4>1 DEF Manifests, TypeOK
    <3> QED BY <3>1, <3>2
  <2> QED BY <1>5, <2>1 DEF Manifests, RowLines
<1> QED BY <1>1, <1>2, <1>3, <1>4, <1>5, DirectoryWriters

\* What LedgerAppend appends: a row of the batch at hand.
LEMMA LedgerAppendRow ==
    ASSUME TypeOK, Manifests, Working, LedgerAppend
    PROVE  /\ slice.no \in BatchNo /\ man[slice.no].lines = slice.lines
           /\ \E i \in slice.lines :
                /\ journal[i] \in Row
                /\ RowFor(CampaignSource, journal[i], slice.no) \in LedgerRow
                /\ AppendRow(RowFor(CampaignSource, journal[i], slice.no))
<1>1. PICK i \in slice.lines : AppendRow(RowFor(CampaignSource, journal[i], slice.no))
  BY DEF LedgerAppend
<1>2. slice.no \in BatchNo /\ slice.lines = man[slice.no].lines
  BY DEF LedgerAppend, Working, Cutting, Highest, TypeOK
<1>3. journal[i] \in Row
  BY <1>1, <1>2 DEF Manifests, RowLines
<1> QED BY <1>1, <1>2, <1>3, RowForType DEF Source

\* What WatchLedger appends: a row of the watched run the ledger accepts.
LEMMA WatchLedgerRow ==
    ASSUME TypeOK, Working, WatchLedger
    PROVE  /\ watch[wnext] \in Row
           /\ RowFor(WatchSource, watch[wnext], WatchBatch) \in LedgerRow
           /\ \/ UNCHANGED ledger
              \/ /\ AppendRow(RowFor(WatchSource, watch[wnext], WatchBatch))
                 /\ Check(Uid(WatchSource, watch[wnext]), StmtKey(watch[wnext]), watch[wnext])
                      \in {"new", "warn"}
<1>1. wnext \in wnext..wend /\ watch[wnext] # Malformed
  BY DEF WatchLedger, TypeOK
<1>2. watch[wnext] \in Row
  BY <1>1 DEF WatchLedger, Working, TypeOK, Line
<1> QED BY <1>2, RowForType DEF WatchLedger, Source

\* append_all writes rows keyed by stmt_key, and never a warn-only row of a batch.
LEMMA StepLedgerRows ==
    ASSUME TypeOK, Manifests, Working, LedgerRows, Next
    PROVE  LedgerRows'
<1>0. ledger \in Seq(LedgerRow) /\ WatchBatch \notin BatchNo
  BY ConstantAssumption DEF TypeOK, WatchBatch, BatchNo
<1>1. ASSUME NEW source \in Source, NEW row \in Row, NEW n
      PROVE  /\ RowFor(source, row, n).key = KeyOf[RowFor(source, row, n).uid[2]]
             /\ ~RowFor(source, row, n).warn
  BY DEF RowFor, Uid, StmtKey
<1>2. CASE LedgerAppend
  <2>1. PICK i \in slice.lines :
          /\ journal[i] \in Row
          /\ RowFor(CampaignSource, journal[i], slice.no) \in LedgerRow
          /\ AppendRow(RowFor(CampaignSource, journal[i], slice.no))
    BY <1>2, LedgerAppendRow
  <2> QED BY <1>0, <1>1, <2>1, AppendRowEffect DEF LedgerRows, Source
<1>3. CASE WatchLedger
  BY <1>0, <1>1, <1>3, WatchLedgerRow, AppendRowEffect DEF LedgerRows, Source
<1>4. CASE UNCHANGED ledger
  BY <1>4 DEF LedgerRows
<1> QED BY <1>2, <1>3, <1>4, LedgerWriters

\* The two ways a directory comes or goes, and the one way it is numbered.
LEMMA StepNumbering ==
    ASSUME TypeOK, Manifests, Working, Numbering, Next
    PROVE  Numbering'
<1> USE DEF files, cursors, queue, work, Numbering, Cutting
<1>1. CASE Startup
  BY <1>1 DEF Startup, NumberingOk
<1>2. CASE CommitMkdir
  BY <1>2 DEF CommitMkdir, Slicing
<1>3. CASE IncBatchNumber
  <2>1. slice.no = q.next /\ Highest(slice.no) /\ q \in QueueState
    BY <1>3 DEF IncBatchNumber, Working, TypeOK
  <2>2. q'.next = q.next + 1
    BY <1>3, <2>1 DEF IncBatchNumber, QueueState
  <2>3. \A n \in dirs : n =< q.next /\ n \in Nat /\ q.next \in Nat
    BY <2>1, ConstantAssumption DEF Highest, TypeOK, BatchNo, QueueState
  <2>4. \A n \in dirs : n < q'.next
    BY <2>2, <2>3
  <2> QED BY <1>3, <2>4 DEF IncBatchNumber
<1>4. CASE LedgerAppend \/ CommitManifest \/ CommitCursor
  BY <1>4 DEF LedgerAppend, CommitManifest, CommitCursor
<1>5. CASE CascadeSpend \/ SetHalt
  <2>1. q'.next = q.next
    BY <1>5 DEF CascadeSpend, SetHalt, TypeOK, QueueState
  <2> QED BY <1>5, <2>1 DEF CascadeSpend, SetHalt, Dispatch
<1>6. CASE ClearHalt
  <2>1. pc # "down" => q' = q
    BY <1>6 DEF ClearHalt
  <2> QED BY <1>6, <2>1 DEF ClearHalt
<1>7. CASE Stop \/ Crash \/ RepairNumbering \/ RepairState
  BY <1>7 DEF Stop, Crash, Down, RepairNumbering, RepairState
<1>8. CASE Environment \/ RecoverCursor \/ Ingest \/ Halted
  BY <1>8 DEF Environment, AppendJournal, AppendWatch, RecoverCursor, Ingest, ReadWatch,
     WatchMalformed, WatchLedger, WatchCursor, WatchDone, Halted
<1>9. CASE Mount \/ CascadeDone \/ CascadeFails \/ CostGuard \/ PassK \/ Wait \/ Ready \/ ReadyFlag
  BY <1>9 DEF Mount, CascadeDone, CascadeFails, CostGuard,
     PassK, Wait, Ready, ReadyFlag, EndTick, Dispatch
<1>10. CASE JournalCorruption \/ Insufficient \/ AbortSlice \/ FirstState
  BY <1>10 DEF JournalCorruption, Insufficient, AbortSlice, FirstState, Slicing
<1> QED BY <1>1, <1>2, <1>3, <1>4, <1>5, <1>6, <1>7, <1>8, <1>9, <1>10
  DEF Next, Daemon, Stages, CutSlice, Operator

\* The saved cursor never runs ahead of the cursor in memory.
LEMMA StepCursors ==
    ASSUME TypeOK, Manifests, Working, Cursors, Next
    PROVE  Cursors'
<1> USE DEF files, cursors, queue, work, Cursors
<1>0. /\ cur \in Cursor /\ curD \in Cursor /\ cur.main \in Nat /\ curD.main \in Nat
      /\ Len(journal) \in Nat /\ slice.through \in Nat
  BY DEF TypeOK, Cursor
<1>a. pc \in {"ledger", "redo_ledger"} => slice.through =< Len(journal)
  BY DEF Working, Cutting, Highest, Manifests, TypeOK
<1>1. CASE Startup
  BY <1>0, <1>1 DEF Startup, Cursor
<1>2. CASE RecoverCursor
  <2>1. CASE cur.main < slice.through
    <3>1. cur' = [cur EXCEPT !.main = slice.through] /\ curD' = cur'
      BY <1>2, <2>1 DEF RecoverCursor
    <3>2. cur'.main = slice.through /\ curD'.main = slice.through
      BY <1>0, <3>1, CursorUpdate
    <3> QED BY <1>0, <1>a, <1>2, <3>2 DEF RecoverCursor
  <2>2. CASE ~(cur.main < slice.through)
    BY <1>0, <1>2, <2>2 DEF RecoverCursor
  <2> QED BY <2>1, <2>2
<1>3. CASE WatchCursor
  <2>1. cur'.main = cur.main /\ curD'.main = cur.main
    BY <1>0, <1>3, CursorUpdate DEF WatchCursor, TypeOK
  <2> QED BY <1>0, <1>3, <2>1 DEF WatchCursor
<1>11. CASE CommitCursor
  <2>1. cur'.main = slice.through /\ curD'.main = slice.through
    BY <1>0, <1>11, CursorUpdate DEF CommitCursor
  <2> QED BY <1>0, <1>a, <1>11, <2>1 DEF CommitCursor
<1>4. CASE ReadWatch \/ WatchMalformed
  <2>1. curD' = curD /\ journal' = journal /\ pc' \notin {"down", "redo_ledger"}
    BY <1>4 DEF ReadWatch, WatchMalformed
  <2>2. cur'.main = cur.main
    <3>1. \A i \in FirstCorrupt(watch, cur.watch) : i - 1 \in Nat
      BY <1>0 DEF FirstCorrupt, CorruptLines, Cursor, TypeOK
    <3>2. Len(watch) \in Nat /\ wnext \in Nat
      BY DEF TypeOK
    <3>3. \E k \in Nat : cur' = [cur EXCEPT !.watch = k]
      BY <1>4, <3>1, <3>2 DEF ReadWatch, WatchMalformed
    <3> QED BY <1>0, <3>3, CursorUpdate
  <2> QED BY <1>0, <2>1, <2>2
<1>5. CASE JournalCorruption
  <2>1. PICK i \in FirstCorrupt(journal, cur.main) : cur' = [cur EXCEPT !.main = i - 1]
    BY <1>5 DEF JournalCorruption
  <2>2. i - 1 \in Nat /\ i - 1 >= cur.main /\ i - 1 =< Len(journal)
    BY <1>0 DEF FirstCorrupt, CorruptLines, TypeOK
  <2>3. cur'.main = i - 1
    BY <1>0, <2>1, <2>2, CursorUpdate
  <2> QED BY <1>0, <1>5, <2>2, <2>3 DEF JournalCorruption
<1>6. CASE Insufficient \/ AbortSlice \/ CommitMkdir
  <2>1. cur' = [cur EXCEPT !.main = Len(journal)] /\ Len(journal) \in Nat
    BY <1>6 DEF Insufficient, AbortSlice, CommitMkdir, TypeOK
  <2>2. curD' = curD /\ journal' = journal /\ pc' \notin {"down", "redo_ledger"}
    BY <1>6 DEF Insufficient, AbortSlice, CommitMkdir
  <2>3. cur'.main = Len(journal)
    BY <1>0, <2>1, CursorUpdate
  <2> QED BY <1>0, <2>1, <2>2, <2>3
<1>12. CASE AppendJournal
  <2>1. journal \in Seq(Line) /\ Journals \in SUBSET Seq(Line)
        /\ journal' \in Grow(journal, Journals)
    BY <1>12, ConstantAssumption DEF AppendJournal, TypeOK
  <2>2. Len(journal') = Len(journal) + 1
    BY <2>1, GrowAppends, GrowKeeps
  <2> QED BY <1>0, <1>12, <2>2 DEF AppendJournal
<1>7. CASE AppendWatch \/ WatchLedger \/ WatchDone \/ Halted \/ SetHalt
  BY <1>7 DEF AppendWatch, WatchLedger, WatchDone, Halted, SetHalt
<1>8. CASE Stages
  BY <1>8 DEF Stages, Mount, CascadeSpend, CascadeDone, CascadeFails, CostGuard,
     PassK, Wait, Ready, ReadyFlag, EndTick
<1>9. CASE CommitManifest \/ LedgerAppend \/ IncBatchNumber \/ FirstState
  BY <1>9 DEF CommitManifest, LedgerAppend, IncBatchNumber, FirstState
<1>10. CASE Stop \/ Crash \/ Operator
  BY <1>0, <1>10 DEF Stop, Crash, Down, Operator, ClearHalt, RepairNumbering, RepairState
<1> QED BY <1>1, <1>2, <1>3, <1>4, <1>5, <1>6, <1>7, <1>8, <1>9, <1>10, <1>11, <1>12
  DEF Next, Environment, Daemon, Ingest, CutSlice

\* A step keeps what the daemon is working on in agreement with the files.
LEMMA StepWorking ==
    ASSUME TypeOK, Manifests, Numbering, Working, Cursors, Next
    PROVE  Working'
<1> USE DEF files, cursors, queue, work, Cutting
<1>0. /\ cur.main \in Nat /\ curD.main \in Nat /\ cur.watch \in Nat /\ Len(journal) \in Nat
      /\ Len(watch) \in Nat /\ wnext \in Nat /\ wend \in Nat
      /\ BatchNo \subseteq Nat /\ dirs \subseteq BatchNo
  BY ConstantAssumption DEF TypeOK, Cursor, BatchNo
<1>1. CASE AppendJournal
  <2>1. journal \in Seq(Line) /\ Journals \in SUBSET Seq(Line)
        /\ journal' \in Grow(journal, Journals)
    BY <1>1, ConstantAssumption DEF AppendJournal, TypeOK
  <2>2. PICK x \in Line : journal' = Append(journal, x)
    BY <2>1, GrowAppends
  <2>3. /\ Len(journal') = Len(journal) + 1
        /\ \A i \in 1..Len(journal) : journal'[i] = journal[i]
    BY <2>1, <2>2, GrowKeeps
  <2>4. RowLines(1, Len(journal)) \subseteq RowLines(1, Len(journal))'
    BY <1>0, <2>3 DEF RowLines
  <2>5. slice.through \in Nat
    BY DEF TypeOK
  <2> QED BY <1>0, <1>1, <2>3, <2>4, <2>5 DEF AppendJournal, Working, Highest
<1>2. CASE AppendWatch
  <2>1. watch \in Seq(Line) /\ WatchJournals \in SUBSET Seq(Line)
        /\ watch' \in Grow(watch, WatchJournals)
    BY <1>2, ConstantAssumption DEF AppendWatch, TypeOK
  <2>2. PICK x \in Line : watch' = Append(watch, x)
    BY <2>1, GrowAppends
  <2>3. /\ Len(watch') = Len(watch) + 1
        /\ \A i \in 1..Len(watch) : watch'[i] = watch[i]
    BY <2>1, <2>2, GrowKeeps
  <2>4. \A i \in wnext..wend : wnext > 0 /\ i =< Len(watch) => i \in 1..Len(watch)
    BY <1>0
  <2>5. pc \in {"watch", "watch_cursor"} =>
           \A i \in wnext..wend : i =< Len(watch') /\ watch'[i] # Corrupt
    BY <1>0, <2>3, <2>4 DEF Working
  <2> QED BY <1>2, <2>5 DEF AppendWatch, Working, Highest, RowLines
<1>3. CASE Startup
  <2>1. CASE \E n \in dirs : Highest(n) /\ man[n] # NoSlice
    <3>1. PICK n \in dirs : Highest(n)
            /\ slice' = [no |-> n, lines |-> man[n].lines, through |-> man[n].through]
      BY <1>3, <2>1 DEF Startup
    <3>2. UNCHANGED <<dirs, man>> /\ pc' = "redo_ledger"
      BY <1>3, <2>1 DEF Startup
    <3>3. man[n] \in Slice
      BY <1>0 DEF TypeOK
    <3>4. man[n] # NoSlice
      <4>1. PICK m \in dirs : Highest(m) /\ man[m] # NoSlice
        BY <2>1
      <4>2. m = n
        BY <1>0, <3>1, <4>1 DEF Highest
      <4> QED BY <4>1, <4>2
    <3> QED BY <3>1, <3>2, <3>3, <3>4 DEF Working, Highest, Slice
  <2>2. CASE ~\E n \in dirs : Highest(n) /\ man[n] # NoSlice
    BY <1>3, <2>2 DEF Startup, Working
  <2> QED BY <2>1, <2>2
<1>4. CASE ReadWatch
  <2>1. CASE CorruptLines(watch, cur.watch) # {}
    BY <1>4, <2>1 DEF ReadWatch, Working
  <2>2. CASE CorruptLines(watch, cur.watch) = {}
    <3>1. /\ wnext' = cur.watch + 1 /\ wend' = Len(watch) /\ pc' = "watch" /\ watch' = watch
      BY <1>4, <2>2 DEF ReadWatch
    <3>2. \A i \in (cur.watch + 1)..Len(watch) : watch[i] # Corrupt
      BY <2>2 DEF CorruptLines
    <3> QED BY <1>0, <3>1, <3>2 DEF Working
  <2> QED BY <2>1, <2>2
<1>5. CASE WatchMalformed \/ WatchLedger \/ WatchCursor \/ WatchDone
  <2>1. \A i \in (wnext + 1)..wend : i \in wnext..wend
    BY <1>0
  <2> QED BY <1>0, <1>5, <2>1 DEF WatchMalformed, WatchLedger, WatchCursor, WatchDone, Working
<1>6. CASE CascadeSpend
  <2>1. PICK n \in dirs : slice' = [NoWork EXCEPT !.no = n] /\ st[n] = "MOUNTED"
    BY <1>6 DEF CascadeSpend, Dispatch, Current, InFlight
  <2>2. slice'.no = n
    BY <2>1 DEF NoWork
  <2> QED BY <1>6, <2>1, <2>2 DEF CascadeSpend, Working
<1>16. CASE Ready
  <2>1. PICK n \in dirs : slice' = [NoWork EXCEPT !.no = n] /\ st' = [st EXCEPT ![n] = "READY"]
    BY <1>16 DEF Ready, Dispatch, Current, InFlight
  <2>2. slice'.no = n /\ st'[n] = "READY"
    BY <1>0, <2>1 DEF NoWork, TypeOK
  <2> QED BY <1>16, <2>1, <2>2 DEF Ready, Working
<1>7. CASE CommitMkdir
  <2>1. CASE pc' = "set_halt"
    BY <2>1 DEF Working
  <2>2. CASE pc' # "set_halt"
    <3>1. PICK t \in From..Len(journal) : \E A \in SUBSET RowLines(From, t) :
             /\ Cardinality(A) = SliceSize
             /\ dirs' = dirs \cup {q.next}
             /\ slice' = [no |-> q.next, lines |-> A, through |-> t]
      BY <1>7, <2>2 DEF CommitMkdir
    <3>2. PICK A \in SUBSET RowLines(From, t) :
             /\ Cardinality(A) = SliceSize
             /\ dirs' = dirs \cup {q.next}
             /\ slice' = [no |-> q.next, lines |-> A, through |-> t]
      BY <3>1
    <3>3. pc' = "manifest" /\ pc = "decide" /\ UNCHANGED <<journal, curD>>
      BY <1>7, <2>2 DEF CommitMkdir, Slicing
    <3>4. Highest(slice.no)'
      <4>1. \A n \in dirs : n < q.next /\ n \in Nat
        BY <1>0, <3>3 DEF Numbering
      <4>2. q.next \in Nat
        BY DEF TypeOK, QueueState
      <4> QED BY <3>2, <4>1, <4>2 DEF Highest
    <3>5. \A i \in A : i >= From /\ i =< t /\ i \in Nat /\ journal[i] \in Row
      BY <1>0, <3>1 DEF RowLines, From
    <3>6. From > curD.main /\ From \in Nat /\ t \in Nat /\ t =< Len(journal) /\ t >= From
      BY <1>0, <3>1 DEF Cursors, From
    <3>7. A \subseteq RowLines(1, Len(journal)) /\ t > curD.main /\ \A i \in A : i > curD.main
      BY <1>0, <3>5, <3>6 DEF RowLines
    <3>8. st[q.next] = NoState /\ st' = st /\ man[q.next] = NoSlice /\ man' = man
      <4>1. q.next \in BatchNo /\ q.next \notin dirs
        <5>1. q.next \in Nat /\ q.next >= FirstBatch /\ q.next =< MaxBatch
          BY <1>7 DEF CommitMkdir, TypeOK, QueueState
        <5>2. \A n \in dirs : n < q.next
          BY <3>3 DEF Numbering
        <5> QED BY <1>0, <5>1, <5>2, ConstantAssumption DEF BatchNo
      <4> QED BY <1>7, <4>1 DEF Manifests, CommitMkdir
    <3> QED BY <3>2, <3>3, <3>4, <3>6, <3>7, <3>8 DEF Working, RowLines
  <2> QED BY <2>1, <2>2
<1>8. CASE CommitManifest
  <2>1. /\ slice.no \in BatchNo /\ slice.through > 0
        /\ man' = [man EXCEPT ![slice.no] = [lines |-> slice.lines, through |-> slice.through]]
    BY <1>0, <1>8 DEF CommitManifest, Working, Highest, TypeOK
  <2>2. /\ man'[slice.no] = [lines |-> slice.lines, through |-> slice.through]
        /\ man'[slice.no] # NoSlice
    BY <2>1 DEF TypeOK, NoSlice
  <2> QED BY <1>8, <2>2 DEF CommitManifest, Working, Highest
<1>9. CASE LedgerAppend
  BY <1>9 DEF LedgerAppend, Working, Highest
<1>10. CASE CommitCursor \/ IncBatchNumber
  BY <1>0, <1>10 DEF CommitCursor, IncBatchNumber, Working, Highest
<1>11. CASE RecoverCursor \/ Halted \/ SetHalt
  BY <1>11 DEF RecoverCursor, Halted, SetHalt, Working
<1>12. CASE Mount \/ CascadeDone \/ CascadeFails \/ CostGuard \/ PassK \/ Wait \/ ReadyFlag
  BY <1>12 DEF Mount, CascadeDone, CascadeFails, CostGuard,
     PassK, Wait, ReadyFlag, EndTick, Dispatch, Working
<1>13. CASE JournalCorruption \/ Insufficient \/ AbortSlice \/ FirstState
  BY <1>13 DEF JournalCorruption, Insufficient, AbortSlice, FirstState, Slicing, Working
<1>14. CASE Stop \/ Crash \/ RepairNumbering \/ RepairState
  BY <1>14 DEF Stop, Crash, Down, RepairNumbering, RepairState, Working
<1>15. CASE ClearHalt
  BY <1>15 DEF ClearHalt, Working, Highest, RowLines
<1> QED BY <1>1, <1>2, <1>3, <1>4, <1>5, <1>6, <1>7, <1>8, <1>9, <1>10, <1>11, <1>12,
     <1>13, <1>14, <1>15, <1>16
  DEF Next, Environment, Daemon, Ingest, Stages, CutSlice, Operator

\* The journals and the ledger are append-only: what a row of them says stays.
LEMMA RecordsStay ==
    ASSUME TypeOK, Manifests, Working, Next
    PROVE  /\ \A i \in 1..Len(journal) : i \in 1..Len(journal') /\ journal'[i] = journal[i]
           /\ \A k \in DOMAIN ledger : k \in DOMAIN ledger' /\ ledger'[k] = ledger[k]
<1>1. \A i \in 1..Len(journal) : i \in 1..Len(journal') /\ journal'[i] = journal[i]
  <2>1. CASE AppendJournal
    <3>1. journal \in Seq(Line) /\ Journals \in SUBSET Seq(Line)
          /\ journal' \in Grow(journal, Journals)
      BY <2>1, ConstantAssumption DEF AppendJournal, TypeOK
    <3>2. PICK x \in Line : journal' = Append(journal, x)
      BY <3>1, GrowAppends
    <3> QED BY <3>1, <3>2, GrowKeeps
  <2>2. CASE UNCHANGED journal
    BY <2>2
  <2>3. CASE CommitMkdir \/ CommitManifest \/ RepairNumbering
    BY <2>3 DEF CommitMkdir, CommitManifest, RepairNumbering
  <2> QED BY <2>1, <2>2, <2>3, DirectoryWriters
<1>2. \A k \in DOMAIN ledger : k \in DOMAIN ledger' /\ ledger'[k] = ledger[k]
  <2>0. ledger \in Seq(LedgerRow)
    BY DEF TypeOK
  <2>1. CASE LedgerAppend
    BY <2>0, <2>1, LedgerAppendRow, AppendRowEffect
  <2>2. CASE WatchLedger
    BY <2>0, <2>2, WatchLedgerRow, AppendRowEffect
  <2> QED BY <2>1, <2>2, LedgerWriters
<1> QED BY <1>1, <1>2

\* The rows a manifest names do not change while the journals grow.
LEMMA ManifestRowsStay ==
    ASSUME TypeOK, Manifests, Working, Next, NEW n \in BatchNo, NEW i \in man[n].lines
    PROVE  /\ journal[i] \in Row /\ i \in 1..Len(journal)
           /\ CampaignUid(i)' = CampaignUid(i)
           /\ InLedger(i, n) => InLedger(i, n)'
<1>1. i \in 1..Len(journal) /\ journal[i] \in Row
  BY DEF Manifests, RowLines
<1>2. journal'[i] = journal[i]
  BY <1>1, RecordsStay
<1> QED BY <1>1, <1>2, RecordsStay DEF CampaignUid, Uid, InLedger, Recorded

\* Where the cursor is saved, every committed row is in the ledger.
LEMMA SavedWhenCovered ==
    ASSUME TypeOK, Manifests, Working, Recoverable,
           RecoverCursor \/ WatchCursor \/ CommitCursor
    PROVE  \A n \in BatchNo : \A i \in man[n].lines : InLedger(i, n)
<1> USE DEF Committing
<1> SUFFICES ASSUME NEW n \in BatchNo, NEW i \in man[n].lines PROVE InLedger(i, n)
  OBVIOUS
<1>1. CASE WatchCursor
  BY <1>1 DEF WatchCursor, Recoverable, Covered, NoSlice
<1>2. CASE RecoverCursor \/ CommitCursor
  <2>1. Highest(slice.no) /\ man[slice.no].lines = slice.lines /\ LedgerDone
    BY <1>2 DEF RecoverCursor, CommitCursor, Working, Cutting
  <2>2. CASE n = slice.no
    BY <2>1, <2>2 DEF LedgerDone
  <2>3. CASE n # slice.no
    <3>1. ~Highest(n)
      BY <2>1, <2>3, ConstantAssumption DEF Highest, TypeOK, BatchNo
    <3> QED BY <3>1 DEF Recoverable, Covered, NoSlice
  <2> QED BY <2>2, <2>3
<1> QED BY <1>1, <1>2

\* A step saves the cursor over a committed row only if the ledger has it.
LEMMA StepLedgerBeforeCursor ==
    ASSUME TypeOK, Manifests, Working, Recoverable, LedgerBeforeCursor, Next
    PROVE  LedgerBeforeCursor'
<1>1. CASE RecoverCursor \/ WatchCursor \/ CommitCursor
  <2>1. man' = man
    BY <1>1 DEF RecoverCursor, WatchCursor, CommitCursor, files
  <2> QED BY <1>1, <2>1, SavedWhenCovered, ManifestRowsStay DEF LedgerBeforeCursor
<1>2. CASE CommitManifest
  <2>1. man' = [man EXCEPT ![slice.no] = [lines |-> slice.lines, through |-> slice.through]]
        /\ UNCHANGED curD /\ \A i \in slice.lines : i > curD.main
        /\ slice.lines \subseteq Nat /\ curD.main \in Nat
    BY <1>2 DEF CommitManifest, Working, cursors, TypeOK, Cursor
  <2>2. ASSUME NEW n \in BatchNo, NEW i \in man'[n].lines, i =< curD'.main
        PROVE  InLedger(i, n)'
    <3>1. n # slice.no
      BY <2>1, <2>2 DEF TypeOK
    <3>2. man'[n] = man[n]
      BY <2>1, <3>1 DEF TypeOK
    <3> QED BY <2>1, <2>2, <3>2, ManifestRowsStay DEF LedgerBeforeCursor
  <2> QED BY <2>2 DEF LedgerBeforeCursor
<1>3. CASE UNCHANGED <<man, curD>>
  BY <1>3, ManifestRowsStay DEF LedgerBeforeCursor
<1>4. CASE AppendJournal \/ CommitMkdir \/ RepairNumbering
  <2>1. UNCHANGED <<man, curD>>
    BY <1>4 DEF AppendJournal, CommitMkdir, RepairNumbering, cursors
  <2> QED BY <2>1, ManifestRowsStay DEF LedgerBeforeCursor
<1> QED BY <1>1, <1>2, <1>3, <1>4, DirectoryWriters, CursorWriters

\* A step keeps at most one batch in flight.
LEMMA StepOneInFlight ==
    ASSUME TypeOK, Manifests, Working, Numbering, OneInFlight, Next
    PROVE  OneInFlight'
<1> USE DEF OneInFlight
<1>0. dirs \subseteq Nat
  BY ConstantAssumption DEF TypeOK, BatchNo
<1>1. CASE ~UNCHANGED st
  <2>1. UNCHANGED dirs
    BY <1>1, StateWriters
  <2>2. PICK n \in InFlight : \E s \in States : st' = [st EXCEPT ![n] = s]
    BY <1>1, StateWriters
  <2>3. InFlight' \subseteq InFlight
    BY <2>1, <2>2 DEF InFlight, TypeOK
  <2> QED BY <2>1, <2>3 DEF Highest
<1>2. CASE UNCHANGED <<st, dirs>>
  BY <1>2 DEF InFlight, Highest
<1>3. CASE CommitMkdir
  <2>1. pc = "decide" /\ InFlight = {} /\ st' = st /\ (dirs' = dirs \/ dirs' = dirs \cup {q.next})
    BY <1>3 DEF CommitMkdir, Slicing
  <2>2. \A n \in dirs : n < q.next
    BY <2>1 DEF Numbering, Cutting
  <2>3. q.next \in Nat
    BY DEF TypeOK, QueueState
  <2>4. ASSUME NEW n \in InFlight' PROVE n = q.next /\ dirs' = dirs \cup {q.next}
    BY <2>1 DEF InFlight
  <2>5. \A m \in dirs \cup {q.next} : m =< q.next
    BY <1>0, <2>2, <2>3
  <2>6. ASSUME NEW n \in InFlight' PROVE Highest(n)'
    <3>1. n = q.next /\ dirs' = dirs \cup {q.next}
      BY <2>4
    <3> QED BY <2>5, <3>1 DEF Highest
  <2> QED BY <2>6
<1>4. CASE RepairNumbering
  <2>1. st' = st /\ \E n \in dirs : Highest(n) /\ (dirs' = dirs \/ dirs' = dirs \ {n})
    BY <1>4 DEF RepairNumbering
  <2> QED BY <1>0, <2>1 DEF InFlight, Highest
<1>5. CASE AppendJournal \/ CommitManifest
  <2>1. UNCHANGED <<st, dirs>>
    BY <1>5 DEF AppendJournal, CommitManifest
  <2> QED BY <1>2, <2>1
<1> QED BY <1>1, <1>2, <1>3, <1>4, <1>5, DirectoryWriters

\* A step that writes queue_state.json writes what the daemon then holds.
LEMMA StepQueueInSync ==
    ASSUME TypeOK, QueueInSync, Next
    PROVE  QueueInSync'
<1> USE DEF files, cursors, queue, work, QueueInSync
<1>0. q \in QueueState /\ qD \in QueueState
  BY DEF TypeOK
<1>1. CASE Environment \/ Startup \/ RecoverCursor \/ Ingest \/ Halted
  BY <1>1 DEF Environment, AppendJournal, AppendWatch, Startup, RecoverCursor, Ingest,
     ReadWatch, WatchMalformed, WatchLedger, WatchCursor, WatchDone, Halted
<1>2. CASE CascadeSpend \/ SetHalt \/ IncBatchNumber
  <2>1. qD' = q'
    BY <1>2 DEF CascadeSpend, SetHalt, IncBatchNumber
  <2> QED BY <2>1
<1>3. CASE Mount \/ CascadeDone \/ CascadeFails \/ CostGuard \/ PassK \/ Wait \/ Ready \/ ReadyFlag
  BY <1>3 DEF Mount, CascadeDone, CascadeFails, CostGuard, PassK, Wait, Ready,
     ReadyFlag, EndTick
<1>4. CASE JournalCorruption \/ Insufficient \/ AbortSlice \/ CommitMkdir
           \/ CommitManifest \/ LedgerAppend \/ CommitCursor \/ FirstState
  BY <1>4 DEF JournalCorruption, Insufficient, AbortSlice, CommitMkdir,
     CommitManifest, LedgerAppend, CommitCursor, FirstState
<1>5. CASE Stop \/ Crash
  BY <1>5 DEF Stop, Crash, Down
<1>6. CASE ClearHalt
  <2>1. qD'.next = qD.next /\ qD'.spend = qD.spend /\ qD'.halt = FALSE
    BY <1>0, <1>6 DEF ClearHalt, QueueState
  <2>2. q' = q \/ q' = qD'
    BY <1>6 DEF ClearHalt
  <2> QED BY <2>1, <2>2
<1>7. CASE RepairNumbering \/ RepairState
  BY <1>7 DEF RepairNumbering, RepairState
<1> QED BY <1>1, <1>2, <1>3, <1>4, <1>5, <1>6, <1>7
  DEF Next, Daemon, Stages, CutSlice, Operator

\* Coverage of a batch is not lost while its manifest stays.
LEMMA CoveredStays ==
    ASSUME TypeOK, Manifests, Working, Next, NEW n \in BatchNo, Covered(n),
           man'[n] = man[n], curD'.main >= curD.main, curD'.main \in Nat
    PROVE  Covered(n)'
<1>1. curD.main \in Nat /\ man[n].through \in Nat
  BY DEF TypeOK, Cursor, Slice
<1> QED BY <1>1, ManifestRowsStay DEF Covered

\* The saved campaign cursor never moves back.
LEMMA SavedCursorGrows ==
    ASSUME TypeOK, Working, Cursors, Next
    PROVE  curD'.main \in Nat /\ curD'.main >= curD.main
<1>0. cur \in Cursor /\ curD \in Cursor /\ cur.main \in Nat /\ curD.main \in Nat
      /\ slice.through \in Nat /\ wnext \in Nat
  BY DEF TypeOK, Cursor
<1>1. CASE RecoverCursor
  <2>1. CASE cur.main < slice.through
    <3>1. curD' = [cur EXCEPT !.main = slice.through]
      BY <1>1, <2>1 DEF RecoverCursor
    <3>2. curD'.main = slice.through
      BY <1>0, <3>1, CursorUpdate
    <3> QED BY <1>0, <2>1, <3>2 DEF Cursors
  <2>2. CASE ~(cur.main < slice.through)
    BY <1>0, <1>1, <2>2 DEF RecoverCursor, cursors
  <2> QED BY <2>1, <2>2
<1>2. CASE WatchCursor
  <2>1. curD'.main = cur.main
    BY <1>0, <1>2, CursorUpdate DEF WatchCursor
  <2> QED BY <1>0, <2>1 DEF Cursors
<1>3. CASE CommitCursor
  <2>1. curD'.main = slice.through
    BY <1>0, <1>3, CursorUpdate DEF CommitCursor
  <2> QED BY <1>0, <1>3, <2>1 DEF CommitCursor, Working
<1>4. CASE UNCHANGED curD
  BY <1>0, <1>4
<1> QED BY <1>1, <1>2, <1>3, <1>4, CursorWriters

\* The batch a recovery or a commit ends with is covered then.
LEMMA CursorCovers ==
    ASSUME TypeOK, Manifests, Working, Recoverable, Cursors, Next,
           RecoverCursor \/ CommitCursor
    PROVE  \A n \in BatchNo : Covered(n)'
<1>0. cur \in Cursor /\ curD \in Cursor /\ cur.main \in Nat /\ curD.main \in Nat
      /\ slice.through \in Nat
  BY DEF TypeOK, Cursor
<1>1. man' = man /\ Highest(slice.no) /\ LedgerDone /\ slice.no \in BatchNo
      /\ man[slice.no].lines = slice.lines /\ man[slice.no].through = slice.through
  BY DEF RecoverCursor, CommitCursor, Working, Cutting, files, Highest, TypeOK
<1>2. curD'.main >= slice.through
  <2>1. CASE RecoverCursor /\ cur.main < slice.through
    <3>1. curD' = [cur EXCEPT !.main = slice.through]
      BY <2>1 DEF RecoverCursor
    <3> QED BY <1>0, <3>1, CursorUpdate
  <2>2. CASE RecoverCursor /\ ~(cur.main < slice.through)
    BY <1>0, <2>2 DEF RecoverCursor, cursors, Cursors
  <2>3. CASE CommitCursor
    <3>1. curD' = [cur EXCEPT !.main = slice.through]
      BY <2>3 DEF CommitCursor
    <3> QED BY <1>0, <3>1, CursorUpdate
  <2> QED BY <2>1, <2>2, <2>3
<1>3. ASSUME NEW n \in BatchNo PROVE Covered(n)'
  <2>1. CASE n = slice.no
    BY <1>1, <1>2, <2>1, ManifestRowsStay DEF Covered, LedgerDone
  <2>2. CASE n # slice.no
    <3>1. ~Highest(n)
      BY <1>1, <2>2, ConstantAssumption DEF Highest, TypeOK, BatchNo
    <3>2. Covered(n)
      BY <3>1 DEF Recoverable
    <3> QED BY <1>1, <3>2, CoveredStays, SavedCursorGrows
  <2> QED BY <2>1, <2>2
<1> QED BY <1>3

\* A kill leaves at most the newest batch uncovered, where recovery looks.
LEMMA StepRecoverable ==
    ASSUME TypeOK, Manifests, Working, Recoverable, Cursors, Next
    PROVE  Recoverable'
<1> USE DEF Committing
<1>1. CASE RecoverCursor \/ CommitCursor
  BY <1>1, CursorCovers DEF Recoverable
<1>2. CASE CommitManifest
  <2>1. /\ man' = [man EXCEPT ![slice.no] = [lines |-> slice.lines, through |-> slice.through]]
        /\ pc = "manifest" /\ pc' = "ledger" /\ dirs' = dirs /\ Highest(slice.no)
    BY <1>2 DEF CommitManifest, Working, Cutting
  <2>2. ASSUME NEW n \in BatchNo, n # slice.no PROVE Covered(n)'
    <3>1. Covered(n) /\ man'[n] = man[n]
      BY <2>1, <2>2 DEF Recoverable, TypeOK
    <3> QED BY <3>1, CoveredStays, SavedCursorGrows
  <2>3. Highest(slice.no)' /\ slice' = slice
    BY <1>2, <2>1 DEF CommitManifest, Highest, work
  <2> QED BY <2>1, <2>2, <2>3 DEF Recoverable
<1>3. CASE Startup
  <2>1. UNCHANGED <<man, dirs>> /\ pc = "down"
    BY <1>3 DEF Startup, files
  <2>2. ASSUME NEW n \in BatchNo PROVE Covered(n)' \/ (Committing' /\ Highest(n)')
    <3>1. CASE Covered(n)
      BY <2>1, <3>1, CoveredStays, SavedCursorGrows
    <3>2. CASE ~Covered(n)
      <4>1. Highest(n) /\ man[n] # NoSlice
        BY <3>2 DEF Recoverable, Covered
      <4>2. pc' = "redo_ledger"
        BY <1>3, <4>1 DEF Startup, Highest
      <4> QED BY <2>1, <4>1, <4>2 DEF Highest
    <3> QED BY <3>1, <3>2
  <2> QED BY <2>2 DEF Recoverable
<1>4. CASE RepairNumbering
  <2>1. UNCHANGED <<man, pc>>
    BY <1>4 DEF RepairNumbering
  <2>2. PICK m \in dirs : Highest(m) /\ (dirs' = dirs \/ (man[m] = NoSlice /\ dirs' = dirs \ {m}))
    BY <1>4 DEF RepairNumbering
  <2>3. ASSUME NEW n \in BatchNo PROVE Covered(n)' \/ (Committing' /\ Highest(n)')
    <3>1. CASE Covered(n)
      BY <2>1, <3>1, CoveredStays, SavedCursorGrows
    <3>2. CASE ~Covered(n)
      <4>1. Highest(n) /\ man[n] # NoSlice /\ Committing
        BY <3>2 DEF Recoverable, Covered
      <4>2. n = m
        BY <2>2, <4>1, ConstantAssumption DEF Highest, TypeOK, BatchNo
      <4> QED BY <2>1, <2>2, <4>1, <4>2 DEF Highest
    <3> QED BY <3>1, <3>2
  <2> QED BY <2>3 DEF Recoverable
<1>5. CASE CommitMkdir
  <2>1. UNCHANGED man /\ pc = "decide"
    BY <1>5 DEF CommitMkdir, Slicing
  <2> QED BY <2>1, CoveredStays, SavedCursorGrows DEF Recoverable
<1>6. CASE UNCHANGED <<man, dirs>> /\ (Committing => Committing')
  BY <1>6, CoveredStays, SavedCursorGrows DEF Recoverable, Highest
<1>7. CASE AppendJournal
  <2>1. UNCHANGED <<man, dirs, pc>>
    BY <1>7 DEF AppendJournal
  <2> QED BY <1>6, <2>1
<1>8. Committing =>
        Committing' \/ RecoverCursor \/ CommitCursor \/ Startup \/ CommitManifest
  <2> SUFFICES ASSUME Committing, ~Committing',
                      ~RecoverCursor, ~CommitCursor, ~Startup, ~CommitManifest
               PROVE FALSE
    OBVIOUS
  <2> USE DEF files, cursors, queue, work
  <2>1. CASE Environment \/ Ingest \/ Halted \/ SetHalt \/ LedgerAppend
    BY <2>1 DEF Environment, AppendJournal, AppendWatch, Ingest, ReadWatch,
       WatchMalformed, WatchLedger, WatchCursor, WatchDone, Halted, SetHalt, LedgerAppend
  <2>2. CASE Stages
    BY <2>2 DEF Stages, Mount, CascadeSpend, CascadeDone, CascadeFails, CostGuard,
       PassK, Wait, Ready, ReadyFlag, Dispatch
  <2>3. CASE JournalCorruption \/ Insufficient \/ AbortSlice \/ CommitMkdir
             \/ IncBatchNumber \/ FirstState
    BY <2>3 DEF JournalCorruption, Insufficient, AbortSlice, CommitMkdir,
       IncBatchNumber, FirstState, Slicing
  <2>4. CASE Stop \/ Crash \/ Operator
    BY <2>4 DEF Stop, Crash, Down, Operator, ClearHalt, RepairNumbering, RepairState
  <2> QED BY <2>1, <2>2, <2>3, <2>4 DEF Next, Daemon, CutSlice
<1> QED BY <1>1, <1>2, <1>3, <1>4, <1>5, <1>6, <1>7, <1>8, DirectoryWriters

----------------------------------------------------------------------------
(* The invariant and what follows from it. *)

\* The inductive invariant holds at installation.
LEMMA InitIndInv == Init => IndInv
<1> SUFFICES ASSUME Init PROVE IndInv
  OBVIOUS
<1>1. TypeOK
  BY InitType
<1>2. Manifests /\ LedgerBeforeCursor
  BY DEF Init, Manifests, LedgerBeforeCursor, NoSlice
<1>3. LedgerRows
  BY ConstantAssumption DEF Init, LedgerRows, HistBatch, WatchBatch, BatchNo
<1>4. Numbering /\ Working /\ Cursors /\ Recoverable /\ OneInFlight /\ QueueInSync
  BY DEF Init, Numbering, Cutting, Working, Cursors, Recoverable, Covered, OneInFlight,
     InFlight, QueueInSync
<1> QED BY <1>1, <1>2, <1>3, <1>4 DEF IndInv

\* The inductive invariant is kept by every step.
LEMMA StepIndInv ==
    ASSUME IndInv, [Next]_vars
    PROVE  IndInv'
<1>1. CASE Next
  <2> USE <1>1 DEF IndInv
  <2>1. TypeOK' /\ Manifests' /\ LedgerRows'
    BY StepType, StepManifests, StepLedgerRows
  <2>2. Numbering' /\ Working' /\ Cursors' /\ Recoverable'
    BY StepNumbering, StepWorking, StepCursors, StepRecoverable
  <2>3. LedgerBeforeCursor' /\ OneInFlight' /\ QueueInSync'
    BY StepLedgerBeforeCursor, StepOneInFlight, StepQueueInSync
  <2> QED BY <2>1, <2>2, <2>3
<1>2. CASE UNCHANGED vars
  <2> USE <1>2 DEF IndInv, vars, files, cursors, queue, work
  <2>1. TypeOK' /\ Manifests' /\ LedgerRows'
    BY DEF TypeOK, Manifests, RowLines, LedgerRows
  <2>2. Numbering' /\ Working' /\ Cursors'
    BY DEF Numbering, Cutting, Working, Highest, RowLines, Cursors
  <2>3. Recoverable' /\ LedgerBeforeCursor'
    BY DEF Recoverable, Committing, Covered, LedgerBeforeCursor, InLedger, Recorded,
       CampaignUid, Uid, Highest
  <2>4. OneInFlight' /\ QueueInSync'
    BY DEF OneInFlight, InFlight, Highest, QueueInSync
  <2> QED BY <2>1, <2>2, <2>3, <2>4
<1> QED BY <1>1, <1>2

\* Every reachable state satisfies IndInv.
THEOREM InvariantHolds == Spec => []IndInv
BY InitIndInv, StepIndInv, PTL DEF Spec

\* The files and the daemon's objects keep their shapes.
THEOREM TypeCorrect == Spec => []TypeOK
<1>1. IndInv => TypeOK
  BY DEF IndInv
<1> QED BY InvariantHolds, <1>1, PTL

\* Outside a commit and a recovery, ledger and saved cursor cover every batch.
THEOREM SettledHolds == Spec => []Settled
<1>1. IndInv => Settled
  BY DEF IndInv, Recoverable, Settled
<1> QED BY InvariantHolds, <1>1, PTL

\* The saved cursor passes a committed row only when the ledger has it.
THEOREM LedgerFirst == Spec => []LedgerBeforeCursor
<1>1. IndInv => LedgerBeforeCursor
  BY DEF IndInv
<1> QED BY InvariantHolds, <1>1, PTL

\* At most one batch is on its way, and it is the newest.
THEOREM OneBatchInFlight == Spec => []OneInFlight
<1>1. IndInv => OneInFlight
  BY DEF IndInv
<1> QED BY InvariantHolds, <1>1, PTL

\* The daemon and queue_state.json agree, but for a halt cleared meanwhile.
THEOREM NoLostQueueUpdate == Spec => []QueueInSync
<1>1. IndInv => QueueInSync
  BY DEF IndInv
<1> QED BY InvariantHolds, <1>1, PTL

\* Every step, a kill or a restart included, moves stages along Forward only.
LEMMA StepStageOrder ==
    ASSUME IndInv, [Next]_vars
    PROVE  [\A n \in BatchNo : st'[n] # st[n] =>
              /\ <<st[n], st'[n]>> \in Forward
              /\ \A m \in dirs : m < n => st[m] \in DoneStates]_vars
<1> SUFFICES ASSUME Next, NEW n \in BatchNo, st'[n] # st[n]
             PROVE  /\ <<st[n], st'[n]>> \in Forward
                    /\ \A m \in dirs : m < n => st[m] \in DoneStates
  OBVIOUS
<1> USE DEF IndInv
<1>1. PICK p \in InFlight, s \in States :
         st' = [st EXCEPT ![p] = s] /\ <<st[p], s>> \in Forward
  BY StateWriters
<1>2. p = n /\ n \in InFlight /\ st'[n] = s
  BY <1>1 DEF TypeOK, InFlight
<1>3. ASSUME NEW m \in dirs, m < n PROVE st[m] \in DoneStates
  <2>1. m \in InFlight => n =< m
    BY <1>2 DEF OneInFlight, Highest, InFlight
  <2>2. m \in Nat /\ n \in Nat
    BY ConstantAssumption DEF TypeOK, BatchNo
  <2> QED BY <1>3, <2>1, <2>2 DEF InFlight
<1> QED BY <1>1, <1>2, <1>3

\* A batch moves one stage at a time, and only the oldest unfinished one moves.
THEOREM StagesInOrder == Spec => StageOrder
BY InvariantHolds, StepStageOrder, PTL DEF Spec, StageOrder

----------------------------------------------------------------------------
(* No record is funneled twice, unless the policy "allow" lets variants in. *)

\* What the scan lets pass is new to the ledger's blocking rows and to the slice.
LEMMA AcceptedIsFresh ==
    ASSUME Policy # "allow", NEW i \in Nat, NEW A, Accepts(Verdict(i, A))
    PROVE  /\ \A k \in Blocking : ledger[k].key # StmtKey(journal[i])
           /\ \A j \in A : StmtKey(journal[j]) # StmtKey(journal[i])
<1>1. Verdict(i, A) \in {"new", "warn"}
  BY DEF Accepts
<1>2. /\ Check(CampaignUid(i), StmtKey(journal[i]), journal[i]) \in {"new", "warn"}
      /\ ~\E j \in A : StmtKey(journal[j]) = StmtKey(journal[i])
  BY <1>1 DEF Verdict
<1>3. ~\E k \in Blocking : ledger[k].key = StmtKey(journal[i])
  BY <1>2 DEF Check
<1> QED BY <1>2, <1>3

\* The lines a completed scan accepted are new to the ledger and to each other.
LEMMA ScanIsFresh ==
    ASSUME Policy # "allow", NEW from \in Nat, NEW t \in Nat,
           NEW A \in SUBSET (from..t), Scan(from, t, A)
    PROVE  \A i \in A :
             /\ \A k \in Blocking : ledger[k].key # StmtKey(journal[i])
             /\ \A j \in A : StmtKey(journal[i]) = StmtKey(journal[j]) => i = j
<1>1. ASSUME NEW i \in A
      PROVE  /\ \A k \in Blocking : ledger[k].key # StmtKey(journal[i])
             /\ \A j \in A \cap from..(i - 1) : StmtKey(journal[j]) # StmtKey(journal[i])
  <2>1. i \in from..t /\ i \in Nat
    OBVIOUS
  <2>2. Accepts(Verdict(i, A \cap from..(i - 1)))
    BY <2>1 DEF Scan
  <2> QED BY <2>1, <2>2, AcceptedIsFresh
<1>2. ASSUME NEW i \in A, NEW j \in A, StmtKey(journal[i]) = StmtKey(journal[j])
      PROVE  i = j
  <2>1. i \in from..t /\ j \in from..t
    OBVIOUS
  <2>2. ~(j < i) /\ ~(i < j)
    <3>1. j < i => j \in A \cap from..(i - 1)
      BY <2>1
    <3>2. i < j => i \in A \cap from..(j - 1)
      BY <2>1
    <3> QED BY <1>1, <1>2, <3>1, <3>2
  <2> QED BY <2>1, <2>2
<1> QED BY <1>1, <1>2

\* Away from a commit, the ledger has a blocking row for every committed record.
LEMMA CommittedIsKnown ==
    ASSUME IndInv, ~Committing, NEW n \in BatchNo, NEW i \in man[n].lines
    PROVE  \E k \in Blocking : /\ ledger[k].uid = CampaignUid(i)
                               /\ ledger[k].key = StmtKey(journal[i])
                               /\ ledger[k].batch = n
<1> USE DEF IndInv
<1>1. InLedger(i, n)
  BY DEF Recoverable, Covered, NoSlice
<1>2. PICK k \in DOMAIN ledger : ledger[k].uid = CampaignUid(i) /\ ledger[k].batch = n
  BY <1>1 DEF InLedger, Recorded
<1>3. ~ledger[k].warn /\ ledger[k].key = KeyOf[CampaignUid(i)[2]]
  BY <1>2 DEF LedgerRows
<1> QED BY <1>2, <1>3 DEF Blocking, CampaignUid, Uid, StmtKey

\* No slice is pending at installation.
LEMMA InitFreshSlice == Init => FreshSlice
BY DEF Init, FreshSlice

\* Between the scan and the manifest of a slice nothing makes it stale.
LEMMA StepFreshSlice ==
    ASSUME Policy # "allow", IndInv, FreshSlice, [Next]_vars
    PROVE  FreshSlice'
<1> USE DEF IndInv
<1> SUFFICES ASSUME pc' = "manifest" PROVE FreshSlice'
  BY DEF FreshSlice
<1>0. journal \in Seq(Line) /\ Len(journal) \in Nat
  BY DEF TypeOK
<1>1. CASE pc = "manifest" /\ UNCHANGED <<slice, ledger>>
  <2>1. Blocking' = Blocking
    BY <1>1 DEF Blocking
  <2>2. ASSUME NEW i \in slice.lines PROVE journal'[i] = journal[i]
    <3>1. i \in 1..Len(journal)
      BY <1>1 DEF Working, RowLines
    <3>2. CASE Next
      BY <3>1, <3>2, RecordsStay
    <3> QED BY <3>2 DEF vars, files
  <2> QED BY <1>1, <2>1, <2>2 DEF FreshSlice, StmtKey
<1>2. CASE CommitMkdir
  <2>1. PICK t \in From..Len(journal) : \E A \in SUBSET RowLines(From, t) :
            Scan(From, t, A) /\ slice'.lines = A
    BY <1>2 DEF CommitMkdir
  <2>2. PICK A \in SUBSET RowLines(From, t) : Scan(From, t, A) /\ slice'.lines = A
    BY <2>1
  <2>3. From \in Nat /\ t \in Nat /\ A \in SUBSET (From..t)
    BY <1>0, <2>1 DEF From, TypeOK, Cursor, RowLines
  <2>4. UNCHANGED <<journal, ledger>>
    BY <1>2 DEF CommitMkdir
  <2>5. \A i \in A :
             /\ \A k \in Blocking : ledger[k].key # StmtKey(journal[i])
             /\ \A j \in A : StmtKey(journal[i]) = StmtKey(journal[j]) => i = j
    BY <2>2, <2>3, ScanIsFresh
  <2> QED BY <2>2, <2>4, <2>5 DEF FreshSlice, Blocking, StmtKey
<1>3. CASE Next /\ ~CommitMkdir
  <2> USE DEF files, cursors, queue, work
  <2>1. CASE Environment
    BY <1>1, <2>1 DEF Environment, AppendJournal, AppendWatch
  <2>2. CASE Startup \/ RecoverCursor \/ Ingest \/ Halted \/ SetHalt \/ Stop \/ Crash
    BY <2>2 DEF Startup, RecoverCursor, Ingest, ReadWatch, WatchMalformed,
       WatchLedger, WatchCursor, WatchDone, Halted, SetHalt, Stop, Crash, Down
  <2>3. CASE Stages
    BY <2>3 DEF Stages, Mount, CascadeSpend, CascadeDone, CascadeFails, CostGuard,
       PassK, Wait, Ready, ReadyFlag, EndTick
  <2>4. CASE CutSlice
    BY <1>3, <2>4 DEF CutSlice, JournalCorruption, Insufficient, AbortSlice,
       CommitManifest, LedgerAppend, CommitCursor, IncBatchNumber, FirstState
  <2>5. CASE Operator
    BY <1>1, <2>5 DEF Operator, ClearHalt, RepairNumbering, RepairState
  <2> QED BY <1>3, <2>1, <2>2, <2>3, <2>4, <2>5 DEF Next, Daemon
<1>4. CASE UNCHANGED vars
  BY <1>1, <1>4 DEF vars, work, files
<1> QED BY <1>2, <1>3, <1>4

\* A slice about to be committed is new to the ledger and to itself.
THEOREM SlicesAreFresh == ASSUME Policy # "allow" PROVE Spec => []FreshSlice
<1>1. IndInv /\ FreshSlice /\ [Next]_vars => FreshSlice'
  BY StepFreshSlice
<1> QED BY <1>1, InvariantHolds, InitFreshSlice, PTL DEF Spec

\* NoDuplicate in terms of the normal forms alone.
UniqueKeys ==
    \A n \in BatchNo : \A i \in man[n].lines :
        /\ \A m \in BatchNo : \A j \in man[m].lines :
              StmtKey(journal[i]) = StmtKey(journal[j]) => n = m /\ i = j
        /\ \A k \in Blocking : ledger[k].key = StmtKey(journal[i]) => ledger[k].batch = n

\* With unique normal forms no record clashes with another.
LEMMA UniqueKeysSuffice ==
    ASSUME LedgerRows, UniqueKeys
    PROVE  NoDuplicate
<1>1. ASSUME NEW i, NEW j, CampaignUid(i) = CampaignUid(j)
      PROVE  StmtKey(journal[i]) = StmtKey(journal[j])
  BY <1>1 DEF CampaignUid, Uid, StmtKey
<1>2. ASSUME NEW i, NEW k \in Blocking, CampaignUid(i) = ledger[k].uid
      PROVE  ledger[k].key = StmtKey(journal[i])
  BY <1>2 DEF LedgerRows, Blocking, CampaignUid, Uid, StmtKey
<1> QED BY <1>1, <1>2 DEF NoDuplicate, UniqueKeys, Clash

\* A step that commits a slice or ingests a watched row keeps normal forms unique.
LEMMA StepUniqueKeys ==
    ASSUME Policy # "allow", IndInv, FreshSlice, UniqueKeys, Next
    PROVE  UniqueKeys'
<1> USE DEF IndInv
<1>0. ledger \in Seq(LedgerRow)
  BY DEF TypeOK
<1>1. \A n \in BatchNo : \A i \in man[n].lines : StmtKey(journal'[i]) = StmtKey(journal[i])
  BY ManifestRowsStay, RecordsStay
<1>2. CASE CommitManifest
  <2>1. /\ man' = [man EXCEPT ![slice.no] = [lines |-> slice.lines, through |-> slice.through]]
        /\ pc = "manifest" /\ UNCHANGED <<journal, ledger>> /\ slice.no \in BatchNo
    BY <1>2 DEF CommitManifest, Working, Cutting, Highest, TypeOK
  <2>2. \A n \in BatchNo : man'[n].lines = IF n = slice.no THEN slice.lines ELSE man[n].lines
    BY <2>1 DEF TypeOK
  <2>3. ASSUME NEW n \in BatchNo, NEW i \in man[n].lines, NEW j \in slice.lines
        PROVE  StmtKey(journal[i]) # StmtKey(journal[j])
    <3>1. \E k \in Blocking : ledger[k].key = StmtKey(journal[i])
      BY <2>1, CommittedIsKnown DEF Committing
    <3> QED BY <2>1, <3>1 DEF FreshSlice
  <2>4. ASSUME NEW n \in BatchNo, NEW i \in man'[n].lines,
               NEW m \in BatchNo, NEW j \in man'[m].lines,
               StmtKey(journal[i]) = StmtKey(journal[j])
        PROVE  n = m /\ i = j
    <3>1. CASE n = slice.no /\ m = slice.no
      BY <2>1, <2>2, <2>4, <3>1 DEF FreshSlice
    <3>2. CASE n = slice.no /\ m # slice.no
      BY <2>2, <2>3, <2>4, <3>2
    <3>3. CASE n # slice.no /\ m = slice.no
      BY <2>2, <2>3, <2>4, <3>3
    <3>4. CASE n # slice.no /\ m # slice.no
      BY <2>2, <2>4, <3>4 DEF UniqueKeys
    <3> QED BY <3>1, <3>2, <3>3, <3>4
  <2>5. ASSUME NEW n \in BatchNo, NEW i \in man'[n].lines, NEW k \in Blocking,
               ledger[k].key = StmtKey(journal[i])
        PROVE  ledger[k].batch = n
    <3>1. CASE n = slice.no
      BY <2>1, <2>2, <2>5, <3>1 DEF FreshSlice
    <3>2. CASE n # slice.no
      BY <2>2, <2>5, <3>2 DEF UniqueKeys
    <3> QED BY <3>1, <3>2
  <2> QED BY <2>1, <2>4, <2>5 DEF UniqueKeys, StmtKey, Blocking
<1>3. CASE LedgerAppend
  <2>1. UNCHANGED <<man, journal>>
    BY <1>3 DEF LedgerAppend
  <2>2. PICK i \in man[slice.no].lines :
          /\ RowFor(CampaignSource, journal[i], slice.no) \in LedgerRow
          /\ AppendRow(RowFor(CampaignSource, journal[i], slice.no))
    BY <1>3, LedgerAppendRow
  <2> DEFINE row == RowFor(CampaignSource, journal[i], slice.no)
  <2>3. /\ \A k \in DOMAIN ledger' : k \in DOMAIN ledger \/ ledger'[k] = row
        /\ \A k \in DOMAIN ledger : ledger'[k] = ledger[k]
    BY <1>0, <2>2, AppendRowEffect
  <2>4. row.key = StmtKey(journal[i]) /\ row.batch = slice.no /\ slice.no \in BatchNo
    BY <1>3, LedgerAppendRow DEF RowFor
  <2>5. ASSUME NEW n \in BatchNo, NEW j \in man[n].lines, NEW k \in Blocking',
               ledger'[k].key = StmtKey(journal[j])
        PROVE  ledger'[k].batch = n
    <3>1. CASE k \in DOMAIN ledger
      BY <2>3, <2>5, <3>1 DEF UniqueKeys, Blocking
    <3>2. CASE ledger'[k] = row
      BY <2>2, <2>4, <2>5, <3>2 DEF UniqueKeys
    <3> QED BY <2>3, <3>1, <3>2 DEF Blocking
  <2> QED BY <2>1, <2>5 DEF UniqueKeys, StmtKey
<1>4. CASE WatchLedger
  <2>1. UNCHANGED <<man, journal>> /\ ~Committing
    BY <1>4 DEF WatchLedger, Committing
  <2> DEFINE row == RowFor(WatchSource, watch[wnext], WatchBatch)
  <2>2. CASE UNCHANGED ledger
    BY <2>1, <2>2 DEF UniqueKeys, StmtKey, Blocking
  <2>3. CASE /\ AppendRow(row)
             /\ Check(Uid(WatchSource, watch[wnext]), StmtKey(watch[wnext]), watch[wnext])
                  \in {"new", "warn"}
    <3>1. row \in LedgerRow /\ row.key = StmtKey(watch[wnext])
      BY <1>4, WatchLedgerRow DEF RowFor
    <3>2. /\ \A k \in DOMAIN ledger' : k \in DOMAIN ledger \/ ledger'[k] = row
          /\ \A k \in DOMAIN ledger : ledger'[k] = ledger[k]
      BY <1>0, <2>3, <3>1, AppendRowEffect
    <3>3. \A k \in Blocking : ledger[k].key # row.key
      BY <2>3, <3>1 DEF Check
    <3>4. ASSUME NEW n \in BatchNo, NEW j \in man[n].lines, NEW k \in Blocking',
                 ledger'[k].key = StmtKey(journal[j])
          PROVE  ledger'[k].batch = n
      <4>1. CASE k \in DOMAIN ledger
        BY <3>2, <3>4, <4>1 DEF UniqueKeys, Blocking
      <4>2. CASE ledger'[k] = row
        <5>1. \E l \in Blocking : ledger[l].key = StmtKey(journal[j])
          BY <2>1, CommittedIsKnown
        <5> QED BY <3>3, <3>4, <4>2, <5>1
      <4> QED BY <3>2, <4>1, <4>2 DEF Blocking
    <3> QED BY <2>1, <3>4 DEF UniqueKeys, StmtKey
  <2> QED BY <1>4, <2>2, <2>3, WatchLedgerRow
<1>5. CASE UNCHANGED <<man, ledger>>
  BY <1>1, <1>5 DEF UniqueKeys, Blocking
<1>6. CASE (AppendJournal \/ CommitMkdir \/ RepairNumbering) /\ UNCHANGED ledger
  <2>1. UNCHANGED man
    BY <1>6 DEF AppendJournal, CommitMkdir, RepairNumbering
  <2> QED BY <1>5, <1>6, <2>1
<1> QED BY <1>2, <1>3, <1>4, <1>5, <1>6, DirectoryWriters, LedgerWriters

\* Normal forms are unique among committed rows and blocking ledger rows.
LEMMA KeysStayUnique == ASSUME Policy # "allow" PROVE Spec => []UniqueKeys
<1>1. Init => UniqueKeys
  BY DEF Init, UniqueKeys, NoSlice
<1>2. IndInv /\ FreshSlice /\ UniqueKeys /\ [Next]_vars => UniqueKeys'
  <2>1. ASSUME UniqueKeys, UNCHANGED vars PROVE UniqueKeys'
    BY <2>1 DEF vars, files, UniqueKeys, StmtKey, Blocking
  <2> QED BY <2>1, StepUniqueKeys
<1> QED BY <1>1, <1>2, InvariantHolds, SlicesAreFresh, PTL DEF Spec

\* No record enters two batches, nor a batch and the rest of the ledger.
THEOREM NoRecordTwice == ASSUME Policy # "allow" PROVE Spec => []NoDuplicate
<1>1. IndInv /\ UniqueKeys => NoDuplicate
  BY UniqueKeysSuffice DEF IndInv
<1> QED BY <1>1, InvariantHolds, KeysStayUnique, PTL

----------------------------------------------------------------------------
(* The daemon implements BatchQueue: a manifest is a Commit, a row of the
   watched run an Ingest, every other write a stutter. *)

\* At installation no batch is committed and only history is consumed.
LEMMA InitRefines == Init => Queue!Init
<1> SUFFICES ASSUME Init PROVE Queue!Init
  OBVIOUS
<1>1. Committed = [n \in BatchNo |-> {}]
  BY DEF Init, Committed, NoSlice
<1>2. \A k \in DOMAIN History : History[k].batch \notin BatchNo
  BY ConstantAssumption DEF HistBatch, WatchBatch, BatchNo
<1>3. Elsewhere = {History[k].uid : k \in {j \in DOMAIN History : ~History[j].warn}}
  BY <1>2 DEF Init, Elsewhere, Blocking
<1> QED BY <1>1, <1>3 DEF Queue!Init

\* What a committed batch holds does not change while its manifest stays.
LEMMA CommittedStays ==
    ASSUME IndInv, Next, UNCHANGED man
    PROVE  UNCHANGED Committed
<1>1. \A n \in BatchNo : \A i \in man[n].lines : CampaignUid(i)' = CampaignUid(i)
  BY ManifestRowsStay DEF IndInv
<1>2. \A n \in BatchNo : {CampaignUid(i)' : i \in man[n].lines} = {CampaignUid(i) : i \in man[n].lines}
  BY <1>1
<1> QED BY <1>2 DEF Committed

\* The Cardinality of BatchQueue's own FiniteSets is ours.
LEMMA SameCardinality == \A S : Queue!Cardinality(S) = Cardinality(S)
BY DEF Queue!Cardinality, Cardinality

\* Writing the manifest is the Commit of BatchQueue.
LEMMA CommitRefines ==
    ASSUME Policy # "allow", IndInv, FreshSlice, CommitManifest
    PROVE  Queue!Commit(slice.no)
<1> USE DEF IndInv
<1> DEFINE no == slice.no
           new == {CampaignUid(i) : i \in slice.lines}
<1>0. Next
  BY DEF Next, Daemon, CutSlice
<1>1. /\ man' = [man EXCEPT ![no] = [lines |-> slice.lines, through |-> slice.through]]
      /\ pc = "manifest" /\ UNCHANGED <<journal, ledger>> /\ no \in BatchNo /\ Highest(no)
      /\ man[no] = NoSlice /\ Cardinality(slice.lines) = SliceSize
      /\ slice.lines \subseteq RowLines(1, Len(journal))
  BY DEF CommitManifest, Working, Cutting, Highest, TypeOK
<1>2. Committed' = [Committed EXCEPT ![no] = new]
  <2>1. \A n \in BatchNo : man'[n].lines = IF n = no THEN slice.lines ELSE man[n].lines
    BY <1>1 DEF TypeOK
  <2>2. \A i \in Nat : CampaignUid(i)' = CampaignUid(i)
    BY <1>1 DEF CampaignUid, Uid
  <2>3. \A n \in BatchNo : man[n].lines \subseteq Nat
    BY DEF TypeOK, Slice
  <2>4. slice.lines \subseteq Nat
    BY DEF TypeOK
  <2>5. \A n \in BatchNo : {CampaignUid(i)' : i \in man'[n].lines}
                             = IF n = no THEN new ELSE {CampaignUid(i) : i \in man[n].lines}
    BY <2>1, <2>2, <2>3, <2>4
  <2> QED BY <1>1, <2>5 DEF Committed
<1>3. Committed'[no] = new
  BY <1>1, <1>2 DEF Committed
<1>4. ASSUME NEW m \in BatchNo, m >= no PROVE Committed[m] = {}
  <2>1. man[m] = NoSlice
    <3>1. CASE m = no
      BY <1>1, <3>1
    <3>2. CASE m # no
      <4>1. m \notin dirs
        BY <1>1, <1>4, <3>2, ConstantAssumption DEF Highest, TypeOK, BatchNo
      <4> QED BY <4>1 DEF Manifests
    <3> QED BY <3>1, <3>2
  <2> QED BY <2>1 DEF Committed, NoSlice
<1>5. new \subseteq Source \X Statement
  BY <1>1, ConstantAssumption DEF RowLines, CampaignUid, Uid, Source
<1>6. ASSUME NEW i \in slice.lines PROVE CampaignUid(i) \notin Queue!Consumed
  <2>1. ASSUME NEW k \in Blocking PROVE ledger[k].uid # CampaignUid(i)
    <3>1. ledger[k].key # StmtKey(journal[i])
      BY <1>1 DEF FreshSlice
    <3> QED BY <3>1 DEF LedgerRows, Blocking, CampaignUid, Uid, StmtKey
  <2>2. CampaignUid(i) \notin Elsewhere
    BY <2>1 DEF Elsewhere
  <2>3. ASSUME NEW n \in BatchNo PROVE CampaignUid(i) \notin Committed[n]
    <3>1. \A j \in man[n].lines : CampaignUid(j) # CampaignUid(i)
      BY <1>1, <2>1, CommittedIsKnown DEF Committing
    <3> QED BY <3>1 DEF Committed
  <2> QED BY <2>2, <2>3 DEF Queue!Consumed
<1>7. Cardinality(new) = SliceSize
  <2> DEFINE f == [i \in slice.lines |-> CampaignUid(i)]
  <2>1. \A i, j \in slice.lines : f[i] = f[j] => i = j
    BY <1>1 DEF FreshSlice, CampaignUid, Uid, StmtKey
  <2>2. f \in [slice.lines -> new] /\ \A u \in new : \E i \in slice.lines : f[i] = u
    OBVIOUS
  <2>3. f \in Bijection(slice.lines, new)
    BY <2>1, <2>2 DEF Bijection, Injection, Surjection, IsInjective
  <2>4. IsFiniteSet(slice.lines)
    <3>1. Len(journal) \in Nat
      BY DEF TypeOK
    <3>2. slice.lines \in SUBSET (1..Len(journal))
      BY <1>1 DEF RowLines
    <3>3. IsFiniteSet(1..Len(journal))
      BY <3>1, FS_Interval
    <3> QED BY <3>2, <3>3, FS_Subset
  <2>5. Cardinality(slice.lines) = Cardinality(new)
    BY <2>3, <2>4, FS_Bijection DEF ExistsBijection
  <2> QED BY <1>1, <2>5
<1>8. UNCHANGED Elsewhere
  BY <1>1 DEF Elsewhere, Blocking
<1>9. new \subseteq (Source \X Statement) \ Queue!Consumed
  BY <1>5, <1>6
<1>10. Committed' = [Committed EXCEPT ![no] = Committed'[no]]
  BY <1>2, <1>3
<1>11. \A m \in BatchNo : m >= slice.no => Committed[m] = {}
  BY <1>4
<1>12. /\ Committed'[slice.no] \subseteq (Source \X Statement) \ Queue!Consumed
       /\ Cardinality(Committed'[slice.no]) = SliceSize
  BY <1>3, <1>7, <1>9
<1>13. Committed' = [Committed EXCEPT ![slice.no] = Committed'[slice.no]]
  BY <1>10
<1> HIDE DEF new, no, IndInv
<1> QED BY <1>8, <1>11, <1>12, <1>13, SameCardinality DEF Queue!Commit

\* Ingesting a watched row is the Ingest of BatchQueue, or changes nothing.
LEMMA WatchRefines ==
    ASSUME IndInv, WatchLedger
    PROVE  \/ UNCHANGED <<Committed, Elsewhere>>
           \/ \E r \in Source \X Statement : Queue!Ingest(r)
<1> USE DEF IndInv
<1> DEFINE row == RowFor(WatchSource, watch[wnext], WatchBatch)
<1>1. Next /\ UNCHANGED man /\ ~Committing /\ ledger \in Seq(LedgerRow)
  BY DEF Next, Daemon, Ingest, WatchLedger, Committing, TypeOK
<1>2. UNCHANGED Committed
  BY <1>1, CommittedStays
<1>3. CASE UNCHANGED ledger
  BY <1>2, <1>3 DEF Elsewhere, Blocking
<1>4. CASE ledger' # ledger
  <2>1. /\ AppendRow(row) /\ row \in LedgerRow
        /\ Check(row.uid, row.key, watch[wnext]) \in {"new", "warn"}
    BY <1>4, WatchLedgerRow DEF RowFor
  <2>2. ledger' = Append(ledger, row)
    BY <1>4, <2>1 DEF AppendRow
  <2>3. PriorRows(row.uid) = {}
    BY <2>1 DEF Check
  <2>4. row.uid \notin Queue!Consumed
    <3>1. row.uid \notin Elsewhere
      BY <2>3 DEF PriorRows, Elsewhere
    <3>2. ASSUME NEW n \in BatchNo, row.uid \in Committed[n] PROVE FALSE
      <4>1. PICK i \in man[n].lines : CampaignUid(i) = row.uid
        BY <3>2 DEF Committed
      <4> QED BY <1>1, <2>3, <4>1, CommittedIsKnown DEF PriorRows
    <3> QED BY <3>1, <3>2 DEF Queue!Consumed
  <2>5. row.uid \in Source \X Statement /\ ~row.warn /\ row.batch \notin BatchNo
    BY <2>1, ConstantAssumption DEF RowFor, LedgerRow, WatchBatch, BatchNo
  <2>6. /\ DOMAIN ledger' = DOMAIN ledger \cup {Len(ledger) + 1}
        /\ \A k \in DOMAIN ledger : ledger'[k] = ledger[k]
        /\ ledger'[Len(ledger) + 1] = row /\ Len(ledger) + 1 \notin DOMAIN ledger
    BY <1>1, <2>1, <2>2, GrowKeeps
  <2>7. Elsewhere' = Elsewhere \cup {row.uid}
    BY <2>5, <2>6 DEF Elsewhere, Blocking
  <2> QED BY <1>2, <2>4, <2>5, <2>7 DEF Queue!Ingest
<1> QED BY <1>3, <1>4

\* Recording a committed row in the ledger is invisible to BatchQueue.
LEMMA LedgerAppendRefines ==
    ASSUME IndInv, LedgerAppend
    PROVE  UNCHANGED <<Committed, Elsewhere>>
<1> USE DEF IndInv
<1>1. Next /\ UNCHANGED man /\ ledger \in Seq(LedgerRow)
  BY DEF Next, Daemon, CutSlice, LedgerAppend, TypeOK
<1>2. PICK i \in slice.lines :
          /\ RowFor(CampaignSource, journal[i], slice.no) \in LedgerRow
          /\ AppendRow(RowFor(CampaignSource, journal[i], slice.no))
  BY LedgerAppendRow
<1> DEFINE row == RowFor(CampaignSource, journal[i], slice.no)
<1>3. row.batch \in BatchNo
  BY LedgerAppendRow DEF RowFor
<1>4. /\ \A k \in DOMAIN ledger : k \in DOMAIN ledger' /\ ledger'[k] = ledger[k]
      /\ \A k \in DOMAIN ledger' : k \in DOMAIN ledger \/ ledger'[k] = row
  BY <1>1, <1>2, AppendRowEffect
<1>5. {k \in Blocking' : ledger'[k].batch \notin BatchNo}
        = {k \in Blocking : ledger[k].batch \notin BatchNo}
  BY <1>3, <1>4 DEF Blocking
<1>6. Elsewhere' = Elsewhere
  BY <1>4, <1>5 DEF Elsewhere, Blocking
<1> QED BY <1>1, <1>6, CommittedStays

\* Every step of the daemon is a step of BatchQueue or a stutter.
LEMMA StepRefines ==
    ASSUME Policy # "allow", IndInv, FreshSlice, [Next]_vars
    PROVE  [Queue!Next]_<<Committed, Elsewhere>>
<1> USE DEF IndInv
<1>1. CASE UNCHANGED vars
  <2>1. UNCHANGED Committed
    BY <1>1 DEF vars, files, Committed, CampaignUid, Uid
  <2>2. UNCHANGED Elsewhere
    BY <1>1 DEF vars, files, Elsewhere, Blocking
  <2> QED BY <2>1, <2>2
<1>2. CASE CommitManifest
  <2>1. slice.no \in BatchNo
    BY <1>2 DEF CommitManifest, Working, Cutting, Highest, TypeOK
  <2> QED BY <1>2, <2>1, CommitRefines DEF Queue!Next
<1>3. CASE WatchLedger
  BY <1>3, WatchRefines DEF Queue!Next
<1>4. CASE LedgerAppend
  BY <1>4, LedgerAppendRefines
<1>5. CASE Next /\ UNCHANGED <<man, ledger>>
  <2>1. UNCHANGED Elsewhere
    BY <1>5 DEF Elsewhere, Blocking
  <2> QED BY <1>5, <2>1, CommittedStays
<1>6. CASE (AppendJournal \/ CommitMkdir \/ RepairNumbering)
  <2>1. UNCHANGED <<man, ledger>>
    BY <1>6 DEF AppendJournal, CommitMkdir, RepairNumbering
  <2>2. Next
    BY <1>6 DEF Next, Environment, Daemon, CutSlice, Operator
  <2> QED BY <1>5, <2>1, <2>2
<1> QED BY <1>1, <1>2, <1>3, <1>4, <1>5, <1>6, DirectoryWriters, LedgerWriters

\* Kills, restarts and repairs included, the daemon is a BatchQueue.
THEOREM ImplementsQueue == ASSUME Policy # "allow" PROVE Spec => RefinesQueue
<1>1. IndInv /\ FreshSlice /\ [Next]_vars => [Queue!Next]_<<Committed, Elsewhere>>
  BY StepRefines
<1> QED BY <1>1, InitRefines, InvariantHolds, SlicesAreFresh, PTL
        DEF Spec, RefinesQueue, Queue!Spec

=============================================================================
