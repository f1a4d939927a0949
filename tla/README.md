# A TLA+ model of icepick

icepick collects mathematical statements from arXiv, filters them through a
funnel of judges and model rollouts, builds training data from what is left,
trains adapters on it and evaluates them. This directory models that chain from
the first page of an arXiv listing to the published adapter: the control of each
program, the files it leaves between two steps, and what kills, pauses, retries,
failures, second processes and files changed under it do to them. TLC checks
the models, TLAPS proves the safety properties of eleven of them, all but one,
for every value of their constants.

Paths below are relative to `src/icepick/`; `loratrain/` stands for
`src/loratrain/`, `posers/` for `src/posers/`, and `evalharness/`, `docs/` and
`tests/` are at the top of the repository.

## 1. The system

| Component | State it keeps | Operations | Talks to |
|---|---|---|---|
| batcher core: `batcher/daemon.py`, `slicer.py`, `ledger.py`, `journal.py`, `identity.py`, `state.py` | `cursor.json` and its copy in memory; `consumed_uids.jsonl` and its index; `batches/batch<N>/` (slice manifest, `state.json`, `READY_TO_FOLD`); `queue_state.json` and its copy | startup with recovery, watch ingestion, slice cutting, stage dispatch, halt | tails the journals; starts the stages |
| batcher stages: `batcher/stages.py` | the batch directory: `intake/runs/*`, `MOUNT_VERIFIED`, `cascade_manifest.json`, `final_corpus.jsonl`, `pass_at_k_manifest.json` | `run_mount`, `run_cascade`, `run_passk`, slot checks, retries | child processes of the `icepick` command |
| batcher command line, backfill: `batcher/cli_glue.py`, `backfill.py` | `ARMED`, `queue_state.json`; seeds the ledger | arm, disarm, clear-halt, status; backfill | the daemon, through files only |
| acquisition: `allocation/adapters/arxiv_bulk.py`, `realmath_scrape.py`, `scrape/*`, `bulk/*`, `intake.py` | `_progress/` (papers done, candidates, QA cache, chunk journal, OAI pages), chunks on disk, `INCOMPLETE`, handoff and surplus | plan and approval, index, page, fetch, mine, ask, commit, release, pause, write | arXiv, OAI, S3, the QA model; writes what the batcher tails |
| well-posedness: `processing/poser/*`, `posers/*` | stage directories with attempts, poser outputs and judge caches; final corpus | cascade with retries and merges; fleet with comparison policies | the posers, as subprocesses |
| ground truth and pipeline: `processing/groundtruth/*`, `pipeline.py` | verdict cache, published records, passed records, final corpus | look up papers, filter, chain the three stages in two orders | the Anthropic API; fleet; pass@k |
| pass@k: `processing/pass_at_k/*` | `_progress/` (finished records, rollouts, call cache, `INCOMPLETE`), output, manifest | score, pause, resume, label | a model server with one slot |
| evalharness: `evalharness/src` | eval set, train list, one directory of finished records per role, greedy outputs, report | build the set, run models, compare | pass@k as a subprocess |
| training data: `loratrain/src/loratrain/build_dataset.py`, `v3.py` | `sft_train.jsonl` and manifest; prompt bundles, regenerated data sets, each with a manifest | select, guard, reconcile, harvest, publish | the eval set, rollout logs that grow |
| base weights: `gguf_to_hf.py`, `verify_base_identity.py`, `verify_dequant_parity.py` | directory of converted weights with manifest; receipt; parity report | convert, check, compare with a server | Hugging Face, a model server |
| upload and training: `upload_guard.py`, `loratrain/remote/*` | run configuration, receipt, the box: data, configuration, receipt, adapters, hashes, manifest, status | validate, copy, train, convert, hash, publish, compare runs | scp; the box |

They form a chain of files: acquisition writes the journal, the batcher cuts it
into batches and runs mount, cascade and pass@k on each, the results become
tiers, the evaluation set and the training set are cut from the tiers, the
training set goes to the box and the adapter comes back to the harness. No part
calls another through anything but subprocesses and files, and every part is
started by hand or by a daemon, at any time, again and again.

**What is hard.** No file write is transactional with another, appends can be
torn, and processes are killed, paused and run again over what they left. The
batcher keeps copies of files in memory, its children outlive it, and other
people's processes share its slots, its ledger and its journals. What was paid
for must neither be lost nor paid again. The training side checks files in one
program and reads them in another, minutes to days later, while earlier steps
are repeated: every guard is a check of something that may since have changed.

**What makes each component correct.**

* *Batcher*: no record in two batches or beside a known one; the cursor never
  ahead of the ledger; recovery completes the one interrupted commit; one batch
  in flight, stages in order; a state only with its evidence; a paid stage one
  process at a time and never after a complete run; every batch ends.
* *Acquisition*: a resumed run hands off what an uninterrupted one would; no
  answer and no egress paid twice; nothing paid for is dropped; re-running gets
  there.
* *Well-posedness*: fail closed (no opinion, no survivor); the final corpus is
  earned whichever invocation wrote which file.
* *pass@k*: a resumed run keeps scores and cost; the manifest never promises more
  than the output has.
* *Data*: nothing held out is trained on; every example is a verified rollout of
  the pass that scored it; a published directory never changes and is what its
  manifest says.
* *Weights and training*: a receipt is about the pinned weights; what is trained
  on was verified; a seed that is skipped has a whole adapter; runs of different
  base weights are not compared.

## 2. Modules

| Module | Models | Checked by | Proved in |
|---|---|---|---|
| `Batcher` | the daemon: slice cutting, ledger, cursor, recovery, queue file, operator | `MCBatcher` | `BatcherProof` |
| `BatchQueue` | abstract: disjoint full batches, final once out | refined by `Batcher` | |
| `BatchStages` | the stages of one batch, child processes, orphans, slots, retries | `MCBatchStages` | `BatchStagesProof` |
| `PaidStage` | abstract: a stage that costs money | refined by `BatchStages` (twice) and `PassK` | |
| `PassK` | pass@k from the inside: thread pool, checkpoint, resume, output | `MCPassK` | `PassKProof` |
| `Handoff` | the pure part of an acquisition: estimate, normalisation, selection | through `Acquire` | |
| `Acquire` | an API scrape or a bulk acquisition with checkpoint, budget, pauses | `MCAcquire` | `AcquireProof` |
| `Judges` | votes, verdicts, fleet policies as operators | through `Cascade`, `Pipeline` | |
| `Cascade` | the well-posedness cascade and the posers it runs | `MCCascade` | `ProcessingProof` |
| `Pipeline` | ground truth, fleet and pass@k in both orders, over invocations | `MCPipeline` | `ProcessingProof` |
| `EvalSet` | eval set, greedy runs, paired report | through `Dataset` | `TrainingSetProof` |
| `Dataset` | the training set of the pinned corpus, over `EvalSet` | `MCDataset` | `TrainingSetProof` |
| `Publish` | abstract: a directory shows nothing, then one publication for good | refined by `V3` | |
| `V3` | bundles, samples and the data set of regenerated proofs | `MCV3` | `V3Proof` |
| `Weights` | conversion, receipt and parity gate of the base weights | `MCWeights` | `TrainingSetProof` |
| `Trainer` | what a trainer on the box requires of the files beside it | through the next two | |
| `Upload` | the upload guard, the copies, the trainer's reads | `MCUpload` | `TrainerProof` |
| `Remote` | the loop over the seeds, and the comparison of two runs | `MCRemote` | `TrainerProof` |

Composition: `Batcher` sees of a stage only the writes to `state.json` and
`queue_state.json`; `BatchStages` opens one stage up and sees of the queue only
the halt and the spend; it takes the pass@k process for a `PaidStage`, and `PassK` opens that process up
and is shown to be one. `Acquire` extends `Handoff`, its rows are what `Batcher`
reads as a journal. `Cascade` and `Pipeline` extend `Judges`, so that both decide
by the same votes. `Dataset` extends `EvalSet`: both act on the same eval set,
train list and reports. `Upload` and `Remote` extend `Trainer`: what the guard
sends is checked by the same conditions as what the loop loads.

In every module one action is one durable write (or one paid call, or one read
that later steps rely on) with the memory-only work before it, so that a kill
can fall between any two. Hashes are injective: a hash is the content it is of.

### Batcher

A variable ending in `D` is a file, its namesake the copy in memory.

| Variable | Code |
|---|---|
| `journal`, `watch` | complete lines of the campaign's and the watched run's `candidates.jsonl` |
| `cur`, `curD` | `CursorStore` in memory, `cursor.json` |
| `ledger` | `consumed_uids.jsonl`; the index is a function of it |
| `dirs`, `man`, `st`, `flag` | `batch<N>`, `slice_manifest.json`, `state.json`, `READY_TO_FOLD` |
| `q`, `qD` | `queue_state.json` in memory and on disk |
| `pc`, `slice`, `wnext`, `wend` | where the daemon is; the commit, recovery or watch pass in progress |

| Actions | Code |
|---|---|
| `Startup`, `LedgerAppend`, `RecoverCursor` | `startup`, `recover_pending_slice` |
| `ReadWatch`, `WatchMalformed`, `WatchLedger`, `WatchCursor`, `WatchDone` | `_ingest_watch_journals` |
| `Insufficient`, `AbortSlice`, `JournalCorruption`, `CommitMkdir`, `CommitManifest`, `LedgerAppend`, `CommitCursor` | `cut_slice`, steps a to f |
| `IncBatchNumber`, `FirstState` | the rest of `tick` after a slice |
| `Mount`, `CascadeSpend`, `CascadeDone`, `CascadeFails`, `CostGuard`, `SetHalt`, `PassK`, `Wait`, `Ready`, `ReadyFlag` | `_advance_batch` and the stage methods |
| `ClearHalt` | `icepick batcher clear-halt` |
| `RepairNumbering`, `RepairState` | external: what the operator does when startup refuses, or a batch has no state |

A row is its own content hash, a uid is the pair of source and statement, the
statement key is the normal form. `Verdict` is the collision matrix: the check
against the slice in the making (`_intra_check`) before the check against the
ledger. `Scan` describes the loop of `cut_slice` by the one set of lines it
accepts.

### BatchStages

| Variable | Code |
|---|---|
| `st`, `runDir` | `state.json`: `state`, `mount_run_dir` |
| `runs`, `marker` | `intake/runs/*`, `MOUNT_VERIFIED` |
| `corpus`, `cman`, `pman` | `final_corpus.jsonl`, the two manifests; `"torn"` while written in place |
| `pc`, `attempt`, `child`, `exit` | the daemon, blocked in `subprocess.run` or not; `with_retries` |
| `kids` | live child processes and what they have written; orphans stay after a kill |
| `foreign` | cascades and pass@k runs of other people |
| `blame` | history: something other than a kill of the daemon failed |

`MountStart`, `Start` and `Retry` launch a child; `MountMkdir`, `MountRecords`,
`CascadeCorpus`, `CascadeManifest`, `PassKManifest`, `KidEnds`, `KidPaused`,
`KidDies` are its writes and its end; `MountMarker`, `CascadeJudged`,
`PassKJudged` are what the runner does with the result. The look at the slot
and the launch that follows at once are one step; between two attempts there is
no look, as in the code. A restart takes longer than the second of a run id.

### PassK

| Variable | Code |
|---|---|
| `cache`, `cacheTorn` | `_progress/llm_cache.jsonl`: its readable lines, and whether its last line is torn |
| `done`, `doneTorn` | `_progress/records_done.jsonl`, likewise |
| `marker`, `out`, `manifest` | `INCOMPLETE`, `pass_at_k.jsonl`, `pass_at_k_manifest.json` |
| `memCache`, `memDone` | the indexes `PassAtKCheckpoint` loads once and keeps |
| `work` | the futures of the pool: where `_score_record` is with a record, its samples so far, its row |
| `pc`, `rows`, `interrupted` | the main thread of `run` |
| `billed`, `accidents` | history: answers paid for; kills and failures that may cost some |

`Start` is `run_passk`'s look at the manifest and `run` up to the loaded
checkpoint; `Begin`, `Consult`, `Answered`, `CallFailed`, `Commit` are
`_score_record` in a thread; `WriteFails` an append that raises, perhaps half
way; `Interrupt`, `Finished`, `Drained`, `Raised` are Ctrl-C and the ways out of
the loop over the futures; `EmitOutput`, `EmitManifest`, `Exit` the end; `Kill`
the end anywhere, with one append cut short at most. An append after a torn line
is glued to it and neither is ever read. A cache key is a statement and a sample
number, and two records may share a statement, so that two threads can pay for
one key. An answer is right or not; `""` is of the second kind, and a hit.

### Acquire and Handoff

| Variable | Code |
|---|---|
| `job` | the approved manifest: adapter (`realmath_scrape`, `arxiv_bulk`, `flow_testing`) and extraction mode |
| `pc`, `m` | the process: `scrape` or `_bulk_acquire` with its page size, counts, candidates, surplus |
| `chunk`, `asked` | the chunk in hand; the answer that has come and is not in the cache |
| `marker`, `rows`, `done`, `cache`, `stamp` | `INCOMPLETE`, `candidates.jsonl`, `papers_done.jsonl`, `qa_cache.jsonl`, `rate_limited_at` |
| `journal`, `tars`, `oai` | `chunks_done.jsonl`, `_chunks/`, cached OAI pages |
| `out` | handoff, surplus, skipped chunks |
| `paid`, `excused`, `billed`, `missed`, `twice`, `corrupt` | history |

| Actions | Code |
|---|---|
| `Start`, `Replay`, `Elapse` | `run`'s gates, `ScrapeCheckpoint._load`, `begin`; the fixture; the cooldown |
| `Query`, `ApiPaper`, `ApiFetch` | the paging loop of `scrape`, page size and back-off, `latex_extractor` |
| `Index`, `NextChunk`, `Download`, `BulkPaper`, `BulkFetch` | `CategoryIndex.build`, the chunk loop, `ChunkStore.fetch` |
| `Ask`, `Remember`, `CommitRows`, `CommitPaper`, `Keep` | `qa_extractor`, `caching_generator`, `commit` (two appends), the caps |
| `Mark`, `Release` | `_ChunkJournal.mark`, `ChunkStore.release` |
| `WriteHandoff`, `WriteSurplus`, `Finish` | `write_run`, `mark_complete` |
| `Pause`, `Kill` | `KeyboardInterrupt`, the end of the process |

`Handoff` has what is a function: the planner's estimate, `normalise` with its
quarantine and reference guard, the surplus pool, which papers of a listing are
considered, `Selected` (what an uninterrupted run picks) and `ChunksForIds`.
Papers are numbers, in the order of their ids; `rows` has the lines of each
paper in the order they were appended, which is all that `_load` reads off the
file. `Normalise` is a recursive function over the rows, and `Picked` the
sublist at a set of places, since the prover knows nothing of folds and of
`SelectSeq`. A theorem is known by its paper and its place in it (`Place`),
because a paper can state one twice.

### Judges, Cascade and Pipeline

`Judges` has the vote rules of both posers (`Corroborate`, `CodexStatus`), what
they settle without a judge (`CodeStatus`), the vote on a paper (`PaperStatus`)
and the policies (`Admits`, `Combined`). `Only` is the sublist a filter keeps, as a
recursive function, since the prover knows nothing of `SelectSeq`.

`Cascade`: `m` is the memory of the cascade and of the poser it runs; `cache`,
`torn`, `raw` are the judge caches, those that end in a cut line, and the output
files of each attempt directory, which an earlier invocation may have left; `norm`, `passed`,
`flagged`, `final` the results. `Launch`, `Settled`, `Served`, `Call`, `Store`,
`Conclude`, `WriteOut`, `SaveCache` are the poser; `Collect` the adapter and the
retry; `Settle`, `WriteCorpus`, `WriteManifest` the merge and the end; `Crash` is
a poser that dies with nobody reading its exit code, `Kill` the whole group, and
`Dying` what either leaves of the file being written. The Codex poser saves its
cache at the end and never starts again on a cut one. The Claude poser pays
(`Call`) and then appends (`Store`); its loader skips a cut line, which swallows
the line appended to it next, so that a death between payment and append costs
up to two replies: `bill` and `cuts` count both, as history. Every record has a
statement of its own here (two with one statement share the lines of the cache).

`Pipeline`: `found` and `gtcache` are the verdicts of this invocation and of the
cache file; `outputs` what each combo has written; `store` what pass@k has
committed; `published`, `admitted`, `scored`, `corpus` the files between the
stages. `Lookup` ends in any order, `PersistCache` comes after all of them;
`Poser` and `PoserDies` end in any order; `Pause` leaves a partial file that the
pipeline goes on with. `Interrupt` is a kill, `Resume` the same command after a
stop. Where the two modules would use one name for two things (the place in the
program, the outputs, the final corpus) they use two, so that one module can be
about both.

### EvalSet and Dataset

| Variable | Code |
|---|---|
| `landed`, `making`, `evalset`, `trainuids` | the tiers there are; `build_eval_set` and its two files |
| `todo`, `input`, `store`, `greedy`, `report` | `run_eval`: models left, the input of the subprocess, finished records per role directory, copied outputs; `report` |
| `rollouts`, `written` | the rollouts logs, last line per rollout; every line ever written |
| `pc`, `trains`, `evals`, `examples` | what `build_dataset.build` has read and made |
| `dataset`, `manifest`, `everTrained` | the published files; history |

`WriteEvalSet`, `WriteTrainUids`, `CutSetBuild` rewrite two files in place;
`StartEval`, `ScoreOne`, `CopyGreedy`, `StopEval`, `Report` are the evaluation.
`ReadTrainUids`, `ReadEvalSet` with `Accepted` are the guards in the order of
`build`; `HarvestTraces` reconciles each record with its one authoritative
rollouts file and applies the weight policy; `PublishDataset`, `WriteManifest`
the rename and the manifest. `UseRuled` is the operator who puts the ruled
split's list in place; `Append1` a pass that samples a rollout again under its
old id.

### V3 and Publish

`sol` is the solutions file and the version its manifest records, per lane
(hinted, anchor); `rollouts` the samples that arrive; `dirs` the requested
directory and its `__N` siblings for both bundles and the data set; `job` the
command that runs on each. `Mine`, `Record`, `Sample` are upstream;
`MakeRegenBundle`, `MakeAnchorBundle`, `ReadBundle`, `LoadRollouts`,
`HashRollouts`, `BuildHinted`, `LoadAnchors`, `BuildBoth`, `Refuse` the three
commands; `Resolve`, `Return`, `MakeDir`, `Replace`, `OpenManifest`,
`WriteManifest`, `Kill` the publication all three share.

### Weights

`gguf` is the version at the path of the file, `out` the converted directory,
`conv` the conversions with their own temporary directories, `receipt` the last
receipt of `verify_base_identity`, `check` what its second mode has compared and
not yet hashed, `gate` and `gateReport` the parity run. `Hash`,
`Open`, `Refuse`, `WriteShard`, `WriteRest`, `WriteDequantManifest`, `Replace`,
`Abort`, `KillConversion` are `convert`; `Fetch` and `Damage` the world;
`VerifyDequant` the check of a directory; `CompareFp16`, `VerifyFp16` and
`AbandonFp16` the check of a configuration, which reads the header and opens the
file again to hash it; `StartGate`, `Call`, `CallFails`, `Finish` the gate, which meets any model at each call. A tensor is
its name and the version it came from. A name of the directory is its place in
the order of all names, and `Shards` packs the names one after another (`Pack`)
as `shard_tensor_names` does, over the sizes the header gives.

### Trainer, Upload and Remote

`Upload`: `guard` is what a guard has validated and not yet receipted, `config`
and `receipt` the files beside the data set, `copying` the scp, `remote` what is on
the box, `trainer` what a trainer has hashed and not yet read. The rows a program
reads and the file it hashes may be two versions; `raced` records that. A v3 data
set is checked against the v3 split, any other against the eval set and its split
(`Outside`): a plain row may be on the eval side of the v3 split.

`Remote`: `box`, `base`, the `loop`; `adapter`, `tmp`, `lines`, `final`,
`manifest`, `told` are the adapter directory, the converted `.tmp`,
`artifact_shas.txt`, the published file, `run_manifest.json` and `status.json`.
One action is one command of `run_remote_train.sh` or one write of the trainer;
`set -e` ends the loop where a command fails. `Arrive`, `Provision`, `Smoke` are
the operator. `SameBaseScheme` is `--compare-runs`.

## 3. Runs

| Run | Expected | What it shows |
|---|---|---|
| `batcher` | pass | With one kill anywhere, restarts, repairs, both journals growing meanwhile, replays, variants, conflicts, malformed and corrupt lines: the safety of `Batcher`, and that it implements `BatchQueue` |
| `batcher_lost_row` | violation | Rows read by a tick that found too few are skipped for good by the next save of the cursor |
| `stages` | pass | One batch with two kills that leave orphans, failures of every child before every write, retries and a foreign process: evidence, paid once, kills resume, the batch ends |
| `passk` | pass | Five records (labelled, unscorable, two with one statement, one alone) in a pool of two threads, run again after any two troubles |
| `acquire` | pass | Six papers by API or bulk, with or without questions, or a fixture; a kill, a Ctrl-C, a fault, and a budget that runs out, run again until complete |
| `cascade` | pass | A strict Codex stage and an advisory Claude stage over three records, retries, a judge that passes or errs, a poser that dies and a kill, each of which may cut the file being written; under fairness |
| `pipeline` | pass | Both orders, every policy, with and without pass@k: three records, three posers of which any may die, pauses, kills and the command run again |
| `dataset` | pass | The eval set rebuilt as tiers land and cut by a kill, a pass that samples again, training sets built and rebuilt, models evaluated and reported |
| `v3` | pass | Solutions mined again, samples arriving while they are read, three commands side by side, killed and run again |
| `weights` | pass | Two conversions that race for one directory, a file that may be exchanged at any point, a directory that may be damaged, both checks and their receipts, and the gate in every mode against a server that may be exchanged |
| `upload` | pass | Data sets replaced while the guard validates, writes and copies; copies cut and repeated; a trainer reading what is on the box |
| `remote` | pass | The loop over two seeds with kills before every step, files and base weights that change, smoke runs, and the comparison with other manifests |

| Property | Says |
|---|---|
| `NoDuplicate` | no record enters two batches, one batch twice, or a batch when history or the watched run has it |
| `Settled` | outside a commit and a recovery, ledger and saved cursor cover every committed batch |
| `LedgerBeforeCursor` | the saved cursor passes a committed row only when the ledger has it |
| `OneInFlight` | an unfinished batch is the highest-numbered one |
| `StageOrder` | one stage at a time, oldest first, never back, kills included |
| `RefinesQueue` | the daemon implements `BatchQueue` |
| `IndInv` | the inductive invariant of `BatcherProof`, with what it says of the two copies of the queue file |
| `NoLostRow` (refuted) | no row that could be batched is behind the saved cursor without being in a batch or the ledger |
| `StageEvidence` | a stage's state only with a verified handoff, a complete manifest under the limit, an uninterrupted pass@k |
| `CascadeNotRepaid`, `PassKNotRepeated` | each paid stage implements `PaidStage` |
| `KillResumes` | from the verified mount on, a kill alone never freezes a batch |
| `Finishes` (`stages`) | every batch becomes READY or FROZEN |
| `KillCost` | answers paid for and not in the cache file are at most those in flight at each kill or failed write, one more each for a glued line, and one rollout of each record that shares its statement |
| `ScoreFromSamples`, `ScoreKept` | a committed score has no failed call in it, is the tally of the cached answers, and is never made anew |
| `ManifestTold` | `interrupted: false` stands beside a whole output with every record and every committed score |
| `IsPaidStage` | the process is the `PaidStage` that `BatchStages` takes it for |
| `NeverStuck` | the main thread or a thread of the pool can always go on |
| `AsUninterrupted` | a complete run hands off the rows one uninterrupted run over the same listing would |
| `NeverOnTheFloor` | a row that was mined is in the handoff or the surplus, or was quarantined |
| `PaidOnce` (`acquire`), `BilledOnce` | no answered generator call and no egress is paid twice, over all invocations |
| `ChunksGone` | a complete run leaves no chunk, and there is never more than the one in hand |
| `Converges` | running the same command again gets to a complete run |
| `FailClosed` | no record passes a stage, the advisory ones included, that never had an opinion of it |
| `RepliesKept` | what the Claude poser paid for stands in a cache the next invocation reads, but for two replies per death between a payment and the end of its append |
| `Finishes` (`cascade`) | the cascade comes to its end |
| `FinalEarned` | a record of the final corpus was published, admitted by the policy and labelled, whichever invocation wrote which file |
| `VerdictStands` | no later invocation replaces a paper's cached verdict |
| `HeldOut` | nothing of an eval paper is trained on, and nothing that stands in the eval set or that the last report counted ever was |
| `Traced` | every example is a verified rollout of the one file its record's score came from, as many as the policy gives |
| `Accountable` | a regenerated data set is what its manifest says: solutions, bundle, first samples to verify, no eval row |
| `ImplementsPublish` | a complete publication is never touched |
| `OutStands` | the converted directory appears once, complete, of one file, and then only damage changes it |
| `ReceiptTrue` | a verified receipt is about a directory with the tensors, shards, index and configuration of the pinned file; that of a configuration alone is about the fields it was compared in; but for a file exchanged between a program's two opens |
| `GateTrue` | a PASS of the raw channel is about weights that generate what the pinned file generates |
| `TrainedClean` | an adapter is trained on verified rows disjoint from the evaluation its data set is checked against: the v3 split, or the eval set and its split |
| `DoneIsWhole` | a seed that a rerun skips, or that the status calls done, has a whole adapter under its name and its one hash line |
| `Comparable` | two manifests that match come from base weights of one kind, and where both name it from one source |
| `Finishes` (`remote`) | once the files stay consistent, every seed gets published |

Every property of a passing run has a mutant: a plausible bug in one definition of the model
with which TLC finds the property violated under the same configuration. The
mutants stand in the modules just before the definitions they replace
(`VerdictLedgerOnly`, `AdoptedNever`, `FirstOf`/`LastOf` and so on).

**Bounds.**
* `batcher`: slices of 2, two batches, journals of up to 6 lines of seven shapes,
  one for each row of the collision matrix, one kill. Two batches are the least
  for which order and duplicates across batches mean anything; one kill and the
  restart after it reach every partial commit; the proofs have no bounds.
* `stages`: three attempts (the code's `max_attempts`), two kills, so that a
  restarted daemon is killed beside an orphan, one foreign process.
* `passk`: two threads, the least for which one record fails while another is in
  work; two rollouts, the least for a kill between two samples; two troubles, the
  least for a torn line and the kill after the append glued to it.
* `acquire`: the papers are one each of what the filters tell apart (wrong
  category, repeated id, repeated title, excluded, absent from its tar), the
  theorems one each of what `normalise` tells apart; three chunks, a page size
  that can be halved once; a budget exactly at the estimate, so that it runs out
  as soon as a stop or a fault costs a call. One kill, one pause and one fault in
  any order: every stop meets every file an earlier stop left. The pages reach the
  end of the listing however they are throttled (`PagesAreABackstop`).
* `cascade`: one stage of each build, one strict and one advisory; a record
  the judge decides, a dangling one that the strict stage drops, a bare one that is
  an error at every attempt; one retry; one kill and one crash, after which a
  second run appends to the line the first one left cut (with a bound of one reply
  per death TLC finds that trace). Two samples with an uphold of one: of two
  passes, two errors and one of each come all three outcomes that the code treats
  apart, a pass, an error and an opinion against the record, with two replies; a
  third reply that flags multiplies the states of the temporal check by ten.
* `pipeline`: two records of one paper and one without, three posers, the least
  for a majority; one kill and one pause.
* `dataset`: a record whose paper is known only in a second tier, one from the
  backfill, one scored from another file than its own; one append, one kill.
* `v3`: two versions of the solutions in each lane, among them one with an eval
  uid and one with a leaking statement; two samples of a record, one of them
  late; two directories of each kind; one kill. `weights`: three tensors in two
  shards, three versions of the file, two configurations, one damage, kills without
  a bound. A state constraint (`Apart`) keeps apart what never waits for each other:
  two conversions race only before the first receipt, and a configuration is
  compared and the gate runs only while no conversion does.
  `upload`: a clean, a plain and a leaky data set; nothing is bounded. `remote`:
  two seeds, two kills, three changes of files or base weights.

**Fairness.** `Batcher`, `PassK`, `Pipeline`, `Dataset`, `V3`, `Weights` and
`Upload` have only safety properties and no fairness. `BatchStages` assumes weak
fairness of the daemon (armed, it ticks for ever, and it is started again after a
kill), of each child (each is started with a timeout, and its calls have
timeouts of their own once it is an orphan) and of the end of foreign processes;
kills and foreign processes are finitely many. `Acquire` assumes that a process
goes on (HTTP calls have timeouts), that the person runs the command again as
the pause message says, and that a cooldown ends. `Cascade` assumes that the
process goes on; it starts the posers without a timeout, but their requests have
one. `Remote` assumes that the
loop goes on and is run again; its `Finishes` is about the executions in which
the files stop changing. `PassK` has no liveness property because between two
troubles no state of a run comes back: every action takes a record or the main
thread one place further, so a run ends if only it can always go on, which is
`NeverStuck`.

## 4. Proofs

| Module | For every | Proved | Assumes |
|---|---|---|---|
| `BatcherProof` | journal, history, slice size, number of batches and kills | `TypeOK`, `IndInv`, `Settled`, `LedgerBeforeCursor`, `OneInFlight`, `StageOrder`, the queue file in step; under `skip` and `abort` also `NoDuplicate` and `RefinesQueue` | `ConstantAssumption` |
| `BatchStagesProof` | number of processes, run directories, attempts, kills, foreign processes | `TypeOK`, `IndInv`, `StageEvidence`, `KillResumes`, `CascadeNotRepaid`, `PassKNotRepeated` | `StagesAssumption` |
| `PassKProof` | input, number of rollouts, pool, number of troubles | `TypeOK`, `ScoreFromSamples`, `ManifestTold`, `ScoreKept`, `IsPaidStage`, `KillCost` | `PassKAssumption`, `NoneAssumption` |
| `AcquireProof` | listing, chunks, caps, page sizes, budget, generator, number of stops | `BilledOnce`, `PaidOnce`, `ChunksGone`; `AsUninterrupted` and `NeverOnTheFloor` where `PagesReach` holds | `JobsAssumption`, `NoTheoremAssumption`, `BudgetAssumption`, `PapersAssumption`, `CapsAssumption`, `ListingAssumption`, `PagesAssumption` |
| `ProcessingProof` | input, stages, classes, samples, replies; papers, fleet, policies, labels; number of kills, crashes, pauses | `FailClosed`, `RepliesKept` of `Cascade`; `FinalEarned`, `VerdictStands` of `Pipeline` | `InputAssumption`, `VotesAssumption`, `StagesAssumption`, `ClassAssumption`, `FleetAssumption`, `ScoresAssumption` |
| `V3Proof` | solutions, samples, directories, number of kills | `ImplementsPublish`, `Accountable` | `SlotAssumption`, `VersionAssumption`, `RecordAssumption`, `SplitAssumption` |
| `TrainerProof` | data sets, receipts, splits; seeds, files, base weights, other manifests, number of kills | `UploadTypeOK`, `TrainedClean` of `Upload`; `TypeOK`, `DoneIsWhole`, `Comparable` of `Remote` | `SplitAssumption`; the assumptions of `Remote`, `SchemesAssumption` |
| `TrainingSetProof` | tiers, splits, papers, policies, rollouts, appends; files, names, sizes, sidecars, conversions, damages, prompts, models | `HeldOut`, `Traced` of `Dataset`; `GateTrue`, `ReceiptTrue`, `OutStands` of `Weights` | `TiersAssumption`, `PapersAssumption`, `RuledAssumption`, `PassAssumption`, `RankAssumption`, `PolicyAssumption`, `RoutedAssumption`; `PinnedFile`, `NamesAssumption`, `ModesAssumption`, `AliasAssumption` |

None of the safety properties is inductive alone. Each proof has an inductive
invariant (`IndInv`, or one named for its subject), one lemma for each action or
for each conjunct, and a last step that puts them together. Induction over data
is out of the prover's reach as a rule about operators; where a sequence or a
file is built up, the proofs take the least number at which a claim fails
(`LeastNat`, from the well-foundedness of the naturals) and lead it to a
contradiction.

*Batcher.* `Settled` speaks of states outside a commit; to survive a kill and a
restart it needs to know which batch the kill left uncovered. `Recoverable`:
only the highest-numbered batch can be uncovered, and only during a commit, a
recovery or while down. `Numbering` and `Working`: the batch the daemon works on
is the highest, and its manifest, state and cursor are as far as `pc` says.
`Cursors`: the saved cursor is never ahead of the one in memory. `Manifests` and
`LedgerRows`: a manifest names rows of the journal, a ledger row's key is that
of its statement. The second argument, for `NoDuplicate`, starts from
`FreshSlice`: `Verdict` keeps every record that clashes with the ledger or the
slice so far out of a slice (`ScanIsFresh`), and while a slice is cut all earlier
ones are in the ledger (`CommittedIsKnown`). From there `UniqueKeys`, that no two
committed or recorded rows of different batches share a normal form, is kept by
every step. The refinement follows: `CommitManifest` is the abstract step that
puts a batch out, a ledger row of the watched run the step that takes a record
elsewhere, every other action stutters.

*BatchStages.* A restarted daemon knows only the directory, so the invariant ties
directory, processes and state together. `Mounts`: a run directory is written by
one mount and a marker names a whole one. `Single`: at most one process of a paid
stage, orphans included, and it is done exactly when its manifest is.
`CorpusFirst`: no complete manifest without the corpus. `Waits`: what a daemon
that waits, or has been told an exit, may conclude. `Evidence`: the states with
what they need. The two refinements follow from `Single` and from the slot check,
which finds the orphan.

*PassK.* That a committed score is the tally of the cache file is a fact about
two files which no step writes together: answers go into one, an hour later the
row into the other, and a kill, a torn line or another run may come between.
`Loaded`, `FutureTold`, `DoneTold` and `Emits` tie them by way of memory. The
lemma with the argument in it is `AnsweredKeeps`: the answer enters the index
under a key that neither index nor file had, so no tally taken earlier changes;
if it is glued to a torn line the file lacks the sample, and the property claims
nothing of a record with a sample missing. `TallyCounts` is the count, by a
bijection between samples and cached answers. Everything that ends the process is
one lemma (`GoneKeeps`).

`KillCost` bounds a sum over the whole history, so `Covered` keeps an account of
it: answers billed, a torn line, and the calls in flight that are already in vain
(`Early`) are at most the price of the accidents so far and the answers the
cached samples entitle the records to (`Entitled`). A kill moves what is in
flight from one side to the other, and the pool is the most there can be; a
failed write likewise, for one call. The two sides are counted by maps between
the sets.

*Acquire.* What was billed is in a whole tar or in the journal (`Delivered`), what
was paid is in the cache or in hand (`Due`); a download is only under way for a
chunk that is in neither (`InHand`). For `ChunksGone`: every invocation of a bulk
run walks the same list of chunks (`Needed`), and the journal is the first k of
them. `Count` says that the candidates at any point number what the papers
visited offer (`Offered`, at most `MaxPerPaper` rows of each), since what a paper
yielded is read back when it is done. Of a chunk that was passed this is less
than the target, and no paper of it is committed later, so a rerun passes it
again (`OnDisk`): it comes by the last journaled chunk, which the stop may have
left on disk, and releases it. If the target is reached there, the one after it
was never opened; if not, it becomes the chunk in hand.

`AsUninterrupted` compares the handoff with one computed from the constants,
what the miner and the generator yielded (`Yield`), and the chunks the run
skipped. Its inductive invariant is `RetraceInv`: whatever the checkpoint has, a
process starts with nothing passed, and what it has passed at any point
(`Passed`) is a first part of the path of an uninterrupted run (`Mined`), all of
it done; its candidates are the rows of that part, capped, up to the target
(`Tally`). That this survives each step needs: where in the listing or in the
chunk the process is, in terms of what is left of the page (`ApiWalk`,
`OnPage`), so that pages of changing sizes neither overlap nor leave a gap; that
what is done has the rows its theorems yield, so that reading them back and
mining them is the same (`AllThere`, and `Mining` for the paper in hand); and
that a journaled chunk, whose bytes are gone, offers the rerun all it needs:
each of its papers is done, or what precedes that paper reaches the target
(`Journaled`). A loop that is not broken off ends at the end of the path or with
the target reached, and either is what the uninterrupted run has (`Ending`). For
`NeverOnTheFloor`, `FloorInv` adds that a paper has rows only when all before it
on the path is done and falls short of the target (`InTime`): so every later run
passes it too, and what it passes is a candidate or in the surplus. `normalise`
is the last step of both; of it the proofs need that it keeps what it accepted
and that every row is in the end accepted, quarantined or a repetition. The two
theorems have a hypothesis that the code does not enforce, `PagesReach`: as many
pages as `_MAX_PAGES` (`allocation/scrape/realmath.py:77`), each of the smallest
size (line 69), reach the end of the listing or the cap of papers. Otherwise the
backstop ends a throttled run at 2,500 listed papers and one without faults at
5,000, and TLC does find the property violated with `MaxPages = 1`, which
`MCAcquire` (`PagesAreABackstop`) does not let pass. What a stop between the two
appends of a commit doubles is exempt (`twice`), and of `NeverOnTheFloor` also a
run with a corrupt chunk (`corrupt`).

*Cascade.* A status other than an error, in memory or in a file of whichever
invocation, stands behind an opinion (`AllBacked`), and no step takes an opinion
back; the lists of the stages only ever lose records that failed. What the
Claude poser paid for is in a cache that can be read, in hand, or charged to a
death (`Account`). While it scores it remembers all that its cache can be read for
(`Remembered`), so an append is always of a new line; and each cache with a cut
line keeps one of the two replies of its death in reserve, for the append that
will be glued to it (`AllKept`).

*Pipeline.* Every file between the stages is the sublist of the input whose records
have earned their place in it (`Earned`), whichever order the stages have, and no
step takes back an uphold, a pass of a poser or a label. While the lookups run,
memory agrees with the cache on every paper that is asked for (`Looked`), so
writing the cache back replaces no verdict.

*V3.* A whole manifest stands beside its file (`WholeIsComplete`), and a command
between `Resolve` and its end works on a directory without one (`Writing`); so
the only step that completes a directory starts from an empty one. For
`Accountable`, `Building` follows a data set through the command that makes it:
what was read of a lane are lines that are still there, of solutions that passed
the guards. The lemma with the argument is that lines appended later leave the
first lines of each record as they are, so a data set stays what its manifest
says while the logs grow.

*Upload.* Whatever vouches for a data set (the guard, both receipts, the trainer)
has seen it validated or is known to have raced with a replacement (`Vouched`).
This needs that both validations exclude the evaluation rows, which for anchors
is the assumption that the train side and the eval uids are disjoint.

*Remote.* What was published once has its entry and its line for good, and the
seed in work is not published (`InWork`), so no rerun works on a published one.
`Comparable` needs that every manifest entry is honest about its base weights
(`BaseInv`): from the check of the directory until the entry is written,
configuration, directory and adapter agree, although either may be exchanged
before the check or after the entry.

*Dataset.* The two lists are cut from all tiers that have landed, and tiers land
between two cuts, so `HeldInv` follows each list to every place its uids can get
to and needs one fact about tiers: the row that decides for a uid is the first
one, and no later tier changes it. Hence both lists are parts of two sets that
are fixed and disjoint. `TraceInv` ties examples to every line ever written
(`written`), since the logs themselves may have changed. That a record has as
many examples as its policy says is a bijection between the rollouts the cap
keeps and their ranks.

*Weights.* The gate: the calls answered so far determine the results (`Running`),
so a PASS has compared every anchor. The directory: packing loses no name, keeps
the shards apart and starts a new one in time (`ShardsArePacked`), hence the
index finds each tensor in one shard, and a conversion that is under way holds
exactly the first shards of the file it opened (`Sound`). The manifest goes in
last and tells what was converted; it records a whole directory of one file
whatever is damaged afterwards (`Recorded`). A check that passes compares the
directory with its manifest and the manifest with the pin, so the receipt is
true of the pinned file. `Replace` alone brings a directory there. A check of a
configuration whose file was not exchanged since has compared the fields of the
file that is there (`CheckTrue`), and that is the pinned one when its hash is.

**Only model-checked.** Liveness (`Finishes` three times, `Converges`) and
`NeverStuck`, which speaks of ENABLED: the prover does neither.

## 5. Where the code and its words differ

One disagreement is a run of its own, `batcher_lost_row`. Others the models
follow as the code has them:

* a kill between the mkdir of a batch and the increment of the number makes
  startup refuse (`batcher/daemon.py:834`; its lines 3-4 promise a clean resume);
* later batches are cut and dispatched past a frozen one (`daemon.py:791`,
  against `docs/bulk_batcher_design.md:132-133`);
* under policy `allow` a statement enters two batches (`slicer.py:183`, against
  "ZERO record duplication" at line 9);
* the slot is not looked at again between attempts (`daemon.py:612`, against
  `stages.py:651-654`);
* after a torn line the first answer of the next pass@k run is lost too
  (`processing/pass_at_k/checkpoint.py:97`, against lines 18-19), and a record
  with a failed call is labelled in a run that counts as complete
  (`runner.py:179`, against lines 33-37);
* paging is charged to the budget in every invocation, so a small budget never
  gets past it (`allocation/scrape/realmath.py:301`, against lines 166-168), and
  a failed generator call is never retried (`realmath.py:896`, against
  `checkpoint.py:154-155`);
* `arxiv_bulk.py` lists the chunks anew (line 587), so a kept one that is no longer
  needed stays in `_chunks/` (against line 699);
* the cascade merges the output an earlier invocation left in a retry directory
  (`processing/poser/cascade.py:407`, against lines 16-19);
* a paused pass@k leaves the pipeline with a partial corpus and exit code 0
  (`processing/pipeline.py:150`, against `cli.py:1197-1198`);
* the docstring of `claude_adapter.py` (line 20) maps `insufficient_context` to
  `defer`, the code (line 58) to `ill_posed`;
* timed-out samples "become error votes" (`judge_providers.py:31-32` of the Codex
  poser), but a failed request ends the process.

## 6. Not modelled, and why

* **No state, or text only**: configuration and `STATUS.md`, `events.jsonl`, proof
  mining, regular expressions over TeX, the symbolic verifier, prompts and parsing
  of replies, `agent`, `llm_hosts`, `contracts`, the local training wrappers, the
  scripts of single campaigns.
* **Numbers**: dequantization and the comparison of tensors, token usage and
  prices, the McNemar and Wald arithmetic of the report, the training itself.
* **Data**: the XML of the S3 manifest, the tar reader, shape checks of rows
  (a row of the models has the shape), the legacy anchors of the blend (their
  share is 0 in every configuration there is).
* **Torn appends** outside pass@k and the posers: lines are atomic in `Batcher` and
  `Acquire`. The design of the append-only files is the same in all; `PassK` and
  `Cascade` model it. There a cut line is one that cannot be read; a line that
  lacks its newline only is read once more and lost with the next append, which
  comes to the same two lines.
* **Loss of power**: the code syncs the ledger only; the models kill processes.
* **Two of the same program** where nothing but the operator forbids it: two
  daemons, two builders of one data set, two loops on one box.
* **Windows the code cannot see**, exempt by a history variable where a property
  would fail for that reason alone: a file exchanged between two opens of one
  program (`raced`: in `Weights` between hash and conversion,
  `gguf_to_hf.py:1404` and `:1412`, and between header and hash,
  `verify_base_identity.py:1337` and `:1345`; in `Upload` between validation and
  hash), the commit of a paper cut between its two
  appends (`twice` in `Acquire`). In `V3` the read of the solutions and their hash
  are one step (`v3.py:1890` and `1895`, `2042` and `2053`), and so are those of the
  reference data set (`v3.py:2034` and `2035`).

Hazards beyond those of `PROJECT.json`, which no model is about: the spend is
saved before the state, so a kill counts a cascade twice (`daemon.py:618`); the
batch is frozen before the queue is halted (`daemon.py:636`); READY is written
before its flag (`state.py:165`); a torn ledger line takes the next row with it
(`ledger.py:177`); the backfill appends without the daemon's lock
(`backfill.py:168`), which is unlinked after its release (`daemon.py:262`); an
unreadable `queue_state.json` counts as absent (`daemon.py:112`); a journal line
that is JSON but no object ends the daemon (`daemon.py:468`); a paused pass@k and
a timeout are not transient (`stages.py:735`); run ids have a precision of a
second (`manifests.py:27`); an old PASS receipt stays when a later check fails
(`verify_base_identity.py:1159`); the chat channel alone always passes
(`verify_dequant_parity.py:966`); a smoke run takes any seed, a real one too
(`train_qwen3_lora.py:265`); nothing keeps a second loop from starting
(`run_remote_train.sh:151`); `base_manifest_sha256` is recorded and never compared
(`upload_guard.py:632`); a kill between data set and manifest leaves the old
manifest beside the new rows (`build_dataset.py:2122`); seeds finished under an
earlier run configuration are skipped under a new one. Of these the models do
contain the order of spend, state and halt (`Batcher`, `BatchStages`), the flag
(`ReadyFlag`), the chat channel (`AllEqual`), the old receipt (`Receive`), the manifest (`Dataset`) and the skipped seeds
(`Remote`).

What would come next: a module of the append-only files with torn lines for the
ledger and the acquisition checkpoint, and the daemon's lock with two daemons and
the backfill.
