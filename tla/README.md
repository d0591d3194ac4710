# TLA+ models of RegexNet

These modules model the adaptive ReDoS defence in `src/source`. It has three processes:

- the **detector** (`detector/detector.py`) scores live request lines;
- the **data manager** (`data_manager/data_manager.py`) ingests labelled reports, retrains and publishes the model;
- the **adversary** (`adversary/adversary.py` with `adversary/attacker.py`) searches for evasive payloads and replays them.

The processes share no memory. The data manager and the detector interact only through two files: `model_path`, written by `torch.save`, and `flag_path`, a readiness marker whose mtime the detector polls. The adversary and the replay client talk over local TCP ports 9100 and 9101. All of them go through the classifier library `classifier/` (codec, dataset, CNN with spatial pyramid pooling).

## Inventory

| Part | Source | Module | Status |
|---|---|---|---|
| Token codec | `classifier/data.py` 10-26 | `Corpus` (also `Pooling`, `Adversary`) | modelled |
| Corpus, batching | `classifier/data.py` 28-106 | `Corpus` | modelled |
| Scoring model shapes | `classifier/model_cnn.py`, `classifier/spp.py` | `Pooling` | partly: shapes only |
| Train and test step | `classifier/train.py` 64-86, `classifier/test.py` 31-80 | `Coordinator`, `Corpus` | partly: outcome only; `batchAccuracy` counts in `Corpus` |
| Retraining coordinator | `data_manager/data_manager.py` | `Coordinator`, `RegexNet` | modelled |
| Detector service | `detector/detector.py` | `Detector`, `RegexNet` | modelled |
| Adversarial generator | `adversary/adversary.py` 63-216 | `Adversary` | modelled |
| Payload handoff and replay client | `adversary/adversary.py` 219-262, `adversary/attacker.py` | `Handoff` | modelled |
| Offline CLIs | `classifier/train.py`, `test.py`, `train_and_test.py` | `Corpus` | partly: `OfflineDataset` loading and `test.test`; `train.train`'s loop is repeated `GetBalancedBatch` |
| Other attack clients | `attacker/*.py` | `AttackClient`, `MCAttackClient` | modelled: the paced loop and main's sleeps; the headers are left out |
| Dataset generators | `dataset/*.py` | `Corpus` | partly: the main loop, `'%d-%d.txt'` naming and `5-single-rescue.py`'s attack queue; request contents are abstracted to `Lines` (`create_request`'s layout is `MkRequest` in `Adversary`); `rescue_helper/` is not modelled |
| Socket test tools | `unit-test/*.py` | none | not modelled |

`PROJECT.json` lists the same components, every run, a mutant for every property of a passing run, the source lines of every definition, the findings, and the hazards at the line where each one bites.

## Modules

- **`Snapshot`** holds the shared encodings of the two files. `NoFile` means the file does not exist. `Partial` means `model_path` is being rewritten by `torch.save`. `None` is the detector's initial `flag_mdate`. Everything else is a model version, or an mtime in whole seconds.

- **`Coordinator`** models `handle_report` and `handle_training`.
  - State: the list lengths `data` and the remembered counts `last`; the program counter `cpc` of `handle_training`; the local `flag`; the in-memory model version; the two files; a wall clock in seconds.
  - Actions, in code order: `Report(c)` (lines 131-158: one connection, stored; or the thread ends when the single `recv(128)` of the metadata is short or runs into the payload; or it spins for ever, `rpc = "spin"`, when the peer closes before the newline), `Check` (189-195), `TestBatch` (196-202, with the window of `test_batch` 54-66 in `TestWindowOf`), `TrainBatch` (`train_batch` and `train_one_step`; an unchanged version is the NaN-loss skip), `SaveBegin`/`SaveEnd` (`torch.save`, truncation then contents), `Mark` (`echo finish > flag_path`), and `Tick`.
  - The accuracy test is a nondeterministic low/high outcome. The low outcome is bounded by `MaxVersion`.
  - Fault model: `Crash` kills the process at any step, `torch.save` included, and at most `MaxCrashes` times. It loses the lists, the counts, `flag` and the in-memory model. The files stay on disk, and the restarted process has a fresh `handle_report`.
  - `Restart` is `main` run again. `handle_training` `torch.load`s `model_path` when it is a file, and builds a fresh `Model` otherwise. A truncated file makes `torch.load` raise, and the training thread ends (`cpc = "dead"`). `handle_report` keeps running.
  - `Publication` is the abstract spec the coordinator promises:
    - the trainer's version grows by training;
    - publishing makes it the visible version;
    - a restart resumes at or past the published version.
  - `Coordinator` implements `Publication` through `Pub == INSTANCE Publication WITH trained <- model, published <- flagged`, checked as the property `PublicationRefined`:
    - `TrainBatch` is `Train` when the version changes;
    - `Mark` is `Publish`;
    - `Restart` from a file is `Resume`;
    - every other step stutters.

- **`Detector`** models the three threads of `detector.py`.
  - `Receive` is one iteration of `main`. `Disconnect` is the proxy closing the connection, also mid-frame: `struct.unpack` raises on the short read and `main` ends (`mpc = "dead"`).
  - `WaitCheck` and `WaitGet` are the wait loop at 81-82. `ReloadCheck` is 88-89, `Load` is 90, `Stamp` is 91, and `Drain` is 94-108, with `Classify` standing for `classify`. Each line has a length from `LineLengths`; `classify` pads a batch to its longest line, and when `Pooling`'s `Accepted` rejects that length `Model.forward` raises and `handle_request` ends (`dpc = "raised"`).
  - `Warn` is `handle_warning`, with `UniqueIdParses` standing for `http_get_unique_id`.
  - A request line is an id plus whether it carries `X-Unique-ID`. The classifier's guesses are nondeterministic.

- **`RegexNet`** composes the two modules with `INSTANCE`. The file variables are shared. The detector's steps leave them unchanged, because it only reads them.

- **`Adversary`** models one run of `generate_adversary` on a request built the way `create_request` builds it.
  - Characters are abstracted to a few tokens. `GetIndex`, `ScanRight`, `ScanLeft`, `GetMask` and `GetAttackContent` are recursive operators that translate the code, including Python's negative indexing and its `IndexError`.
  - `Fgsm` is one iteration of the search loop. `Project` is the projection back to characters, including the `IndexError` when a mask position lies past the unpadded string. `Content` is what `attacker.py` replays after `strip()`.

- **`Pooling`** holds the shape arithmetic of `lineToTensor`, `conv1` and `SPPLayer` as operators. `Detector` instantiates it with the model's constants (3 levels, block 32, kernel 64, stride 32).

- **`Corpus`** models the codec and `Dataset`, online and offline (`mode`).
  - Online actions:
    - `OnlineInsert` is `insertItem` from `OnlineDataset`;
    - `GetBalancedBatch` draws with replacement, then applies `polishBatch`.
  - Offline actions:
    - `script` is the dataset script that fills the folder: `1-single-constant.py`, `3-single-complex.py` or `5-single-rescue.py`.
    - `Generate` is one iteration of that script's `main`. It writes `FileName(index, label)`, malicious indices first. `MaliciousWritable` says whether the next malicious sample can be written, per script:
      - `1-single-constant.py`'s constant `Database-Key` always can be;
      - `3-single-complex.py` needs a draw in `ComplexAttackDraws`;
      - `5-single-rescue.py` takes one content from `attack_contents` (`attackQ`, filled once from the files of `resource/ua-parser-js`), and on an empty queue `get()` blocks.
    - `RaiseOnAttack` is `3-single-complex.py`'s nested `randint` raising `ValueError` (`ComplexAttackRaises`), which ends the script (`gpc = "raised"`).
    - `Load(name)` is `OfflineDataset`, with the label parsed by `ParseCategory`, in any `os.listdir` order. `CategoryOf` tabulates the parse once for every name a run can write.
    - `TrainStep` is one iteration of `train.py`'s `train()`: it starts once every file of the folder is loaded, draws a balanced batch and polishes it. The parameter update of `train_one_step` is left out. After `n_iters` steps, `SaveModel` is `torch.save`.
  - `TrainBatch` is `data_manager.py`'s `train_batch` drawing from an `OnlineDataset`; `Coordinator` models what the step does to the model.
  - The folder starts empty or holding the files of an earlier generator run (`PriorRuns`, its counts; `PriorFiles`). `main()` never empties it, and `open(path, 'w')` replaces only a file of the same name.
  - `Test` is `test.test`: it applies `getTestBatchList`, polishes each chunk, applies `batchAccuracy` with free guesses, and sums the counts.
  - `polishBatch` is a stable sort by length, written as recursive insertion, followed by zero padding.

- **`Handoff`** models the adversary's main loop and `attacker.py`.
  - The adversary side: `Generate`, `Notify` (`'%4d' % k` sent to port 9100), and `ModelReady` (a sample arriving on port 9101; nothing in the repository sends one).
  - The replay client: `AttackerStart`, `RecvNotification` (four bytes read, then `int()`), and `Replay` (read the file, or fall back to the fixed payload).

- **`AttackClient`** models both paced attack scripts. `main` is the script that runs: `FreshCharsetParserMain` (`attacker_fresh_charset_parser.py`: three 20 s attackers, each after a 10 s sleep) or `UserAgentMain` (`attacker_useragent.py`: a 1 s sleep, then one 60 s loop). Actions: `Pause` (main's sleep and a new attacker), `Check` (the loop test of `run_attack`), `Send` (`send_time`, `count += 1` and one GET of 0 to `MaxRequestTime` ticks, every outcome caught), `Pace` (sleep the rest of the interval) and `Final`. Time is an integer clock that only the sleeps and the requests advance.

`MCAdversary`, `MCCorpus` and `MCAttackClient` only give values to sequence-, tuple- and record-valued constants.

## Runs

Passing runs:

| Run | Checks | States |
|---|---|---|
| `coordinator` | With one crash and restart, and report connections that may end `handle_report`: `IdleImpliesPublished`: at the top of the loop, the trained model is saved and flagged; `NewestReportEvaluated`: every stored report is eventually tested unless a newer one displaces it, a crash loses it, or training died at restart; `PublicationRefined`: the coordinator implements `Publication` | 25,933 |
| `loop` | With lines of a short and a long length and closed connections: `ClassifiedAfterReady`: a line received after the wait loop is eventually classified unless `handle_request` died | 108,680 |
| `adversary` | `GetIndexIsFirstOccurrence`: `get_index` agrees with `IndexFirstSubSeq` of `SequencesExt` from every offset, for `'name: '` and `'\n'`, in the request and in the perturbed sample | 6,204 |
| `corpus` | `IndexPartition`, `RoundTrip`, `PolishedBatch`, `BalancedWhenBothPresent`, `ChunksPartitionRecords`; `LabelsFromFileNames`: every offline record has the label its file was generated for; `TestTallyCoversCorpus`: `test.test` counts every record once under its own label; `ModelSaved`: the offline pipeline ends with a saved model. `1-single-constant.py` writes every sample, and so does `5-single-rescue.py` when started with at least `--num_malicious` attack files. `OfflineDataset` then loads the folder, and `train.py` takes `n_iters` steps and saves | 53,814 |
| `attack` | `TypeOK` (the clock stays within the schedule's budget); `RateBounded`: an attacker never sends more than one request per interval since its start; `AttacksEnd`: the script ends; for both scripts | 5,609 |
| `handoff` | `ReplayedFileExists`: `attacker.py` never falls back for a missing file; `NewestPayloadReplayed`: a notified payload is eventually replayed unless a newer one replaces it | 102 |

The type invariants `TypeOK` of `Coordinator`, `Detector`, `Adversary` and `Handoff` document each module's state, but no run checks them. Their variables stay in range only because of the model's own bounds (`MaxReports`, `MaxRequests`, `MaxIter`), which the code does not have. A mutant could break them only by lifting such a bound, and that is not a bug in the code. `AttackClient`'s `TypeOK` is checked, because it bounds the clock by the schedule's real timing budget. Two statements are left out because each restates a single step of the code. That every character `fgsm` changes is a letter or digit is its filter. That the decoded notification is the index sent reduces to `int('%4d' % k) = k` for small k.

Two approximations in the `corpus` properties:
- `PolishedBatch` checks the length `insertItem` stores, which is the block-padded length (`data.py` 39), not the length before padding. `Model.forward` ignores the lengths.
- `TestTallyCoversCorpus` checks the sums `test.test` computes. Their print is commented out (`test.py` 112-117).

Violation runs. Each one checks what the spec says against what the code does.

- `non_atomic_publish`: spec 3 and 5 make publishing one atomic step; `AtomicPublication` joins two ways the code's separate `torch.save` and `echo` break it, each checked to fail on its own.
  - A reader can `torch.load` a half-written `model_path`. The shortest trace is a crash in the middle of `torch.save`, after which the restarted `handle_training` dies. Without crashes, the detector's reload of the half-written file does the same.
  - After a crash between `torch.save` and the flag write, the restarted coordinator loads the new `model_path`. Its first round passes the test, and `flag_path` already exists, so it never marks the new version. The detector keeps the older one.
- `stale_mtime`: the mtime is re-read after the load, with one-second resolution. This shows up in two ways:
  - the detector keeps an older model while its stamp matches the flag;
  - the counterexample is a load followed by a save and mark within the same second.
- `dropped_request`: the blocked `task_q.get()` of the wait loop throws away the first line that arrives after the flag exists.
- `malformed_input`: spec 7(a) says a malformed record is rejected on its own and the service does not crash. Five inputs each end a thread for good: a short or merged report header (`handle_report` raises), a report connection closed before its newline (`handle_report` spins), a detector connection closed mid-frame (`main` raises on `struct.unpack`), a batch of lines of 96 characters or fewer (`conv1` or `max_pool1d` rejects the shape and `handle_request` ends), and a warned line without `X-Unique-ID` (`int()` raises in `handle_warning`). Each of the five was checked to violate `MalformedInputRejected` on its own.
- `offline_dataset`: `DatasetAsRequested` says the dataset `train.py` loads is the one asked for. It is an invariant: once `OfflineDataset` has loaded a file, the generator must have written all `num_malicious + num_benign` samples, and every loaded file must be one this run wrote. `train.py` is modelled as running once the dataset script has exited, normally or by raising (`GeneratorExited`). TLC breaks both halves. A `3-single-complex.py` run that raises after its first malicious sample leaves a partial folder, and it is loaded. A reused folder (`PriorRuns <- MCStaleFolder`) adds the files of an earlier run. Each half was checked to fail on its own. The first needs an empty folder and `num_malicious = 2`, so that a sample is written before the raise. The second needs only the constant script and `num_malicious = 1`, so that the run does not overwrite the stale file. The run's cfg (`num_malicious = 1`, all three scripts, a stale folder) lets both happen in one trace, and TLC's shortest trace does exactly that. `3-single-complex.py` raises at `randint(1, 0)` before writing anything. `OfflineDataset` then loads the earlier run's `0-1.txt`, so the dataset holds none of this run's samples.
  - `3-single-complex.py` draws `length_content = randint(ATTACK_THRESHOLD, length_limit)`. When that is `length_limit` itself, `randint(1, 0)` raises and the script stops part way. A `length_limit` below 20000 always raises.
  - The generators write into `--dataset_folder` without emptying it. After an earlier run with 2 malicious samples, a run with 1 malicious and 1 benign sample leaves `1-1.txt` beside its own `1-0.txt`. Both are loaded, so index 1 is trained as both labels.
- `replay_mismatch`: `get_mask` includes the CR and runs past a value that has no space. The replayed request is then not the sample that fooled the model.

More defects are listed as hazards without a run of their own, because the runs are kept to twelve (all twelve are in use):
- A character outside `all_letters` is stored as index -1, not rejected (`data.py` 16).
- `handle_report` stops reading at any received chunk that ends in `'\n'`, which may be an inner CRLF, so a report can be cut short and labelled benign (`data_manager.py` 139). `Report`'s label is already a free choice, so this is not visible in the model.
- `5-single-rescue.py` blocks forever when more malicious samples are requested than there are attack files; `ModelSaved` checks the other side, and its mutant shows the hang.

- A one-label corpus gives one-label "balanced" batches (`data.py` 50).
- `'%4d'` is read back as four bytes, so at k = 10^4 the decoded index is truncated (`adversary.py` 221). `Decode` models this, but no run reaches it. Each payload needs a request sample on port 9101, and nothing in the repository sends one. Checking at a smaller width would check a different program.
- `adversary.py` dies if `attacker.py` is not listening yet (`adversary.py` 223).

Each property of a passing run has a mutant in `PROJECT.json`, defined next to the operator it replaces. Examples:

- the commented-out growth check that looks only at the malicious list;
- `getRandomBatch` in place of `getBalancedBatch`;
- `attacker.py` reading the payload file only once and replaying the cached payload.

## Bounds and why they suffice

- **`coordinator`:** 3 reports, 2 train steps, 2 seconds, and a test window of 1 malicious and 2 in total (8 and 16 in the code).
  - The window keeps the code's shape: malicious first, then benign up to the total.
  - Three reports are enough to make the window cut off an old sample and to deliver a report during a round.
- **`loop`:** 1 report, 1 version, 2 requests, and a batch of 2.
  - This covers every order of publish, wait-loop exit, receive, reload and drain.
  - A larger report bound reaches the same interleavings more slowly.
  - The violation runs use 2 reports so that a second save can race a load.
- **`adversary`:** block 4, at most 2 iterations, and six attacked values.
  - The values cover a single character, a value with inner spaces, a leading space, a trailing space, and both header layouts.
  - These are the cases in which `get_mask`'s scans take different paths.
- **`loop` and `malformed_input`:** line lengths 40 and 200, one on each side of the 96-character limit of `Accepted`; no crash (the crash paths are the `coordinator` run's).
- **`coordinator`:** one crash is enough to reach a crash at every step, and a restart from each file state: none, truncated, saved-but-unmarked, published.
- **`attack`:** the real schedules of both scripts in seconds (three 20 s attackers with 10 s sleeps; one 60 s loop after 1 s) at 30 requests per minute, with requests of 0 to 3 s so that one can outlast the 2 s interval. `MaxSends` (31) is one more than the 60 s loop can send and never binds.
- **`corpus`:** a 4-symbol vocabulary whose index 0 is the digit `0` and whose last symbol is the sentinel, as in `string.printable + '\0'`.
  - It uses block 2, batch 2, 3 records, and lines shorter than, equal to and longer than one block.
  - Offline: 1 malicious and 2 benign files, so the first field of a name (the index) and the label differ. A test run cuts 3 records into a full and a partial chunk. The folder starts empty. `train.py` takes 2 steps (`NIters`), so its loop both repeats and ends.
  - All three scripts; `ATTACK_THRESHOLD` 2 and `length_limit` 3 stand for 20000 and a larger limit: `length_content` is then below the limit or equal to it, the two cases of the nested draw.
  - `offline_dataset`: 1 malicious and 1 benign file into a folder that is either empty or holds the 2 malicious files of an earlier run. This is the smallest case where an earlier file survives beside a new one of the same index.
- **`handoff`:** 4 payloads at the real width 4 and a backlog of 2, which is what Linux queues for `listen(1)`.
  - Width 4 would need 10^4 round trips to reach the width defect: a state space beyond five minutes.

## Fairness

- Every thread in the code is an infinite polling loop: `handle_training`, `handle_request`, `handle_warning`, the adversary main loop, and the two threads of `attacker.py`. Each thread gets weak fairness on its own steps, because the OS keeps scheduling a runnable thread. The dataset generator, `train.py` and the attack client are single sequential scripts and get weak fairness on all their steps. For `train.py` (`TrainPyFair`), the enabling condition is written out as `TrainPyEnabled` rather than left to `ENABLED`, because TLC evaluates `ENABLED` of the file-name parse very slowly. A one-off check showed `TrainPyEnabled <=> ENABLED <<TrainPy>>_vars` holds on the `corpus` constants, with one script, one benign file, and an empty or stale folder.
- The environment gets no fairness: reports, request lines, closed connections, the clock, samples on port 9101, the start of `attacker.py`, crashes, and restarts (an operator restarts the process, or does not).
- `CHECK_DEADLOCK FALSE` is used where the bounded environment runs out, or where a thread can die. The code reaches both through an uncaught exception.

## Not modelled, and the plan

- Model numerics are not modelled: weights, gradients, accuracy values, and the 1/17 perturbation probability (`randint(0, 16)`, where the spec says 1/16).
- `handle_report`'s bytes are not modelled: a connection ends in one of three outcomes, and the inner-CRLF truncation changes only a label the model already chooses freely.
- `dataset/rescue_helper/` is not modelled: with `TARGET_NUMBER = BATCH_SIZE = 1` its retry loop stops at the first attempt that finds an attack or finds none, and `attack_once` (ReScue) is not in the repository.
- The adversary's `scp` of `model.bin` is not modelled. It is unreachable in the repository: the first round returns before it, and `accept` on port 9101 never returns.
- Only the dataset scripts' control flow and file naming are modelled, not the header contents they generate. `train.train`'s printed summaries and `train_and_test.py` are not modelled.
- `is_strange` in `data_manager.py` is never called and is not modelled.
