----------------------------- MODULE Coordinator -----------------------------
(***************************************************************************)
(* The retraining coordinator of src/source/data_manager/data_manager.py.  *)
(* Two threads share the lists data_benign and data_malicious under one    *)
(* lock: handle_report appends one labelled report per connection, and     *)
(* handle_training re-tests the model on a window of the newest samples    *)
(* whenever a list has grown, trains while the test accuracy is below      *)
(* 0.99, and publishes the parameters to model_path followed by the        *)
(* readiness marker flag_path.  Samples are abstracted to their label and  *)
(* their position in the list; the model to a version number; the          *)
(* accuracy test to a nondeterministic low/high outcome.                   *)
(***************************************************************************)
EXTENDS Snapshot, FiniteSets

CONSTANTS
    MaxReports,   \* bound on the reports handle_report ingests
    MaxVersion,   \* bound on successful train steps (in-memory versions)
    MaxClock,     \* bound on the wall clock, in whole seconds
    MalWindow,    \* test_batch: newest malicious samples tested (8 in code)
    TestWindow,   \* test_batch: size of the whole test window (16 in code)
    MaxCrashes    \* bound on crashes of the data_manager process

ASSUME /\ MaxReports \in Nat \ {0}
       /\ MaxVersion \in Nat
       /\ MaxClock \in Nat
       /\ MalWindow \in Nat \ {0}
       /\ TestWindow \in Nat /\ TestWindow > MalWindow
       /\ MaxCrashes \in Nat

Labels == {0, 1}       \* category 0 = benign, 1 = malicious

VARIABLES
    data,       \* data[c]: len(data_benign) for c = 0, len(data_malicious) for c = 1
    last,       \* last_benign_count / last_malicious_count of handle_training
    cpc,        \* where handle_training is
    flag,       \* handle_training's local `flag`: a train step ran this round
    model,      \* version of the in-memory parameters of handle_training
    modelFile,  \* model_path: NoFile, Partial, or the version it holds
    flagFile,   \* flag_path: NoFile, or its st_mtime in whole seconds
    flagged,    \* history: what model_path held when flag_path was last written
    evaluated,  \* history: newest index of each list read by a test_batch
    clock,      \* wall clock, whole seconds
    crashes,    \* crashes of the process so far
    rpc         \* where handle_report is

cvars == <<data, last, cpc, flag, model, modelFile, flagFile, flagged,
           evaluated, clock, crashes, rpc>>

TypeOK ==
    /\ data \in [Labels -> 0..MaxReports]
    /\ last \in [Labels -> 0..MaxReports]
    /\ cpc \in {"loop", "test", "train", "save", "saving", "mark",
               "down", "dead"}
    /\ flag \in BOOLEAN
    /\ model \in 0..MaxVersion
    /\ modelFile \in {NoFile, Partial} \cup 0..MaxVersion
    /\ flagFile \in {NoFile} \cup 0..MaxClock
    /\ flagged \in {NoFile} \cup 0..MaxVersion
    /\ evaluated \in [Labels -> 0..MaxReports]
    /\ clock \in 0..MaxClock
    /\ crashes \in 0..MaxCrashes
    /\ rpc \in {"accept", "dead", "spin"}

(***************************************************************************)
(* The 1-based list positions test_batch reads: malicious[-(i+1)] for      *)
(* i < min(8, len(malicious)) and benign[-(i+1)] for                       *)
(* i < min(16 - min(8, len(malicious)), len(benign)).                      *)
(***************************************************************************)
TestWindowOf(d) ==
    LET nm == Lo(MalWindow, d[1])
        nb == Lo(TestWindow - nm, d[0])
    IN [c \in Labels |-> {d[c] - i : i \in 0..(IF c = 1 THEN nm ELSE nb) - 1}]

-----------------------------------------------------------------------------
(* Initially no report has arrived.  The files are those of a fresh         *)
(* deployment, of a previous run that published, or of a previous run that  *)
(* stopped between torch.save and the flag write; handle_training starts    *)
(* from torch.load(model_path) when the model file exists.                  *)
Init ==
    /\ data = [c \in Labels |-> 0]
    /\ last = [c \in Labels |-> 0]
    /\ cpc = "loop"
    /\ flag = FALSE
    /\ model = 0
    /\ \E f \in {<<NoFile, NoFile>>, <<0, 0>>, <<0, NoFile>>} :
          /\ modelFile = f[1]
          /\ flagFile = f[2]
          /\ flagged = IF f[2] = NoFile THEN NoFile ELSE f[1]
    /\ evaluated = [c \in Labels |-> 0]
    /\ clock = 0
    /\ crashes = 0
    /\ rpc = "accept"

(* handle_report: one connection.  The report is labelled benign when    *)
(* shorter than 1000 bytes and appended to its list under the lock.        *)
(* The header is read with one recv(128) and no framing: a read that is    *)
(* short, or runs into the payload, makes int() raise ValueError or        *)
(* split()[1] IndexError, and the exception ends the thread.  When the     *)
(* peer closes before the payload's newline, recv returns b'' for ever     *)
(* and the loop spins without accepting again.                             *)
Report(c) ==
    /\ cpc # "down"
    /\ rpc = "accept"
    /\ data[0] + data[1] < MaxReports
    /\ \/ /\ data' = [data EXCEPT ![c] = @ + 1]
          /\ UNCHANGED rpc
       \/ /\ rpc' \in {"dead", "spin"}
          /\ UNCHANGED data
    /\ UNCHANGED <<last, cpc, flag, model, modelFile, flagFile, flagged,
                   evaluated, clock, crashes>>

(* Mutant: the commented-out growth check, malicious list only.           *)
CheckMaliciousOnly ==
    /\ cpc = "loop"
    /\ data[1] > last[1]
    /\ last' = data
    /\ flag' = FALSE
    /\ cpc' = "test"
    /\ UNCHANGED <<data, model, modelFile, flagFile, flagged, evaluated, clock, crashes, rpc>>

(* handle_training, top of the loop: a list has grown since the last       *)
(* check, so remember both lengths and start a round.                      *)
Check ==
    /\ cpc = "loop"
    /\ \E c \in Labels : data[c] > last[c]
    /\ last' = data
    /\ flag' = FALSE
    /\ cpc' = "test"
    /\ UNCHANGED <<data, model, modelFile, flagFile, flagged, evaluated, clock, crashes, rpc>>

(* Mutant: publish only after training, ignoring a missing flag_path.     *)
TestBatchTrainedOnly ==
    /\ cpc = "test"
    /\ LET w == TestWindowOf(data)
       IN evaluated' = [c \in Labels |->
                          IF w[c] = {} THEN evaluated[c]
                          ELSE Hi(evaluated[c], CHOOSE i \in w[c] :
                                                   \A j \in w[c] : j <= i)]
    /\ \/ /\ model < MaxVersion
          /\ flag' = TRUE
          /\ cpc' = "train"
       \/ /\ flag' = flag
          /\ cpc' = IF flag THEN "save" ELSE "loop"
    /\ UNCHANGED <<data, last, model, modelFile, flagFile, flagged, clock, crashes, rpc>>

(* test_batch: read the newest samples under the lock and test the model.  *)
(* Below 0.99 the loop body sets flag and trains; otherwise the round      *)
(* saves when it trained or when flag_path does not exist yet.  The        *)
(* low outcome is bounded by MaxVersion, the steps the model needs.        *)
TestBatch ==
    /\ cpc = "test"
    /\ LET w == TestWindowOf(data)
       IN evaluated' = [c \in Labels |->
                          IF w[c] = {} THEN evaluated[c]
                          ELSE Hi(evaluated[c], CHOOSE i \in w[c] :
                                                   \A j \in w[c] : j <= i)]
    /\ \/ /\ model < MaxVersion
          /\ flag' = TRUE
          /\ cpc' = "train"
       \/ /\ flag' = flag
          /\ cpc' = IF flag \/ flagFile = NoFile THEN "save" ELSE "loop"
    /\ UNCHANGED <<data, last, model, modelFile, flagFile, flagged, clock, crashes, rpc>>

(* train_batch / train_one_step: one step on a balanced batch; the         *)
(* parameters change unless the loss is NaN.                               *)
TrainBatch ==
    /\ cpc = "train"
    /\ \/ model' = model + 1
       \/ model' = model
    /\ cpc' = "test"
    /\ UNCHANGED <<data, last, flag, modelFile, flagFile, flagged, evaluated,
                   clock, crashes, rpc>>

(* torch.save(model, model_path) truncates model_path, then writes it.     *)
SaveBegin ==
    /\ cpc = "save"
    /\ modelFile' = Partial
    /\ cpc' = "saving"
    /\ UNCHANGED <<data, last, flag, model, flagFile, flagged, evaluated, clock, crashes, rpc>>

SaveEnd ==
    /\ cpc = "saving"
    /\ modelFile' = model
    /\ cpc' = "mark"
    /\ UNCHANGED <<data, last, flag, model, flagFile, flagged, evaluated, clock, crashes, rpc>>

(* os.system('echo finish > flag_path'): the marker's mtime becomes now.   *)
Mark ==
    /\ cpc = "mark"
    /\ flagFile' = clock
    /\ flagged' = modelFile
    /\ cpc' = "loop"
    /\ UNCHANGED <<data, last, flag, model, modelFile, evaluated, clock, crashes, rpc>>

(* The data_manager process dies at any point, torch.save included.  The  *)
(* lists, the counts, flag and the model in memory are lost; model_path    *)
(* and flag_path stay as they are on disk.  The restarted process has a    *)
(* fresh handle_report thread.                                             *)
Crash ==
    /\ crashes < MaxCrashes
    /\ cpc # "down"
    /\ crashes' = crashes + 1
    /\ cpc' = "down"
    /\ data' = [c \in Labels |-> 0]
    /\ last' = [c \in Labels |-> 0]
    /\ flag' = FALSE
    /\ evaluated' = [c \in Labels |-> 0]
    /\ rpc' = "accept"
    /\ UNCHANGED <<model, modelFile, flagFile, flagged, clock>>

(* Mutant: the restart always builds a fresh Model, ignoring model_path.  *)
RestartFresh ==
    /\ cpc = "down"
    /\ model' = 0
    /\ cpc' = "loop"
    /\ UNCHANGED <<data, last, flag, modelFile, flagFile, flagged, evaluated,
                   clock, crashes, rpc>>

(* main restarted: handle_report starts on empty lists and handle_training *)
(* loads model_path when it is a file, else builds a fresh Model.          *)
(* torch.load of a truncated file raises, and the training thread dies.    *)
Restart ==
    /\ cpc = "down"
    /\ \/ /\ modelFile = NoFile
          /\ model' = 0
          /\ cpc' = "loop"
       \/ /\ modelFile = Partial
          /\ cpc' = "dead"
          /\ UNCHANGED model
       \/ /\ modelFile \notin {NoFile, Partial}
          /\ model' = modelFile
          /\ cpc' = "loop"
    /\ UNCHANGED <<data, last, flag, modelFile, flagFile, flagged, evaluated,
                   clock, crashes, rpc>>

Tick ==
    /\ clock < MaxClock
    /\ clock' = clock + 1
    /\ UNCHANGED <<data, last, cpc, flag, model, modelFile, flagFile, flagged,
                   evaluated, crashes, rpc>>

Training == Check \/ TestBatch \/ TrainBatch \/ SaveBegin \/ SaveEnd \/ Mark

Next == (\E c \in Labels : Report(c)) \/ Training \/ Crash \/ Restart \/ Tick

Spec == Init /\ [][Next]_cvars /\ WF_cvars(Training)

-----------------------------------------------------------------------------
(* Every report handle_report stores is eventually read by a test_batch of *)
(* handle_training, unless a newer one of its class arrives first and      *)
(* takes its place at the head of the window, or a crash loses it, or the *)
(* training thread died on a truncated model_path at restart.  This        *)
(* depends on the lengths being remembered before test_batch reads the     *)
(* lists and on the growth check covering both lists.                      *)
NewestReportEvaluated ==
    \A c \in Labels, k \in 1..MaxReports :
        (data[c] = k) ~> (evaluated[c] >= k \/ data[c] # k \/ cpc = "dead")

(* Whenever handle_training is back at the top of its loop after some      *)
(* report arrived, model_path holds exactly its in-memory parameters and   *)
(* flag_path exists: no trained parameters are left unpublished.           *)
IdleImpliesPublished ==
    (cpc = "loop" /\ last # [c \in Labels |-> 0])
        => modelFile = model /\ flagFile # NoFile

(* Spec 3: the parameters are persisted and the readiness marker updated  *)
(* atomically.  Whenever handle_training is back at the top of its loop   *)
(* after a round, flag_path was last written for exactly the version     *)
(* model_path holds, so a reader polling the marker sees that version.    *)
(* A crash between torch.save and the echo, followed by a restart whose   *)
(* first round passes the test, leaves the marker behind for good.        *)
SnapshotMarked ==
    (cpc = "loop" /\ last # [c \in Labels |-> 0]) => flagged = modelFile

(* The abstract promise of the coordinator (Publication): the in-memory   *)
(* model only moves forward by training or by a restart that resumes at   *)
(* or past the published version, and publishing marks the in-memory     *)
(* version.  Refinement mapping: trained is the in-memory model, published *)
(* the version flag_path was last written for.                            *)
Pub == INSTANCE Publication WITH trained <- model, published <- flagged

PublicationRefined == Pub!Spec
=============================================================================
