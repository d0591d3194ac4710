------------------------------ MODULE Detector ------------------------------
(***************************************************************************)
(* The detector service of src/source/detector/detector.py.  The main      *)
(* thread reads length-prefixed request lines and puts them on task_q.    *)
(* handle_request waits for flag_path, then repeatedly: reloads the model *)
(* when the flag's mtime differs from the one it remembers, drains up to  *)
(* BATCH_SIZE lines, classifies them, and puts every line guessed          *)
(* malicious on warning_q.  handle_warning parses X-Unique-ID and         *)
(* X-Server out of each warned line and notifies the origin, best effort.  *)
(* A request line is abstracted to an id and whether it carries the       *)
(* X-Unique-ID header; the classifier's guess is nondeterministic.        *)
(* model_path and flag_path are written by the coordinator (module        *)
(* Coordinator) and only read here.  A line also has a length, which     *)
(* decides whether Model.forward can score the batch it is in (Pooling);  *)
(* the main thread ends when the connection is closed mid-frame.          *)
(***************************************************************************)
EXTENDS Snapshot, Sequences, FiniteSetsExt

CONSTANTS
    MaxRequests,  \* bound on the request lines the main thread receives
    BatchSize,    \* BATCH_SIZE (32 in the code)
    LineLengths   \* lengths, in characters, a request line may have

ASSUME /\ MaxRequests \in Nat \ {0} /\ BatchSize \in Nat \ {0}
       /\ LineLengths \subseteq Nat \ {0} /\ LineLengths # {}

Ids == 1..MaxRequests
Kinds == {"ok", "noid"}   \* "noid": the line has no X-Unique-ID header
Request == [id : Ids, kind : Kinds, size : LineLengths]

(* The shape arithmetic of the loaded Model: spp_num_level 3, the block of *)
(* lineToTensor, conv1's kernel and stride.                                *)
Pool == INSTANCE Pooling WITH NumLevels <- 3, Block <- 32, Kernel <- 64, Stride <- 32

VARIABLES
    mpc,           \* where main is
    taskQ,         \* task_q
    warningQ,      \* warning_q
    dpc,           \* where handle_request is
    wpc,           \* where handle_warning is
    flagMdate,     \* handle_request's flag_mdate
    loaded,        \* the version handle_request's `model` holds
    arrived,       \* request lines received so far
    postReady,     \* history: ids received after handle_request left its wait loop
    readyArrivals, \* history: ids received while flag_path existed
    classified,    \* history: ids that went through classify
    suspected,     \* history: ids with an X-Unique-ID header guessed malicious
    warned,        \* history: ids send_warning was called for
    modelFile,     \* model_path (written by the coordinator)
    flagFile       \* flag_path's mtime (written by the coordinator)

dvars == <<mpc, taskQ, warningQ, dpc, wpc, flagMdate, loaded, arrived, postReady,
           readyArrivals, classified, suspected, warned>>

TypeOK ==
    /\ mpc \in {"run", "dead"}
    /\ taskQ \in Seq(Request)
    /\ warningQ \in Seq(Request)
    /\ dpc \in {"wait", "waitget", "run", "load", "stamp", "drain", "dead",
               "raised"}
    /\ wpc \in {"run", "dead"}
    /\ flagMdate \in {None} \cup Nat
    /\ loaded \in {None, Partial} \cup Nat
    /\ arrived \in 0..MaxRequests
    /\ postReady \subseteq Ids /\ readyArrivals \subseteq Ids
    /\ classified \subseteq Ids /\ suspected \subseteq Ids
    /\ warned \subseteq Ids

Init ==
    /\ mpc = "run"
    /\ taskQ = <<>>
    /\ warningQ = <<>>
    /\ dpc = "wait"
    /\ wpc = "run"
    /\ flagMdate = None
    /\ loaded = None
    /\ arrived = 0
    /\ postReady = {} /\ readyArrivals = {}
    /\ classified = {} /\ suspected = {} /\ warned = {}

Waiting == {"wait", "waitget"}

(* classify: encode, polishBatch and test_one_step; the guess for each of  *)
(* n lines (1 = malicious) is left to the model.                           *)
Classify(n) == [1..n -> {0, 1}]

(* http_get_unique_id: int() of the text after 'X-Unique-ID: ' succeeds    *)
(* only when the header is there.                                          *)
UniqueIdParses(r) == r.kind = "ok"

(* main: one framed request line is received and put on task_q.           *)
Receive ==
    /\ arrived < MaxRequests
    /\ mpc = "run"
    /\ \E k \in Kinds, n \in LineLengths :
          taskQ' = Append(taskQ, [id |-> arrived + 1, kind |-> k, size |-> n])
    /\ arrived' = arrived + 1
    /\ postReady' = IF dpc \in Waiting THEN postReady
                    ELSE postReady \cup {arrived + 1}
    /\ readyArrivals' = IF flagFile = NoFile THEN readyArrivals
                        ELSE readyArrivals \cup {arrived + 1}
    /\ UNCHANGED <<mpc, warningQ, dpc, wpc, flagMdate, loaded, classified,
                   suspected, warned>>

(* main: the proxy closes the connection, or closes it mid-frame.  recv   *)
(* returns fewer than 4 bytes, struct.unpack raises struct.error, and the  *)
(* exception ends main; accept() is never called again.  A line cut short  *)
(* by the close is queued first, then the next recv returns nothing.       *)
Disconnect ==
    /\ mpc = "run"
    /\ mpc' = "dead"
    /\ UNCHANGED <<taskQ, warningQ, dpc, wpc, flagMdate, loaded, arrived,
                   postReady, readyArrivals, classified, suspected, warned>>

(* `while not os.path.isfile(flag_path)`: test the marker.                 *)
WaitCheck ==
    /\ dpc = "wait"
    /\ dpc' = IF flagFile = NoFile THEN "waitget" ELSE "run"
    /\ UNCHANGED <<mpc, taskQ, warningQ, wpc, flagMdate, loaded, arrived, postReady,
                   readyArrivals, classified, suspected, warned>>

(* ... `task_q.get()`: block for a line and throw it away.                 *)
WaitGet ==
    /\ dpc = "waitget"
    /\ taskQ # <<>>
    /\ taskQ' = Tail(taskQ)
    /\ dpc' = "wait"
    /\ UNCHANGED <<mpc, warningQ, wpc, flagMdate, loaded, arrived, postReady,
                   readyArrivals, classified, suspected, warned>>

(* `if not task_q.empty(): if flag_mdate != os.stat(flag_path)[8]`.        *)
ReloadCheck ==
    /\ dpc = "run"
    /\ taskQ # <<>>
    /\ dpc' = IF flagMdate # flagFile THEN "load" ELSE "drain"
    /\ UNCHANGED <<mpc, taskQ, warningQ, wpc, flagMdate, loaded, arrived, postReady,
                   readyArrivals, classified, suspected, warned>>

(* `model = torch.load(model_path)`: a truncated pickle raises, and the    *)
(* exception ends the thread.                                              *)
Load ==
    /\ dpc = "load"
    /\ loaded' = modelFile
    /\ dpc' = IF modelFile = Partial THEN "dead" ELSE "stamp"
    /\ UNCHANGED <<mpc, taskQ, warningQ, wpc, flagMdate, arrived, postReady,
                   readyArrivals, classified, suspected, warned>>

(* `flag_mdate = os.stat(flag_path)[8]`: the mtime is read a second time.  *)
Stamp ==
    /\ dpc = "stamp"
    /\ flagMdate' = flagFile
    /\ dpc' = "drain"
    /\ UNCHANGED <<mpc, taskQ, warningQ, wpc, loaded, arrived, postReady,
                   readyArrivals, classified, suspected, warned>>

(* Mutant: wait for a full batch before classifying.                      *)
DrainFullBatch ==
    /\ dpc = "drain"
    /\ Len(taskQ) >= BatchSize
    /\ LET batch == SubSeq(taskQ, 1, BatchSize)
       IN /\ taskQ' = SubSeq(taskQ, BatchSize + 1, Len(taskQ))
          /\ warningQ' = warningQ
          /\ suspected' = suspected
          /\ classified' = classified \cup {batch[i].id : i \in 1..BatchSize}
    /\ dpc' = "run"
    /\ UNCHANGED <<mpc, wpc, flagMdate, loaded, arrived, postReady, readyArrivals,
                   warned>>

(* classify pads every line of the batch to the longest (polishBatch), so  *)
(* Model.forward accepts the batch when it accepts its longest line.       *)
BatchScorable(batch) ==
    Pool!Accepted(Max({batch[i].size : i \in DOMAIN batch}))

(* Drain up to BATCH_SIZE lines without blocking, classify them, and put   *)
(* each line guessed malicious on warning_q.  When Model.forward rejects   *)
(* the batch's shape the exception ends handle_request, the batch lost.    *)
Drain ==
    /\ dpc = "drain"
    /\ LET n == Lo(BatchSize, Len(taskQ))
           batch == SubSeq(taskQ, 1, n)
       IN /\ taskQ' = SubSeq(taskQ, n + 1, Len(taskQ))
          /\ \/ /\ ~BatchScorable(batch)
                /\ dpc' = "raised"
                /\ UNCHANGED <<warningQ, suspected, classified>>
             \/ /\ BatchScorable(batch)
                /\ dpc' = "run"
                /\ \E guess \in Classify(n) :
                      LET sel == SelectSeq([i \in 1..n |-> i], LAMBDA i : guess[i] = 1)
                          bad == [j \in DOMAIN sel |-> batch[sel[j]]]
                      IN /\ warningQ' = warningQ \o bad
                         /\ suspected' = suspected \cup
                                {bad[i].id : i \in {j \in DOMAIN bad :
                                                     UniqueIdParses(bad[j])}}
                /\ classified' = classified \cup {batch[i].id : i \in 1..n}
    /\ UNCHANGED <<mpc, wpc, flagMdate, loaded, arrived, postReady, readyArrivals,
                   warned>>

(* handle_warning: parse the line and send the warning.  http_get_unique_id *)
(* does not notice a missing header (find() + len() is never negative) and *)
(* int() of the text it slices raises, ending the thread; a failed connect *)
(* is caught inside send_warning.                                          *)
Warn ==
    /\ wpc = "run"
    /\ warningQ # <<>>
    /\ warningQ' = Tail(warningQ)
    /\ IF UniqueIdParses(Head(warningQ))
          THEN wpc' = "run" /\ warned' = warned \cup {Head(warningQ).id}
          ELSE wpc' = "dead" /\ warned' = warned
    /\ UNCHANGED <<mpc, taskQ, dpc, flagMdate, loaded, arrived, postReady,
                   readyArrivals, classified, suspected>>

Worker == WaitCheck \/ WaitGet \/ ReloadCheck \/ Load \/ Stamp \/ Drain
Warning == Warn
=============================================================================
