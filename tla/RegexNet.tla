------------------------------ MODULE RegexNet ------------------------------
(***************************************************************************)
(* The online loop: the coordinator (data_manager.py) and the detector     *)
(* (detector.py) run as separate processes that share only the two files   *)
(* model_path and flag_path.  The coordinator writes them (Coordinator),   *)
(* the detector polls flag_path's mtime and reloads model_path (Detector). *)
(* Each thread of each process is an infinite polling loop, so each gets   *)
(* weak fairness: the OS keeps scheduling it while it has work.  Reports,  *)
(* request lines and the clock are the environment and get none.          *)
(***************************************************************************)
EXTENDS Snapshot, Sequences, FiniteSets

CONSTANTS MaxReports, MaxVersion, MaxClock, MalWindow, TestWindow,
          MaxRequests, BatchSize, MaxCrashes, LineLengths

VARIABLES
    data, last, cpc, flag, model, flagged, evaluated, clock, crashes, rpc,
    mpc, taskQ, warningQ, dpc, wpc, flagMdate, loaded, arrived, postReady,
    readyArrivals, classified, suspected, warned,
    modelFile, flagFile

C == INSTANCE Coordinator
D == INSTANCE Detector

cOnly == <<data, last, cpc, flag, model, flagged, evaluated, clock, crashes,
           rpc>>
dOnly == <<mpc, taskQ, warningQ, dpc, wpc, flagMdate, loaded, arrived, postReady,
           readyArrivals, classified, suspected, warned>>
vars == <<cOnly, dOnly, modelFile, flagFile>>

Init == C!Init /\ D!Init

(* The detector only reads the files; the coordinator writes them.         *)
DetectorStep(A) == A /\ UNCHANGED <<cOnly, modelFile, flagFile>>
CoordinatorStep(A) == A /\ UNCHANGED dOnly

Next ==
    \/ CoordinatorStep(C!Next)
    \/ DetectorStep(D!Receive \/ D!Disconnect \/ D!Worker \/ D!Warning)

Spec ==
    /\ Init /\ [][Next]_vars
    /\ WF_vars(CoordinatorStep(C!Training))
    /\ WF_vars(DetectorStep(D!Worker))
    /\ WF_vars(DetectorStep(D!Warning))

-----------------------------------------------------------------------------
(* handle_request has ended: torch.load or Model.forward raised.           *)
WorkerDied == dpc \in {"dead", "raised"}

(* A request line the detector receives after handle_request has left its  *)
(* wait loop is eventually classified, unless handle_request died: the     *)
(* worker keeps draining task_q in partial batches.                        *)
ClassifiedAfterReady ==
    \A i \in D!Ids : (i \in postReady) ~> (i \in classified \/ WorkerDied)

(* Spec 4.5: every inbound line is queued, batched and scored once the     *)
(* model is published.  A request line received while flag_path exists is  *)
(* eventually classified, unless handle_request died.                      *)
ReadyRequestsClassified ==
    \A i \in D!Ids : (i \in readyArrivals) ~> (i \in classified \/ WorkerDied)

(* Spec 7(a): a character outside the vocabulary, malformed header       *)
(* framing or a connection closed mid-frame rejects that one record and   *)
(* does not crash the service.  No thread that reads outside input ever   *)
(* stops: not handle_report (a bad metadata read or a peer closing before *)
(* the newline), not detector main (a connection closed mid-frame), not   *)
(* handle_request on a batch Model.forward cannot shape, and not           *)
(* handle_warning on a warned line without X-Unique-ID.  A crash of the   *)
(* process and a truncated model_path are faults of another kind.         *)
MalformedInputRejected ==
    /\ rpc = "accept"
    /\ mpc = "run"
    /\ dpc # "raised"
    /\ wpc = "run"

(* Spec 5: a reader always loads a complete, previously closed snapshot,   *)
(* never model_path while torch.save is rewriting it: neither the         *)
(* detector's reload nor the restarted coordinator's torch.load, which    *)
(* raises on a truncated file and ends handle_training.                    *)
NoPartialLoad == loaded # Partial /\ cpc # "dead"

(* Spec 3 and 5: publishing is one coordinated step, write then mark      *)
(* ready.  No reader ever loads a model_path that torch.save is still      *)
(* writing (NoPartialLoad), and whenever handle_training is back at the   *)
(* top of its loop, flag_path marks the version model_path holds          *)
(* (Coordinator's SnapshotMarked).  The code's separate torch.save and     *)
(* echo, without a rename, give up both.                                   *)
AtomicPublication == NoPartialLoad /\ C!SnapshotMarked

(* The reload test of handle_request is sound: whenever the mtime it       *)
(* remembers equals flag_path's, the model it holds is at least as new as  *)
(* the one flag_path marks, so skipping the reload never serves a model    *)
(* older than the published one.                                           *)
DetectorUpToDate ==
    (~WorkerDied /\ flagMdate = flagFile) => loaded >= flagged
=============================================================================
