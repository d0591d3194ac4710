----------------------------- MODULE Publication -----------------------------
(***************************************************************************)
(* What the retraining coordinator promises its readers (spec sections 3   *)
(* and 5), with the parameters abstracted to a version number.  The       *)
(* trainer's version only grows by training; publishing makes the         *)
(* trainer's version the externally visible one; a restarted trainer      *)
(* resumes from some version no older than the published one.  So the    *)
(* published version never goes backwards and never runs ahead of what   *)
(* was trained.                                                            *)
(***************************************************************************)
EXTENDS Snapshot

CONSTANT MaxVersion

VARIABLES
    trained,    \* version of the parameters the trainer holds
    published   \* version readers are told is ready, or NoFile

pvars == <<trained, published>>

Init ==
    /\ trained = 0
    /\ published \in {NoFile, 0}

Train ==
    /\ trained < MaxVersion
    /\ trained' = trained + 1
    /\ UNCHANGED published

Publish ==
    /\ published' = trained
    /\ UNCHANGED trained

Resume ==
    /\ trained' \in Hi(published, 0)..MaxVersion
    /\ UNCHANGED published

Next == Train \/ Publish \/ Resume

Spec == Init /\ [][Next]_pvars
=============================================================================
