------------------------------ MODULE Snapshot ------------------------------
(***************************************************************************)
(* The published model snapshot shared through the file system by         *)
(* data_manager.py (writer) and detector.py (reader): model_path holds the *)
(* pickled parameters, flag_path is the readiness marker whose             *)
(* modification time (os.stat(flag_path)[8], whole seconds) is the only   *)
(* freshness signal.  Versions and mtimes are naturals; these sentinels    *)
(* are the other values the two files and their readers can hold.         *)
(***************************************************************************)
EXTENDS Integers

NoFile == -1    \* the path does not exist
Partial == -2   \* model_path truncated and being rewritten by torch.save
None == -3      \* Python None: no model loaded, no mtime remembered

Lo(a, b) == IF a < b THEN a ELSE b
Hi(a, b) == IF a < b THEN b ELSE a
=============================================================================
