------------------------------ MODULE Handoff ------------------------------
(***************************************************************************)
(* The payload handoff of src/source/adversary: the main loop of           *)
(* adversary.py generates attack_<k>.txt, notifies attacker.py on port     *)
(* 9100 with '%4d' % k, and blocks on port 9101 for the next request       *)
(* sample.  attacker.py's recv_notification thread reads 4 bytes per       *)
(* connection and sets the global filename; its main loop replays the      *)
(* file every second.  The payloads are abstracted to their index; a       *)
(* decimal digit is an integer and a space is the value Space.            *)
(***************************************************************************)
EXTENDS Integers, Sequences, SequencesExt

CONSTANTS
    Width,      \* '%4d' and recv(4, MSG_WAITALL): the notification width
    MaxIndex,   \* bound on attack_message_index
    Backlog     \* connections the kernel queues for listen(1) before connect blocks

ASSUME Width \in Nat \ {0} /\ MaxIndex \in Nat \ {0} /\ Backlog \in Nat \ {0}

Lo(a, b) == IF a < b THEN a ELSE b

Space == -1
NoFile == -1   \* attacker.py's filename is None

RECURSIVE Digits(_)
Digits(n) == IF n < 10 THEN <<n>> ELSE Digits(n \div 10) \o <<n % 10>>

(* '%4d' % n: right-aligned in Width characters, longer when n needs more. *)
Format(n) ==
    LET d == Digits(n)
    IN IF Len(d) >= Width THEN d ELSE [i \in 1..(Width - Len(d)) |-> Space] \o d

(* int(data): surrounding spaces ignored.                                  *)
ParseInt(s) == FoldLeft(LAMBDA acc, c : IF c = Space THEN acc ELSE 10 * acc + c,
                        0, s)

(* conn.recv(4, MSG_WAITALL) then int(): the first Width characters.      *)
Decode(n) == ParseInt(SubSeq(Format(n), 1, Lo(Width, Len(Format(n)))))

-----------------------------------------------------------------------------
VARIABLES
    advPc,      \* adversary.py main: "gen", "notify", "accept", "refused", "crashed"
    idx,        \* attack_message_index
    sample,     \* http_request_str is a received sample (FALSE: None)
    written,    \* the k with attack_<k>.txt written
    listening,  \* attacker.py's recv_notification socket is listening
    inbox,      \* notifications connected to port 9100, not yet read: the k sent
    filename,   \* attacker.py's global filename, as its index, or NoFile
    replayed,   \* history: the index of the file last replayed, or NoFile
    fallback    \* history: the last replay found no file

hvars == <<advPc, idx, sample, written, listening, inbox, filename, replayed,
           fallback>>

TypeOK ==
    /\ advPc \in {"gen", "notify", "accept", "refused", "crashed"}
    /\ idx \in 0..MaxIndex /\ sample \in BOOLEAN
    /\ written \subseteq 1..MaxIndex /\ listening \in BOOLEAN
    /\ inbox \in Seq(1..MaxIndex)
    /\ filename \in {NoFile} \cup Nat
    /\ replayed \in {NoFile} \cup Nat /\ fallback \in BOOLEAN

Init ==
    /\ advPc = "gen" /\ idx = 0 /\ sample = FALSE /\ written = {}
    /\ listening \in BOOLEAN   \* attacker.py may or may not be up yet
    /\ inbox = <<>> /\ filename = NoFile
    /\ replayed = NoFile /\ fallback = FALSE

(* generate_adversary: without a sample, write the fixed payload; with     *)
(* one, the search either writes the adversarial payload or raises (an     *)
(* IndexError of get_mask or of the projection, module Adversary).        *)
Generate ==
    /\ advPc = "gen"
    /\ idx < MaxIndex
    /\ \/ /\ advPc' = "notify"
          /\ idx' = idx + 1
          /\ written' = written \cup {idx + 1}
       \/ /\ sample
          /\ advPc' = "crashed"
          /\ UNCHANGED <<idx, written>>
    /\ UNCHANGED <<sample, listening, inbox, filename, replayed,
                   fallback>>

(* Mutant: notify the index the next payload will get.                     *)
NotifyNext ==
    /\ advPc = "notify"
    /\ Len(inbox) < Backlog
    /\ IF listening
          THEN advPc' = "accept" /\ inbox' = Append(inbox, Lo(idx + 1, MaxIndex))
          ELSE advPc' = "refused" /\ inbox' = inbox
    /\ UNCHANGED <<idx, sample, written, listening, filename,
                   replayed, fallback>>

(* send_notification: connect to port 9100 and send '%4d' % k; a refused  *)
(* connection raises and ends adversary.py; a full backlog blocks connect. *)
Notify ==
    /\ advPc = "notify"
    /\ Len(inbox) < Backlog
    /\ IF listening
          THEN advPc' = "accept" /\ inbox' = Append(inbox, idx)
          ELSE advPc' = "refused" /\ inbox' = inbox
    /\ UNCHANGED <<idx, sample, written, listening, filename,
                   replayed, fallback>>

(* sock.accept() and recv_notification on port 9101: a request sample     *)
(* arrives.  Nothing in this repository connects to 9101                  *)
(* (data_manager.send_notification is never called), so this is an       *)
(* external client.                                                         *)
ModelReady ==
    /\ advPc = "accept"
    /\ advPc' = "gen" /\ sample' = TRUE
    /\ UNCHANGED <<idx, written, listening, inbox, filename,
                   replayed, fallback>>

(* attacker.py starts: recv_notification binds and listens.               *)
AttackerStart ==
    /\ ~listening
    /\ listening' = TRUE
    /\ UNCHANGED <<advPc, idx, sample, written, inbox, filename,
                   replayed, fallback>>

(* recv_notification: accept, read Width bytes, set filename.             *)
RecvNotification ==
    /\ inbox # <<>>
    /\ filename' = Decode(Head(inbox))
    /\ inbox' = Tail(inbox)
    /\ UNCHANGED <<advPc, idx, sample, written, listening, replayed, fallback>>

(* Mutant: the main loop reads the payload file only the first time.     *)
ReplayOnce ==
    /\ filename # NoFile
    /\ replayed = NoFile
    /\ replayed' = filename
    /\ fallback' = (filename \notin written)
    /\ UNCHANGED <<advPc, idx, sample, written, listening, inbox, filename>>

(* main: once filename is set, request_http reads the file's first line,  *)
(* or falls back to a fixed payload when the file cannot be opened.       *)
Replay ==
    /\ filename # NoFile
    /\ replayed' = filename
    /\ fallback' = (filename \notin written)
    /\ UNCHANGED <<advPc, idx, sample, written, listening, inbox, filename>>

Adversary == Generate \/ Notify
Attacker == RecvNotification \/ Replay

Next == Adversary \/ Attacker \/ ModelReady \/ AttackerStart

Spec == Init /\ [][Next]_hvars /\ WF_hvars(Adversary)
        /\ WF_hvars(RecvNotification) /\ WF_hvars(Replay)

-----------------------------------------------------------------------------
(* Spec 6, payload artifact: attacker.py never replays an index whose file *)
(* adversary.py has not written: the write precedes send_notification.     *)
ReplayedFileExists == ~fallback

(* Spec 2/6: once adversary.py has notified payload k and waits for the   *)
(* next sample, attacker.py eventually replays payload k, unless a newer   *)
(* one replaced it.                                                         *)
NewestPayloadReplayed ==
    \A k \in 1..MaxIndex :
        (advPc = "accept" /\ idx = k) ~> (replayed = k \/ idx # k)

=============================================================================
