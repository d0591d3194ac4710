----------------------------- MODULE Adversary -----------------------------
(***************************************************************************)
(* The adversarial generator of src/source/adversary/adversary.py for one  *)
(* malicious request line: get_mask picks the perturbable positions of the *)
(* if-none-match value, fgsm replaces some of them by letters or digits,   *)
(* the loop repeats until the model's label flips, and the result is       *)
(* projected back to characters and cut down by get_attack_content to the  *)
(* payload the replay client (adversary/attacker.py) sends.               *)
(* Characters are abstracted to a few tokens: "m" stands for the attacked  *)
(* header name, "h" for another header's name, "g" for the request line,  *)
(* "x"/"y" for letters and digits; the gradient and the model are          *)
(* replaced by nondeterministic choices.  Positions are 0-based as in the  *)
(* code.                                                                   *)
(***************************************************************************)
EXTENDS Integers, Sequences, FiniteSets

SX == INSTANCE SequencesExt

CONSTANTS
    BlockSize,   \* lineToTensor pads to a multiple of 32
    MaxIter,     \* bound on the iterations of the search loop
    Values       \* the if-none-match values the requests carry

Alnum == {"x", "y", "z", "m", "h", "g"}     \* string.ascii_letters + digits
Replacements == {"x", "y"}                  \* letters fgsm may write
Token == Alnum \cup {" ", ":", "CR", "LF", "NUL"}

ASSUME /\ BlockSize \in Nat \ {0}
       /\ MaxIter \in Nat \ {0}
       /\ Values \subseteq Seq(Token \ {"CR", "LF", "NUL"})

(* 'name: value\r\n' *)
HeaderLine(name, value) == name \o <<":", " ">> \o value \o <<"CR", "LF">>

(* A request as the datasets and the origin build it: the request line,    *)
(* the attacked header, possibly another header after it, a blank line.  *)
MkRequest(value, other) ==
    <<"g", "CR", "LF">> \o HeaderLine(<<"m">>, value)
      \o (IF other THEN HeaderLine(<<"h">>, <<"z">>) ELSE <<>>)
      \o <<"CR", "LF">>

Requests == {<<v, o>> : v \in Values, o \in BOOLEAN}

Msg == <<"m", ":", " ">>     \* '%s: ' % header_name
Err == -1000                 \* an IndexError was raised
MaskError == {Err}           \* get_mask raised IndexError

(* Python indexing of a sequence, negative indices counting from the end.  *)
At(s, i) == IF i >= 0 THEN s[i + 1] ELSE s[Len(s) + i + 1]
InRange(s, i) == -Len(s) <= i /\ i < Len(s)

(* lineToTensor: pad with '\0' to the next multiple of the block size.     *)
LineToTensor(line) ==
    LET n == ((Len(line) + BlockSize - 1) \div BlockSize) * BlockSize
    IN line \o [i \in 1..(n - Len(line)) |-> "NUL"]

(* Mutant: the comparison loop stops one character short of msg's end.   *)
RECURSIVE GetIndexShort(_, _, _)
GetIndexShort(data, start, msg) ==
    IF start >= Len(data) THEN -1
    ELSE IF \A j \in 0..Len(msg) - 2 :
                start + j < Len(data) /\ At(data, start + j) = msg[j + 1]
         THEN start
         ELSE GetIndexShort(data, start + 1, msg)

(* get_index: the first i >= start where msg occurs, or -1.               *)
RECURSIVE GetIndex(_, _, _)
GetIndex(data, start, msg) ==
    IF start >= Len(data) THEN -1
    ELSE IF \A j \in 0..Len(msg) - 1 :
                start + j < Len(data) /\ At(data, start + j) = msg[j + 1]
         THEN start
         ELSE GetIndex(data, start + 1, msg)

(* The while loops of get_mask: walk right (left) while the next (previous) *)
(* character is not a space; an index past the end raises IndexError.     *)
RECURSIVE ScanRight(_, _)
ScanRight(data, i) ==
    IF ~InRange(data, i + 1) THEN Err
    ELSE IF At(data, i + 1) = " " THEN i ELSE ScanRight(data, i + 1)

RECURSIVE ScanLeft(_, _)
ScanLeft(data, i) ==
    IF ~InRange(data, i - 1) THEN Err
    ELSE IF At(data, i - 1) = " " THEN i ELSE ScanLeft(data, i - 1)

(* get_mask: the first run of non-spaces after 'name: ' and the last run   *)
(* of non-spaces before the character preceding '\n'.                      *)
GetMask(data) ==
    LET beginLeft == GetIndex(data, 0, Msg) + Len(Msg)
        beginRight == ScanRight(data, beginLeft)
        endRight == GetIndex(data, beginLeft, <<"LF">>) - 1
        endLeft == ScanLeft(data, endRight)
    IN IF beginRight = Err \/ endLeft = Err THEN MaskError
       ELSE (beginLeft..beginRight) \cup (endLeft..endRight)

(* get_attack_content: the text from after 'name: ' up to, excluding, the  *)
(* character before the next '\n' (Python slice, negative end allowed).    *)
GetAttackContent(s) ==
    LET b == GetIndex(s, 0, Msg) + Len(Msg)
        e0 == GetIndex(s, b, <<"LF">>) - 1
        e == IF e0 < 0 THEN Len(s) + e0 ELSE e0
    IN IF e <= b THEN <<>> ELSE SubSeq(s, b + 1, e)

(* attacker.py reads the payload back with f.readline().strip().           *)
RECURSIVE Strip(_)
Strip(s) ==
    IF s = <<>> THEN s
    ELSE IF s[1] \in {" ", "CR", "LF"} THEN Strip(Tail(s))
    ELSE IF s[Len(s)] \in {" ", "CR", "LF"} THEN Strip(SubSeq(s, 1, Len(s) - 1))
    ELSE s

-----------------------------------------------------------------------------
VARIABLES
    request,   \* <<value, other header present>> of http_request_str
    cur,       \* data_adversary_encoded, as the tokens its vectors embed
    mask,      \* get_mask(data)[0], or MaskError
    iter,      \* iterations of the search loop so far
    phase,     \* "search", "project", "done" (file written) or "crashed"
    output     \* data_adversary_char_list once projected

avars == <<request, cur, mask, iter, phase, output>>

Line == MkRequest(request[1], request[2])   \* http_request_str
Data == LineToTensor(Line)                  \* data

TypeOK ==
    /\ request \in Requests
    /\ cur \in Seq(Token) /\ Len(cur) = Len(Data)
    /\ mask = MaskError \/ mask \subseteq 0..Len(Data) - 1
    /\ iter \in 0..MaxIter
    /\ phase \in {"search", "project", "done", "crashed"}
    /\ output \in Seq(Token)

(* generate_adversary up to the loop: encode the line and compute the mask; *)
(* an IndexError in get_mask ends the process.                             *)
Init ==
    /\ request \in Requests
    /\ cur = LineToTensor(MkRequest(request[1], request[2]))
    /\ mask = GetMask(cur)
    /\ iter = 0
    /\ phase = IF mask = MaskError THEN "crashed" ELSE "search"
    /\ output = <<>>

(* One iteration: fgsm perturbs each mask position with probability 1/17   *)
(* to a letter or digit other than its current one, then the forward pass  *)
(* decides whether the label flipped.                                      *)
Fgsm ==
    /\ phase = "search"
    /\ iter < MaxIter
    /\ \E S \in SUBSET mask, flip \in BOOLEAN :
          /\ \E new \in [S -> Replacements] :
                /\ \A p \in S : new[p] # At(cur, p)
                /\ cur' = [i \in DOMAIN cur |->
                             IF i - 1 \in S THEN new[i - 1] ELSE cur[i]]
          /\ iter' = iter + 1
          /\ IF flip
                THEN /\ phase' = "project"
                ELSE /\ phase' = "search"
    /\ UNCHANGED <<request, mask, output>>

(* After the loop: every mask position is mapped to its nearest vocabulary *)
(* vector among the first 100 symbols (never '\0', index 100) and written  *)
(* into the character list of http_request_str, which is not padded: a     *)
(* position past its end raises IndexError.                                *)
Project ==
    /\ phase = "project"
    /\ IF \E j \in mask : j >= Len(Line)
          THEN phase' = "crashed" /\ output' = output
          ELSE /\ \E near \in [{j \in mask : At(cur, j) = "NUL"} -> Token \ {"NUL"}] :
                    output' = [i \in 1..Len(Line) |->
                                 IF i - 1 \notin mask THEN Line[i]
                                 ELSE IF i - 1 \in DOMAIN near THEN near[i - 1]
                                 ELSE cur[i]]
               /\ phase' = "done"
    /\ UNCHANGED <<request, cur, mask, iter>>

Next == Fgsm \/ Project

Spec == Init /\ [][Next]_avars

(* The payload written to attack_<k>.txt and replayed by attacker.py.      *)
Content == Strip(GetAttackContent(output))

-----------------------------------------------------------------------------
(* Spec 4.4/8: the adversarial sample differs from the input only inside   *)
(* the attacker-controlled value, so the request the replay client sends,  *)
(* with the written payload as its if-none-match value, is exactly the     *)
(* sample whose label the model flipped.                                   *)
ReplayMatchesVerified ==
    phase = "done" => output = MkRequest(Content, request[2])

(* get_index is the reference first occurrence: from every start offset,  *)
(* in the encoded request and in the sample being perturbed, it returns   *)
(* the 0-based position of the first occurrence of 'name: ' or of '\n' at  *)
(* or after the offset, and -1 exactly when there is none.  get_mask and  *)
(* get_attack_content build the mask and the payload cut on it.            *)
GetIndexIsFirstOccurrence ==
    \A s \in {Data, cur}, msg \in {Msg, <<"LF">>} :
        \A st \in 0..Len(s) :
            LET rest == SubSeq(s, st + 1, Len(s))
            IN GetIndex(s, st, msg) =
                   IF msg \in SX!SubSeqs(rest)
                   THEN st + SX!IndexFirstSubSeq(msg, rest) - 1
                   ELSE -1
=============================================================================
