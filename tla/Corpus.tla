------------------------------ MODULE Corpus ------------------------------
(***************************************************************************)
(* The token codec and the dataset of src/source/classifier/data.py.       *)
(* lineToTensor maps each character to its index in all_letters and pads  *)
(* with the sentinel '\0' to a multiple of the block; tensorToLine maps    *)
(* back and strips trailing sentinels.  A Dataset keeps its records in      *)
(* insertion order and, per category, the list of their positions; the     *)
(* training paths draw balanced batches (getBalancedBatch), the offline    *)
(* evaluation cuts the records into chunks (getTestBatchList), and every   *)
(* batch goes through polishBatch before the model sees it.  Characters    *)
(* are model values of a small alphabet; random draws are                  *)
(* nondeterministic choices.                                               *)
(***************************************************************************)
EXTENDS Integers, Sequences, SequencesExt, FiniteSets

CONSTANTS
    Letters,     \* all_letters: the vocabulary, the sentinel '\0' last
    Block,       \* lineToTensor's block (32)
    BatchSize,   \* batch_size
    MaxRecords,  \* bound on the records inserted
    Lines,       \* the request lines that may be inserted
    NumMalicious, \* the dataset generators' --num_malicious
    NumBenign,    \* the dataset generators' --num_benign
    MaxAttackFiles, \* bound on the files in resource/ua-parser-js
    Scripts,     \* the dataset scripts run: "constant", "complex", "rescue"
    AttackThreshold, \* 3-single-complex's ATTACK_THRESHOLD
    LengthLimit, \* the generators' --length_limit
    PriorRuns,   \* <<num_malicious, num_benign>> of earlier runs into the folder
    NIters       \* train.py's --n_iters

Labels == {0, 1}
Sentinel == Letters[Len(Letters)]

ASSUME /\ Len(Letters) > 1
       /\ Block \in Nat \ {0}
       /\ BatchSize \in Nat /\ BatchSize >= Cardinality(Labels)
       /\ MaxRecords \in Nat \ {0}
       /\ NumMalicious \in Nat /\ NumBenign \in Nat

Lo(a, b) == IF a < b THEN a ELSE b

(* letterToIndex: all_letters.find(letter), -1 for a character outside it. *)
LetterToIndex(ch) == SelectInSeq(Letters, LAMBDA x : x = ch) - 1

(* Mutant: pad with all_letters[0] instead of the sentinel.                *)
LineToTensorZeroPad(line) ==
    LET n == ((Len(line) + Block - 1) \div Block) * Block
        padded == line \o [i \in 1..(n - Len(line)) |-> Letters[1]]
    IN [line |-> padded,
        tensor |-> [i \in DOMAIN padded |-> LetterToIndex(padded[i])]]

(* lineToTensor: the padded line and its index sequence.                   *)
LineToTensor(line) ==
    LET n == ((Len(line) + Block - 1) \div Block) * Block
        padded == line \o [i \in 1..(n - Len(line)) |-> Sentinel]
    IN [line |-> padded,
        tensor |-> [i \in DOMAIN padded |-> LetterToIndex(padded[i])]]

RECURSIVE RStripSentinel(_)
RStripSentinel(s) ==
    IF s # <<>> /\ Last(s) = Sentinel THEN RStripSentinel(Front(s)) ELSE s

(* tensorToLine: all_letters[i] (Python indexing, so -1 is the sentinel),  *)
(* then rstrip('\0').                                                      *)
TensorToLine(t) ==
    RStripSentinel([i \in DOMAIN t |->
                      IF t[i] >= 0 THEN Letters[t[i] + 1]
                      ELSE Letters[Len(Letters) + t[i] + 1]])

(* padding: append zero indices up to the given length.                    *)
Padding(t, length) ==
    IF Len(t) = length THEN t ELSE t \o [i \in 1..(length - Len(t)) |-> 0]

(* list.sort(key=length, reverse=True) is stable: insert each sample after *)
(* every earlier one that is at least as long.                             *)
InsertByLength(x, sorted) ==
    LET k == Cardinality({i \in DOMAIN sorted : sorted[i].length >= x.length})
    IN SubSeq(sorted, 1, k) \o <<x>> \o SubSeq(sorted, k + 1, Len(sorted))

RECURSIVE SortByLength(_)
SortByLength(s) ==
    IF s = <<>> THEN s ELSE InsertByLength(Last(s), SortByLength(Front(s)))

(* Mutant: polishBatch without the sort.                                   *)
PolishBatchUnsorted(list) ==
    [i \in DOMAIN list |-> [list[i] EXCEPT !.tensor = Padding(@, list[1].length)]]

(* polishBatch: sort by length, longest first, and pad every line to the   *)
(* first one's length; category and length travel with the line.          *)
PolishBatch(list) ==
    LET sorted == SortByLength(list)
    IN [i \in DOMAIN sorted |->
          [sorted[i] EXCEPT !.tensor = Padding(@, sorted[1].length)]]

(* Mutant: chunks one record short.                                        *)
GetTestBatchListShort(recs, n) ==
    [k \in 1..((Len(recs) + n - 1) \div n) |->
        SubSeq(recs, (k - 1) * n + 1, Lo(Len(recs), (k - 1) * n + n - 1))]

(* getTestBatchList: l[i : min(len(l), i + n)] for i in range(0, len(l), n) *)
GetTestBatchList(recs, n) ==
    [k \in 1..((Len(recs) + n - 1) \div n) |->
        SubSeq(recs, (k - 1) * n + 1, Lo(Len(recs), (k - 1) * n + n))]

(* File names of the offline datasets.  A name is a sequence of one-       *)
(* character strings; the generators write '%d-%d.txt' % (index, label)    *)
(* and OfflineDataset reads the label back with                           *)
(* int(filename.split('.')[0].split('-')[1]).                             *)
DigitChar == <<"0", "1", "2", "3", "4", "5", "6", "7", "8", "9">>

RECURSIVE Decimal(_)
Decimal(n) == IF n < 10 THEN <<DigitChar[n + 1]>>
              ELSE Decimal(n \div 10) \o <<DigitChar[(n % 10) + 1]>>

FileName(index, label) ==
    Decimal(index) \o <<"-">> \o Decimal(label) \o <<".", "t", "x", "t">>

(* The names an earlier generator run with counts pr left in the folder:   *)
(* main() never empties dataset_folder, and open(path, 'w') only replaces *)
(* a file of the same name.                                                *)
PriorFiles(pr) ==
    {FileName(i, IF i < pr[1] THEN 1 ELSE 0) : i \in 0..pr[1] + pr[2] - 1}

(* str.split(sep): the pieces between the separators, empty ones kept.    *)
RECURSIVE SplitOn(_, _)
SplitOn(str, sep) ==
    LET k == SelectInSeq(str, LAMBDA x : x = sep)
    IN IF k = 0 THEN <<str>>
       ELSE <<SubSeq(str, 1, k - 1)>> \o SplitOn(SubSeq(str, k + 1, Len(str)), sep)

(* int() of a string of decimal digits.                                    *)
ParseDecimal(str) ==
    FoldLeft(LAMBDA acc, ch : 10 * acc + SelectInSeq(DigitChar, LAMBDA x : x = ch) - 1,
             0, str)

(* Mutant: the label taken from the first field, the index.               *)
ParseCategoryFirstField(name) == ParseDecimal(SplitOn(SplitOn(name, ".")[1], "-")[1])

ParseCategory(name) == ParseDecimal(SplitOn(SplitOn(name, ".")[1], "-")[2])

(* Every name an earlier run or this one can leave in the folder, with the *)
(* category OfflineDataset parses from it; a constant, evaluated once.    *)
FolderNames == UNION {PriorFiles(pr) : pr \in PriorRuns \cup {<<NumMalicious, NumBenign>>}}
CategoryOf == [name \in FolderNames |-> ParseCategory(name)]

(* Mutant: batchAccuracy counting a sample by its guess, not its label.   *)
BatchAccuracyByGuess(b, guess) ==
    [pt |-> Cardinality({i \in DOMAIN b : guess[i] = 0}),
     pc |-> Cardinality({i \in DOMAIN b : b[i].category = 0 /\ guess[i] = 0}),
     nt |-> Cardinality({i \in DOMAIN b : guess[i] # 0}),
     nc |-> Cardinality({i \in DOMAIN b : b[i].category # 0 /\ guess[i] = 1})]

(* batchAccuracy: category 0 counts as positive, any other as negative;   *)
(* guess[i] is the model's argmax for sample i.                           *)
BatchAccuracy(b, guess) ==
    [pt |-> Cardinality({i \in DOMAIN b : b[i].category = 0}),
     pc |-> Cardinality({i \in DOMAIN b : b[i].category = 0 /\ guess[i] = 0}),
     nt |-> Cardinality({i \in DOMAIN b : b[i].category # 0}),
     nc |-> Cardinality({i \in DOMAIN b : b[i].category # 0 /\ guess[i] = 1})]

Tally == [pt : Nat, pc : Nat, nt : Nat, nc : Nat]
NoTally == [pt |-> 0, pc |-> 0, nt |-> 0, nc |-> 0]
AddTally(a, b) == [f \in DOMAIN a |-> a[f] + b[f]]

-----------------------------------------------------------------------------
VARIABLES
    records,   \* self.records: [category, tensor, length] in insertion order
    classes,   \* self.classes: category -> positions of its records
    sources,   \* history: the line each record was made from
    drawn,     \* history: the last getBalancedBatch result, before polishing
    batch,     \* the last polished training batch
    chunks,    \* the last getTestBatchList result
    tally,     \* test(): the summed batchAccuracy counts of the last run
    mode,      \* "online" (OnlineDataset) or "offline" (OfflineDataset)
    folder,    \* the dataset folder: file name -> request line
    gen,       \* the generator's next index
    labelOf,   \* history: the label the generator wrote each file for
    origin,    \* history: the file each offline record was read from
    attackQ,   \* 5-single-rescue's attack_contents: the contents left in it
    script,    \* the dataset script main() runs ("none" online)
    gpc,       \* the script: "run", or "raised" once an exception ended it
    iter,      \* train.py: the training steps train() has taken
    tpc        \* train.py: "train", then "saved" after torch.save

offline == <<mode, folder, gen, labelOf, origin, attackQ, script, gpc>>
cli == <<iter, tpc>>
vars == <<records, classes, sources, drawn, batch, chunks, tally, offline, cli>>

Record == [category : Labels, tensor : Seq(Int), length : Nat]

TypeOK ==
    /\ records \in Seq(Record) /\ Len(records) <= MaxRecords
    /\ DOMAIN classes \subseteq Labels
    /\ \A c \in DOMAIN classes : classes[c] \in Seq(0..MaxRecords - 1)
    /\ sources \in Seq(Lines)
    /\ drawn \in Seq(Record) /\ batch \in Seq(Record)
    /\ chunks \in Seq(Seq(Record))
    /\ tally \in Tally
    /\ mode \in {"online", "offline"}
    /\ gen \in 0..NumMalicious + NumBenign
    /\ attackQ \in 0..MaxAttackFiles
    /\ script \in Scripts \cup {"none"} /\ gpc \in {"run", "raised"}
    /\ iter \in 0..NIters /\ tpc \in {"train", "saved"}

(* The categories in the order they were first inserted (dict order).      *)
KeyOrder == SetToSortSeq(DOMAIN classes,
                         LAMBDA a, b : classes[a][1] < classes[b][1])

Init ==
    /\ records = <<>>
    /\ classes = [c \in {} |-> <<>>]
    /\ sources = <<>>
    /\ drawn = <<>> /\ batch = <<>> /\ chunks = <<>>
    /\ tally = NoTally
    /\ mode \in {"online", "offline"}
    /\ \E pr \in IF mode = "offline" THEN PriorRuns ELSE {<<0, 0>>} :
          folder \in [PriorFiles(pr) -> Lines]
    /\ gen = 0
    /\ labelOf = [f \in {} |-> 0]
    /\ origin = <<>>
    /\ script \in IF mode = "offline" THEN Scripts ELSE {"none"}
    /\ attackQ \in IF script = "rescue" THEN 0..MaxAttackFiles ELSE {0}
    /\ gpc = "run"
    /\ iter = 0 /\ tpc = "train"

(* Mutant: the new record's position taken after the append.               *)
InsertItemAfter(category, line) ==
    /\ Len(records) < MaxRecords
    /\ LET enc == LineToTensor(line)
       IN records' = Append(records, [category |-> category,
                                      tensor |-> enc.tensor,
                                      length |-> Len(enc.line)])
    /\ classes' = IF category \in DOMAIN classes
                  THEN [classes EXCEPT ![category] = Append(@, Len(records) + 1)]
                  ELSE classes @@ (category :> <<Len(records) + 1>>)
    /\ sources' = Append(sources, line)
    /\ UNCHANGED <<drawn, batch, chunks>>

(* insertItem: encode the line, append the record, and add its position   *)
(* len(self.records) - 1 to its category's list.                           *)
InsertItem(category, line) ==
    /\ Len(records) < MaxRecords
    /\ LET enc == LineToTensor(line)
       IN records' = Append(records, [category |-> category,
                                      tensor |-> enc.tensor,
                                      length |-> Len(enc.line)])
    /\ classes' = IF category \in DOMAIN classes
                  THEN [classes EXCEPT ![category] = Append(@, Len(records))]
                  ELSE classes @@ (category :> <<Len(records)>>)
    /\ sources' = Append(sources, line)
    /\ UNCHANGED <<drawn, batch, chunks>>

(* getRandomBatch (never called): batch_size draws from all records.       *)
GetRandomBatch ==
    /\ records # <<>>
    /\ \E ids \in [1..BatchSize -> 0..Len(records) - 1] :
          /\ drawn' = [i \in 1..BatchSize |-> records[ids[i] + 1]]
          /\ batch' = PolishBatch(drawn')
    /\ UNCHANGED <<records, classes, sources, chunks, tally, offline>>

(* getBalancedBatch then polishBatch (train_batch, train.train):          *)
(* batch_size // len(classes) draws, with replacement, from each category  *)
(* in dict order.                                                          *)
GetBalancedBatch ==
    /\ records # <<>>
    /\ LET keys == KeyOrder
           avg == BatchSize \div Len(keys)
       IN \E pick \in [1..Len(keys) -> [1..avg -> 0..Len(records) - 1]] :
             /\ \A k \in 1..Len(keys), j \in 1..avg :
                   pick[k][j] \in Range(classes[keys[k]])
             /\ drawn' = LET ids == FlattenSeq(pick)
                         IN [i \in DOMAIN ids |-> records[ids[i] + 1]]
             /\ batch' = PolishBatch(drawn')
    /\ UNCHANGED <<records, classes, sources, chunks, tally, offline>>

(* test.test: cut the records with getTestBatchList, polish each chunk,   *)
(* score it (the model's guesses are free) and sum the batchAccuracy      *)
(* counts over all chunks.                                                 *)
Test ==
    /\ chunks' = GetTestBatchList(records, BatchSize)
    /\ \E guess \in [1..Len(chunks') -> [1..BatchSize -> Labels]] :
          tally' = FoldLeft(AddTally, NoTally,
                            [k \in DOMAIN chunks' |->
                               BatchAccuracy(PolishBatch(chunks'[k]), guess[k])])
    /\ UNCHANGED <<records, classes, sources, drawn, batch, offline, cli>>

(* OnlineDataset(benign, malicious): insertItem per reported line.         *)
OnlineInsert(c, l) ==
    /\ mode = "online"
    /\ InsertItem(c, l)
    /\ UNCHANGED <<tally, offline, cli>>

(* random.randint(a, b): the values it may return; none when a > b,      *)
(* where it raises ValueError.                                            *)
Randint(a, b) == a..b

(* 3-single-complex's generate_content_attack('If-None-Match'): the       *)
(* <<prefix, spaces, postfix>> lengths it can build, length_content from  *)
(* randint(ATTACK_THRESHOLD, length_limit), then length_prefix from       *)
(* randint(1, length_limit - length_content).                             *)
ComplexAttackDraws ==
    UNION {{<<p, c, LengthLimit - c - p>> : p \in Randint(1, LengthLimit - c)}
           : c \in Randint(AttackThreshold, LengthLimit)}

(* The same draws can raise: the first randint has an empty range, or it  *)
(* picks length_limit itself and the second is randint(1, 0).             *)
ComplexAttackRaises ==
    \/ Randint(AttackThreshold, LengthLimit) = {}
    \/ \E c \in Randint(AttackThreshold, LengthLimit) :
          Randint(1, LengthLimit - c) = {}

(* Whether main can write its next malicious sample: 1-single-constant's  *)
(* Database-Key 'regexnet' * 8 always can; 3-single-complex needs a draw  *)
(* that does not raise; 5-single-rescue needs an attack content left.     *)
MaliciousWritable ==
    CASE script = "constant" -> TRUE
      [] script = "complex"  -> ComplexAttackDraws # {}
      [] script = "rescue"   -> attackQ > 0

(* Mutant: a benign sample's headers also come from                      *)
(* generate_content_attack, which takes from attack_contents.              *)
GenerateAttackEvery ==
    /\ mode = "offline" /\ gpc = "run"
    /\ gen < NumMalicious + NumBenign
    /\ LET label == IF gen < NumMalicious THEN 1 ELSE 0
           name == FileName(gen, label)
       IN /\ label = 1 => MaliciousWritable
          /\ script = "rescue" => attackQ > 0
          /\ \E l \in Lines :
                /\ folder' = (name :> l) @@ folder
                /\ labelOf' = labelOf @@ (name :> label)
          /\ attackQ' = IF script = "rescue" THEN attackQ - 1 ELSE attackQ
    /\ gen' = gen + 1
    /\ UNCHANGED <<records, classes, sources, drawn, batch, chunks, tally,
                   mode, origin, script, gpc, cli>>

(* The dataset scripts' main: indices 0 .. num_malicious - 1 get label 1, *)
(* the next num_benign label 0; each file holds one generated request,    *)
(* written with open(path, 'w').  In 5-single-rescue a malicious          *)
(* User-Agent is attack_contents.get(), filled once from the files of     *)
(* resource/ua-parser-js: on an empty queue get() blocks for ever.        *)
Generate ==
    /\ mode = "offline" /\ gpc = "run"
    /\ gen < NumMalicious + NumBenign
    /\ LET label == IF gen < NumMalicious THEN 1 ELSE 0
           name == FileName(gen, label)
       IN /\ label = 1 => MaliciousWritable
          /\ \E l \in Lines :
                /\ folder' = (name :> l) @@ folder
                /\ labelOf' = labelOf @@ (name :> label)
          /\ attackQ' = IF script = "rescue" THEN attackQ - label ELSE attackQ
    /\ gen' = gen + 1
    /\ UNCHANGED <<records, classes, sources, drawn, batch, chunks, tally,
                   mode, origin, script, gpc, cli>>

(* 3-single-complex's main at a malicious index: the If-None-Match draw   *)
(* raises ValueError, which ends the script with the files so far.        *)
RaiseOnAttack ==
    /\ mode = "offline" /\ gpc = "run"
    /\ script = "complex"
    /\ gen < NumMalicious
    /\ ComplexAttackRaises
    /\ gpc' = "raised"
    /\ UNCHANGED <<records, classes, sources, drawn, batch, chunks, tally,
                   mode, folder, gen, labelOf, origin, attackQ, script, cli>>

(* The dataset script has exited: it wrote every sample, or it raised.     *)
GeneratorExited == gen = NumMalicious + NumBenign \/ gpc = "raised"

(* OfflineDataset.__init__, once the generator has exited: for each name of *)
(* os.listdir(folder), in whatever order it lists them, insertItem with   *)
(* the label parsed from the name.                                         *)
Load(name) ==
    /\ mode = "offline"
    /\ GeneratorExited
    /\ name \notin Range(origin)
    /\ InsertItem(CategoryOf[name], folder[name])
    /\ origin' = Append(origin, name)
    /\ UNCHANGED <<tally, mode, folder, gen, labelOf, attackQ, script, gpc,
                   cli>>

(* data_manager's train_batch: a balanced batch of an OnlineDataset of     *)
(* the reports, polished for train_one_step.                               *)
TrainBatch ==
    /\ mode = "online"
    /\ GetBalancedBatch
    /\ UNCHANGED cli

(* train.py's main builds the OfflineDataset, every file of the folder,    *)
(* before it trains.  One iteration of train()'s                           *)
(* `for iter in range(1, n_iters + 1)`: getBalancedBatch, polishBatch and  *)
(* train_one_step, whose parameter update is left out.                     *)
TrainStep ==
    /\ mode = "offline" /\ tpc = "train"
    /\ GeneratorExited /\ Range(origin) = DOMAIN folder
    /\ iter < NIters
    /\ GetBalancedBatch
    /\ iter' = iter + 1
    /\ UNCHANGED tpc

(* After n_iters steps main writes the model: torch.save(model, model_path). *)
SaveModel ==
    /\ mode = "offline" /\ tpc = "train"
    /\ iter = NIters
    /\ tpc' = "saved"
    /\ UNCHANGED <<records, classes, sources, drawn, batch, chunks, tally,
                   offline, iter>>

Next ==
    \/ \E c \in Labels, l \in Lines : OnlineInsert(c, l)
    \/ Generate
    \/ RaiseOnAttack
    \/ \E name \in DOMAIN folder : Load(name)
    \/ TrainBatch
    \/ TrainStep
    \/ SaveModel
    \/ Test

(* train.py's steps: OfflineDataset's loads, train()'s loop and the save. *)
TrainPy == (\E name \in DOMAIN folder : Load(name)) \/ TrainStep \/ SaveModel

(* ENABLED <<TrainPy>>_vars, written out from the guards of Load,          *)
(* TrainStep and SaveModel: a balanced batch can always be drawn from a    *)
(* corpus that is not empty, as BatchSize covers both labels.             *)
TrainPyEnabled ==
    /\ mode = "offline" /\ GeneratorExited
    /\ \/ DOMAIN folder \ Range(origin) # {} /\ Len(records) < MaxRecords
       \/ /\ tpc = "train" /\ Range(origin) = DOMAIN folder
          /\ iter < NIters /\ records # <<>>
       \/ tpc = "train" /\ iter = NIters

(* Weak fairness of train.py, WF_vars(TrainPy) with its enabling condition *)
(* spelled out.                                                            *)
TrainPyFair == <>[]TrainPyEnabled => []<><<TrainPy>>_vars

(* The generator and train.py are sequential processes that run until     *)
(* they are done: a step of each, once one is enabled, is taken.          *)
Spec == Init /\ [][Next]_vars /\ WF_vars(Generate) /\ TrainPyFair

-----------------------------------------------------------------------------
Count(b, c) == Cardinality({i \in DOMAIN b : b[i].category = c})

(* A sample as polishBatch's caller sees it: label, true length and the    *)
(* line before the batch padding.                                          *)
Unpadded(b) == [i \in DOMAIN b |-> <<b[i].category, b[i].length,
                                    SubSeq(b[i].tensor, 1, b[i].length)>>]

(* Spec 2, Corpus: every record position is referenced by exactly one     *)
(* category list, the one of the record's own category, in insertion      *)
(* order (insertItem's len(self.records) - 1 after the append).           *)
IndexPartition ==
    /\ \A p \in 0..Len(records) - 1 :
          /\ records[p + 1].category \in DOMAIN classes
          /\ p \in Range(classes[records[p + 1].category])
    /\ \A c \in DOMAIN classes :
          /\ IsSorted(classes[c], <)
          /\ \A j \in DOMAIN classes[c] :
                /\ classes[c][j] \in 0..Len(records) - 1
                /\ records[classes[c][j] + 1].category = c

(* Spec 4.1, round-trip law: tensorToLine of the tensor lineToTensor made *)
(* for a stored record gives back the line inserted.                      *)
RoundTrip ==
    \A i \in DOMAIN records : TensorToLine(records[i].tensor) = sources[i]

(* Spec 4.3: polishBatch sorts by descending true length and pads every  *)
(* line to the batch's longest, while each line keeps its own label and   *)
(* true length: the batch is the drawn samples, reordered.                *)
PolishedBatch ==
    batch # <<>> =>
        /\ IsSorted([i \in DOMAIN batch |-> batch[i].length], >=)
        /\ \A i \in DOMAIN batch : Len(batch[i].tensor) = batch[1].length
        /\ ToBag(Unpadded(batch)) = ToBag(Unpadded(drawn))

(* Spec 4.3/8: over a corpus holding both labels, getBalancedBatch gives  *)
(* each label batch_size / 2 samples, however imbalanced the corpus.       *)
BalancedWhenBothPresent ==
    [][drawn' # drawn /\ DOMAIN classes = Labels =>
         \A c \in Labels : Count(batch', c) = BatchSize \div 2]_vars

(* Spec 4.3/8: getTestBatchList partitions the records, in order, into     *)
(* ceil(M / n) contiguous chunks of at most n records, all but the last    *)
(* full.                                                                   *)
ChunksPartitionRecords ==
    [][chunks' # chunks =>
         /\ FlattenSeq(chunks') = records
         /\ \A k \in DOMAIN chunks' : Len(chunks'[k]) \in 1..BatchSize
         /\ \A k \in 1..Len(chunks') - 1 : Len(chunks'[k]) = BatchSize]_vars

(* Spec 8, offline evaluation: test.test scores every record exactly once  *)
(* under its own label, so its positive total is the number of benign     *)
(* records and its negative total the number of malicious ones.  This     *)
(* rests on getTestBatchList covering the records, polishBatch keeping    *)
(* each label with its line, and batchAccuracy counting by label.          *)
TestTallyCoversCorpus ==
    [][chunks' # chunks \/ tally' # tally =>
         /\ tally'.pt = Count(records', 0)
         /\ tally'.nt = Len(records') - Count(records', 0)]_vars

(* The label OfflineDataset gives a record is the label the generator     *)
(* wrote its file for: the '%d-%d.txt' name written by the dataset        *)
(* scripts and the split('.')/split('-') parse in data.py agree.          *)
LabelsFromFileNames ==
    mode = "offline" =>
        \A i \in DOMAIN origin : records[i].category = labelOf[origin[i]]

(* The offline pipeline ends with a model: 1-single-constant, or          *)
(* 5-single-rescue given at least --num_malicious attack contents, writes *)
(* every sample, OfflineDataset loads the folder, and train.py's n_iters  *)
(* steps end in torch.save.  With too few contents, attack_contents.get() *)
(* blocks for ever and no model is saved.                                 *)
ModelSaved ==
    (mode = "offline" /\ script \in {"constant", "rescue"} /\ gen = 0
       /\ (script = "rescue" => attackQ >= NumMalicious))
        ~> tpc = "saved"

(* The dataset train.py loads is the one asked for: it holds all         *)
(* num_malicious + num_benign samples of this generator run, and only     *)
(* files that run wrote.  3-single-complex can raise before its last      *)
(* malicious sample, leaving fewer files, and a reused folder adds the    *)
(* older files of an earlier run; OfflineDataset loads whatever is there. *)
DatasetAsRequested ==
    origin # <<>> =>
        /\ gen = NumMalicious + NumBenign
        /\ \A i \in DOMAIN origin : origin[i] \in DOMAIN labelOf
=============================================================================
