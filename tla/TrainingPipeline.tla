---------------------------- MODULE TrainingPipeline ----------------------------
(***************************************************************************)
(* From a raw dataset to a model that Ollama serves (bmt_ai_os/training/   *)
(* data_prep.py, lora.py and export.py).                                   *)
(*                                                                         *)
(* The steps are functions that a script calls one after another; each     *)
(* looks only at whether its input exists, and raises, with nothing        *)
(* changed, when it does not.  A call may also raise further on, or be     *)
(* killed with its script, and leaves what it has written.  The contents   *)
(* of a file are the records it was made from.  PyTorch, llama.cpp and     *)
(* Ollama are not in the repository: they raise, or copy what they are     *)
(* given.                                                                  *)
(***************************************************************************)
EXTENDS Naturals, Sequences, SequencesExt, FiniteSets

CONSTANTS Datasets,   \* raw datasets: format, whether it parses as JSON, records
          MaxBreaks   \* bound on the calls that raise or are killed

ASSUME PipelineAssumption == \A d \in Datasets : d.records \in Seq({"full", "half", "other"})

VARIABLES
    source,    \* external: the raw dataset
    prepared,  \* output_path of prepare_dataset
    stats,     \* DataStats of the last prepare_dataset, whole once it has returned
    trainer,   \* the LoRATrainer of the script
    adapter,   \* adapter_final in the output directory of the trainer
    merged,    \* output_path of merge_adapter
    fp16,      \* the intermediate file of convert_to_gguf
    gguf,      \* output_path of convert_to_gguf
    modelfile, \* a temporary Modelfile of register_with_ollama exists
    served,    \* external: the model in Ollama
    inCall,    \* what the script is calling and how far the call is
    breaks     \* history: the calls that raised or were killed, and how far they were

exportVars == <<merged, fp16, gguf, modelfile, served>>
pipelineVars == <<source, prepared, stats, trainer, adapter, exportVars, inCall, breaks>>

NoArtifact == [is |-> "absent", data |-> <<>>]
PartOfOne == [is |-> "partial", data |-> <<>>]
NoStats == [total |-> 0, skipped |-> 0, whole |-> FALSE]
NoTrainer == [status |-> "none", configured |-> FALSE, loaded |-> <<>>]
NoCall == [op |-> "none", at |-> 0]

PipelineInit ==
    /\ source \in Datasets
    /\ prepared = NoArtifact /\ stats = NoStats
    /\ trainer = NoTrainer /\ adapter = NoArtifact
    /\ merged = NoArtifact /\ fp16 = NoArtifact /\ gguf = NoArtifact /\ served = NoArtifact
    /\ modelfile = FALSE
    /\ inCall = NoCall /\ breaks = {}

\* The script calls op; the call goes on, returns, or raises.
Starts(op) == inCall = NoCall /\ inCall' = [op |-> op, at |-> 1] /\ UNCHANGED breaks
In(op, n) == inCall.op = op /\ inCall.at = n
GoesOn == inCall' = [inCall EXCEPT !.at = @ + 1] /\ UNCHANGED breaks
Ends == inCall' = NoCall /\ UNCHANGED breaks
Breaks(how) ==
    /\ Cardinality(breaks) < MaxBreaks
    /\ inCall' = NoCall
    /\ breaks' = breaks \cup {[op |-> inCall.op, at |-> inCall.at, how |-> how]}

----------------------------------------------------------------------------
(* prepare_dataset                                                         *)

\* What the iterators of Alpaca and ShareGPT make of a record.  full: nothing is
\* missing; half: the instruction, the output or one side of the conversation is
\* missing or empty; other: not an object but a number, say.
ObjectYields == [full |-> "text", half |-> "error", other |-> "exception"]

\* The raw format looks at the type; text that is not JSON is taken line by line.
RawYields(kind) == IF source.json /\ kind # "full" THEN "error" ELSE "text"

Yields(i) ==
    IF source.format = "raw" THEN RawYields(source.records[i])
    ELSE ObjectYields[source.records[i]]

\* Alpaca and ShareGPT datasets are parsed before the first record is looked at.
Unreadable == ~source.json /\ source.format # "raw"

\* The output is opened, and what it held is gone, before the input is read.
PrepareStart ==
    /\ Starts("prepare")
    /\ prepared' = PartOfOne /\ stats' = NoStats
    /\ UNCHANGED <<source, trainer, adapter, exportVars>>

PrepareRecord ==
    /\ inCall.op = "prepare" /\ ~Unreadable
    /\ inCall.at <= Len(source.records) /\ Yields(inCall.at) # "exception"
    /\ IF Yields(inCall.at) = "text"
       THEN /\ prepared' = [prepared EXCEPT !.data = Append(@, inCall.at)]
            /\ stats' = [stats EXCEPT !.total = @ + 1]
       ELSE stats' = [stats EXCEPT !.skipped = @ + 1] /\ UNCHANGED prepared
    /\ GoesOn
    /\ UNCHANGED <<source, trainer, adapter, exportVars>>

\* The output is closed, with the records so far.
PrepareRaises ==
    /\ inCall.op = "prepare"
    /\ \/ Unreadable
       \/ inCall.at <= Len(source.records) /\ Yields(inCall.at) = "exception"
    /\ Breaks("raised")
    /\ UNCHANGED <<source, prepared, stats, trainer, adapter, exportVars>>

PrepareEnds ==
    /\ inCall.op = "prepare" /\ ~Unreadable /\ inCall.at > Len(source.records)
    /\ Ends
    /\ prepared' = [prepared EXCEPT !.is = "whole"]
    /\ stats' = [stats EXCEPT !.whole = TRUE]
    /\ UNCHANGED <<source, trainer, adapter, exportVars>>

----------------------------------------------------------------------------
(* LoRATrainer: configure is at 1, the training loop at 2, at 3 the        *)
(* adapter is being saved, and at 4 the summary for TensorBoard is.        *)

\* A new job id: its output directory is new as well.
NewTrainer ==
    /\ inCall = NoCall
    /\ trainer' = [NoTrainer EXCEPT !.status = "pending"]
    /\ adapter' = NoArtifact
    /\ UNCHANGED <<source, prepared, stats, exportVars, inCall, breaks>>

ConfigureTrainer ==
    /\ trainer.status # "none"
    /\ Starts("configure")
    /\ trainer' = [trainer EXCEPT !.status = "configuring"]
    /\ UNCHANGED <<source, prepared, stats, adapter, exportVars>>

Train ==
    /\ trainer.status # "none" /\ inCall = NoCall
    /\ inCall' = [op |-> "train", at |-> IF trainer.configured THEN 2 ELSE 1]
    /\ trainer' = [trainer EXCEPT !.status =
                     IF trainer.configured THEN "training" ELSE "configuring"]
    /\ UNCHANGED <<source, prepared, stats, adapter, exportVars, breaks>>

\* The dataset is loaded last, and once: a second configure keeps it.  A partial
\* file loads like a whole one.
Configured ==
    /\ In("configure", 1) \/ In("train", 1)
    /\ trainer.configured \/ prepared.is # "absent"
    /\ trainer' = [status |-> IF inCall.op = "train" THEN "training" ELSE "configuring",
                   configured |-> TRUE,
                   loaded |-> IF trainer.configured THEN trainer.loaded ELSE prepared.data]
    /\ IF inCall.op = "train" THEN GoesOn ELSE Ends
    /\ UNCHANGED <<source, prepared, stats, adapter, exportVars>>

\* configure, called by train or not, is outside the try: the status stays.
ConfigureRaises ==
    /\ In("configure", 1) \/ In("train", 1)
    /\ Breaks("raised")
    /\ UNCHANGED <<source, prepared, stats, trainer, adapter, exportVars>>

\* on_evaluate sets the status to evaluating and back to training.
Evaluate ==
    /\ In("train", 2)
    /\ trainer' = [trainer EXCEPT !.status = IF @ = "training" THEN "evaluating" ELSE "training"]
    /\ UNCHANGED <<source, prepared, stats, adapter, exportVars, inCall, breaks>>

Trained ==
    /\ In("train", 2) /\ trainer.status = "training"
    /\ adapter' = PartOfOne
    /\ GoesOn
    /\ UNCHANGED <<source, prepared, stats, trainer, exportVars>>

AdapterSaved ==
    /\ In("train", 3)
    /\ adapter' = [is |-> "whole", data |-> trainer.loaded]
    /\ GoesOn
    /\ UNCHANGED <<source, prepared, stats, trainer, exportVars>>

Completed ==
    /\ In("train", 4)
    /\ trainer' = [trainer EXCEPT !.status = "completed"]
    /\ Ends
    /\ UNCHANGED <<source, prepared, stats, adapter, exportVars>>

TrainRaises ==
    /\ inCall.op = "train" /\ inCall.at \in 2..4
    /\ trainer' = [trainer EXCEPT !.status = "failed"]
    /\ Breaks("raised")
    /\ UNCHANGED <<source, prepared, stats, adapter, exportVars>>

----------------------------------------------------------------------------
(* merge_adapter, convert_to_gguf and register_with_ollama                 *)

MergeStart ==
    /\ Starts("merge") /\ adapter.is # "absent"
    /\ UNCHANGED <<source, prepared, stats, trainer, adapter, exportVars>>

\* At 1 the models are loaded, and at 2 the merged one is being saved.
MergeSaves ==
    /\ In("merge", 1)
    /\ merged' = PartOfOne
    /\ GoesOn
    /\ UNCHANGED <<source, prepared, stats, trainer, adapter, fp16, gguf, modelfile, served>>

MergeEnds ==
    /\ In("merge", 2)
    /\ merged' = adapter
    /\ Ends
    /\ UNCHANGED <<source, prepared, stats, trainer, adapter, fp16, gguf, modelfile, served>>

MergeRaises ==
    /\ inCall.op = "merge"
    /\ Breaks("raised")
    /\ UNCHANGED <<source, prepared, stats, trainer, adapter, exportVars>>

\* Without a script of llama.cpp the call raises before it writes.
ConvertStart ==
    /\ Starts("convert") /\ merged.is # "absent"
    /\ fp16' = PartOfOne
    /\ UNCHANGED <<source, prepared, stats, trainer, adapter, merged, gguf, modelfile, served>>

\* At 1 the script writes the intermediate file, and at 2 llama-quantize the output.
Fp16Written ==
    /\ In("convert", 1)
    /\ fp16' = merged /\ gguf' = PartOfOne
    /\ GoesOn
    /\ UNCHANGED <<source, prepared, stats, trainer, adapter, merged, modelfile, served>>

Fp16Fails ==
    /\ In("convert", 1)
    /\ Breaks("raised")
    /\ UNCHANGED <<source, prepared, stats, trainer, adapter, exportVars>>

Quantized ==
    /\ In("convert", 2)
    /\ gguf' = fp16 /\ fp16' = NoArtifact
    /\ Ends
    /\ UNCHANGED <<source, prepared, stats, trainer, adapter, merged, modelfile, served>>

\* Faulty: the intermediate file is removed only after success.
QuantizeFailsUncleaned ==
    /\ In("convert", 2)
    /\ Breaks("raised")
    /\ UNCHANGED <<source, prepared, stats, trainer, adapter, exportVars>>

\* The finally of the second stage.
QuantizeFails ==
    /\ In("convert", 2)
    /\ fp16' = NoArtifact
    /\ Breaks("raised")
    /\ UNCHANGED <<source, prepared, stats, trainer, adapter, merged, gguf, modelfile, served>>

RegisterStart ==
    /\ Starts("register") /\ gguf.is # "absent"
    /\ modelfile' = TRUE
    /\ UNCHANGED <<source, prepared, stats, trainer, adapter, merged, fp16, gguf, served>>

\* At 1 the Modelfile is being written, outside the try, and at 2 Ollama reads it.
ModelfileWritten ==
    /\ In("register", 1)
    /\ GoesOn
    /\ UNCHANGED <<source, prepared, stats, trainer, adapter, exportVars>>

ModelfileFails ==
    /\ In("register", 1)
    /\ Breaks("raised")
    /\ UNCHANGED <<source, prepared, stats, trainer, adapter, exportVars>>

\* The look at the model list afterwards only warns.
Registered ==
    /\ In("register", 2)
    /\ served' = gguf /\ modelfile' = FALSE
    /\ Ends
    /\ UNCHANGED <<source, prepared, stats, trainer, adapter, merged, fp16, gguf>>

RegisterFails ==
    /\ In("register", 2)
    /\ modelfile' = FALSE
    /\ Breaks("raised")
    /\ UNCHANGED <<source, prepared, stats, trainer, adapter, merged, fp16, gguf, served>>

----------------------------------------------------------------------------
\* The script is killed: what it held in memory is gone, the records of the output
\* that were still in a buffer included.
Killed ==
    /\ inCall # NoCall
    /\ Breaks("killed")
    /\ trainer' = NoTrainer /\ stats' = NoStats
    /\ \E n \in 0..Len(prepared.data) :
         prepared' = IF inCall.op = "prepare"
                     THEN [prepared EXCEPT !.data = SubSeq(@, 1, n)] ELSE prepared
    /\ UNCHANGED <<source, adapter, exportVars>>

PipelineNext ==
    \/ PrepareStart \/ PrepareRecord \/ PrepareRaises \/ PrepareEnds
    \/ NewTrainer \/ ConfigureTrainer \/ Train \/ Configured \/ ConfigureRaises
    \/ Evaluate \/ Trained \/ AdapterSaved \/ Completed \/ TrainRaises
    \/ MergeStart \/ MergeSaves \/ MergeEnds \/ MergeRaises
    \/ ConvertStart \/ Fp16Written \/ Fp16Fails \/ Quantized \/ QuantizeFails
    \/ RegisterStart \/ ModelfileWritten \/ ModelfileFails \/ Registered \/ RegisterFails
    \/ Killed

PipelineSpec == PipelineInit /\ [][PipelineNext]_pipelineVars

----------------------------------------------------------------------------
Artifacts == [is : {"absent", "partial", "whole"}, data : Seq(Nat)]

PipelineTypeOK ==
    /\ source \in Datasets
    /\ {prepared, adapter, merged, fp16, gguf, served} \subseteq Artifacts
    /\ stats \in [total : Nat, skipped : Nat, whole : BOOLEAN]
    /\ trainer \in [status : {"none", "pending", "configuring", "training", "evaluating",
                             "completed", "failed"},
                   configured : BOOLEAN, loaded : Seq(Nat)]
    /\ modelfile \in BOOLEAN
    /\ inCall \in [op : {"none", "prepare", "configure", "train", "merge", "convert", "register"},
                  at : Nat]

\* d holds, of the first n records, those that yield a text, once and in their order.
KeepsFirst(d, n) ==
    /\ Range(d) = {i \in 1..n : Yields(i) = "text"}
    /\ \A i, j \in DOMAIN d : i < j => d[i] < d[j]

KeepsAll(d) == KeepsFirst(d, Len(source.records))

Broke(op) == \E b \in breaks : b.op = op

\* A dataset that prepare_dataset returned for holds every record that yields a
\* text, once and in order, and its numbers add up to the records.
PreparedIsComplete ==
    stats.whole =>
      /\ prepared.is = "whole" /\ KeepsAll(prepared.data)
      /\ stats.total = Len(prepared.data) /\ stats.total + stats.skipped = Len(source.records)

\* The model in Ollama was made from a part of those records without a gap, from
\* all of them unless a prepare_dataset broke, and is whole unless a step between
\* broke: nothing but an error the script was given explains less.
ServedIsExplained ==
    /\ \E n \in 0..Len(source.records) : KeepsFirst(served.data, n)
    /\ served.is = "whole" => KeepsAll(served.data) \/ Broke("prepare")
    /\ served.is = "partial" => Broke("train") \/ Broke("merge") \/ Broke("convert")

\* A completed trainer has its whole adapter; the intermediate file is left over
\* only by a first stage that failed or a kill, and a Modelfile only by a write
\* that failed or a kill.
NothingIsLeftOver ==
    inCall = NoCall =>
      /\ trainer.status = "completed" => adapter = [is |-> "whole", data |-> trainer.loaded]
      /\ fp16.is # "absent" =>
           \E b \in breaks : b.op = "convert" /\ (b.at = 1 \/ b.how = "killed")
      /\ modelfile =>
           \E b \in breaks : b.op = "register" /\ (b.at = 1 \/ b.how = "killed")

\* What a step of the pipeline was given, it used; what it left, an error explains.
PipelineIsSound == PreparedIsComplete /\ ServedIsExplained /\ NothingIsLeftOver
=============================================================================
