---- MODULE EvaluationProofs ----
(***************************************************************************)
(* Proofs about Evaluation, for any installations, configurations, models  *)
(* and answers, any number of samples, workers and retries, and whatever   *)
(* is killed: a report is about the model its configuration names, counts  *)
(* only what that model answered, and progress is claimed where it is.     *)
(***************************************************************************)
EXTENDS Evaluation, FiniteSetTheorems, TLAPS

-----------------------------------------------------------------------------
(* The invariant.                                                          *)

\* What is noted of a sample.
Records == {Error} \cup {record(Answer[m][s], s) : m \in Servable, s \in Samples}

DirType == [config : BOOLEAN, weights : {None} \cup Merged, tokenizer : BOOLEAN]

ExportType ==
  [pc : {"load", "config", "weights", "tokenizer"}, dir : MergedDirs,
   adapter : {c.checkpoint : c \in Configs}, model : {None} \cup Merged]

RunType ==
  [pc : {"waiting", "sampling"}, config : Configs, attempt : Nat,
   posts : [Samples -> Nat], records : [Samples -> {None} \cup Records],
   by : SUBSET Servable]

ReportType ==
  [config : Configs, by : SUBSET Servable,
   summary : {summarize(rs, c.overlap) : rs \in [Samples -> Records], c \in Configs}]

\* Types of the variables of Evaluation.
TypeOK ==
  /\ tier \in Tiers
  /\ dirs \in [MergedDirs -> DirType]
  /\ export \in {Idle} \cup ExportType
  /\ server \in {None} \cup Servers
  /\ run \in {Idle} \cup RunType
  /\ reports \in [OutputDirs -> {None} \cup ReportType]
  /\ delta \in {None} \cup 
       {compute_delta(before, after, any_role) :
          before, after \in ReportType, any_role \in BOOLEAN}
  /\ used \in [runs : Nat, exports : Nat, faults : Nat]

\* A model made of the adapter of c, which is one, for this installation.
MadeFor(c, m) ==
  /\ c.checkpoint # None /\ kind(c) = PEFT_ADAPTER
  /\ m.base = tier.base /\ m.adapter = c.checkpoint

\* A merge is for a configuration that names its directory, and what it has loaded and
\* what it has written is made of that configuration's adapter.
ExportInv ==
  export # Idle =>
    \E c \in Configs :
      /\ c.merged_dir = export.dir /\ c.checkpoint = export.adapter
      /\ c.checkpoint # None /\ kind(c) = PEFT_ADAPTER
      /\ export.pc \in {"config", "weights"} => export.model \in Merged /\ MadeFor(c, export.model)

DirInv ==
  \A d \in MergedDirs : dirs[d].weights # None =>
    \E c \in Configs : c.merged_dir = d /\ MadeFor(c, dirs[d].weights)

\* A server of a configuration with a directory of its own holds that one's model.
ServerInv ==
  server # None =>
    /\ server.name = server.config.served_name
    /\ server.state = "up" =>
         /\ server.model \in Servable
         /\ own(server.config) => server.model = Subject(server.config)

\* What is noted of a sample is an error or what the one model has answered.
Noted(records, by, s) ==
  \/ records[s] = Error
  \/ \E m \in by : by = {m} /\ records[s] = record(Answer[m][s], s)

\* An evaluation hears one model: once there is an answer, its server is neither loaded
\* again nor replaced.
RunInv ==
  run # Idle =>
    /\ run.by # {} => /\ server # None /\ server.state # "loading" /\ run.by = {server.model}
    /\ own(run.config) => run.by \subseteq {Subject(run.config)}
    /\ \A s \in Samples : run.records[s] = None \/ Noted(run.records, run.by, s)

\* A report is the summary of what was noted.
Faithful(r) ==
  /\ own(r.config) => r.by \subseteq {Subject(r.config)}
  /\ \E records \in [Samples -> Records] :
       /\ r.summary = summarize(records, r.config.overlap)
       /\ \A s \in Samples : Noted(records, r.by, s)

ReportInv == \A d \in OutputDirs : reports[d] # None => Faithful(reports[d])

\* A verdict is one on two reports, as they were.
DeltaInv ==
  delta # None =>
    /\ Faithful(delta.before) /\ Faithful(delta.after)
    /\ comparable(delta.before, delta.after)
    /\ delta.before.config.role = "base" \/ delta.any_role
    /\ delta = compute_delta(delta.before, delta.after, delta.any_role)

Inv == TypeOK /\ ExportInv /\ DirInv /\ ServerInv /\ RunInv /\ ReportInv /\ DeltaInv

-----------------------------------------------------------------------------
(* What does not change.                                                   *)

\* The parts of the invariant are about a few variables each, and about the installation,
\* which stays.
LEMMA Kept ==
  ASSUME Inv, UNCHANGED tier
  PROVE  /\ UNCHANGED export => ExportInv'
         /\ UNCHANGED dirs => DirInv'
         /\ UNCHANGED server => ServerInv'
         /\ UNCHANGED <<server, run>> => RunInv'
         /\ UNCHANGED reports => ReportInv'
         /\ UNCHANGED delta => DeltaInv'
<1>1. /\ \A c : kind(c)' = kind(c) /\ Subject(c)' = Subject(c) /\ own(c)' = own(c)
      /\ \A c, m : MadeFor(c, m)' = MadeFor(c, m)
      /\ \A r : Faithful(r)' = Faithful(r)
  <2>1. \A c : kind(c)' = kind(c) /\ own(c)' = own(c)
    BY DEF kind, own
  <2>2. \A c : Subject(c)' = Subject(c)
    BY <2>1 DEF Subject, kind
  <2>3. \A c, m : MadeFor(c, m)' = MadeFor(c, m)
    BY <2>1 DEF MadeFor
  <2>4. \A r : Faithful(r)' = Faithful(r)
    BY <2>1, <2>2 DEF Faithful
  <2> QED
    BY <2>1, <2>2, <2>3, <2>4
<1>2. UNCHANGED export => ExportInv'
  BY <1>1 DEF Inv, ExportInv
<1>3. UNCHANGED dirs => DirInv'
  BY <1>1 DEF Inv, DirInv
<1>4. UNCHANGED server => ServerInv'
  BY <1>1 DEF Inv, ServerInv
<1>5. UNCHANGED <<server, run>> => RunInv'
  BY <1>1 DEF Inv, RunInv
<1>6. UNCHANGED reports => ReportInv'
  BY <1>1 DEF Inv, ReportInv
<1>7. UNCHANGED delta => DeltaInv'
  BY <1>1 DEF Inv, DeltaInv
<1> QED
  BY <1>2, <1>3, <1>4, <1>5, <1>6, <1>7

LEMMA FaultType ==
  ASSUME used \in [runs : Nat, exports : Nat, faults : Nat], fault
  PROVE  used' \in [runs : Nat, exports : Nat, faults : Nat]
<1>1. used' = [used EXCEPT !.faults = used.faults + 1] /\ used.faults + 1 \in Nat
  BY DEF fault
<1> QED
  BY <1>1

LEMMA InitInv == Init => Inv
<1> SUFFICES ASSUME Init PROVE Inv
  OBVIOUS
<1>1. Absent \in DirType /\ Absent.weights = None
  BY DEF Absent, DirType
<1>2. TypeOK
  BY <1>1 DEF Init, TypeOK
<1>3. DirInv
  BY <1>1 DEF Init, DirInv
<1>4. ExportInv /\ ServerInv /\ RunInv /\ DeltaInv
  BY DEF Init, ExportInv, ServerInv, RunInv, DeltaInv
<1>5. ReportInv
  BY DEF Init, ReportInv
<1> QED
  BY <1>2, <1>3, <1>4, <1>5 DEF Inv

-----------------------------------------------------------------------------
(* The merge.                                                              *)

\* A directory is written.
LEMMA DirsType ==
  ASSUME TypeOK, NEW d \in MergedDirs, NEW x \in DirType, dirs' = [dirs EXCEPT ![d] = x]
  PROVE  /\ dirs' \in [MergedDirs -> DirType] /\ dirs'[d] = x
         /\ \A e \in MergedDirs \ {d} : dirs'[e] = dirs[e]
BY DEF TypeOK

\* A merge that is under way.
LEMMA UnderWay ==
  ASSUME Inv, export.pc # "idle"
  PROVE  /\ export \in ExportType /\ export # Idle /\ export.dir \in MergedDirs
         /\ dirs[export.dir] \in DirType
<1>1. export # Idle
  BY DEF Idle
<1>2. export \in ExportType /\ dirs \in [MergedDirs -> DirType]
  BY <1>1 DEF Inv, TypeOK
<1> QED
  BY <1>1, <1>2 DEF ExportType

LEMMA ExportKeeps ==
  ASSUME Inv, NEW c \in Configs, NEW overwrite \in BOOLEAN, Export(c, overwrite)
  PROVE  Inv'
<1>1. /\ c.checkpoint # None /\ kind(c) = PEFT_ADAPTER /\ c.merged_dir # None
      /\ UNCHANGED <<tier, server, run, reports, delta>>
      /\ export' = [pc |-> "load", dir |-> c.merged_dir, adapter |-> c.checkpoint, model |-> None]
      /\ used' = [used EXCEPT !.exports = used.exports + 1]
      /\ TypeOK /\ DirInv
  BY DEF Inv, Export
<1>2. dirs' = [dirs EXCEPT ![c.merged_dir] = Absent]
  BY DEF Export, prepare_output_directory
<1>3. c.merged_dir \in MergedDirs /\ Absent \in DirType /\ Absent.weights = None
  BY <1>1 DEF MergedDirs, Absent, DirType
<1>4. /\ dirs' \in [MergedDirs -> DirType] /\ dirs'[c.merged_dir] = Absent
      /\ \A e \in MergedDirs \ {c.merged_dir} : dirs'[e] = dirs[e]
  BY <1>1, <1>2, <1>3, DirsType
<1>5. export' \in ExportType
  BY <1>1, <1>3 DEF ExportType
<1>6. used' \in [runs : Nat, exports : Nat, faults : Nat]
  <2>1. used \in [runs : Nat, exports : Nat, faults : Nat] /\ used.exports + 1 \in Nat
    BY <1>1 DEF TypeOK
  <2> QED
    BY <1>1, <2>1
<1>7. TypeOK'
  BY <1>1, <1>4, <1>5, <1>6 DEF TypeOK
<1>8. kind(c)' = kind(c)
  BY <1>1 DEF kind
<1>9. ExportInv'
  <2> SUFFICES /\ c.merged_dir = export'.dir /\ c.checkpoint = export'.adapter
               /\ c.checkpoint # None /\ kind(c)' = PEFT_ADAPTER
               /\ export'.pc \notin {"config", "weights"}
    BY DEF ExportInv
  <2> QED
    BY <1>1, <1>8
<1>10. DirInv'
  <2>1. \A x, m : MadeFor(x, m)' = MadeFor(x, m)
    BY <1>1 DEF MadeFor, kind
  <2> QED
    BY <1>1, <1>3, <1>4, <2>1 DEF DirInv
<1>11. ServerInv' /\ RunInv' /\ ReportInv' /\ DeltaInv'
  BY <1>1, Kept
<1> QED
  BY <1>7, <1>9, <1>10, <1>11 DEF Inv

LEMMA MergeKeeps ==
  ASSUME Inv, Merge
  PROVE  Inv'
<1>1. /\ export.pc = "load" /\ UNCHANGED <<tier, dirs, server, run, reports, delta, used>>
      /\ TypeOK /\ ExportInv
  BY DEF Inv, Merge
<1>2. export \in ExportType /\ export # Idle
  BY <1>1, UnderWay
<1>3. DirInv' /\ ServerInv' /\ RunInv' /\ ReportInv' /\ DeltaInv'
  BY <1>1, Kept
<1>4. PICK v \in BOOLEAN :
        \/ export' = Idle
        \/ export' = [export EXCEPT !.pc = "config", !.model = Model(tier.base, export.adapter, v)]
  <2> DEFINE object == from_pretrained(resolve_auto_model_class(tier.installed, multimodal),
                                       tier.vision)
             v == object.vision
  <2>1. v \in BOOLEAN
    BY DEF from_pretrained
  <2>2. \/ export' = Idle
        \/ export' = [export EXCEPT !.pc = "config", !.model = Model(tier.base, export.adapter, v)]
    BY DEF Merge
  <2> HIDE DEF v
  <2> QED
    BY <2>1, <2>2
<1>5. CASE export' = Idle
  BY <1>1, <1>3, <1>5 DEF Inv, TypeOK, ExportInv
<1>6. CASE export' = [export EXCEPT !.pc = "config", !.model = Model(tier.base, export.adapter, v)]
  <2> DEFINE m == Model(tier.base, export.adapter, v)
  <2>1. PICK c \in Configs : /\ c.merged_dir = export.dir /\ c.checkpoint = export.adapter
                             /\ c.checkpoint # None /\ kind(c) = PEFT_ADAPTER
    BY <1>1, <1>2 DEF ExportInv
  <2>2. m \in Merged
    BY <1>1, <2>1 DEF Merged, TypeOK
  <2>3. m.base = tier.base /\ m.adapter = export.adapter
    BY DEF Model
  <2> HIDE DEF m
  <2>4. /\ export' \in ExportType /\ export'.dir = export.dir
        /\ export'.adapter = export.adapter /\ export'.model = m
    BY <1>2, <1>6, <2>2 DEF ExportType, m
  <2>5. kind(c)' = kind(c)
    BY <1>1 DEF kind
  <2>6. MadeFor(c, export.model)'
    BY <1>1, <2>1, <2>3, <2>4, <2>5 DEF MadeFor
  <2>7. ExportInv'
    BY <2>1, <2>2, <2>4, <2>5, <2>6 DEF ExportInv
  <2>8. TypeOK'
    BY <1>1, <2>4 DEF TypeOK
  <2> QED
    BY <1>3, <2>7, <2>8 DEF Inv
<1> QED
  BY <1>4, <1>5, <1>6

\* A directory is written that the merge under way names: with nothing else, or with the
\* weights it has loaded.
LEMMA WrittenDir ==
  ASSUME Inv, UNCHANGED tier, export.pc \in {"config", "weights", "tokenizer"},
         NEW x \in DirType, written(x),
         \/ x.weights = dirs[export.dir].weights
         \/ x.weights = export.model /\ export.pc = "weights"
  PROVE  dirs' \in [MergedDirs -> DirType] /\ DirInv'
<1>1. /\ export \in ExportType /\ export # Idle /\ export.dir \in MergedDirs
      /\ TypeOK /\ DirInv /\ ExportInv
  BY UnderWay DEF Inv
<1>2. /\ dirs' \in [MergedDirs -> DirType] /\ dirs'[export.dir] = x
      /\ \A e \in MergedDirs \ {export.dir} : dirs'[e] = dirs[e]
  BY <1>1, DirsType DEF written
<1>3. \A c, m : MadeFor(c, m)' = MadeFor(c, m)
  BY DEF MadeFor, kind
<1>4. x.weights # None => \E c \in Configs : c.merged_dir = export.dir /\ MadeFor(c, x.weights)
  <2>1. CASE x.weights = dirs[export.dir].weights
    BY <1>1, <2>1 DEF DirInv
  <2>2. CASE x.weights = export.model /\ export.pc = "weights"
    BY <1>1, <2>2 DEF ExportInv
  <2> QED
    BY <2>1, <2>2
<1> QED
  BY <1>1, <1>2, <1>3, <1>4 DEF DirInv

\* The merge goes on.
LEMMA NextPlace ==
  ASSUME Inv, UNCHANGED tier,
         \/ export' = Idle
         \/ /\ export.pc \in {"config", "weights"}
            /\ \E pc \in {"weights", "tokenizer"} : export' = [export EXCEPT !.pc = pc]
  PROVE  export' \in {Idle} \cup ExportType /\ ExportInv'
<1>1. CASE export' = Idle
  BY <1>1 DEF ExportInv
<1>2. ASSUME export.pc \in {"config", "weights"}, NEW pc \in {"weights", "tokenizer"},
             export' = [export EXCEPT !.pc = pc]
      PROVE  export' \in ExportType /\ ExportInv'
  <2>1. export \in ExportType /\ export # Idle /\ ExportInv
    BY <1>2, UnderWay DEF Inv
  <2>2. /\ export' \in ExportType /\ export'.dir = export.dir
        /\ export'.adapter = export.adapter /\ export'.model = export.model
    BY <1>2, <2>1 DEF ExportType
  <2>3. PICK c \in Configs :
          /\ c.merged_dir = export.dir /\ c.checkpoint = export.adapter
          /\ c.checkpoint # None /\ kind(c) = PEFT_ADAPTER
          /\ export.model \in Merged /\ MadeFor(c, export.model)
    BY <1>2, <2>1 DEF ExportInv
  <2>4. kind(c)' = kind(c) /\ MadeFor(c, export.model)' = MadeFor(c, export.model)
    BY <2>2 DEF kind, MadeFor
  <2> QED
    BY <2>2, <2>3, <2>4 DEF ExportInv
<1> QED
  BY <1>1, <1>2

LEMMA SaveConfigKeeps ==
  ASSUME Inv, SaveConfig
  PROVE  Inv'
<1> DEFINE x == [dirs[export.dir] EXCEPT !.config = TRUE]
<1>1. /\ export.pc = "config" /\ UNCHANGED <<tier, server, run, reports, delta, used>>
      /\ written(x) /\ export' = [export EXCEPT !.pc = "weights"] /\ TypeOK
  BY DEF Inv, SaveConfig
<1>2. x \in DirType /\ x.weights = dirs[export.dir].weights
  BY <1>1, UnderWay DEF DirType
<1> HIDE DEF x
<1>3. dirs' \in [MergedDirs -> DirType] /\ DirInv'
  BY <1>1, <1>2, WrittenDir
<1>4. export' \in {Idle} \cup ExportType /\ ExportInv'
  BY <1>1, NextPlace
<1>5. TypeOK'
  BY <1>1, <1>3, <1>4 DEF TypeOK
<1>6. ServerInv' /\ RunInv' /\ ReportInv' /\ DeltaInv'
  BY <1>1, Kept
<1> QED
  BY <1>3, <1>4, <1>5, <1>6 DEF Inv

LEMMA SaveWeightsKeeps ==
  ASSUME Inv, SaveWeights
  PROVE  Inv'
<1> DEFINE x == [dirs[export.dir] EXCEPT !.weights = export.model]
<1>1. /\ export.pc = "weights" /\ UNCHANGED <<tier, server, run, reports, delta, used>>
      /\ written(x) /\ export' = [export EXCEPT !.pc = "tokenizer"] /\ TypeOK
  BY DEF Inv, SaveWeights
<1>2. x \in DirType /\ x.weights = export.model
  BY <1>1, UnderWay DEF DirType, ExportType
<1> HIDE DEF x
<1>3. dirs' \in [MergedDirs -> DirType] /\ DirInv'
  BY <1>1, <1>2, WrittenDir
<1>4. export' \in {Idle} \cup ExportType /\ ExportInv'
  BY <1>1, NextPlace
<1>5. TypeOK'
  BY <1>1, <1>3, <1>4 DEF TypeOK
<1>6. ServerInv' /\ RunInv' /\ ReportInv' /\ DeltaInv'
  BY <1>1, Kept
<1> QED
  BY <1>3, <1>4, <1>5, <1>6 DEF Inv

LEMMA SaveTokenizerKeeps ==
  ASSUME Inv, SaveTokenizer
  PROVE  Inv'
<1> DEFINE x == [dirs[export.dir] EXCEPT !.tokenizer = TRUE]
<1>1. /\ export.pc = "tokenizer" /\ UNCHANGED <<tier, server, run, reports, delta, used>>
      /\ written(x) /\ export' = Idle /\ TypeOK
  BY DEF Inv, SaveTokenizer
<1>2. x \in DirType /\ x.weights = dirs[export.dir].weights
  BY <1>1, UnderWay DEF DirType
<1> HIDE DEF x
<1>3. dirs' \in [MergedDirs -> DirType] /\ DirInv'
  BY <1>1, <1>2, WrittenDir
<1>4. export' \in {Idle} \cup ExportType /\ ExportInv'
  BY <1>1, NextPlace
<1>5. TypeOK'
  BY <1>1, <1>3, <1>4 DEF TypeOK
<1>6. ServerInv' /\ RunInv' /\ ReportInv' /\ DeltaInv'
  BY <1>1, Kept
<1> QED
  BY <1>3, <1>4, <1>5, <1>6 DEF Inv

LEMMA KillExportKeeps ==
  ASSUME Inv, KillExport
  PROVE  Inv'
<1>1. /\ export' = Idle /\ fault /\ UNCHANGED <<tier, dirs, server, run, reports, delta>>
      /\ TypeOK
  BY DEF Inv, KillExport
<1>2. export' \in {Idle} \cup ExportType /\ ExportInv'
  BY <1>1, NextPlace
<1>3. TypeOK'
  BY <1>1, <1>2, FaultType DEF TypeOK
<1>4. DirInv' /\ ServerInv' /\ RunInv' /\ ReportInv' /\ DeltaInv'
  BY <1>1, Kept
<1> QED
  BY <1>2, <1>3, <1>4 DEF Inv

-----------------------------------------------------------------------------
(* The server.                                                             *)

\* A server that is there.
LEMMA Running ==
  ASSUME Inv, server # None
  PROVE  server \in Servers /\ server.config \in Configs
BY DEF Inv, TypeOK, Servers

LEMMA ServeKeeps ==
  ASSUME Inv, NEW c \in Configs, Serve(c)
  PROVE  Inv'
<1>1. /\ server = None /\ UNCHANGED <<tier, dirs, export, run, reports, delta, used>>
      /\ server' = [name |-> c.served_name, config |-> c, state |-> "loading", model |-> None]
      /\ TypeOK /\ RunInv
  BY DEF Inv, Serve
<1>2. server' \in Servers
  BY <1>1 DEF Servers
<1>3. TypeOK'
  BY <1>1, <1>2 DEF TypeOK
<1>4. ServerInv'
  BY <1>1 DEF ServerInv
<1>5. RunInv'
  <2>1. \A x : Subject(x)' = Subject(x)
    BY <1>1 DEF Subject, kind
  <2> QED
    BY <1>1, <2>1 DEF RunInv
<1>6. ExportInv' /\ DirInv' /\ ReportInv' /\ DeltaInv'
  BY <1>1, Kept
<1> QED
  BY <1>3, <1>4, <1>5, <1>6 DEF Inv

\* What a server can load is the model of its configuration, where no other configuration
\* names the directory.
LEMMA Loaded ==
  ASSUME TypeOK, DirInv, NEW c \in Configs, served(c).weights # None
  PROVE  /\ served(c).weights \in Servable
         /\ own(c) /\ served(c).weights.vision = tier.vision => served(c).weights = Subject(c)
<1> DEFINE m == served(c).weights
<1>1. CASE c.checkpoint = None \/ kind(c) = BASE_MODEL
  <2>1. m = Subject(c)
    BY <1>1 DEF served
  <2>2. Subject(c) \in Servable
    BY <1>1 DEF Subject, Servable, Checkpoints, TypeOK
  <2> QED
    BY <2>1, <2>2
<1>2. CASE ~(c.checkpoint = None \/ kind(c) = BASE_MODEL)
  <2>1. c.merged_dir # None /\ m = dirs[c.merged_dir].weights
    BY <1>2 DEF served, Absent
  <2>2. c.merged_dir \in MergedDirs
    BY <2>1 DEF MergedDirs
  <2> HIDE DEF m
  <2>3. m \in Merged
    BY <2>1, <2>2 DEF TypeOK, DirType, m
  <2>4. PICK x \in Configs : x.merged_dir = c.merged_dir /\ MadeFor(x, m)
    BY <2>1, <2>2 DEF DirInv, m
  <2>5. ASSUME own(c), m.vision = tier.vision
        PROVE  m = Subject(c)
    <3>1. x = c
      BY <2>1, <2>4, <2>5 DEF own
    <3>2. PICK b, a, v : m = Model(b, a, v)
      BY <2>3 DEF Merged
    <3>3. m = Model(tier.base, c.checkpoint, tier.vision)
      BY <2>4, <2>5, <3>1, <3>2 DEF Model, MadeFor
    <3> QED
      BY <1>2, <3>3 DEF Subject
  <2> QED
    BY <2>3, <2>5 DEF Servable, m
<1> QED
  BY <1>1, <1>2

LEMMA LoadKeeps ==
  ASSUME Inv, Load
  PROVE  Inv'
<1> DEFINE c == server.config
           m == served(c).weights
<1>1. /\ server # None /\ server.state = "loading"
      /\ UNCHANGED <<tier, dirs, export, run, reports, delta, used>>
      /\ \/ m # None /\ m.vision = tier.vision /\ server' = [server EXCEPT !.state = "up", !.model = m]
         \/ server' = [server EXCEPT !.state = "dead"]
      /\ TypeOK /\ DirInv /\ ServerInv /\ RunInv
  BY DEF Inv, Load
<1>2. server \in Servers /\ c \in Configs
  BY <1>1, Running
<1>3. \A x : Subject(x)' = Subject(x) /\ own(x)' = own(x)
  BY <1>1 DEF Subject, kind, own
<1> HIDE DEF m
<1>4. m # None => m \in Servable /\ (own(c) /\ m.vision = tier.vision => m = Subject(c))
  BY <1>1, <1>2, Loaded DEF m
<1>5. /\ server' \in Servers /\ server'.config = c /\ server'.name = server.name
      /\ server'.state = "up" => server'.model = m /\ m # None /\ m.vision = tier.vision
      /\ server'.state \in {"up", "dead"}
  <2>1. CASE m # None /\ m.vision = tier.vision /\ server' = [server EXCEPT !.state = "up", !.model = m]
    BY <1>2, <1>4, <2>1 DEF Servers
  <2>2. CASE server' = [server EXCEPT !.state = "dead"]
    BY <1>2, <2>2 DEF Servers
  <2> QED
    BY <1>1, <2>1, <2>2
<1>6. TypeOK'
  BY <1>1, <1>5 DEF TypeOK
<1>7. ServerInv'
  <2> SUFFICES /\ server'.name = server'.config.served_name
               /\ server'.state = "up" =>
                    /\ server'.model \in Servable
                    /\ own(server'.config) => server'.model = Subject(server'.config)
    BY <1>3, <1>5 DEF ServerInv
  <2> QED
    BY <1>1, <1>4, <1>5 DEF ServerInv
<1>8. RunInv'
  BY <1>1, <1>3 DEF RunInv
<1>9. ExportInv' /\ DirInv' /\ ReportInv' /\ DeltaInv'
  BY <1>1, Kept
<1> QED
  BY <1>6, <1>7, <1>8, <1>9 DEF Inv

LEMMA ServerDiesKeeps ==
  ASSUME Inv, ServerDies
  PROVE  Inv'
<1>1. /\ server # None /\ server.state # "dead" /\ fault
      /\ server' = [server EXCEPT !.state = "dead"]
      /\ UNCHANGED <<tier, dirs, export, run, reports, delta>>
      /\ TypeOK /\ ServerInv /\ RunInv
  BY DEF Inv, ServerDies
<1>2. server \in Servers
  BY <1>1, Running
<1>3. \A x : Subject(x)' = Subject(x) /\ own(x)' = own(x)
  BY <1>1 DEF Subject, kind, own
<1>4. /\ server' \in Servers /\ server' # None /\ server'.config = server.config
      /\ server'.name = server.name /\ server'.state = "dead" /\ server'.model = server.model
  <2>1. /\ server' \in Servers /\ server'.config = server.config
        /\ server'.name = server.name /\ server'.state = "dead" /\ server'.model = server.model
    BY <1>1, <1>2 DEF Servers
  <2> QED
    BY <2>1, EvaluationAssumption
<1>5. TypeOK'
  BY <1>1, <1>4, FaultType DEF TypeOK
<1>6. ServerInv'
  BY <1>1, <1>4 DEF ServerInv
<1>7. RunInv'
  BY <1>1, <1>3, <1>4 DEF RunInv
<1>8. ExportInv' /\ DirInv' /\ ReportInv' /\ DeltaInv'
  BY <1>1, Kept
<1> QED
  BY <1>5, <1>6, <1>7, <1>8 DEF Inv

LEMMA RemoveKeeps ==
  ASSUME Inv, Remove
  PROVE  Inv'
<1>1. /\ run.pc = "idle" /\ server' = None
      /\ UNCHANGED <<tier, dirs, export, run, reports, delta, used>> /\ TypeOK
  BY DEF Inv, Remove
<1>2. run = Idle
  BY <1>1 DEF TypeOK, RunType
<1>3. TypeOK' /\ ServerInv' /\ RunInv'
  BY <1>1, <1>2 DEF TypeOK, ServerInv, RunInv
<1>4. ExportInv' /\ DirInv' /\ ReportInv' /\ DeltaInv'
  BY <1>1, Kept
<1> QED
  BY <1>3, <1>4 DEF Inv

-----------------------------------------------------------------------------
(* The evaluation.                                                         *)

\* An evaluation that is under way.
LEMMA Evaluating ==
  ASSUME Inv, run.pc # "idle"
  PROVE  run \in RunType /\ run # Idle /\ run.config \in Configs
<1>1. run # Idle
  BY DEF Idle
<1> QED
  BY <1>1 DEF Inv, TypeOK, RunType

\* A step of the evaluation alone leaves the rest.
LEMMA RunOnly ==
  ASSUME Inv, UNCHANGED <<tier, dirs, export, server, reports, delta>>,
         run' \in {Idle} \cup RunType, RunInv',
         used' \in [runs : Nat, exports : Nat, faults : Nat]
  PROVE  Inv'
<1>1. TypeOK'
  BY DEF Inv, TypeOK
<1>2. ExportInv' /\ DirInv' /\ ServerInv' /\ ReportInv' /\ DeltaInv'
  BY Kept
<1> QED
  BY <1>1, <1>2 DEF Inv

LEMMA StartRunKeeps ==
  ASSUME Inv, NEW c \in Configs, StartRun(c)
  PROVE  Inv'
<1>1. /\ UNCHANGED <<tier, dirs, export, server, reports, delta>>
      /\ run' = [pc |-> "waiting", config |-> c, attempt |-> 0,
                 posts |-> [s \in Samples |-> 0], records |-> [s \in Samples |-> None],
                 by |-> {}]
      /\ used' = [used EXCEPT !.runs = used.runs + 1] /\ TypeOK
  BY DEF Inv, StartRun
<1>2. run' \in RunType
  BY <1>1 DEF RunType
<1>3. RunInv'
  BY <1>1 DEF RunInv
<1>4. used' \in [runs : Nat, exports : Nat, faults : Nat]
  <2>1. used \in [runs : Nat, exports : Nat, faults : Nat] /\ used.runs + 1 \in Nat
    BY <1>1 DEF TypeOK
  <2> QED
    BY <1>1, <2>1
<1> QED
  BY <1>1, <1>2, <1>3, <1>4, RunOnly

\* Nothing is noted.
LEMMA NothingNoted ==
  ASSUME Inv, run # Idle, UNCHANGED <<tier, server>>,
         run'.config = run.config, run'.by = run.by, run'.records = run.records
  PROVE  RunInv'
<1>1. \A x : Subject(x)' = Subject(x) /\ own(x)' = own(x)
  BY DEF Subject, kind, own
<1>2. \A s \in Samples : (run.records[s] = None \/ Noted(run.records, run.by, s))
                           => (run'.records[s] = None \/ Noted(run'.records, run'.by, s))
  BY DEF Noted
<1> QED
  BY <1>1, <1>2 DEF Inv, RunInv

LEMMA ProbeAnsweredKeeps ==
  ASSUME Inv, ProbeAnswered
  PROVE  Inv'
<1>1. /\ UNCHANGED <<tier, dirs, export, server, reports, delta, used>>
      /\ run' = [run EXCEPT !.pc = "sampling"] /\ run.pc # "idle" /\ TypeOK
  BY DEF Inv, ProbeAnswered
<1>2. run \in RunType /\ run # Idle
  BY <1>1, Evaluating
<1>3. /\ run' \in RunType /\ run'.config = run.config /\ run'.by = run.by
      /\ run'.records = run.records
  BY <1>1, <1>2 DEF RunType
<1>4. RunInv'
  BY <1>1, <1>2, <1>3, NothingNoted
<1> QED
  BY <1>1, <1>3, <1>4, RunOnly DEF TypeOK

LEMMA ProbeFailedKeeps ==
  ASSUME Inv, NEW late \in BOOLEAN, ProbeFailed(late)
  PROVE  Inv'
<1> DEFINE n == IF run.attempt < MaxAttempts THEN run.attempt + 1 ELSE run.attempt
<1>1. /\ UNCHANGED <<tier, dirs, export, server, reports, delta, used>>
      /\ run' = Idle \/ run' = [run EXCEPT !.attempt = n]
      /\ run.pc # "idle" /\ TypeOK
  BY DEF Inv, ProbeFailed
<1>2. run \in RunType /\ run # Idle
  BY <1>1, Evaluating
<1>3. n \in Nat
  BY <1>2 DEF RunType
<1> HIDE DEF n
<1>4. CASE run' = Idle
  <2>1. RunInv'
    BY <1>4 DEF RunInv
  <2> QED
    BY <1>1, <1>4, <2>1, RunOnly DEF TypeOK
<1>5. CASE run' = [run EXCEPT !.attempt = n]
  <2>1. /\ run' \in RunType /\ run'.config = run.config /\ run'.by = run.by
        /\ run'.records = run.records
    BY <1>2, <1>3, <1>5 DEF RunType
  <2>2. RunInv'
    BY <1>1, <1>2, <2>1, NothingNoted
  <2> QED
    BY <1>1, <2>1, <2>2, RunOnly DEF TypeOK
<1> QED
  BY <1>1, <1>4, <1>5

\* The server that answers an evaluation is the one it has heard, if any, and its model
\* the one that is evaluated.
LEMMA Answering ==
  ASSUME Inv, run.pc # "idle", answers(run.config)
  PROVE  /\ server.model \in Servable /\ run.by \subseteq {server.model}
         /\ own(run.config) => server.model = Subject(run.config)
<1>1. /\ server # None /\ server.state = "up" /\ server.name = run.config.served_name
      /\ ServerInv /\ RunInv
  BY DEF Inv, answers
<1>2. run # Idle /\ run.config \in Configs /\ server.config \in Configs
  BY <1>1, Evaluating, Running
<1>3. /\ server.model \in Servable /\ server.name = server.config.served_name
      /\ own(server.config) => server.model = Subject(server.config)
  BY <1>1 DEF ServerInv
<1>4. run.by \subseteq {server.model}
  BY <1>1, <1>2 DEF RunInv
<1>5. own(run.config) => server.config = run.config
  BY <1>1, <1>2, <1>3 DEF own
<1> QED
  BY <1>3, <1>4, <1>5

LEMMA AnsweredKeeps ==
  ASSUME Inv, NEW s \in Samples, Answered(s)
  PROVE  Inv'
<1> DEFINE m == server.model
           r == record(Answer[m][s], s)
           e == [run EXCEPT !.records = [run.records EXCEPT ![s] = r]]
<1>1. /\ UNCHANGED <<tier, dirs, export, server, reports, delta, used>>
      /\ run' = [e EXCEPT !.by = run.by \cup {m}]
      /\ run.pc # "idle" /\ answers(run.config) /\ TypeOK /\ RunInv
  BY DEF Inv, Answered
<1>2. run \in RunType /\ run # Idle
  BY <1>1, Evaluating
<1>3. /\ m \in Servable /\ run.by \subseteq {m}
      /\ own(run.config) => m = Subject(run.config)
  BY <1>1, Answering
<1>4. server # None /\ server.state # "loading"
  BY <1>1 DEF answers
<1>5. r \in Records /\ r = record(Answer[m][s], s)
  BY <1>3 DEF Records
<1> HIDE DEF r
<1>6. [run.records EXCEPT ![s] = r] \in [Samples -> {None} \cup Records]
  BY <1>2, <1>5 DEF RunType
<1>7. e \in RunType /\ e.config = run.config /\ e.records = [run.records EXCEPT ![s] = r]
  BY <1>2, <1>6 DEF RunType
<1> HIDE DEF e
<1>8. run.by \cup {m} = {m} /\ {m} \in SUBSET Servable
  BY <1>3
<1>9. /\ run' \in RunType /\ run'.by = {m} /\ run'.config = run.config
      /\ run'.records = [run.records EXCEPT ![s] = r]
  BY <1>1, <1>7, <1>8 DEF RunType
<1>10. ASSUME NEW t \in Samples
       PROVE  run'.records[t] = None \/ Noted(run'.records, run'.by, t)
  <2>1. CASE t = s
    BY <1>2, <1>5, <1>9, <2>1 DEF Noted, RunType
  <2>2. CASE t # s
    <3>1. run'.records[t] = run.records[t]
      BY <1>2, <1>9, <2>2 DEF RunType
    <3>2. run.records[t] = None \/ Noted(run.records, run.by, t)
      BY <1>1, <1>2 DEF RunInv
    <3> QED
      BY <1>3, <1>9, <3>1, <3>2 DEF Noted
  <2> QED
    BY <2>1, <2>2
<1>11. RunInv'
  <2>1. \A x : Subject(x)' = Subject(x) /\ own(x)' = own(x)
    BY <1>1 DEF Subject, kind, own
  <2> QED
    BY <1>1, <1>3, <1>4, <1>9, <1>10, <2>1 DEF RunInv
<1> QED
  BY <1>1, <1>9, <1>11, RunOnly DEF TypeOK

LEMMA PostFailsKeeps ==
  ASSUME Inv, NEW s \in Samples, PostFails(s)
  PROVE  Inv'
<1>1. /\ UNCHANGED <<tier, dirs, export, server, reports, delta>>
      /\ \/ run' = [run EXCEPT !.records = [run.records EXCEPT ![s] = Error]]
         \/ run' = [run EXCEPT !.posts = [run.posts EXCEPT ![s] = run.posts[s] + 1]]
      /\ run.pc # "idle" /\ TypeOK /\ RunInv
  BY DEF Inv, PostFails
<1>2. used' \in [runs : Nat, exports : Nat, faults : Nat]
  BY <1>1, FaultType DEF PostFails, TypeOK
<1>3. run \in RunType /\ run # Idle
  BY <1>1, Evaluating
<1>4. CASE run' = [run EXCEPT !.records = [run.records EXCEPT ![s] = Error]]
  <2>1. [run.records EXCEPT ![s] = Error] \in [Samples -> {None} \cup Records]
    BY <1>3 DEF RunType, Records
  <2>2. /\ run' \in RunType /\ run'.by = run.by /\ run'.config = run.config
        /\ run'.records = [run.records EXCEPT ![s] = Error]
    BY <1>3, <1>4, <2>1 DEF RunType
  <2>3. ASSUME NEW t \in Samples
        PROVE  run'.records[t] = None \/ Noted(run'.records, run'.by, t)
    <3>1. run'.records[t] = Error \/ run'.records[t] = run.records[t]
      BY <1>3, <2>2 DEF RunType
    <3>2. run.records[t] = None \/ Noted(run.records, run.by, t)
      BY <1>1, <1>3 DEF RunInv
    <3> QED
      BY <2>2, <3>1, <3>2 DEF Noted
  <2>4. RunInv'
    <3>1. \A x : Subject(x)' = Subject(x) /\ own(x)' = own(x)
      BY <1>1 DEF Subject, kind, own
    <3> QED
      BY <1>1, <1>3, <2>2, <2>3, <3>1 DEF RunInv
  <2> QED
    BY <1>1, <1>2, <2>2, <2>4, RunOnly
<1>5. CASE run' = [run EXCEPT !.posts = [run.posts EXCEPT ![s] = run.posts[s] + 1]]
  <2>1. [run.posts EXCEPT ![s] = run.posts[s] + 1] \in [Samples -> Nat]
    <3>1. run.posts \in [Samples -> Nat] /\ run.posts[s] + 1 \in Nat
      BY <1>3 DEF RunType
    <3> QED
      BY <3>1
  <2>2. /\ run' \in RunType /\ run'.by = run.by /\ run'.config = run.config
        /\ run'.records = run.records
    BY <1>3, <1>5, <2>1 DEF RunType
  <2>3. RunInv'
    BY <1>1, <1>3, <2>2, NothingNoted
  <2> QED
    BY <1>1, <1>2, <2>2, <2>3, RunOnly
<1> QED
  BY <1>1, <1>4, <1>5

\* The server of an evaluation that lost its connection goes on, or is dead.
LEMMA ConnectionLostKeeps ==
  ASSUME Inv, ConnectionLost
  PROVE  Inv'
<1>1. /\ server # None /\ fault /\ run' = Idle
      /\ server' = server \/ server' = [server EXCEPT !.state = "dead"]
      /\ UNCHANGED <<tier, dirs, export, reports, delta>>
      /\ TypeOK /\ ServerInv
  BY DEF Inv, ConnectionLost
<1>2. server \in Servers
  BY <1>1, Running
<1>3. \A x : Subject(x)' = Subject(x) /\ own(x)' = own(x)
  BY <1>1 DEF Subject, kind, own
<1>4. /\ server' \in Servers /\ server'.config = server.config /\ server'.name = server.name
      /\ server'.state \in {server.state, "dead"} /\ server'.model = server.model
  <2>1. CASE server' = server
    BY <1>2, <2>1
  <2>2. CASE server' = [server EXCEPT !.state = "dead"]
    BY <1>2, <2>2 DEF Servers
  <2> QED
    BY <1>1, <2>1, <2>2
<1>5. TypeOK'
  BY <1>1, <1>4, FaultType DEF TypeOK
<1>6. ServerInv'
  <2> SUFFICES /\ server'.name = server'.config.served_name
               /\ server'.state = "up" =>
                    /\ server'.model \in Servable
                    /\ own(server'.config) => server'.model = Subject(server'.config)
    BY <1>3, <1>4 DEF ServerInv
  <2> QED
    BY <1>1, <1>4 DEF ServerInv
<1>7. RunInv'
  BY <1>1 DEF RunInv
<1>8. ExportInv' /\ DirInv' /\ ReportInv' /\ DeltaInv'
  BY <1>1, Kept
<1> QED
  BY <1>5, <1>6, <1>7, <1>8 DEF Inv

LEMMA KillRunKeeps ==
  ASSUME Inv, KillRun
  PROVE  Inv'
<1>1. /\ UNCHANGED <<tier, dirs, export, server, reports, delta>> /\ run' = Idle
      /\ fault /\ TypeOK
  BY DEF Inv, KillRun
<1>2. RunInv'
  BY <1>1 DEF RunInv
<1> QED
  BY <1>1, <1>2, FaultType, RunOnly DEF TypeOK

\* The report of an evaluation all of whose samples are noted.
LEMMA WriteReportKeeps ==
  ASSUME Inv, WriteReport
  PROVE  Inv'
<1> DEFINE c == run.config
           r == [config |-> c, by |-> run.by, summary |-> summarize(run.records, c.overlap)]
<1>1. /\ UNCHANGED <<tier, dirs, export, server, delta, used>> /\ run' = Idle
      /\ reports' = [reports EXCEPT ![c.output_dir] = r]
      /\ run.pc # "idle" /\ \A s \in Samples : run.records[s] # None
      /\ TypeOK /\ RunInv /\ ReportInv
  BY DEF Inv, WriteReport, open_
<1>2. run \in RunType /\ run # Idle /\ c \in Configs
  BY <1>1, Evaluating
<1>3. run.records \in [Samples -> Records]
  BY <1>1, <1>2 DEF RunType
<1>4. r \in ReportType
  <2>1. summarize(run.records, c.overlap) \in
          {summarize(rs, x.overlap) : rs \in [Samples -> Records], x \in Configs}
    BY <1>2, <1>3
  <2>2. run.by \in SUBSET Servable
    BY <1>2 DEF RunType
  <2> QED
    BY <1>2, <2>1, <2>2 DEF ReportType
<1>5. Faithful(r)
  <2>1. r.config = c /\ r.by = run.by /\ r.summary = summarize(run.records, c.overlap)
    OBVIOUS
  <2>2. own(c) => run.by \subseteq {Subject(c)}
    BY <1>1, <1>2 DEF RunInv
  <2>3. \A s \in Samples : Noted(run.records, run.by, s)
    BY <1>1, <1>2 DEF RunInv
  <2> HIDE DEF r
  <2> QED
    BY <1>3, <2>1, <2>2, <2>3 DEF Faithful
<1> HIDE DEF r
<1>6. /\ reports' \in [OutputDirs -> {None} \cup ReportType]
      /\ \A d \in OutputDirs : reports'[d] = r \/ reports'[d] = reports[d]
  <2>1. c.output_dir \in OutputDirs /\ reports \in [OutputDirs -> {None} \cup ReportType]
    BY <1>1, <1>2 DEF OutputDirs, TypeOK
  <2> QED
    BY <1>1, <1>4, <2>1
<1>7. ReportInv'
  <2>1. \A x : Faithful(x)' = Faithful(x)
    <3>1. \A x : Subject(x)' = Subject(x) /\ own(x)' = own(x)
      BY <1>1 DEF Subject, kind, own
    <3> QED
      BY <3>1 DEF Faithful
  <2> QED
    BY <1>1, <1>5, <1>6, <2>1 DEF ReportInv
<1>8. TypeOK' /\ RunInv'
  BY <1>1, <1>6 DEF TypeOK, RunInv
<1>9. ExportInv' /\ DirInv' /\ ServerInv' /\ DeltaInv'
  BY <1>1, Kept
<1> QED
  BY <1>7, <1>8, <1>9 DEF Inv

-----------------------------------------------------------------------------
(* The comparison.                                                         *)

LEMMA DeltaKeeps ==
  ASSUME Inv, NEW before \in OutputDirs, NEW after \in OutputDirs, NEW any_role \in BOOLEAN,
         Delta(before, after, any_role)
  PROVE  Inv'
<1> DEFINE b == reports[before]
           a == reports[after]
<1>1. /\ UNCHANGED <<tier, dirs, export, server, run, reports, used>>
      /\ b # None /\ a # None /\ delta' = compute_delta(b, a, any_role)
      /\ TypeOK /\ ReportInv
  BY DEF Inv, Delta
<1>2. b \in ReportType /\ a \in ReportType /\ Faithful(b) /\ Faithful(a)
  BY <1>1 DEF TypeOK, ReportInv
<1> HIDE DEF b, a
<1>3. TypeOK'
  <2>1. delta' \in {compute_delta(x, y, z) : x, y \in ReportType, z \in BOOLEAN}
    BY <1>1, <1>2
  <2> QED
    BY <1>1, <2>1 DEF TypeOK
<1>4. DeltaInv'
  <2>1. \A x : Faithful(x)' = Faithful(x)
    <3>1. \A x : Subject(x)' = Subject(x) /\ own(x)' = own(x)
      BY <1>1 DEF Subject, kind, own
    <3> QED
      BY <3>1 DEF Faithful
  <2>2. delta' # None =>
          /\ delta'.before = b /\ delta'.after = a /\ delta'.any_role = any_role
          /\ comparable(b, a) /\ (b.config.role = "base" \/ any_role)
    BY <1>1 DEF compute_delta
  <2> QED
    BY <1>1, <1>2, <2>1, <2>2 DEF DeltaInv
<1>5. ExportInv' /\ DirInv' /\ ServerInv' /\ RunInv' /\ ReportInv'
  BY <1>1, Kept
<1> QED
  BY <1>3, <1>4, <1>5 DEF Inv

-----------------------------------------------------------------------------
(* The invariant holds.                                                    *)

LEMMA StepInv == Inv /\ [Next]_vars => Inv'
<1> SUFFICES ASSUME Inv, [Next]_vars PROVE Inv'
  OBVIOUS
<1>1. ASSUME NEW c \in Configs, NEW overwrite \in BOOLEAN, Export(c, overwrite) PROVE Inv'
  BY <1>1, ExportKeeps
<1>2. ASSUME NEW c \in Configs, Serve(c) \/ StartRun(c) PROVE Inv'
  BY <1>2, ServeKeeps, StartRunKeeps
<1>3. CASE Merge \/ SaveConfig \/ SaveWeights \/ SaveTokenizer \/ KillExport
  BY <1>3, MergeKeeps, SaveConfigKeeps, SaveWeightsKeeps, SaveTokenizerKeeps, KillExportKeeps
<1>4. CASE Load \/ ServerDies \/ Remove
  BY <1>4, LoadKeeps, ServerDiesKeeps, RemoveKeeps
<1>5. CASE ProbeAnswered \/ \E late \in BOOLEAN : ProbeFailed(late)
  BY <1>5, ProbeAnsweredKeeps, ProbeFailedKeeps
<1>6. ASSUME NEW s \in Samples, Answered(s) \/ PostFails(s) PROVE Inv'
  BY <1>6, AnsweredKeeps, PostFailsKeeps
<1>7. CASE ConnectionLost \/ WriteReport \/ KillRun
  BY <1>7, ConnectionLostKeeps, WriteReportKeeps, KillRunKeeps
<1>8. ASSUME NEW before \in OutputDirs, NEW after \in OutputDirs, NEW any_role \in BOOLEAN,
             Delta(before, after, any_role)
      PROVE  Inv'
  BY <1>8, DeltaKeeps
<1>9. CASE UNCHANGED vars
  <2>1. UNCHANGED <<tier, dirs, export, server, run, reports, delta, used>>
    BY <1>9 DEF vars
  <2>2. TypeOK'
    BY <2>1 DEF Inv, TypeOK
  <2>3. ExportInv' /\ DirInv' /\ ServerInv' /\ RunInv' /\ ReportInv' /\ DeltaInv'
    BY <2>1, Kept
  <2> QED
    BY <2>2, <2>3 DEF Inv
<1> QED
  BY <1>1, <1>2, <1>3, <1>4, <1>5, <1>6, <1>7, <1>8, <1>9 DEF Next

\* Whatever is merged, served, asked, killed and compared, the invariant holds in every
\* state (graspo.eval, eval_serve_vllm.sh).
THEOREM Invariant == Spec => []Inv
<1>1. Init => Inv
  BY InitInv
<1>2. Inv /\ [Next]_vars => Inv'
  BY StepInv
<1> QED
  BY <1>1, <1>2, PTL DEF Spec

-----------------------------------------------------------------------------
(* Named models.                                                           *)

\* The types of Evaluation's variables hold in every state.
THEOREM Typing == Spec => []TypeOK
<1>1. Inv => TypeOK
  BY DEF Inv
<1> QED
  BY <1>1, Invariant, PTL

\* A report of a configuration with a server and a directory of its own has answers of the
\* model it names only (merge_peft_checkpoint, eval_serve_vllm.sh, wait_until_ready).
THEOREM Named == Spec => []NamedModel
<1>1. Inv => NamedModel
  BY DEF Inv, ReportInv, Faithful, NamedModel, Written
<1> QED
  BY <1>1, Invariant, PTL

-----------------------------------------------------------------------------
(* Counts.                                                                 *)

LEMMA Part ==
  ASSUME NEW S, IsFiniteSet(S), NEW A, A \subseteq S
  PROVE  /\ IsFiniteSet(A) /\ Cardinality(A) \in Nat /\ Cardinality(S) \in Nat
         /\ Cardinality(A) <= Cardinality(S)
         /\ Cardinality(S \ A) = Cardinality(S) - Cardinality(A)
<1>1. IsFiniteSet(A) /\ Cardinality(A) <= Cardinality(S)
  BY FS_Subset
<1>2. Cardinality(A) \in Nat /\ Cardinality(S) \in Nat
  BY <1>1, FS_CardinalityType
<1>3. Cardinality(S \ A) = Cardinality(S) - Cardinality(S \cap A)
  BY <1>1, FS_Difference
<1>4. S \cap A = A
  OBVIOUS
<1> QED
  BY <1>1, <1>2, <1>3, <1>4

\* The samples that were answered, by what was noted of them.
Valid(records) == {s \in Samples : ~records[s].error}

\* A sample noted of a model is right where the model is.
LEMMA RightWhereNoted ==
  ASSUME NEW records, NEW by, \A s \in Samples : Noted(records, by, s), NEW m \in by
  PROVE  {s \in Valid(records) : records[s].all_right} = Valid(records) \cap Right(m)
<1>1. ASSUME NEW s \in Samples, ~records[s].error
      PROVE  records[s].all_right <=> s \in Right(m)
  <2>1. records[s] = record(Answer[m][s], s)
    BY <1>1 DEF Noted, Error
  <2> DEFINE b == is_all_right(extract_prediction(Answer[m][s]), Ground[s])
  <2>2. b \in BOOLEAN
    BY DEF is_all_right
  <2>3. s \in Right(m) <=> b
    BY DEF Right
  <2>4. record(Answer[m][s], s) = [error |-> FALSE, all_right |-> b]
    BY DEF record
  <2> HIDE DEF b
  <2>5. records[s].all_right = b
    BY <2>1, <2>4
  <2> QED
    BY <2>2, <2>3, <2>5
<1> QED
  BY <1>1 DEF Valid

\* Every sample is in one of two counts; where no sample was lost all are valid.
LEMMA Lost ==
  ASSUME NEW records, NEW overlap
  PROVE  LET s == summarize(records, overlap) IN
         /\ s.valid = Cardinality(Valid(records)) /\ s.valid \in Nat /\ s.errors \in Nat
         /\ s.valid + s.errors = Cardinality(Samples)
         /\ s.errors = 0 => Valid(records) = Samples
<1> DEFINE V == Valid(records)
           s == summarize(records, overlap)
<1>1. s.valid = Cardinality(V) /\ s.errors = Cardinality(Samples \ V)
  BY DEF summarize, Valid
<1>2. V \subseteq Samples
  BY DEF Valid
<1> HIDE DEF V, s
<1>3. IsFiniteSet(Samples)
  BY EvaluationAssumption
<1>4. /\ Cardinality(V) \in Nat /\ Cardinality(Samples) \in Nat
      /\ Cardinality(V) <= Cardinality(Samples)
      /\ Cardinality(Samples \ V) = Cardinality(Samples) - Cardinality(V)
  BY <1>2, <1>3, Part
<1>5. s.errors = 0 => V = Samples
  <2>1. IsFiniteSet(Samples \ V)
    BY <1>3, FS_Subset
  <2>2. Cardinality(Samples \ V) = 0 => Samples \ V = {}
    BY <2>1, FS_EmptySet
  <2> QED
    BY <1>1, <1>2, <2>2
<1> QED
  BY <1>1, <1>4, <1>5 DEF V, s

\* Right answers, and wrong ones, are no more than the model's.
LEMMA Counted ==
  ASSUME NEW V, V \subseteq Samples, NEW R, R \subseteq Samples,
         NEW O, O \subseteq Samples
  PROVE  LET right == (V \cap R) \cap (V \cap O)
             valid == V \cap O IN
         /\ Cardinality(right) <= Cardinality(R \cap O)
         /\ Cardinality(valid) - Cardinality(right) <= Cardinality((Samples \ R) \cap O)
<1> DEFINE right == (V \cap R) \cap (V \cap O)
           valid == V \cap O
<1>1. IsFiniteSet(Samples)
  BY EvaluationAssumption
<1>2. IsFiniteSet(R \cap O) /\ IsFiniteSet((Samples \ R) \cap O) /\ IsFiniteSet(valid)
  <2>1. R \cap O \subseteq Samples /\ (Samples \ R) \cap O \subseteq Samples /\ valid \subseteq Samples
    OBVIOUS
  <2> QED
    BY <1>1, <2>1, FS_Subset
<1>3. right \subseteq R \cap O /\ right \subseteq valid
      /\ valid \ right \subseteq (Samples \ R) \cap O
  OBVIOUS
<1> HIDE DEF right, valid
<1>4. Cardinality(right) <= Cardinality(R \cap O)
  BY <1>2, <1>3, FS_Subset
<1>5. Cardinality(valid \ right) <= Cardinality((Samples \ R) \cap O)
  BY <1>2, <1>3, FS_Subset
<1>6. Cardinality(valid \ right) = Cardinality(valid) - Cardinality(right)
  BY <1>2, <1>3, Part
<1> QED
  BY <1>4, <1>5, <1>6 DEF right, valid

LEMMA HonestReport ==
  ASSUME NEW r \in ReportType, Faithful(r), NEW m \in r.by
  PROVE  LET s == r.summary
             missed == Samples \ Right(m) IN
         /\ s.valid + s.errors = Cardinality(Samples)
         /\ s.correct <= Cardinality(Right(m)) /\ s.valid - s.correct <= Cardinality(missed)
         /\ s.overlap_performed =>
              LET outside == Samples \ r.config.overlap IN
              /\ s.excluding.correct <= Cardinality(Right(m) \intersect outside)
              /\ s.excluding.valid - s.excluding.correct <= Cardinality(missed \intersect outside)
<1> DEFINE s == r.summary
           c == r.config
           missed == Samples \ Right(m)
<1>1. PICK records \in [Samples -> Records] :
        s = summarize(records, c.overlap) /\ \A t \in Samples : Noted(records, r.by, t)
  BY DEF Faithful
<1> DEFINE V == Valid(records)
           C == {t \in V : records[t].all_right}
<1>2. V \subseteq Samples /\ Right(m) \subseteq Samples
  BY DEF Valid, Right
<1>3. C = V \cap Right(m)
  BY <1>1, RightWhereNoted
<1>4. s.valid + s.errors = Cardinality(Samples) /\ s.valid = Cardinality(V)
  BY <1>1, Lost
<1>5. s.correct = Cardinality(C)
  BY <1>1 DEF summarize, Valid
<1>6. s.correct <= Cardinality(Right(m)) /\ s.valid - s.correct <= Cardinality(missed)
  <2> DEFINE W == V
             R == Right(m)
  <2> HIDE DEF V, C, W, R, s
  <2>1. W \subseteq Samples /\ R \subseteq Samples
    BY <1>2 DEF W, R
  <2>2. /\ Cardinality((W \cap R) \cap (W \cap Samples)) <= Cardinality(R \cap Samples)
        /\ Cardinality(W \cap Samples) - Cardinality((W \cap R) \cap (W \cap Samples))
             <= Cardinality((Samples \ R) \cap Samples)
    BY <2>1, Counted
  <2>3. /\ (W \cap R) \cap (W \cap Samples) = W \cap R /\ W \cap Samples = W
        /\ R \cap Samples = R /\ (Samples \ R) \cap Samples = Samples \ R
    BY <2>1
  <2> QED
    BY <1>3, <1>4, <1>5, <2>2, <2>3 DEF W, R
<1>7. ASSUME s.overlap_performed
      PROVE  LET outside == Samples \ c.overlap IN
             /\ s.excluding.correct <= Cardinality(Right(m) \intersect outside)
             /\ s.excluding.valid - s.excluding.correct <= Cardinality(missed \intersect outside)
  <2> DEFINE out == Samples \ c.overlap
             R == Right(m)
  <2>1. c.overlap # None
    <3> DEFINE p == c.overlap # None
    <3>1. PICK v, e, k, x, n :
            summarize(records, c.overlap) =
              [valid |-> v, errors |-> e, correct |-> k, overlap_performed |-> p,
               excluding |-> x, excluded_count |-> n]
      BY DEF summarize
    <3>2. p \in BOOLEAN
      OBVIOUS
    <3> HIDE DEF p
    <3>3. s.overlap_performed = p
      BY <1>1, <3>1
    <3>4. p
      BY <1>7, <3>2, <3>3
    <3> QED
      BY <3>4 DEF p
  <2>2. /\ s.excluding.correct = Cardinality(C \cap (V \ c.overlap))
        /\ s.excluding.valid = Cardinality(V \ c.overlap)
    BY <1>1, <2>1 DEF summarize, Valid
  <2>3. V \ c.overlap = V \cap out
    BY <1>2
  <2> HIDE DEF V, C, R, s, out
  <2>4. out \subseteq Samples /\ R \subseteq Samples
    BY <1>2 DEF out, R
  <2>5. /\ Cardinality((V \cap R) \cap (V \cap out)) <= Cardinality(R \cap out)
        /\ Cardinality(V \cap out) - Cardinality((V \cap R) \cap (V \cap out))
             <= Cardinality((Samples \ R) \cap out)
    BY <1>2, <2>4, Counted
  <2> QED
    BY <1>3, <2>2, <2>3, <2>5 DEF R, out
<1> QED
  BY <1>4, <1>6, <1>7

\* A report counts for and against a model only what it answered, with the overlap and
\* without it (evaluate_sample, summarize).
THEOREM Honest == Spec => []HonestAccuracy
<1>1. Inv => HonestAccuracy
  <2> SUFFICES ASSUME Inv, NEW r \in Written, NEW m \in r.by
               PROVE  LET s == r.summary
                          missed == Samples \ Right(m) IN
                      /\ s.valid + s.errors = Cardinality(Samples)
                      /\ s.correct <= Cardinality(Right(m))
                      /\ s.valid - s.correct <= Cardinality(missed)
                      /\ s.overlap_performed =>
                           LET outside == Samples \ r.config.overlap IN
                           /\ s.excluding.correct <= Cardinality(Right(m) \intersect outside)
                           /\ s.excluding.valid - s.excluding.correct
                                <= Cardinality(missed \intersect outside)
    BY DEF HonestAccuracy
  <2>1. r \in ReportType /\ Faithful(r)
    BY DEF Inv, TypeOK, ReportInv, Written
  <2> QED
    BY <2>1, HonestReport
<1> QED
  BY <1>1, Invariant, PTL

\* A report without errors has as many right answers as its model.
LEMMA AllAnswered ==
  ASSUME NEW r, Faithful(r), r.summary.errors = 0
  PROVE  /\ r.summary.valid = Cardinality(Samples)
         /\ \A m \in r.by : r.summary.correct = Cardinality(Right(m))
<1>1. PICK records \in [Samples -> Records] :
        /\ r.summary = summarize(records, r.config.overlap)
        /\ \A t \in Samples : Noted(records, r.by, t)
  BY DEF Faithful
<1>2. r.summary.valid = Cardinality(Valid(records)) /\ Valid(records) = Samples
  BY <1>1, Lost
<1>3. ASSUME NEW m \in r.by PROVE r.summary.correct = Cardinality(Right(m))
  <2>1. {t \in Valid(records) : records[t].all_right} = Valid(records) \cap Right(m)
    BY <1>1, RightWhereNoted
  <2>2. r.summary.correct = Cardinality({t \in Valid(records) : records[t].all_right})
    BY <1>1 DEF summarize, Valid
  <2>3. Valid(records) \cap Right(m) = Right(m)
    BY <1>2 DEF Right
  <2> QED
    BY <2>1, <2>2, <2>3
<1> QED
  BY <1>2, <1>3

\* Progress is claimed of two reports that lost nothing exactly where the second model is
\* right as much more often, and of none that lost more than the other (compute_delta).
THEOREM Progress == Spec => []DeltaMeansProgress
<1>1. Inv => DeltaMeansProgress
  <2> SUFFICES ASSUME Inv, delta # None
               PROVE  /\ delta.before.config.role = "base" \/ delta.any_role
                      /\ delta.before.summary.errors = delta.after.summary.errors
                      /\ delta.before.summary.errors = 0 =>
                           \A b \in delta.before.by, a \in delta.after.by :
                             delta.graspo_pass
                               <=> Cardinality(Right(a)) - Cardinality(Right(b)) >= Threshold
    BY DEF DeltaMeansProgress
  <2> DEFINE before == delta.before
             after == delta.after
  <2>1. /\ Faithful(before) /\ Faithful(after) /\ comparable(before, after)
        /\ before.config.role = "base" \/ delta.any_role
        /\ delta = compute_delta(before, after, delta.any_role)
    BY DEF Inv, DeltaInv
  <2>2. delta.graspo_pass <=> /\ before.summary.valid > 0
                              /\ after.summary.correct - before.summary.correct >= Threshold
    <3> DEFINE any_role == delta.any_role
               pass == /\ before.summary.valid > 0
                       /\ after.summary.correct - before.summary.correct >= Threshold
    <3>1. delta # None /\ delta = compute_delta(before, after, any_role)
      BY <2>1
    <3> HIDE DEF before, after, any_role
    <3>2. delta = [before |-> before, after |-> after, any_role |-> any_role,
                   graspo_pass |-> pass]
      BY <3>1 DEF compute_delta
    <3>3. pass \in BOOLEAN
      OBVIOUS
    <3> HIDE DEF pass
    <3>4. delta.graspo_pass = pass
      BY <3>2
    <3> QED
      BY <3>3, <3>4 DEF pass
  <2> HIDE DEF before, after
  <2>3. ASSUME NEW r, Faithful(r)
        PROVE  /\ r.summary.valid \in Nat /\ r.summary.errors \in Nat
               /\ r.summary.valid + r.summary.errors = Cardinality(Samples)
    BY <2>3, Lost DEF Faithful
  <2>4. before.summary.errors = after.summary.errors
    <3>1. before.summary.valid = after.summary.valid
      BY <2>1 DEF comparable
    <3>2. /\ before.summary.valid \in Nat /\ before.summary.errors \in Nat
          /\ before.summary.valid + before.summary.errors = Cardinality(Samples)
      BY <2>1, <2>3
    <3>3. /\ after.summary.valid \in Nat /\ after.summary.errors \in Nat
          /\ after.summary.valid + after.summary.errors = Cardinality(Samples)
      BY <2>1, <2>3
    <3> QED
      BY <3>1, <3>2, <3>3
  <2>5. ASSUME before.summary.errors = 0, NEW b \in before.by, NEW a \in after.by
        PROVE  delta.graspo_pass
                 <=> Cardinality(Right(a)) - Cardinality(Right(b)) >= Threshold
    <3>1. before.summary.valid > 0
      <4>1. IsFiniteSet(Samples) /\ Samples # {}
        BY EvaluationAssumption
      <4>2. Cardinality(Samples) \in Nat /\ Cardinality(Samples) # 0
        BY <4>1, FS_CardinalityType, FS_EmptySet
      <4>3. before.summary.valid = Cardinality(Samples)
        BY <2>1, <2>5, AllAnswered
      <4> QED
        BY <4>2, <4>3
    <3>2. before.summary.correct = Cardinality(Right(b))
      BY <2>1, <2>5, AllAnswered
    <3>3. after.summary.correct = Cardinality(Right(a))
      BY <2>1, <2>4, <2>5, AllAnswered
    <3> QED
      BY <2>2, <3>1, <3>2, <3>3
  <2> QED
    BY <2>1, <2>4, <2>5 DEF before, after
<1> QED
  BY <1>1, Invariant, PTL
====
