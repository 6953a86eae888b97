---- MODULE CheckpointFilesProofs ----
(***************************************************************************)
(* Proofs about CheckpointFiles, for every number of ranks, optimizer      *)
(* steps, output directories and launches: a checkpoint directory never    *)
(* holds whole shards of two saves, all ranks resume from one save, a      *)
(* manifest and an export stand for a complete checkpoint, and no save is  *)
(* removed or overwritten that the configuration does not give up.  A      *)
(* job may be killed at every point.                                       *)
(***************************************************************************)
EXTENDS CheckpointFiles, TLAPS

-----------------------------------------------------------------------------
(* The inductive invariant.                                                *)

Begun    == job = "workers"
Early    == {"construct", "setup", "prepare", "logger", "resume"}
InSave   == {"shard", "writing", "barrier"}
Underway == {"train", "manifest", "export", "close"} \cup InSave

\* The optimizer step whose state checkpoint n holds.
StepOf(n) == IF n = Final THEN MaxSteps ELSE n

\* The step that ranks start to train at.
StartStep == IF config.checkpoint = None THEN 0 ELSE StepOf(config.checkpoint[2])

\* A shard is of the step its directory names, and the shards of an output directory
\* are of one launch: the present one, if the workers of a launch are using it.
DiskInv ==
  /\ \A d \in OutputDirs, n \in Checkpoints, r \in Ranks :
       Whole(disk[d][Shard(n, r)]) => disk[d][Shard(n, r)][2] = StepOf(n)
  /\ \A d \in OutputDirs, f, g \in Shards :
       Whole(disk[d][f]) /\ Whole(disk[d][g]) => disk[d][f][1] = disk[d][g][1]
  /\ Begun => \A f \in Shards : Whole(disk[out][f]) => disk[out][f][1] = launches

LaunchInv ==
  /\ job # "down" => launches # 0
  /\ job = "launcher" =>
       /\ verdict = "none"
       /\ \A r \in Ranks : pc[r] = "construct" /\ step[r] = 0 /\ loaded[r] = None

\* The directory is prepared by rank 0 while the others wait.
PrepareInv ==
  Begun =>
    /\ verdict = "none" => \A r \in Ranks : pc[r] \in {"construct", "setup", "prepare"}
    /\ verdict = "refused" => \A r \in Ranks : pc[r] \in {"prepare", "failed"}
    /\ verdict # "none" =>
         /\ pc[Primary] # "prepare"
         /\ \A r \in Ranks : pc[r] \notin {"construct", "setup"}
    /\ \A r, q \in Ranks : pc[r] = "prepare" => pc[q] \notin {"construct", "setup"}
    /\ \A r \in Ranks : pc[r] \in Prepared => disk[out][Logs] # None

\* What has been loaded is still in the directory it was loaded from.
LoadInv ==
  Begun =>
    \A r \in Ranks :
      /\ pc[r] # "done"
      /\ pc[r] = "resume" => config.checkpoint # None
      /\ pc[r] \in Early => step[r] = 0
      /\ loaded[r] # None =>
           /\ config.checkpoint # None
           /\ config.checkpoint[1] # out
           /\ loaded[r] = disk[config.checkpoint[1]][Shard(config.checkpoint[2], r)]

\* The ranks train and save the same steps.
StepInv ==
  Begun =>
    /\ \A r, q \in Ranks : pc[r] \in Underway =>
         /\ pc[q] \in Underway => step[r] = step[q]
         /\ pc[q] \in Early => step[r] = StartStep
    /\ \A r \in Ranks : pc[r] \in Underway \ {"train"} => step[r] = StepOf(saving[r])
    /\ \A r \in Ranks : pc[r] \in {"export", "close"} => saving[r] = Final
    /\ \A r, q \in Ranks : pc[r] \in InSave /\ saving[r] # Final =>
         pc[q] \in InSave /\ saving[q] = saving[r]

\* The first checkpoint of which rank r has not written its shard, and the first of
\* which rank 0 has not written the manifest.
NextShard(r) ==
  IF pc[r] \in Early \cup {"train"} THEN step[r] + 1
  ELSE IF pc[r] = "shard" THEN saving[r] ELSE saving[r] + 1

NextManifest ==
  IF pc[Primary] \in Early \cup {"train"} THEN step[Primary] + 1
  ELSE IF pc[Primary] \in InSave \cup {"manifest"} THEN saving[Primary]
  ELSE saving[Primary] + 1

\* Nothing is written in the output directory that is not due.
DueInv ==
  Begun =>
    /\ \A r \in Ranks, n \in Checkpoints :
         pc[r] # "failed" /\ n >= NextShard(r) => disk[out][Shard(n, r)] = None
    /\ \A n \in Checkpoints :
         pc[Primary] # "failed" /\ n >= NextManifest => disk[out][Manifest(n)] = None
    /\ \A r \in Ranks :
         /\ pc[r] = "writing" => disk[out][Shard(saving[r], r)] = Partial
         /\ pc[r] = "barrier" => disk[out][Shard(saving[r], r)] = <<launches, step[r]>>

\* While rank 0 writes a manifest or exports, the shards it stands for stay as they are:
\* the others can at most have gone on to the final checkpoint.
ManifestInv ==
  Begun =>
    /\ \A r \in Ranks : pc[r] \in {"manifest", "export"} => r = Primary
    /\ pc[Primary] \in {"manifest", "export"} =>
         \A r \in Ranks :
           /\ disk[out][Shard(saving[Primary], r)] = <<launches, step[Primary]>>
           /\ r # Primary =>
                IF saving[Primary] = Final THEN pc[r] = "close"
                ELSE pc[r] = "train" \/ (pc[r] \in InSave /\ saving[r] = Final)

ExportInv == \A e \in exported : \A r, q \in Ranks : Whole(e[r]) /\ e[r] = e[q]

Inv == /\ TypeOK /\ DiskInv /\ LaunchInv /\ PrepareInv /\ LoadInv
       /\ StepInv /\ DueInv /\ ManifestInv /\ ExportInv

-----------------------------------------------------------------------------
(* Files, their contents, and what the actions do to them.                 *)

\* Different names are different files.
LEMMA Names ==
  /\ Logs \in Files /\ Logs \notin Shards /\ Logs \notin Markers
  /\ \A n \in Checkpoints :
       /\ Manifest(n) \in Files /\ Manifest(n) \in Markers /\ Manifest(n) \notin Shards
       /\ Exported(n) \in Files /\ Exported(n) \in Markers /\ Exported(n) \notin Shards
       /\ \A m \in Checkpoints : Manifest(m) = Manifest(n) => m = n
       /\ \A m \in Checkpoints : Manifest(m) # Exported(n)
       /\ Manifest(n) # Logs /\ Exported(n) # Logs
  /\ \A n \in Checkpoints, r \in Ranks :
       /\ Shard(n, r) \in Files /\ Shard(n, r) \in Shards /\ Shard(n, r) # Logs
       /\ \A m \in Checkpoints :
            /\ Manifest(m) # Shard(n, r) /\ Exported(m) # Shard(n, r)
            /\ \A q \in Ranks : Shard(m, q) = Shard(n, r) => m = n /\ q = r
  /\ \A f \in Shards : f \in Files /\ \E n \in Checkpoints, r \in Ranks : f = Shard(n, r)
  /\ \A f \in Markers : f \in Files /\ \E n \in Checkpoints : f = Manifest(n) \/ f = Exported(n)
  /\ Primary \in Ranks
<1>1. Primary \in Ranks
  BY CheckpointAssumption DEF Primary, Ranks
<1> QED
  BY <1>1 DEF Files, Shards, Markers, Logs, Manifest, Exported, Shard

\* The checkpoints' numbers.
LEMMA Numbers ==
  /\ MaxSteps \in Nat /\ MaxLaunches \in Nat
  /\ Final \in Checkpoints /\ Final = MaxSteps + 1
  /\ \A n \in Checkpoints : n \in Nat /\ n >= 1 /\ n <= Final /\ (n # Final => n <= MaxSteps)
  /\ \A n \in 0..MaxSteps : n + 1 \in Checkpoints /\ n # Final
  /\ \A n \in Checkpoints : StepOf(n) \in 0..MaxSteps
  /\ \A n \in 0..MaxSteps : StepOf(n) = n
  /\ StepOf(Final) = MaxSteps
BY CheckpointAssumption DEF Checkpoints, Final, StepOf

\* A save is neither an absent nor a partly written file.
LEMMA Wholeness ==
  /\ ~Whole(None) /\ ~Whole(Partial) /\ None # Partial
  /\ None \in Contents /\ Partial \in Contents
  /\ \A c \in Contents : Whole(c) \/ c = None \/ c = Partial
  /\ \A c : Whole(c) => /\ c \in Contents /\ c # None /\ c # Partial
                        /\ c[1] \in 1..MaxLaunches /\ c[2] \in 0..MaxSteps
  /\ \A l \in 1..MaxLaunches, s \in 0..MaxSteps :
       Whole(<<l, s>>) /\ <<l, s>>[1] = l /\ <<l, s>>[2] = s
<1>1. Saves \subseteq Nat \X Nat
  BY CheckpointAssumption DEF Saves
<1> QED
  BY <1>1, CheckpointAssumption DEF Whole, Contents, Saves

\* What TypeOK says of single values.
LEMMA Typed ==
  ASSUME TypeOK
  PROVE  /\ out \in OutputDirs
         /\ \A d \in OutputDirs, f \in Files : disk[d][f] \in Contents
         /\ config.checkpoint # None =>
              config.checkpoint[1] \in OutputDirs /\ config.checkpoint[2] \in Checkpoints
         /\ \A r \in Ranks : /\ step[r] \in 0..MaxSteps /\ saving[r] \in Checkpoints
                             /\ pc[r] \in Labels
BY DEF TypeOK, Configs, out

LEMMA WriteEffect ==
  ASSUME TypeOK, NEW f \in Files, NEW c \in Contents, Write(f, c)
  PROVE  /\ disk' \in [OutputDirs -> [Files -> Contents]]
         /\ \A d \in OutputDirs, g \in Files :
              disk'[d][g] = IF d = out /\ g = f THEN c ELSE disk[d][g]
BY Typed DEF TypeOK, Write

LEMMA RemoveEffect ==
  ASSUME TypeOK, RemoveFile(out)
  PROVE  /\ disk' \in [OutputDirs -> [Files -> Contents]]
         /\ \E f \in Files : \A d \in OutputDirs, g \in Files :
              disk'[d][g] = IF d = out /\ g = f THEN None ELSE disk[d][g]
<1>1. PICK f \in Files : disk' = [disk EXCEPT ![out][f] = None]
  BY DEF RemoveFile, Present
<1>2. out \in OutputDirs /\ None \in Contents
  BY Typed, Wholeness
<1> QED
  BY <1>1, <1>2 DEF TypeOK

LEMMA GotoEffect ==
  ASSUME TypeOK, NEW r \in Ranks, NEW l \in Labels, Goto(r, l)
  PROVE  /\ pc' \in [Ranks -> Labels]
         /\ \A q \in Ranks : pc'[q] = IF q = r THEN l ELSE pc[q]
BY DEF TypeOK, Goto
-----------------------------------------------------------------------------
(* Steps that leave the workers' files alone.                              *)

LEMMA InvInit == Init => Inv
<1> SUFFICES ASSUME Init PROVE Inv
  OBVIOUS
<1>1. TypeOK
  BY Numbers, Wholeness, CheckpointAssumption DEF Init, TypeOK, Configs, Labels
<1>2. \A d \in OutputDirs, f \in Files : ~Whole(disk[d][f])
  BY Wholeness DEF Init
<1>3. DiskInv
  BY <1>1, <1>2, Names, Typed DEF Init, DiskInv, Begun
<1>4. /\ LaunchInv /\ PrepareInv /\ LoadInv /\ StepInv /\ DueInv /\ ManifestInv /\ ExportInv
  BY DEF Init, LaunchInv, PrepareInv, LoadInv, StepInv, DueInv, ManifestInv, ExportInv, Begun
<1> QED
  BY <1>1, <1>3, <1>4 DEF Inv

\* When the job is down, nothing is said of the workers.
LEMMA DownStep ==
  ASSUME Inv, TypeOK', job' = "down", UNCHANGED <<disk, exported>>
  PROVE  Inv'
<1>1. DiskInv'
  BY DEF Inv, DiskInv, Begun, Whole, Shard, StepOf, Shards
<1>2. ExportInv'
  BY DEF Inv, ExportInv, Whole, Saves
<1>3. /\ LaunchInv' /\ PrepareInv' /\ LoadInv' /\ StepInv' /\ DueInv' /\ ManifestInv'
  BY DEF LaunchInv, PrepareInv, LoadInv, StepInv, DueInv, ManifestInv, Begun
<1> QED
  BY <1>1, <1>2, <1>3 DEF Inv

LEMMA EndSteps ==
  ASSUME Inv, LauncherRefuses \/ Close \/ Reap \/ Kill
  PROVE  Inv'
<1>1. job' = "down" /\ UNCHANGED <<disk, launches, config, verdict, step, loaded, saving, exported>>
  BY DEF LauncherRefuses, Close, Reap, Kill
<1>2. pc' \in [Ranks -> Labels]
  BY DEF LauncherRefuses, Close, Reap, Kill, Inv, TypeOK, Labels
<1>3. TypeOK'
  BY <1>1, <1>2 DEF Inv, TypeOK
<1> QED
  BY <1>1, <1>3, DownStep

LEMMA StutterStep ==
  ASSUME Inv, UNCHANGED vars
  PROVE  Inv'
<1> USE DEF vars
<1>1. TypeOK'
  BY DEF Inv, TypeOK
<1>2. DiskInv' /\ ExportInv'
  BY DEF Inv, DiskInv, ExportInv, Begun, out
<1>3. LaunchInv' /\ PrepareInv' /\ LoadInv'
  BY DEF Inv, LaunchInv, PrepareInv, LoadInv, Begun, out
<1>4. StepInv' /\ ManifestInv'
  BY DEF Inv, StepInv, ManifestInv, Begun, out, StartStep
<1>5. DueInv'
  BY DEF Inv, DueInv, NextShard, NextManifest, Begun, out
<1> QED
  BY <1>1, <1>2, <1>3, <1>4, <1>5 DEF Inv

LEMMA LaunchStep ==
  ASSUME Inv, Launch
  PROVE  Inv'
<1>1. /\ job' = "launcher" /\ launches' = launches + 1 /\ launches' \in 1..MaxLaunches
      /\ verdict' = "none" /\ UNCHANGED <<disk, exported>>
      /\ \A r \in Ranks : pc'[r] = "construct" /\ step'[r] = 0 /\ loaded'[r] = None
  BY Numbers DEF Launch, Inv, TypeOK
<1>2. config' \in Configs
  BY DEF Launch, Configs
<1>3. TypeOK'
  <2>1. /\ pc' \in [Ranks -> Labels] /\ step' \in [Ranks -> 0..MaxSteps]
        /\ loaded' \in [Ranks -> Saves \cup {None}] /\ saving' \in [Ranks -> Checkpoints]
    BY Numbers DEF Launch, Labels
  <2> QED
    BY <1>1, <1>2, <2>1, Numbers DEF Inv, TypeOK
<1>4. DiskInv' /\ ExportInv'
  BY <1>1 DEF Inv, DiskInv, ExportInv, Begun
<1>5. LaunchInv'
  BY <1>1, Numbers DEF LaunchInv
<1>6. PrepareInv' /\ LoadInv' /\ StepInv' /\ DueInv' /\ ManifestInv'
  BY <1>1 DEF PrepareInv, LoadInv, StepInv, DueInv, ManifestInv, Begun
<1> QED
  BY <1>3, <1>4, <1>5, <1>6 DEF Inv

\* The launcher removes a file at a time.
LEMMA LauncherClearsStep ==
  ASSUME Inv, LauncherClears
  PROVE  Inv'
<1>1. /\ job = "launcher"
      /\ UNCHANGED <<job, launches, config, pc, verdict, step, loaded, saving, exported>>
      /\ RemoveFile(out) /\ TypeOK
  BY DEF LauncherClears, Inv
<1>2. PICK f \in Files :
        \A d \in OutputDirs, g \in Files :
          disk'[d][g] = IF d = out /\ g = f THEN None ELSE disk[d][g]
  BY <1>1, RemoveEffect
<1>3. TypeOK'
  BY <1>1, RemoveEffect DEF TypeOK
<1>4. DiskInv'
  <2>1. \A d \in OutputDirs, g \in Files :
          Whole(disk'[d][g]) => disk'[d][g] = disk[d][g] /\ Whole(disk[d][g])
    BY <1>2, Wholeness
  <2>2. DiskInv
    BY DEF Inv
  <2>3. \A d \in OutputDirs, n \in Checkpoints, r \in Ranks :
          Whole(disk'[d][Shard(n, r)]) => disk'[d][Shard(n, r)][2] = StepOf(n)
    BY <2>1, <2>2, Names DEF DiskInv
  <2>4. \A d \in OutputDirs, f1, g \in Shards :
          Whole(disk'[d][f1]) /\ Whole(disk'[d][g]) => disk'[d][f1][1] = disk'[d][g][1]
    BY <2>1, <2>2, Names, SMTT(30) DEF DiskInv
  <2> QED
    BY <1>1, <2>3, <2>4 DEF DiskInv, Begun
<1>5. LaunchInv' /\ ExportInv'
  BY <1>1 DEF Inv, LaunchInv, ExportInv
<1>6. PrepareInv' /\ LoadInv' /\ StepInv' /\ DueInv' /\ ManifestInv'
  BY <1>1 DEF PrepareInv, LoadInv, StepInv, DueInv, ManifestInv, Begun
<1> QED
  BY <1>3, <1>4, <1>5, <1>6 DEF Inv

\* The workers start on an empty output directory.
LEMMA StartWorkersStep ==
  ASSUME Inv, StartWorkers
  PROVE  Inv'
<1>1. /\ job = "launcher" /\ job' = "workers" /\ Present(out) = {}
      /\ UNCHANGED <<disk, launches, config, pc, verdict, step, loaded, saving, exported>>
  BY DEF StartWorkers, refuses, clears, Inv, TypeOK, Configs
<1>2. \A f \in Files : disk[out][f] = None
  BY <1>1 DEF Present
<1>3. /\ launches # 0 /\ verdict = "none"
      /\ \A r \in Ranks : pc[r] = "construct" /\ step[r] = 0 /\ loaded[r] = None
  BY <1>1 DEF Inv, LaunchInv
<1>4. TypeOK'
  BY <1>1 DEF Inv, TypeOK
<1>5. DiskInv'
  BY <1>1, <1>2, Wholeness, Names DEF Inv, DiskInv, Begun, out
<1>6. LaunchInv' /\ ExportInv' /\ PrepareInv' /\ LoadInv' /\ StepInv'
  BY <1>1, <1>3 DEF Inv, LaunchInv, ExportInv, PrepareInv, LoadInv, StepInv, Begun, Prepared,
                    Underway, InSave
<1>7. DueInv' /\ ManifestInv'
  BY <1>1, <1>2, <1>3, Names DEF DueInv, ManifestInv, out
<1> QED
  BY <1>4, <1>5, <1>6, <1>7 DEF Inv
-----------------------------------------------------------------------------
(* Workers until they train.                                               *)

\* What a step of a worker leaves alone, and its effect on the whole shards.
LEMMA DiskKept ==
  ASSUME Inv, Begun, UNCHANGED <<job, launches, config>>,
         \A d \in OutputDirs, f \in Shards :
           Whole(disk'[d][f]) => disk'[d][f] = disk[d][f]
  PROVE  DiskInv' /\ LaunchInv'
<1>1. DiskInv /\ LaunchInv /\ out' = out /\ out \in OutputDirs
  BY Typed DEF Inv, out
<1>2. \A d \in OutputDirs, n \in Checkpoints, r \in Ranks :
        Whole(disk'[d][Shard(n, r)]) => disk'[d][Shard(n, r)][2] = StepOf(n)
  BY <1>1, Names DEF DiskInv
<1>3. \A d \in OutputDirs, f, g \in Shards :
        Whole(disk'[d][f]) /\ Whole(disk'[d][g]) => disk'[d][f][1] = disk'[d][g][1]
  BY <1>1 DEF DiskInv
<1>4. \A f \in Shards : Whole(disk'[out][f]) => disk'[out][f][1] = launches'
  BY <1>1 DEF DiskInv
<1> QED
  BY <1>1, <1>2, <1>3, <1>4 DEF DiskInv, LaunchInv, Begun

\* The directory of the logs is no checkpoint's file.
LEMMA LogsWritten ==
  ASSUME Inv, Begun, Write(Logs, LogContent)
  PROVE  /\ disk' \in [OutputDirs -> [Files -> Contents]]
         /\ \A d \in OutputDirs, g \in Files : g # Logs => disk'[d][g] = disk[d][g]
         /\ \A d \in OutputDirs : d # out => disk'[d][Logs] = disk[d][Logs]
         /\ disk'[out][Logs] # None
<1>1. LogContent \in Contents /\ LogContent # None
  <2>1. launches \in 1..MaxLaunches /\ 0 \in 0..MaxSteps
    BY Numbers DEF Inv, TypeOK, LaunchInv, Begun
  <2> QED
    BY <2>1, Wholeness DEF LogContent
<1>2. TypeOK
  BY DEF Inv
<1> QED
  BY <1>1, <1>2, WriteEffect, Names, Typed

\* What was loaded is still there after a step that leaves the other directories alone.
LEMMA LoadKept ==
  ASSUME Inv, Begun, UNCHANGED <<job, config, step, loaded>>,
         \A q \in Ranks : \/ pc'[q] = pc[q]
                          \/ /\ pc'[q] \in Early => pc[q] \in Early
                             /\ pc'[q] # "done"
                             /\ pc'[q] = "resume" => config.checkpoint # None,
         \A d \in OutputDirs, f \in Shards : d # out => disk'[d][f] = disk[d][f]
  PROVE  LoadInv'
<1>1. LoadInv /\ out' = out
  BY DEF Inv, out
<1>2. ASSUME NEW r \in Ranks, loaded'[r] # None
      PROVE  /\ config'.checkpoint # None
             /\ config'.checkpoint[1] # out
             /\ loaded'[r] = disk'[config'.checkpoint[1]][Shard(config'.checkpoint[2], r)]
  BY <1>1, <1>2, Names, Typed, SMTT(30) DEF Inv, LoadInv
<1>3. \A r \in Ranks : /\ pc'[r] # "done" /\ (pc'[r] = "resume" => config'.checkpoint # None)
                       /\ pc'[r] \in Early => step'[r] = 0
  BY <1>1 DEF LoadInv, Begun
<1> QED
  BY <1>1, <1>2, <1>3 DEF LoadInv, Begun

\* What is not due is not written by a step before the first save.
LEMMA DueKept ==
  ASSUME Inv, Begun, UNCHANGED <<job, launches, config, step, saving>>,
         \A q \in Ranks : \/ pc'[q] = pc[q]
                          \/ pc[q] \in Early /\ pc'[q] \in Early \cup {"train", "failed"},
         \A f \in Shards \cup Markers : disk'[out][f] = disk[out][f]
  PROVE  DueInv'
<1>1. DueInv /\ out' = out
  BY DEF Inv, out
<1>2. ASSUME NEW r \in Ranks, NEW n \in Checkpoints, pc'[r] # "failed", n >= NextShard(r)'
      PROVE  disk'[out][Shard(n, r)] = None
  BY <1>1, <1>2, Names DEF DueInv, Begun, NextShard, Early, InSave
<1>3. ASSUME NEW n \in Checkpoints, pc'[Primary] # "failed", n >= NextManifest'
      PROVE  disk'[out][Manifest(n)] = None
  BY <1>1, <1>3, Names DEF DueInv, Begun, NextManifest, Early, InSave
<1>4. \A r \in Ranks :
         /\ pc'[r] = "writing" => disk'[out][Shard(saving'[r], r)] = Partial
         /\ pc'[r] = "barrier" => disk'[out][Shard(saving'[r], r)] = <<launches', step'[r]>>
  <2>1. \A r \in Ranks : saving[r] \in Checkpoints
    BY Typed DEF Inv
  <2> QED
    BY <1>1, <2>1, Names DEF DueInv, Begun, Early
<1> QED
  BY <1>1, <1>2, <1>3, <1>4 DEF DueInv, Begun

LEMMA ConstructStep ==
  ASSUME Inv, NEW r \in Ranks, Construct(r)
  PROVE  Inv'
<1>1. /\ Begun /\ pc[r] = "construct" /\ TypeOK
      /\ UNCHANGED <<job, launches, config, verdict, step, loaded, saving, exported>>
      /\ out' = out /\ StartStep' = StartStep
  BY DEF Construct, At, Begun, Inv, out, StartStep, StepOf
<1>2. /\ pc' \in [Ranks -> Labels]
      /\ \A q \in Ranks : pc'[q] = IF q = r THEN "setup" ELSE pc[q]
  BY <1>1, GotoEffect DEF Construct, Labels
<1>3. /\ disk' \in [OutputDirs -> [Files -> Contents]]
      /\ \A d \in OutputDirs, g \in Files : g # Logs => disk'[d][g] = disk[d][g]
      /\ disk[out][Logs] # None => disk'[out][Logs] # None
  <2>1. CASE config.trainer = "rl"
    BY <1>1, <2>1, LogsWritten DEF Construct
  <2>2. CASE config.trainer # "rl"
    BY <1>1, <2>2 DEF Construct, TypeOK
  <2> QED
    BY <2>1, <2>2
<1>4. TypeOK'
  BY <1>1, <1>2, <1>3 DEF TypeOK
<1>5. DiskInv' /\ LaunchInv'
  BY <1>1, <1>3, DiskKept, Names
<1>6. PrepareInv'
  BY <1>1, <1>2, <1>3 DEF Inv, PrepareInv, Begun, Prepared
<1>7. LoadInv'
  BY <1>1, <1>2, <1>3, LoadKept, Names DEF Early
<1>8. StepInv'
  BY <1>1, <1>2 DEF Inv, StepInv, Begun, Early, Underway, InSave
<1>9. DueInv'
  BY <1>1, <1>2, <1>3, DueKept, Names, Typed DEF Early
<1>10. ManifestInv' /\ ExportInv'
  BY <1>1, <1>2, <1>3, Names, Typed DEF Inv, ManifestInv, ExportInv, Begun, InSave
<1> QED
  BY <1>4, <1>5, <1>6, <1>7, <1>8, <1>9, <1>10 DEF Inv

LEMMA SetupStep ==
  ASSUME Inv, Setup
  PROVE  Inv'
<1>1. /\ Begun /\ TypeOK /\ \A r \in Ranks : pc[r] = "setup"
      /\ UNCHANGED <<disk, job, launches, config, verdict, step, loaded, saving, exported>>
      /\ out' = out /\ StartStep' = StartStep
      /\ pc' \in [Ranks -> Labels] /\ \A r \in Ranks : pc'[r] = "prepare"
  BY Names DEF Setup, At, Begun, Inv, out, StartStep, StepOf, Labels
<1>2. TypeOK'
  BY <1>1 DEF TypeOK
<1>3. DiskInv' /\ LaunchInv'
  BY <1>1, DiskKept
<1>4. PrepareInv'
  BY <1>1, Names DEF Inv, PrepareInv, Begun, Prepared
<1>5. LoadInv'
  BY <1>1 DEF Inv, LoadInv, Begun, Early
<1>6. StepInv' /\ ManifestInv' /\ ExportInv'
  BY <1>1, Names DEF Inv, StepInv, ManifestInv, ExportInv, Begun, Early, Underway, InSave
<1>7. DueInv'
  BY <1>1, Names DEF Inv, DueInv, Begun, Early, InSave, NextShard, NextManifest
<1> QED
  BY <1>2, <1>3, <1>4, <1>5, <1>6, <1>7 DEF Inv

\* While rank 0 prepares the directory, nobody is past it.
LEMMA PreparingAlone ==
  ASSUME Inv, Begun, pc[Primary] = "prepare"
  PROVE  /\ verdict = "none"
         /\ \A r \in Ranks : pc[r] = "prepare"
BY Names DEF Inv, PrepareInv, TypeOK

LEMMA PrepareStep ==
  ASSUME Inv, NEW r \in Ranks, Prepare(r)
  PROVE  Inv'
<1>1. /\ Begun /\ pc[r] = "prepare" /\ r = Primary /\ TypeOK
      /\ UNCHANGED <<job, launches, config, step, loaded, saving, exported>>
      /\ out' = out /\ StartStep' = StartStep
  BY DEF Prepare, At, Begun, Inv, out, StartStep, StepOf, preparing_rank
<1>2. verdict = "none" /\ \A q \in Ranks : pc[q] = "prepare"
  BY <1>1, PreparingAlone
<1>3. /\ disk' \in [OutputDirs -> [Files -> Contents]]
      /\ \A d \in OutputDirs, g \in Files :
           \/ disk'[d][g] = disk[d][g]
           \/ d = out /\ disk'[d][g] = None
  <2>1. CASE UNCHANGED disk
    BY <1>1, <2>1 DEF TypeOK
  <2>2. CASE RemoveFile(out)
    BY <1>1, <2>2, RemoveEffect
  <2> QED
    BY <2>1, <2>2 DEF Prepare
<1>4. \/ /\ UNCHANGED <<pc, verdict>>
      \/ /\ verdict' \in {"refused", "ready"} /\ pc' \in [Ranks -> Labels]
         /\ \A q \in Ranks : pc'[q] = IF q = r THEN (IF verdict' = "refused" THEN "failed" ELSE "logger")
                                      ELSE pc[q]
  <2>1. CASE Goto(r, "failed") /\ verdict' = "refused"
    BY <1>1, <2>1, GotoEffect DEF Labels
  <2>2. CASE Goto(r, "logger") /\ verdict' = "ready"
    BY <1>1, <2>2, GotoEffect DEF Labels
  <2> QED
    BY <2>1, <2>2 DEF Prepare
<1>5. \A q \in Ranks : pc'[q] \in {"prepare", "failed", "logger"}
  BY <1>2, <1>4
<1>6. TypeOK'
  BY <1>1, <1>3, <1>4 DEF TypeOK
<1>7. DiskInv' /\ LaunchInv'
  BY <1>1, <1>3, DiskKept, Wholeness, Names
<1>8. PrepareInv'
  BY <1>1, <1>2, <1>4, <1>5 DEF PrepareInv, Begun, Prepared
<1>9. LoadInv'
  BY <1>1, <1>2, <1>3, <1>5, Names, Typed DEF Inv, LoadInv, Begun, Early
<1>10. StepInv' /\ ManifestInv' /\ ExportInv'
  BY <1>1, <1>5, Names DEF Inv, StepInv, ManifestInv, ExportInv, Underway, InSave
<1>11. DueInv'
  <2>1. DueInv /\ out \in OutputDirs /\ Primary \in Ranks
    BY <1>1, Names, Typed DEF Inv
  <2>2. \A q \in Ranks, n \in Checkpoints :
          n >= step[q] + 1 => disk'[out][Shard(n, q)] = None
    BY <1>1, <1>2, <1>3, <2>1, Names DEF DueInv, NextShard, Early
  <2>3. \A n \in Checkpoints : n >= step[Primary] + 1 => disk'[out][Manifest(n)] = None
    BY <1>1, <1>2, <1>3, <2>1, Names DEF DueInv, NextManifest, Early
  <2> QED
    BY <1>1, <1>5, <2>1, <2>2, <2>3 DEF DueInv, NextShard, NextManifest, Early
<1> QED
  BY <1>6, <1>7, <1>8, <1>9, <1>10, <1>11 DEF Inv

LEMMA AwaitPreparedStep ==
  ASSUME Inv, NEW r \in Ranks, AwaitPrepared(r)
  PROVE  Inv'
<1> DEFINE l == IF verdict = "refused" THEN "failed" ELSE "logger"
<1>1. /\ Begun /\ pc[r] = "prepare" /\ r # Primary /\ verdict # "none" /\ TypeOK
      /\ UNCHANGED <<disk, job, launches, config, verdict, step, loaded, saving, exported>>
      /\ out' = out /\ StartStep' = StartStep
  BY DEF AwaitPrepared, At, Begun, Inv, out, StartStep, StepOf, preparing_rank
<1>2. /\ pc' \in [Ranks -> Labels] /\ \A q \in Ranks : pc'[q] = IF q = r THEN l ELSE pc[q]
  BY <1>1, GotoEffect DEF AwaitPrepared, Labels
<1>3. TypeOK'
  BY <1>1, <1>2 DEF TypeOK
<1>4. DiskInv' /\ LaunchInv'
  BY <1>1, DiskKept
<1>5. PrepareInv'
  BY <1>1, <1>2, Names DEF Inv, PrepareInv, Begun, Prepared, TypeOK
<1>6. LoadInv'
  BY <1>1, <1>2 DEF Inv, LoadInv, Begun, Early
<1>7. StepInv'
  BY <1>1, <1>2 DEF Inv, StepInv, Begun, Early, Underway, InSave
<1>8. ManifestInv' /\ ExportInv'
  BY <1>1, <1>2, Names DEF Inv, ManifestInv, ExportInv, Begun, InSave
<1>9. DueInv'
  <2>1. DueInv /\ Primary \in Ranks
    BY Names DEF Inv
  <2>2. l \in {"failed", "logger"}
    OBVIOUS
  <2> HIDE DEF l
  <2>3. \A q \in Ranks : pc'[q] # "failed" => pc[q] # "failed" /\ NextShard(q)' = NextShard(q)
    BY <1>1, <1>2, <2>2 DEF NextShard, Early
  <2>4. pc'[Primary] = pc[Primary] /\ NextManifest' = NextManifest
    BY <1>1, <1>2, <2>1 DEF NextManifest
  <2>5. \A q \in Ranks : pc'[q] \in {"writing", "barrier"} => pc'[q] = pc[q]
    BY <1>2, <2>2
  <2> QED
    BY <1>1, <2>1, <2>3, <2>4, <2>5 DEF DueInv
<1> QED
  BY <1>3, <1>4, <1>5, <1>6, <1>7, <1>8, <1>9 DEF Inv

LEMMA BuildLoggerStep ==
  ASSUME Inv, NEW r \in Ranks, BuildLogger(r)
  PROVE  Inv'
<1> DEFINE l == IF config.checkpoint = None THEN "train" ELSE "resume"
<1>1. /\ Begun /\ pc[r] = "logger" /\ TypeOK
      /\ UNCHANGED <<job, launches, config, verdict, step, loaded, saving, exported>>
      /\ out' = out /\ StartStep' = StartStep
  BY DEF BuildLogger, At, Begun, Inv, out, StartStep, StepOf
<1>2. /\ pc' \in [Ranks -> Labels] /\ \A q \in Ranks : pc'[q] = IF q = r THEN l ELSE pc[q]
  BY <1>1, GotoEffect DEF BuildLogger, Labels
<1>3. /\ disk' \in [OutputDirs -> [Files -> Contents]]
      /\ \A d \in OutputDirs, g \in Files : g # Logs => disk'[d][g] = disk[d][g]
      /\ disk'[out][Logs] # None
  BY <1>1, LogsWritten DEF BuildLogger
<1>4. TypeOK'
  BY <1>1, <1>2, <1>3 DEF TypeOK
<1>5. DiskInv' /\ LaunchInv'
  BY <1>1, <1>3, DiskKept, Names
<1>6. PrepareInv'
  <2>1. PrepareInv /\ verdict = "ready"
    BY <1>1 DEF Inv, PrepareInv, TypeOK
  <2>2. \A q \in Ranks : pc'[q] \in {"construct", "setup", "prepare"} => pc'[q] = pc[q]
    BY <1>2
  <2>3. pc'[Primary] # "prepare"
    BY <1>1, <2>1, <2>2, Names DEF PrepareInv
  <2> QED
    BY <1>1, <1>3, <2>1, <2>2, <2>3 DEF PrepareInv, Begun
<1>7. LoadInv'
  BY <1>1, <1>2, <1>3, LoadKept, Names DEF Early
<1>8. StepInv'
  <2>1. l = "train" => step[r] = StartStep
    BY <1>1 DEF StartStep, Inv, LoadInv, Early, Begun
  <2> QED
    BY <1>1, <1>2, <2>1 DEF Inv, StepInv, Begun, Early, Underway, InSave
<1>9. DueInv'
  BY <1>1, <1>2, <1>3, DueKept, Names, Typed DEF Early
<1>10. ManifestInv' /\ ExportInv'
  BY <1>1, <1>2, <1>3, Names, Typed DEF Inv, ManifestInv, ExportInv, Begun, InSave
<1> QED
  BY <1>4, <1>5, <1>6, <1>7, <1>8, <1>9, <1>10 DEF Inv
-----------------------------------------------------------------------------
(* Workers that train and save.                                            *)

\* Nobody goes back to the preparation.
LEMMA PreparedKept ==
  ASSUME Inv, Begun, UNCHANGED <<job, config, verdict>>,
         \A q \in Ranks : \/ pc'[q] = pc[q]
                          \/ pc[q] \in Prepared /\ pc'[q] \in Prepared \cup {"failed"},
         disk[out][Logs] # None => disk'[out][Logs] # None
  PROVE  PrepareInv'
<1>1. PrepareInv /\ out' = out /\ verdict \in {"none", "refused", "ready"}
  BY DEF Inv, out, TypeOK
<1>2. \A q \in Ranks : pc'[q] \in {"construct", "setup", "prepare"} => pc'[q] = pc[q]
  BY DEF Prepared
<1>3. \A q \in Ranks : pc[q] \in Prepared => verdict = "ready"
  BY <1>1 DEF PrepareInv, Prepared
<1>4. pc'[Primary] = "prepare" => pc[Primary] = "prepare"
  BY <1>2, Names
<1>5. \A q \in Ranks : pc'[q] \in Prepared => disk'[out][Logs] # None
  BY <1>1 DEF PrepareInv
<1> QED
  BY <1>1, <1>2, <1>3, <1>4, <1>5 DEF PrepareInv, Begun

\* A rank resumes at the step of its shard, which every other rank starts from.
LEMMA ResumeStep ==
  ASSUME Inv, NEW r \in Ranks, Resume(r)
  PROVE  Inv'
<1> DEFINE f == Shard(config.checkpoint[2], r)
           c == disk[config.checkpoint[1]][f]
<1>1. /\ Begun /\ pc[r] = "resume" /\ TypeOK
      /\ UNCHANGED <<disk, job, launches, config, verdict, saving, exported>>
      /\ out' = out /\ StartStep' = StartStep
  BY DEF Resume, At, Begun, Inv, out, StartStep, StepOf
<1>2. /\ config.checkpoint # None /\ config.checkpoint[1] \in OutputDirs
      /\ config.checkpoint[2] \in Checkpoints /\ step[r] = 0 /\ out \in OutputDirs
  BY <1>1, Typed DEF Inv, LoadInv, Early
<1>3. \/ /\ Whole(c) /\ c[2] = StartStep
         /\ loaded' = [loaded EXCEPT ![r] = c] /\ step' = [step EXCEPT ![r] = StartStep]
         /\ Goto(r, "train")
      \/ UNCHANGED <<loaded, step>> /\ Goto(r, "failed")
  <2>1. Whole(c) => c[2] = StartStep
    BY <1>2 DEF Inv, DiskInv, StartStep
  <2> QED
    BY <2>1 DEF Resume, shard_of
<1>4. \/ pc' \in [Ranks -> Labels] /\ \A q \in Ranks : pc'[q] = IF q = r THEN "train" ELSE pc[q]
      \/ pc' \in [Ranks -> Labels] /\ \A q \in Ranks : pc'[q] = IF q = r THEN "failed" ELSE pc[q]
  BY <1>1, <1>3, GotoEffect DEF Labels
<1>5. CASE UNCHANGED <<loaded, step>> /\ \A q \in Ranks : pc'[q] = IF q = r THEN "failed" ELSE pc[q]
  <2>1. TypeOK'
    BY <1>1, <1>4, <1>5 DEF TypeOK
  <2>2. DiskInv' /\ LaunchInv' /\ PrepareInv'
    BY <1>1, <1>5, DiskKept, PreparedKept DEF Prepared
  <2>3. LoadInv' /\ DueInv'
    BY <1>1, <1>5, LoadKept, DueKept, Names DEF Early
  <2>4. StepInv'
    BY <1>1, <1>5 DEF Inv, StepInv, Begun, Early, Underway, InSave
  <2>5. ManifestInv' /\ ExportInv'
    BY <1>1, <1>5, Names DEF Inv, ManifestInv, ExportInv, Begun, InSave
  <2> QED
    BY <2>1, <2>2, <2>3, <2>4, <2>5 DEF Inv
<1>6. CASE /\ Whole(c) /\ c[2] = StartStep
           /\ loaded' = [loaded EXCEPT ![r] = c] /\ step' = [step EXCEPT ![r] = StartStep]
           /\ Goto(r, "train")
  <2>1. /\ pc' \in [Ranks -> Labels] /\ \A q \in Ranks : pc'[q] = IF q = r THEN "train" ELSE pc[q]
    BY <1>1, <1>6, GotoEffect DEF Labels
  <2>2. StartStep \in 0..MaxSteps /\ c \in Saves
    BY <1>2, <1>6, Numbers DEF StartStep, Whole
  <2>3. /\ step' \in [Ranks -> 0..MaxSteps] /\ loaded' \in [Ranks -> Saves \cup {None}]
        /\ \A q \in Ranks : /\ step'[q] = IF q = r THEN StartStep ELSE step[q]
                            /\ loaded'[q] = IF q = r THEN c ELSE loaded[q]
    BY <1>1, <1>6, <2>2 DEF TypeOK
  <2>4. config.checkpoint[1] # out
    <3>1. config.checkpoint[2] >= NextShard(r)
      BY <1>1, <1>2, Numbers DEF NextShard, Early
    <3>2. disk[out][f] = None
      BY <1>1, <1>2, <3>1 DEF Inv, DueInv
    <3> QED
      BY <1>6, <3>2, Wholeness
  <2>5. TypeOK'
    BY <1>1, <2>1, <2>3 DEF TypeOK
  <2>6. DiskInv' /\ LaunchInv' /\ PrepareInv'
    BY <1>1, <2>1, DiskKept, PreparedKept DEF Prepared
  <2>7. LoadInv'
    <3>1. LoadInv
      BY DEF Inv
    <3> HIDE DEF c
    <3>2. \A q \in Ranks : q # r => step'[q] = step[q] /\ loaded'[q] = loaded[q] /\ pc'[q] = pc[q]
      BY <2>1, <2>3
    <3>3. step'[r] = StartStep /\ loaded'[r] = c /\ pc'[r] = "train"
      BY <2>1, <2>3
    <3> QED
      BY <1>1, <1>2, <2>4, <3>1, <3>2, <3>3 DEF LoadInv, Begun, Early, c
  <2>8. StepInv'
    <3>1. StepInv
      BY DEF Inv
    <3>2. \A q \in Ranks : q # r => step'[q] = step[q] /\ pc'[q] = pc[q]
      BY <2>1, <2>3
    <3>3. step'[r] = StartStep /\ pc'[r] = "train"
      BY <2>1, <2>3
    <3>4. \A q \in Ranks : pc[q] \in Underway => step[q] = StartStep
      BY <1>1, <3>1 DEF StepInv, Early
    <3>5. \A q \in Ranks : pc'[q] \in Underway => step'[q] = StartStep
      BY <3>2, <3>3, <3>4
    <3>6. \A q, p \in Ranks : pc'[q] \in InSave /\ saving'[q] # Final =>
            pc'[p] \in InSave /\ saving'[p] = saving'[q]
      <4>1. ~\E q \in Ranks : pc[q] \in InSave /\ saving[q] # Final
        BY <1>1, <3>1 DEF StepInv, InSave
      <4> QED
        BY <1>1, <3>2, <3>3, <4>1 DEF InSave
    <3>7. \A q \in Ranks : pc'[q] \in Underway \ {"train"} => step'[q] = StepOf(saving'[q])
      BY <1>1, <3>1, <3>2, <3>3 DEF StepInv
    <3>8. \A q \in Ranks : pc'[q] \in {"export", "close"} => saving'[q] = Final
      BY <1>1, <3>1, <3>2, <3>3 DEF StepInv
    <3> QED
      BY <1>1, <3>5, <3>6, <3>7, <3>8 DEF StepInv
  <2>9. DueInv'
    <3>1. DueInv /\ StartStep \in Nat
      BY <2>2, Numbers DEF Inv
    <3>2. ASSUME NEW q \in Ranks, NEW n \in Checkpoints, pc'[q] # "failed", n >= NextShard(q)'
          PROVE  disk'[out][Shard(n, q)] = None
      BY <1>1, <1>2, <2>1, <2>3, <3>1, <3>2, Numbers DEF DueInv, NextShard, Early
    <3>3. ASSUME NEW n \in Checkpoints, pc'[Primary] # "failed", n >= NextManifest'
          PROVE  disk'[out][Manifest(n)] = None
      <4>1. n \in Nat /\ step[Primary] \in Nat /\ saving[Primary] \in Nat /\ Primary \in Ranks
        <5>1. step[Primary] \in 0..MaxSteps /\ saving[Primary] \in Checkpoints
          BY <1>1, Typed, Names
        <5>2. step[Primary] \in Nat
          BY <5>1
        <5>3. n \in Nat /\ saving[Primary] \in Nat
          BY <5>1, Numbers
        <5> QED
          BY <5>2, <5>3, Names
      <4>2. n >= NextManifest /\ pc[Primary] # "failed"
        <5>1. CASE r = Primary
          BY <1>1, <1>2, <2>1, <2>3, <3>1, <3>3, <4>1, <5>1 DEF NextManifest, Early
        <5>2. CASE r # Primary
          BY <1>1, <2>1, <2>3, <3>3, <4>1, <5>2 DEF NextManifest
        <5> QED
          BY <5>1, <5>2
      <4> QED
        BY <1>1, <3>1, <4>2 DEF DueInv
    <3>4. \A q \in Ranks :
            /\ pc'[q] = "writing" => disk'[out][Shard(saving'[q], q)] = Partial
            /\ pc'[q] = "barrier" => disk'[out][Shard(saving'[q], q)] = <<launches', step'[q]>>
      BY <1>1, <2>1, <2>3, <3>1 DEF DueInv
    <3> QED
      BY <1>1, <3>2, <3>3, <3>4 DEF DueInv, Begun
  <2>10. ManifestInv' /\ ExportInv'
    <3>1. pc[Primary] # pc[r] => pc'[Primary] = pc[Primary] /\ step'[Primary] = step[Primary]
      BY <2>1, <2>3, Names
    <3>2. pc'[Primary] \notin {"manifest", "export"}
      BY <1>1, <2>1, Names DEF Inv, ManifestInv, InSave
    <3> QED
      BY <1>1, <2>1, <3>2 DEF Inv, ManifestInv, ExportInv
  <2> QED
    BY <2>5, <2>6, <2>7, <2>8, <2>9, <2>10 DEF Inv
<1> QED
  BY <1>1, <1>3, <1>5, <1>6, GotoEffect DEF Labels

LEMMA TrainStepStep ==
  ASSUME Inv, TrainStep
  PROVE  Inv'
<1>1. /\ Begun /\ TypeOK /\ \A r \in Ranks : pc[r] = "train" /\ step[r] < MaxSteps
      /\ UNCHANGED <<disk, job, launches, config, verdict, loaded, exported>>
      /\ out' = out /\ out \in OutputDirs
  BY Names, Typed DEF TrainStep, At, Begun, Inv, out, steps_left
<1>2. \A r \in Ranks : step[r] \in 0..MaxSteps /\ step[r] + 1 \in 0..MaxSteps
                       /\ step[r] + 1 \in Checkpoints /\ step[r] + 1 # Final
                       /\ StepOf(step[r] + 1) = step[r] + 1
  BY <1>1, Typed, Numbers
<1>3. /\ step' \in [Ranks -> 0..MaxSteps] /\ saving' \in [Ranks -> Checkpoints]
      /\ pc' \in [Ranks -> Labels]
      /\ \A r \in Ranks : pc'[r] = "shard" /\ step'[r] = step[r] + 1 /\ saving'[r] = step[r] + 1
  BY <1>2 DEF TrainStep, Labels
<1>4. \A r, q \in Ranks : step[r] = step[q]
  BY <1>1 DEF Inv, StepInv, Underway
<1>5. TypeOK'
  BY <1>1, <1>3 DEF TypeOK
<1>6. DiskInv' /\ LaunchInv' /\ PrepareInv'
  BY <1>1, <1>3, DiskKept, PreparedKept DEF Prepared
<1>7. LoadInv'
  BY <1>1, <1>3 DEF Inv, LoadInv, Begun, Early
<1>8. StepInv'
  BY <1>1, <1>2, <1>3, <1>4 DEF StepInv, Early, InSave, Underway
<1>9. DueInv'
  <2>1. DueInv /\ Primary \in Ranks
    BY Names DEF Inv
  <2>2. \A q \in Ranks, n \in Checkpoints : n >= NextShard(q)' => disk'[out][Shard(n, q)] = None
    BY <1>1, <1>2, <1>3, <2>1 DEF DueInv, NextShard, Early
  <2>3. \A n \in Checkpoints : n >= NextManifest' => disk'[out][Manifest(n)] = None
    BY <1>1, <1>2, <1>3, <2>1 DEF DueInv, NextManifest, Early, InSave
  <2> QED
    BY <1>1, <1>3, <2>2, <2>3 DEF DueInv
<1>10. ManifestInv' /\ ExportInv'
  BY <1>1, <1>3, Names DEF Inv, ManifestInv, ExportInv
<1> QED
  BY <1>5, <1>6, <1>7, <1>8, <1>9, <1>10 DEF Inv

LEMMA FinishStep ==
  ASSUME Inv, NEW r \in Ranks, Finish(r)
  PROVE  Inv'
<1>1. /\ Begun /\ pc[r] = "train" /\ TypeOK /\ step[r] = MaxSteps
      /\ UNCHANGED <<disk, job, launches, config, verdict, step, loaded, exported>>
      /\ out' = out /\ out \in OutputDirs /\ StartStep' = StartStep
  BY Typed, Numbers DEF Finish, At, Begun, Inv, out, StartStep, StepOf, steps_left
<1>2. /\ pc' \in [Ranks -> Labels] /\ \A q \in Ranks : pc'[q] = IF q = r THEN "shard" ELSE pc[q]
  BY <1>1, GotoEffect DEF Finish, Labels
<1>3. /\ saving' \in [Ranks -> Checkpoints]
      /\ \A q \in Ranks : saving'[q] = IF q = r THEN Final ELSE saving[q]
  BY <1>1, Numbers DEF Finish, TypeOK
<1>4. TypeOK'
  BY <1>1, <1>2, <1>3 DEF TypeOK
<1>5. DiskInv' /\ LaunchInv' /\ PrepareInv'
  BY <1>1, <1>2, DiskKept, PreparedKept DEF Prepared
<1>6. LoadInv'
  BY <1>1, <1>2, LoadKept DEF Early
<1>7. StepInv'
  <2>1. StepInv /\ StepOf(Final) = MaxSteps
    BY Numbers DEF Inv
  <2>2. ~\E q \in Ranks : pc[q] \in InSave /\ saving[q] # Final
    BY <1>1, <2>1 DEF StepInv, InSave
  <2>3. \A q \in Ranks : pc'[q] \in InSave => saving'[q] = Final
    BY <1>2, <1>3, <2>2
  <2>4. \A q \in Ranks : pc'[q] \in Underway \ {"train"} => step'[q] = StepOf(saving'[q])
    BY <1>1, <1>2, <1>3, <2>1 DEF StepInv
  <2>5. \A q \in Ranks : (pc'[q] \in Underway <=> pc[q] \in Underway)
                         /\ (pc'[q] \in Early <=> pc[q] \in Early)
                         /\ (pc'[q] \in {"export", "close"} => saving'[q] = Final)
    BY <1>1, <1>2, <1>3, <2>1 DEF StepInv, Underway, InSave, Early
  <2> QED
    BY <1>1, <2>1, <2>3, <2>4, <2>5 DEF StepInv, Begun
<1>8. DueInv'
  <2>1. DueInv /\ Final = MaxSteps + 1 /\ MaxSteps \in Nat
    BY Numbers DEF Inv
  <2>2. ASSUME NEW q \in Ranks, NEW n \in Checkpoints, pc'[q] # "failed", n >= NextShard(q)'
        PROVE  disk'[out][Shard(n, q)] = None
    BY <1>1, <1>2, <1>3, <2>1, <2>2 DEF DueInv, NextShard, Early
  <2>3. ASSUME NEW n \in Checkpoints, pc'[Primary] # "failed", n >= NextManifest'
        PROVE  disk'[out][Manifest(n)] = None
    <3>1. Primary \in Ranks
      BY Names
    <3>2. NextManifest' = NextManifest
      BY <1>1, <1>2, <1>3, <2>1, <3>1 DEF NextManifest, Early, InSave
    <3>3. pc[Primary] # "failed"
      BY <1>1, <1>2, <2>3, <3>1
    <3> QED
      BY <1>1, <2>1, <2>3, <3>2, <3>3 DEF DueInv
  <2>4. \A q \in Ranks :
          /\ pc'[q] = "writing" => disk'[out][Shard(saving'[q], q)] = Partial
          /\ pc'[q] = "barrier" => disk'[out][Shard(saving'[q], q)] = <<launches', step'[q]>>
    BY <1>1, <1>2, <1>3, <2>1 DEF DueInv
  <2> QED
    BY <1>1, <2>2, <2>3, <2>4 DEF DueInv, Begun
<1>9. ManifestInv' /\ ExportInv'
  <2>1. pc[Primary] \in {"manifest", "export"} => r # Primary /\ saving[Primary] # Final
    BY <1>1, Names DEF Inv, ManifestInv, StepInv
  <2> QED
    BY <1>1, <1>2, <1>3, <2>1, Names DEF Inv, ManifestInv, ExportInv, Begun, InSave
<1> QED
  BY <1>4, <1>5, <1>6, <1>7, <1>8, <1>9 DEF Inv
\* After a step's save every rank but rank 0 trains on; after the last, it closes.
LEMMA BarrierStep ==
  ASSUME Inv, Barrier
  PROVE  Inv'
<1>1. /\ Begun /\ TypeOK /\ \A r \in Ranks : pc[r] = "barrier"
      /\ UNCHANGED <<disk, job, launches, config, verdict, step, loaded, saving, exported>>
      /\ out' = out /\ out \in OutputDirs /\ StartStep' = StartStep
  BY Names, Typed DEF Barrier, barrier_group, At, Begun, Inv, out, StartStep, StepOf
<1>2. /\ pc' = [r \in Ranks |-> IF r = Primary THEN "manifest" ELSE after_save(r)]
      /\ \A r \in Ranks : pc'[r] = IF r = Primary THEN "manifest"
                                   ELSE IF saving[r] = Final THEN "close" ELSE "train"
      /\ pc' \in [Ranks -> Labels]
  BY Names DEF Barrier, barrier_group, after_save, Labels
<1>3. /\ \A r, q \in Ranks : step[r] = step[q] /\ saving[r] = saving[q]
      /\ \A r \in Ranks : step[r] = StepOf(saving[r])
  BY <1>1 DEF Inv, StepInv, Underway, InSave
<1>4. \A r \in Ranks : /\ step[r] \in 0..MaxSteps /\ saving[r] \in Checkpoints
                       /\ step[r] \in Nat /\ saving[r] \in Nat
                       /\ saving[r] # Final => saving[r] = step[r]
                       /\ disk[out][Shard(saving[r], r)] = <<launches, step[r]>>
  <2>1. \A r \in Ranks : step[r] \in 0..MaxSteps /\ saving[r] \in Checkpoints
    BY <1>1, Typed
  <2>2. \A r \in Ranks : disk[out][Shard(saving[r], r)] = <<launches, step[r]>>
    BY <1>1 DEF Inv, DueInv
  <2> QED
    BY <1>3, <2>1, <2>2, Numbers DEF StepOf
<1>5. TypeOK'
  BY <1>1, <1>2 DEF TypeOK
<1>6. DiskInv' /\ LaunchInv' /\ PrepareInv'
  BY <1>1, <1>2, DiskKept, PreparedKept DEF Prepared
<1>7. LoadInv'
  BY <1>1, <1>2, LoadKept DEF Early
<1>8. StepInv'
  <2>1. \A r \in Ranks : pc'[r] \notin Early /\ pc'[r] \notin InSave
    BY <1>2 DEF Early, InSave
  <2> QED
    BY <1>1, <1>2, <1>3, <2>1 DEF StepInv
<1>9. DueInv'
  <2>1. DueInv
    BY DEF Inv
  <2>2. ASSUME NEW q \in Ranks, NEW n \in Checkpoints, n >= NextShard(q)'
        PROVE  disk'[out][Shard(n, q)] = None
    <3>1. n >= saving[q] + 1
      BY <1>1, <1>2, <1>4, <2>2, Numbers DEF NextShard, Early
    <3> QED
      BY <1>1, <2>1, <3>1 DEF DueInv, NextShard, Early
  <2>3. ASSUME NEW n \in Checkpoints, n >= NextManifest'
        PROVE  disk'[out][Manifest(n)] = None
    <3>1. n >= saving[Primary]
      BY <1>1, <1>2, <2>3, Names DEF NextManifest, Early
    <3> QED
      BY <1>1, <2>1, <3>1, Names DEF DueInv, NextManifest, Early, InSave
  <2> QED
    BY <1>1, <1>2, <2>2, <2>3 DEF DueInv
<1>10. ManifestInv' /\ ExportInv'
  <2>1. ExportInv /\ Primary \in Ranks
    BY Names DEF Inv
  <2>2. \A r \in Ranks :
          /\ disk[out][Shard(saving[Primary], r)] = <<launches, step[Primary]>>
          /\ r # Primary => IF saving[Primary] = Final THEN pc'[r] = "close" ELSE pc'[r] = "train"
    <3>1. ASSUME NEW r \in Ranks
          PROVE  saving[r] = saving[Primary] /\ step[r] = step[Primary]
      BY <1>3, <2>1
    <3> QED
      BY <1>2, <1>4, <2>1, <3>1
  <2> QED
    BY <1>1, <1>2, <2>1, <2>2 DEF ManifestInv, ExportInv
<1> QED
  BY <1>5, <1>6, <1>7, <1>8, <1>9, <1>10 DEF Inv

\* What a rank writes of its own shard.
LEMMA ShardWritten ==
  ASSUME Inv, Begun, NEW r \in Ranks, NEW c \in Contents,
         Write(Shard(saving[r], r), c)
  PROVE  /\ disk' \in [OutputDirs -> [Files -> Contents]]
         /\ \A d \in OutputDirs, g \in Files :
              disk'[d][g] = IF d = out /\ g = Shard(saving[r], r) THEN c ELSE disk[d][g]
         /\ \A d \in OutputDirs, n \in Checkpoints : disk'[d][Manifest(n)] = disk[d][Manifest(n)]
         /\ \A d \in OutputDirs : disk'[d][Logs] = disk[d][Logs]
         /\ \A n \in Checkpoints, q \in Ranks :
              disk'[out][Shard(n, q)] = IF n = saving[r] /\ q = r THEN c ELSE disk[out][Shard(n, q)]
<1>1. TypeOK /\ saving[r] \in Checkpoints /\ out \in OutputDirs
  BY Typed DEF Inv
<1>2. Shard(saving[r], r) \in Files
  BY <1>1, Names
<1>3. /\ disk' \in [OutputDirs -> [Files -> Contents]]
      /\ \A d \in OutputDirs, g \in Files :
           disk'[d][g] = IF d = out /\ g = Shard(saving[r], r) THEN c ELSE disk[d][g]
  BY <1>1, <1>2, WriteEffect
<1> QED
  BY <1>1, <1>3, Names, SMTT(30)

\* In the save of a shard the rank that moves, and rank 0's manifest, are of different
\* checkpoints.
LEMMA ShardMoves ==
  ASSUME Inv, Begun, NEW r \in Ranks, pc[r] \in {"shard", "writing"}, NEW l \in InSave,
         UNCHANGED <<job, launches, config, verdict, step, loaded, saving, exported>>,
         \A q \in Ranks : pc'[q] = IF q = r THEN l ELSE pc[q],
         \A n \in Checkpoints, q \in Ranks :
           n # saving[r] \/ q # r => disk'[out][Shard(n, q)] = disk[out][Shard(n, q)]
  PROVE  StepInv' /\ ManifestInv' /\ ExportInv'
<1>1. StepInv /\ ManifestInv /\ ExportInv /\ out' = out /\ StartStep' = StartStep
  BY DEF Inv, out, StartStep, StepOf
<1>2. StepInv'
  <2>1. \A q \in Ranks : /\ pc'[q] \in Underway <=> pc[q] \in Underway
                         /\ pc'[q] \in Early <=> pc[q] \in Early
                         /\ pc'[q] \in InSave <=> pc[q] \in InSave
                         /\ pc'[q] \in Underway \ {"train"} <=> pc[q] \in Underway \ {"train"}
                         /\ pc'[q] \in {"export", "close"} <=> pc[q] \in {"export", "close"}
    BY DEF Underway, InSave, Early
  <2> HIDE DEF Underway, InSave, Early
  <2> QED
    BY <1>1, <2>1 DEF StepInv, Begun
<1>3. ManifestInv'
  <2>1. pc'[Primary] \in {"manifest", "export"} =>
          /\ pc[Primary] \in {"manifest", "export"} /\ r # Primary /\ saving[r] # saving[Primary]
    BY <1>1, Names DEF ManifestInv, InSave
  <2>2. saving[Primary] \in Checkpoints
    BY Names, Typed DEF Inv
  <2> QED
    BY <1>1, <2>1, <2>2 DEF ManifestInv, Begun, InSave
<1> QED
  BY <1>1, <1>2, <1>3 DEF ExportInv

LEMMA BeginShardStep ==
  ASSUME Inv, NEW r \in Ranks, BeginShard(r)
  PROVE  Inv'
<1>1. /\ Begun /\ pc[r] = "shard" /\ TypeOK /\ saving[r] \in Checkpoints
      /\ UNCHANGED <<job, launches, config, verdict, step, loaded, saving, exported>>
      /\ out' = out /\ out \in OutputDirs
  BY Typed DEF BeginShard, At, Begun, Inv, out
<1>2. /\ pc' \in [Ranks -> Labels] /\ \A q \in Ranks : pc'[q] = IF q = r THEN "writing" ELSE pc[q]
  BY <1>1, GotoEffect DEF BeginShard, Labels
<1>3. /\ disk' \in [OutputDirs -> [Files -> Contents]]
      /\ \A d \in OutputDirs, g \in Files :
           disk'[d][g] = IF d = out /\ g = Shard(saving[r], r) THEN Partial ELSE disk[d][g]
      /\ \A d \in OutputDirs, n \in Checkpoints : disk'[d][Manifest(n)] = disk[d][Manifest(n)]
      /\ \A d \in OutputDirs : disk'[d][Logs] = disk[d][Logs]
      /\ \A n \in Checkpoints, q \in Ranks :
           disk'[out][Shard(n, q)] = IF n = saving[r] /\ q = r THEN Partial ELSE disk[out][Shard(n, q)]
  BY <1>1, ShardWritten, Wholeness DEF BeginShard
<1>4. TypeOK'
  BY <1>1, <1>2, <1>3 DEF TypeOK
<1>5. DiskInv' /\ LaunchInv'
  <2>1. \A d \in OutputDirs, f \in Shards : Whole(disk'[d][f]) => disk'[d][f] = disk[d][f]
    BY <1>3, Wholeness, Names
  <2> QED
    BY <1>1, <2>1, DiskKept
<1>6. PrepareInv'
  BY <1>1, <1>2, <1>3, PreparedKept DEF Prepared
<1>7. LoadInv'
  BY <1>1, <1>2, <1>3, LoadKept, Names DEF Early
<1>8. StepInv' /\ ManifestInv' /\ ExportInv'
  BY <1>1, <1>2, <1>3, ShardMoves DEF InSave
<1>9. DueInv'
  <2>1. DueInv /\ saving[r] \in Nat
    BY <1>1, Numbers DEF Inv
  <2>2. ASSUME NEW q \in Ranks, NEW n \in Checkpoints, pc'[q] # "failed", n >= NextShard(q)'
        PROVE  disk'[out][Shard(n, q)] = None
    BY <1>1, <1>2, <1>3, <2>1, <2>2, Numbers DEF DueInv, NextShard, Early
  <2>3. ASSUME NEW n \in Checkpoints, pc'[Primary] # "failed", n >= NextManifest'
        PROVE  disk'[out][Manifest(n)] = None
    BY <1>1, <1>2, <1>3, <2>1, <2>3, Names DEF DueInv, NextManifest, Early, InSave
  <2>4. ASSUME NEW q \in Ranks
        PROVE  /\ pc'[q] = "writing" => disk'[out][Shard(saving'[q], q)] = Partial
               /\ pc'[q] = "barrier" => disk'[out][Shard(saving'[q], q)] = <<launches', step'[q]>>
    <3>1. saving[q] \in Checkpoints
      BY <1>1, Typed
    <3> QED
      BY <1>1, <1>2, <1>3, <2>1, <3>1 DEF DueInv
  <2> QED
    BY <1>1, <2>2, <2>3, <2>4 DEF DueInv, Begun
<1> QED
  BY <1>4, <1>5, <1>6, <1>7, <1>8, <1>9 DEF Inv

LEMMA CompleteShardStep ==
  ASSUME Inv, NEW r \in Ranks, CompleteShard(r)
  PROVE  Inv'
<1> DEFINE c == <<launches, step[r]>>
<1>1. /\ Begun /\ pc[r] = "writing" /\ TypeOK /\ saving[r] \in Checkpoints
      /\ UNCHANGED <<job, launches, config, verdict, step, loaded, saving, exported>>
      /\ out' = out /\ out \in OutputDirs
  BY Typed DEF CompleteShard, At, Begun, Inv, out
<1>2. /\ pc' \in [Ranks -> Labels] /\ \A q \in Ranks : pc'[q] = IF q = r THEN "barrier" ELSE pc[q]
  BY <1>1, GotoEffect DEF CompleteShard, Labels
<1>3. c \in Contents /\ Whole(c) /\ c[1] = launches /\ c[2] = StepOf(saving[r])
  <2>1. launches \in 1..MaxLaunches /\ step[r] \in 0..MaxSteps
    BY <1>1, Numbers, Typed DEF Inv, TypeOK, LaunchInv, Begun
  <2>2. step[r] = StepOf(saving[r])
    BY <1>1 DEF Inv, StepInv, Underway, InSave
  <2> QED
    BY <2>1, <2>2, Wholeness
<1>4. Write(Shard(saving[r], r), c)
  BY DEF CompleteShard
<1> HIDE DEF c
<1>5. /\ disk' \in [OutputDirs -> [Files -> Contents]]
      /\ \A d \in OutputDirs, g \in Files :
           disk'[d][g] = IF d = out /\ g = Shard(saving[r], r) THEN c ELSE disk[d][g]
      /\ \A d \in OutputDirs, n \in Checkpoints : disk'[d][Manifest(n)] = disk[d][Manifest(n)]
      /\ \A d \in OutputDirs : disk'[d][Logs] = disk[d][Logs]
      /\ \A n \in Checkpoints, q \in Ranks :
           disk'[out][Shard(n, q)] = IF n = saving[r] /\ q = r THEN c ELSE disk[out][Shard(n, q)]
  BY <1>1, <1>3, <1>4, ShardWritten
<1>6. TypeOK'
  BY <1>1, <1>2, <1>5 DEF TypeOK
<1>7. DiskInv' /\ LaunchInv'
  <2>1. DiskInv /\ LaunchInv
    BY DEF Inv
  <2>2. ASSUME NEW d \in OutputDirs, NEW n \in Checkpoints, NEW q \in Ranks,
               Whole(disk'[d][Shard(n, q)])
        PROVE  disk'[d][Shard(n, q)][2] = StepOf(n)
    <3>1. CASE d = out /\ n = saving[r] /\ q = r
      BY <1>1, <1>3, <1>5, <3>1
    <3>2. CASE ~(d = out /\ n = saving[r] /\ q = r)
      <4>1. Shard(n, q) \in Files /\ (d = out => Shard(n, q) # Shard(saving[r], r))
        BY <1>1, <3>2, Names
      <4>2. disk'[d][Shard(n, q)] = disk[d][Shard(n, q)]
        BY <1>5, <4>1
      <4> QED
        BY <2>1, <2>2, <4>2 DEF DiskInv
    <3> QED
      BY <3>1, <3>2
  <2>3. \A f \in Shards : Whole(disk'[out][f]) => disk'[out][f][1] = launches
    <3>1. \A f \in Shards : f \in Files
      BY Names
    <3>2. \A f \in Shards : disk'[out][f] = c \/ disk'[out][f] = disk[out][f]
      BY <1>1, <1>5, <3>1
    <3> QED
      BY <1>1, <1>3, <2>1, <3>2 DEF DiskInv
  <2>4. ASSUME NEW d \in OutputDirs, NEW f \in Shards, NEW g \in Shards,
               Whole(disk'[d][f]), Whole(disk'[d][g])
        PROVE  disk'[d][f][1] = disk'[d][g][1]
    <3>1. CASE d = out
      BY <2>3, <2>4, <3>1
    <3>2. CASE d # out
      <4>1. disk'[d][f] = disk[d][f] /\ disk'[d][g] = disk[d][g]
        BY <1>5, <3>2, Names
      <4> QED
        BY <2>1, <2>4, <4>1 DEF DiskInv
    <3> QED
      BY <3>1, <3>2
  <2> QED
    BY <1>1, <2>1, <2>2, <2>3, <2>4 DEF DiskInv, LaunchInv, Begun
<1>8. PrepareInv'
  BY <1>1, <1>2, <1>5, PreparedKept DEF Prepared
<1>9. LoadInv'
  BY <1>1, <1>2, <1>5, LoadKept, Names DEF Early
<1>10. StepInv' /\ ManifestInv' /\ ExportInv'
  BY <1>1, <1>2, <1>5, ShardMoves DEF InSave
<1>11. DueInv'
  <2>1. DueInv /\ saving[r] \in Nat
    BY <1>1, Numbers DEF Inv
  <2>2. ASSUME NEW q \in Ranks, NEW n \in Checkpoints, pc'[q] # "failed", n >= NextShard(q)'
        PROVE  disk'[out][Shard(n, q)] = None
    BY <1>1, <1>2, <1>5, <2>1, <2>2, Numbers DEF DueInv, NextShard, Early
  <2>3. ASSUME NEW n \in Checkpoints, pc'[Primary] # "failed", n >= NextManifest'
        PROVE  disk'[out][Manifest(n)] = None
    BY <1>1, <1>2, <1>5, <2>1, <2>3, Names DEF DueInv, NextManifest, Early, InSave
  <2>4. ASSUME NEW q \in Ranks
        PROVE  /\ pc'[q] = "writing" => disk'[out][Shard(saving'[q], q)] = Partial
               /\ pc'[q] = "barrier" => disk'[out][Shard(saving'[q], q)] = <<launches', step'[q]>>
    <3>1. saving[q] \in Checkpoints
      BY <1>1, Typed
    <3> QED
      BY <1>1, <1>2, <1>5, <2>1, <3>1 DEF DueInv, c
  <2> QED
    BY <1>1, <2>2, <2>3, <2>4 DEF DueInv, Begun
<1> QED
  BY <1>6, <1>7, <1>8, <1>9, <1>10, <1>11 DEF Inv
\* Rank 0 writes a manifest: no shard changes, and it goes on to export the final
\* checkpoint, to close, or to train.
LEMMA WriteManifestStep ==
  ASSUME Inv, WriteManifest
  PROVE  Inv'
<1> DEFINE n0 == saving[Primary]
           l == IF exports_final(Primary) THEN "export" ELSE after_save(Primary)
           c == <<launches, step[Primary]>>
<1>1. /\ Begun /\ pc[Primary] = "manifest" /\ TypeOK /\ n0 \in Checkpoints /\ Primary \in Ranks
      /\ UNCHANGED <<job, launches, config, verdict, step, loaded, saving, exported>>
      /\ out' = out /\ out \in OutputDirs /\ StartStep' = StartStep
  BY Typed, Names DEF WriteManifest, At, Begun, Inv, out, StartStep, StepOf
<1>2. /\ l \in {"export", "close", "train"}
      /\ l \in {"export", "close"} <=> n0 = Final
  BY DEF exports_final, after_save
<1>3. Goto(Primary, l) /\ Write(Manifest(n0), c)
  BY DEF WriteManifest
<1>4. c \in Contents
  <2>1. launches \in 1..MaxLaunches /\ step[Primary] \in 0..MaxSteps
    BY <1>1, Numbers, Typed DEF Inv, TypeOK, LaunchInv, Begun
  <2> QED
    BY <2>1, Wholeness
<1> HIDE DEF l, c
<1>5. /\ pc' \in [Ranks -> Labels] /\ \A q \in Ranks : pc'[q] = IF q = Primary THEN l ELSE pc[q]
  BY <1>1, <1>2, <1>3, GotoEffect DEF Labels
<1>6. /\ disk' \in [OutputDirs -> [Files -> Contents]]
      /\ \A d \in OutputDirs, f \in Files : f # Manifest(n0) => disk'[d][f] = disk[d][f]
  BY <1>1, <1>3, <1>4, WriteEffect, Names
<1>7. TypeOK'
  BY <1>1, <1>5, <1>6 DEF TypeOK
<1>8. DiskInv' /\ LaunchInv'
  <2>1. \A d \in OutputDirs, f \in Shards : disk'[d][f] = disk[d][f]
    BY <1>1, <1>6, Names
  <2> QED
    BY <1>1, <2>1, DiskKept
<1>9. PrepareInv'
  BY <1>1, <1>2, <1>5, <1>6, PreparedKept, Names DEF Prepared
<1>10. LoadInv'
  BY <1>1, <1>2, <1>5, <1>6, LoadKept, Names DEF Early
<1>11. ManifestInv
  BY DEF Inv
<1>12. StepInv'
  <2>1. StepInv
    BY DEF Inv
  <2>2. \A q \in Ranks : /\ pc'[q] \in Underway <=> pc[q] \in Underway
                         /\ pc'[q] \in Early <=> pc[q] \in Early
                         /\ pc'[q] \in InSave <=> pc[q] \in InSave
                         /\ pc'[q] \in Underway \ {"train"} => pc[q] \in Underway \ {"train"}
                         /\ pc'[q] \in {"export", "close"} => saving[q] = Final
    BY <1>1, <1>2, <1>5, <2>1 DEF Underway, InSave, Early, StepInv
  <2> HIDE DEF Underway, InSave, Early
  <2> QED
    BY <1>1, <2>1, <2>2 DEF StepInv, Begun
<1>13. DueInv'
  <2>1. DueInv /\ n0 \in Nat /\ (n0 # Final => step[Primary] = n0)
    <3>1. step[Primary] = StepOf(n0)
      BY <1>1 DEF Inv, StepInv, Underway
    <3>2. step[Primary] \in 0..MaxSteps
      BY <1>1, Typed
    <3> QED
      BY <1>1, <3>1, <3>2, Numbers DEF Inv, StepOf
  <2>2. ASSUME NEW q \in Ranks, NEW n \in Checkpoints, pc'[q] # "failed", n >= NextShard(q)'
        PROVE  disk'[out][Shard(n, q)] = None
    <3>1. n >= NextShard(q) /\ pc[q] # "failed"
      <4>1. CASE q # Primary
        BY <1>1, <1>5, <2>2, <4>1 DEF NextShard
      <4>2. CASE q = Primary
        BY <1>1, <1>2, <1>5, <2>1, <2>2, <4>2 DEF NextShard, Early
      <4> QED
        BY <4>1, <4>2
    <3> QED
      BY <1>1, <1>6, <2>1, <3>1, Names, SMTT(30) DEF DueInv
  <2>3. ASSUME NEW n \in Checkpoints, pc'[Primary] # "failed", n >= NextManifest'
        PROVE  disk'[out][Manifest(n)] = None
    <3>1. NextManifest' = n0 + 1 /\ NextManifest = n0
      BY <1>1, <1>2, <1>5, <2>1 DEF NextManifest, Early, InSave
    <3>2. n >= NextManifest /\ n # n0
      BY <2>1, <2>3, <3>1, Numbers
    <3> QED
      BY <1>1, <1>6, <2>1, <3>2, Names DEF DueInv
  <2>4. ASSUME NEW q \in Ranks
        PROVE  /\ pc'[q] = "writing" => disk'[out][Shard(saving'[q], q)] = Partial
               /\ pc'[q] = "barrier" => disk'[out][Shard(saving'[q], q)] = <<launches', step'[q]>>
    <3>1. saving[q] \in Checkpoints
      BY <1>1, Typed
    <3>2. disk'[out][Shard(saving[q], q)] = disk[out][Shard(saving[q], q)]
      BY <1>1, <1>6, <3>1, Names
    <3>3. pc'[q] \in {"writing", "barrier"} => pc'[q] = pc[q]
      BY <1>2, <1>5
    <3> QED
      BY <1>1, <2>1, <3>2, <3>3 DEF DueInv
  <2> QED
    BY <1>1, <2>2, <2>3, <2>4 DEF DueInv, Begun
<1>14. ManifestInv'
  <2>1. \A q \in Ranks : /\ disk'[out][Shard(n0, q)] = <<launches, step[Primary]>>
                         /\ q # Primary => pc'[q] = pc[q]
    BY <1>1, <1>5, <1>6, <1>11, Names DEF ManifestInv
  <2>2. \A q \in Ranks : pc'[q] \in {"manifest", "export"} => q = Primary
    BY <1>1, <1>11, <2>1 DEF ManifestInv
  <2>3. pc'[Primary] \in {"manifest", "export"} =>
          n0 = Final /\ \A q \in Ranks : q # Primary => pc[q] = "close"
    BY <1>1, <1>2, <1>5, <1>11 DEF ManifestInv
  <2> QED
    BY <1>1, <2>1, <2>2, <2>3 DEF ManifestInv
<1>15. ExportInv'
  BY <1>1 DEF Inv, ExportInv
<1> QED
  BY <1>7, <1>8, <1>9, <1>10, <1>12, <1>13, <1>14, <1>15 DEF Inv

\* What is exported is one save.
LEMMA ExportReads ==
  ASSUME Inv, Begun, pc[Primary] = "export"
  PROVE  /\ saving[Primary] = Final
         /\ \A r, q \in Ranks : /\ Whole(disk[out][Shard(Final, r)])
                                /\ disk[out][Shard(Final, r)] = disk[out][Shard(Final, q)]
<1>1. saving[Primary] = Final /\ Primary \in Ranks
  BY Names DEF Inv, StepInv
<1>2. \A r \in Ranks : disk[out][Shard(Final, r)] = <<launches, step[Primary]>>
  BY <1>1 DEF Inv, ManifestInv
<1>3. launches \in 1..MaxLaunches /\ step[Primary] \in 0..MaxSteps
  BY <1>1, Numbers, Typed DEF Inv, TypeOK, LaunchInv, Begun
<1>4. Whole(<<launches, step[Primary]>>)
  BY <1>3, Wholeness
<1> QED
  BY <1>1, <1>2, <1>4

LEMMA ExportStep ==
  ASSUME Inv, Export
  PROVE  Inv'
<1> DEFINE shards == [r \in Ranks |-> disk[out][Shard(Final, r)]]
<1>1. /\ Begun /\ pc[Primary] = "export" /\ TypeOK /\ Primary \in Ranks
      /\ UNCHANGED <<job, launches, config, verdict, step, loaded, saving>>
      /\ out' = out /\ out \in OutputDirs /\ StartStep' = StartStep
  BY Typed, Names DEF Export, At, Begun, Inv, out, StartStep, StepOf
<1>2. saving[Primary] = Final /\ \A r, q \in Ranks : Whole(shards[r]) /\ shards[r] = shards[q]
  BY <1>1, ExportReads
<1>3. shards \in [Ranks -> Contents]
  BY <1>1, Typed, Names, Numbers
<1>4. \/ /\ Write(Exported(Final), <<launches, step[Primary]>>)
         /\ exported' = exported \cup {shards} /\ Goto(Primary, "close")
      \/ UNCHANGED <<disk, exported>> /\ Goto(Primary, "failed")
  BY DEF Export
<1>5. PICK l \in {"close", "failed"} :
        pc' \in [Ranks -> Labels] /\ \A q \in Ranks : pc'[q] = IF q = Primary THEN l ELSE pc[q]
  <2>1. Goto(Primary, "close") \/ Goto(Primary, "failed")
    BY <1>4
  <2>2. CASE Goto(Primary, "close")
    BY <1>1, <2>2, GotoEffect DEF Labels
  <2>3. CASE Goto(Primary, "failed")
    BY <1>1, <2>3, GotoEffect DEF Labels
  <2> QED
    BY <2>1, <2>2, <2>3
<1>6. exported' \subseteq [Ranks -> Contents] /\ ExportInv'
  <2>1. exported' = exported \/ exported' = exported \cup {shards}
    BY <1>4
  <2> HIDE DEF shards
  <2> QED
    BY <1>1, <1>2, <1>3, <2>1 DEF TypeOK, Inv, ExportInv
<1>7. /\ disk' \in [OutputDirs -> [Files -> Contents]]
      /\ \A d \in OutputDirs, f \in Files : f # Exported(Final) => disk'[d][f] = disk[d][f]
  <2>1. <<launches, step[Primary]>> \in Contents
    <3>1. launches \in 1..MaxLaunches /\ step[Primary] \in 0..MaxSteps
      BY <1>1, Numbers, Typed DEF Inv, TypeOK, LaunchInv, Begun
    <3> QED
      BY <3>1, Wholeness
  <2>2. Exported(Final) \in Files
    BY Names, Numbers
  <2>3. CASE Write(Exported(Final), <<launches, step[Primary]>>)
    BY <1>1, <2>1, <2>2, <2>3, WriteEffect
  <2>4. CASE UNCHANGED disk
    BY <1>1, <2>4 DEF TypeOK
  <2> QED
    BY <1>4, <2>3, <2>4
<1>8. TypeOK'
  BY <1>1, <1>5, <1>6, <1>7 DEF TypeOK
<1>9. DiskInv' /\ LaunchInv'
  BY <1>1, <1>7, DiskKept, Names, Numbers
<1>10. PrepareInv'
  BY <1>1, <1>5, <1>7, PreparedKept, Names, Numbers DEF Prepared
<1>11. LoadInv'
  BY <1>1, <1>5, <1>7, LoadKept, Names, Numbers DEF Early
<1>12. StepInv'
  BY <1>1, <1>2, <1>5 DEF Inv, StepInv, Begun, Underway, InSave, Early
<1>13. DueInv'
  <2>1. DueInv
    BY DEF Inv
  <2>2. ASSUME NEW q \in Ranks, NEW n \in Checkpoints, pc'[q] # "failed", n >= NextShard(q)'
        PROVE  disk'[out][Shard(n, q)] = None
    <3>1. n >= NextShard(q) /\ pc[q] # "failed"
      BY <1>1, <1>5, <2>2 DEF NextShard, Early
    <3> QED
      BY <1>1, <1>7, <2>1, <3>1, Names, Numbers, SMTT(30) DEF DueInv
  <2>3. ASSUME NEW n \in Checkpoints, pc'[Primary] # "failed", n >= NextManifest'
        PROVE  disk'[out][Manifest(n)] = None
    <3>1. n >= NextManifest /\ pc[Primary] # "failed"
      BY <1>1, <1>5, <2>3 DEF NextManifest, Early, InSave
    <3> QED
      BY <1>1, <1>7, <2>1, <3>1, Names, Numbers DEF DueInv
  <2>4. ASSUME NEW q \in Ranks
        PROVE  /\ pc'[q] = "writing" => disk'[out][Shard(saving'[q], q)] = Partial
               /\ pc'[q] = "barrier" => disk'[out][Shard(saving'[q], q)] = <<launches', step'[q]>>
    <3>1. saving[q] \in Checkpoints
      BY <1>1, Typed
    <3>2. disk'[out][Shard(saving[q], q)] = disk[out][Shard(saving[q], q)]
      <4>1. Final \in Checkpoints
        BY Numbers
      <4>2. Shard(saving[q], q) \in Files /\ Shard(saving[q], q) # Exported(Final)
        BY <3>1, <4>1, Names
      <4> QED
        BY <1>1, <1>7, <4>2
    <3>3. pc'[q] \in {"writing", "barrier"} => pc'[q] = pc[q]
      BY <1>5
    <3> QED
      BY <1>1, <2>1, <3>2, <3>3 DEF DueInv
  <2> QED
    BY <1>1, <2>2, <2>3, <2>4 DEF DueInv, Begun
<1>14. ManifestInv'
  BY <1>1, <1>5, <1>7, Names DEF Inv, ManifestInv, Begun
<1> QED
  BY <1>6, <1>8, <1>9, <1>10, <1>11, <1>12, <1>13, <1>14 DEF Inv

-----------------------------------------------------------------------------
(* The invariant, and the properties that follow from it.                  *)

LEMMA InvNext ==
  ASSUME Inv, [Next]_vars
  PROVE  Inv'
<1>1. CASE Launch
  BY <1>1, LaunchStep
<1>2. CASE Kill \/ LauncherRefuses \/ Close \/ Reap
  BY <1>2, EndSteps
<1>3. CASE LauncherClears
  BY <1>3, LauncherClearsStep
<1>4. CASE StartWorkers
  BY <1>4, StartWorkersStep
<1>5. CASE Setup
  BY <1>5, SetupStep
<1>6. CASE TrainStep
  BY <1>6, TrainStepStep
<1>7. CASE Barrier
  BY <1>7, BarrierStep
<1>8. CASE WriteManifest
  BY <1>8, WriteManifestStep
<1>9. CASE Export
  BY <1>9, ExportStep
<1>10. CASE \E r \in Ranks : Worker(r)
  <2>1. PICK r \in Ranks : Worker(r)
    BY <1>10
  <2> QED
    BY <2>1, ConstructStep, PrepareStep, AwaitPreparedStep, BuildLoggerStep, ResumeStep,
       FinishStep, BeginShardStep, CompleteShardStep DEF Worker
<1>11. CASE UNCHANGED vars
  BY <1>11, StutterStep
<1> QED
  BY <1>1, <1>2, <1>3, <1>4, <1>5, <1>6, <1>7, <1>8, <1>9, <1>10, <1>11
  DEF Next, Progress, Launcher, Together

\* The invariant holds in every reachable state, whenever jobs are killed.
THEOREM Invariant == Spec => []Inv
BY InvInit, InvNext, PTL DEF Spec

\* Type correctness.
THEOREM Typing == Spec => []TypeOK
<1>1. Inv => TypeOK
  BY DEF Inv
<1> QED
  BY <1>1, Invariant, PTL

LEMMA OneSave ==
  ASSUME Inv
  PROVE  OneSavePerDirectory
<1> SUFFICES ASSUME NEW d \in OutputDirs, NEW n \in Checkpoints, NEW r \in Ranks, NEW q \in Ranks,
                    Whole(disk[d][Shard(n, r)]), Whole(disk[d][Shard(n, q)])
             PROVE  disk[d][Shard(n, r)] = disk[d][Shard(n, q)]
  BY DEF OneSavePerDirectory
<1> DEFINE a == disk[d][Shard(n, r)]
           b == disk[d][Shard(n, q)]
<1>1. a[1] = b[1] /\ a[2] = StepOf(n) /\ b[2] = StepOf(n)
  BY Names DEF Inv, DiskInv
<1>2. a \in Saves /\ b \in Saves
  BY DEF Whole
<1> HIDE DEF a, b
<1>3. a = b
  BY <1>1, <1>2 DEF Saves
<1> QED
  BY <1>3 DEF a, b

\* The complete shards of a checkpoint directory are of one save: no later launch adds to
\* what a killed one left, because it finds the directory empty or does not use it.
THEOREM Directories == Spec => []OneSavePerDirectory
<1>1. Inv => OneSavePerDirectory
  BY OneSave
<1> QED
  BY <1>1, Invariant, PTL

\* All ranks of a job that resumes resume from one save.
THEOREM Resuming == Spec => []ResumedAlike
<1>1. ASSUME Inv
      PROVE  ResumedAlike
  <2> SUFFICES ASSUME job = "workers", NEW r \in Ranks, NEW q \in Ranks,
                      loaded[r] # None, loaded[q] # None
               PROVE  loaded[r] = loaded[q]
    BY DEF ResumedAlike
  <2> DEFINE e == config.checkpoint[1]
             n == config.checkpoint[2]
  <2>1. /\ e \in OutputDirs /\ n \in Checkpoints
        /\ loaded[r] = disk[e][Shard(n, r)] /\ loaded[q] = disk[e][Shard(n, q)]
    BY <1>1, Typed DEF Inv, LoadInv, Begun
  <2>2. Whole(loaded[r]) /\ Whole(loaded[q])
    BY <1>1 DEF Inv, TypeOK, Whole
  <2> QED
    BY <2>1, <2>2, <1>1, OneSave DEF OneSavePerDirectory
<1> QED
  BY <1>1, Invariant, PTL

\* A step that gives a manifest a new content is rank 0's.
LEMMA ManifestWriter ==
  ASSUME Inv, [Next]_vars, NEW d \in OutputDirs, NEW n \in Checkpoints,
         disk'[d][Manifest(n)] \notin {None, disk[d][Manifest(n)]}
  PROVE  WriteManifest /\ d = out /\ n = saving[Primary]
<1>1. TypeOK /\ out \in OutputDirs /\ Manifest(n) \in Files /\ Primary \in Ranks
      /\ saving[Primary] \in Checkpoints
  BY Typed, Names DEF Inv
<1>2. ASSUME RemoveFile(out) PROVE FALSE
  BY <1>1, <1>2, RemoveEffect
<1>3. ASSUME UNCHANGED disk PROVE FALSE
  BY <1>3
<1>4. ASSUME Begun, Write(Logs, LogContent) PROVE FALSE
  BY <1>1, <1>4, LogsWritten, Names
<1>5. ASSUME NEW r \in Ranks, Worker(r) PROVE FALSE
  <2>1. ASSUME NEW c \in Contents, Begun, Write(Shard(saving[r], r), c) PROVE FALSE
    BY <2>1, ShardWritten
  <2>2. Partial \in Contents /\ (Begun => <<launches, step[r]>> \in Contents)
    <3>1. step[r] \in 0..MaxSteps /\ (Begun => launches \in 1..MaxLaunches)
      BY <1>1, Typed, Numbers DEF Inv, TypeOK, LaunchInv, Begun
    <3> QED
      BY <3>1, Wholeness
  <2>3. ~(BeginShard(r) \/ CompleteShard(r))
    BY <2>1, <2>2 DEF BeginShard, CompleteShard, At, Begun
  <2> QED
    BY <1>2, <1>3, <1>4, <1>5, <2>3
    DEF Worker, Construct, Prepare, AwaitPrepared, BuildLogger, Resume, Finish, At, Begun
<1>6. ~Export
  <2>1. ASSUME Write(Exported(Final), <<launches, step[Primary]>>), Begun PROVE FALSE
    <3>1. <<launches, step[Primary]>> \in Contents
      <4>1. step[Primary] \in 0..MaxSteps /\ launches \in 1..MaxLaunches
        BY <1>1, <2>1, Typed, Numbers DEF Inv, TypeOK, LaunchInv, Begun
      <4> QED
        BY <4>1, Wholeness
    <3>2. Exported(Final) \in Files /\ Exported(Final) # Manifest(n)
      BY Names, Numbers
    <3> QED
      BY <1>1, <2>1, <3>1, <3>2, WriteEffect
  <2> QED
    BY <1>3, <2>1 DEF Export, At, Begun
<1>7. WriteManifest
  <2>1. ~(Launch \/ Kill \/ Setup \/ TrainStep \/ Barrier \/ Close \/ Reap)
    BY <1>3 DEF Launch, Kill, Setup, TrainStep, Barrier, Close, Reap
  <2>2. ~Launcher
    BY <1>2, <1>3 DEF Launcher, LauncherClears, LauncherRefuses, StartWorkers
  <2> QED
    BY <1>3, <1>5, <1>6, <2>1, <2>2 DEF Next, Progress, Together, vars
<1>8. d = out /\ Manifest(n) = Manifest(saving[Primary])
  <2>1. <<launches, step[Primary]>> \in Contents
    <3>1. step[Primary] \in 0..MaxSteps /\ launches \in 1..MaxLaunches
      BY <1>1, <1>7, Typed, Numbers DEF WriteManifest, At, Inv, TypeOK, LaunchInv
    <3> QED
      BY <3>1, Wholeness
  <2>2. Write(Manifest(saving[Primary]), <<launches, step[Primary]>>)
    BY <1>7 DEF WriteManifest
  <2> QED
    BY <1>1, <2>1, <2>2, WriteEffect, Names
<1> QED
  BY <1>1, <1>7, <1>8, Names

\* A manifest is written over the complete shards of its own save, and an export reads
\* a complete final checkpoint.
THEOREM Exporting == Spec => ExportWhole
<1>1. ASSUME Inv
      PROVE  \A e \in exported : \A r, q \in Ranks : Whole(e[r]) /\ e[r] = e[q]
  BY <1>1 DEF Inv, ExportInv
<1>2. ASSUME Inv, [Next]_vars
      PROVE  [\A d \in OutputDirs, n \in Checkpoints :
                disk[d][Manifest(n)]' \notin {None, disk[d][Manifest(n)]}
                  => \A r \in Ranks : disk[d][Shard(n, r)] = disk[d][Manifest(n)]']_vars
  <2>1. ASSUME NEW d \in OutputDirs, NEW n \in Checkpoints,
               disk'[d][Manifest(n)] \notin {None, disk[d][Manifest(n)]}, NEW r \in Ranks
        PROVE  disk[d][Shard(n, r)] = disk'[d][Manifest(n)]
    <3> DEFINE c == <<launches, step[Primary]>>
    <3>1. WriteManifest /\ d = out /\ n = saving[Primary]
      BY <1>2, <2>1, ManifestWriter
    <3>2. disk[d][Shard(n, r)] = c
      BY <1>2, <3>1 DEF WriteManifest, At, Inv, ManifestInv, Begun
    <3>3. c \in Contents
      <4>1. step[Primary] \in 0..MaxSteps /\ launches \in 1..MaxLaunches
        BY <1>2, <3>1, Typed, Numbers, Names DEF WriteManifest, At, Inv, TypeOK, LaunchInv
      <4> QED
        BY <4>1, Wholeness
    <3>4. Write(Manifest(n), c) /\ Manifest(n) \in Files /\ TypeOK
      BY <1>2, <3>1, Names DEF WriteManifest, Inv
    <3> QED
      BY <3>1, <3>2, <3>3, <3>4, WriteEffect
  <2> QED
    BY <2>1
<1> QED
  BY <1>1, <1>2, Invariant, PTL DEF Spec, ExportWhole

\* What a step does to a whole file of a checkpoint: nothing, unless it removes files of
\* the output directory, which the configuration must allow.
LEMMA WholeKept ==
  ASSUME Inv, [Next]_vars, NEW d \in OutputDirs, NEW f \in Shards \cup Markers,
         Whole(disk[d][f])
  PROVE  \/ disk'[d][f] = disk[d][f]
         \/ d = out /\ config.overwrite
<1> SUFFICES ASSUME disk'[d][f] # disk[d][f]
             PROVE  d = out /\ config.overwrite
  OBVIOUS
<1>1. TypeOK /\ out \in OutputDirs /\ f \in Files /\ f # Logs /\ Primary \in Ranks
  BY Typed, Names DEF Inv
<1>2. RemoveFile(out) => d = out
  BY <1>1, RemoveEffect
<1>3. ~UNCHANGED disk
  OBVIOUS
<1>4. ASSUME Begun PROVE ~Write(Logs, LogContent)
  BY <1>1, <1>4, LogsWritten
<1>5. \A r \in Ranks : /\ saving[r] \in Checkpoints /\ Shard(saving[r], r) \in Files
                       /\ saving[r] >= saving[r]
                       /\ Begun => <<launches, step[r]>> \in Contents
  <2>1. ASSUME NEW r \in Ranks
        PROVE  saving[r] \in Checkpoints /\ step[r] \in 0..MaxSteps
               /\ (Begun => launches \in 1..MaxLaunches)
    BY <1>1, Typed, Numbers DEF Inv, TypeOK, LaunchInv, Begun
  <2>2. \A n \in Checkpoints : n >= n
    BY CheckpointAssumption DEF Checkpoints, Final
  <2> QED
    BY <2>1, <2>2, Names, Wholeness
<1>6. ASSUME NEW g \in Files, NEW c \in Contents, Write(g, c)
      PROVE  Whole(disk[out][g])
  BY <1>1, <1>6, WriteEffect
<1>7. ASSUME NEW r \in Ranks, Worker(r)
      PROVE  d = out /\ config.overwrite
  <2>1. ASSUME BeginShard(r) PROVE FALSE
    <3>1. /\ Begun /\ pc[r] = "shard" /\ Write(Shard(saving[r], r), Partial)
          /\ NextShard(r) = saving[r]
      BY <2>1 DEF BeginShard, At, Begun, NextShard, Early
    <3>2. saving[r] >= NextShard(r)
      BY <1>5, <3>1
    <3>3. disk[out][Shard(saving[r], r)] = None
      BY <1>5, <3>1, <3>2 DEF Inv, DueInv
    <3> QED
      BY <1>5, <1>6, <3>1, <3>3, Wholeness
  <2>2. ASSUME CompleteShard(r) PROVE FALSE
    <3>1. /\ Begun /\ pc[r] = "writing" /\ Write(Shard(saving[r], r), <<launches, step[r]>>)
      BY <2>2 DEF CompleteShard, At, Begun
    <3>2. disk[out][Shard(saving[r], r)] = Partial
      BY <3>1 DEF Inv, DueInv
    <3> QED
      BY <1>5, <1>6, <3>1, <3>2, Wholeness
  <2>3. ~(Construct(r) \/ AwaitPrepared(r) \/ BuildLogger(r) \/ Resume(r) \/ Finish(r))
    BY <1>3, <1>4 DEF Construct, AwaitPrepared, BuildLogger, Resume, Finish, At, Begun
  <2>4. ASSUME Prepare(r) PROVE d = out /\ config.overwrite
    BY <1>2, <1>3, <2>4 DEF Prepare, clears, overwrite_once
  <2> QED
    BY <1>7, <2>1, <2>2, <2>3, <2>4 DEF Worker
<1>8. ASSUME WriteManifest PROVE FALSE
  <2>1. /\ Begun /\ pc[Primary] = "manifest" /\ NextManifest = saving[Primary]
        /\ Write(Manifest(saving[Primary]), <<launches, step[Primary]>>)
    BY <1>8 DEF WriteManifest, At, Begun, NextManifest, Early, InSave
  <2>2. saving[Primary] >= NextManifest
    BY <1>1, <1>5, <2>1
  <2>3. disk[out][Manifest(saving[Primary])] = None
    BY <1>1, <1>5, <2>1, <2>2 DEF Inv, DueInv
  <2> QED
    BY <1>1, <1>5, <1>6, <2>1, <2>3, Wholeness, Names
<1>9. ASSUME Export PROVE FALSE
  <2>1. /\ Begun /\ disk[out][Exported(Final)] = None
        /\ Write(Exported(Final), <<launches, step[Primary]>>)
    BY <1>3, <1>9 DEF Export, At, Begun
  <2>2. Exported(Final) \in Files
    BY Names, Numbers
  <2> QED
    BY <1>1, <1>5, <1>6, <2>1, <2>2, Wholeness
<1>10. ASSUME Launcher PROVE d = out /\ config.overwrite
  BY <1>2, <1>3, <1>10 DEF Launcher, LauncherClears, LauncherRefuses, StartWorkers, clears
<1>11. ~(Launch \/ Kill \/ Together \/ Reap)
  BY <1>3 DEF Launch, Kill, Together, Setup, TrainStep, Barrier, Close, Reap
<1> QED
  BY <1>3, <1>7, <1>8, <1>9, <1>10, <1>11 DEF Next, Progress, vars

\* No launch removes or overwrites a file of a checkpoint that its configuration does not
\* give up, and a running job keeps its log directory.
THEOREM Keeping == Spec => NothingLostUnasked
<1>1. ASSUME Inv
      PROVE  \A r \in Ranks : job = "workers" /\ pc[r] \in Prepared => disk[out][Logs] # None
  BY <1>1 DEF Inv, PrepareInv, Begun
<1>2. ASSUME Inv, [Next]_vars
      PROVE  [\A d \in OutputDirs, f \in Shards \cup Markers :
                Whole(disk[d][f]) /\ (d # out \/ ~config.overwrite)
                  => disk'[d][f] = disk[d][f]]_vars
  BY <1>2, WholeKept
<1> QED
  BY <1>1, <1>2, Invariant, PTL DEF Spec, NothingLostUnasked
====
