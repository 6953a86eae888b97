---- MODULE CheckpointFiles ----
(***************************************************************************)
(* What successive launches of a native trainer do to their output         *)
(* directories: graspo launch checks and clears the directory              *)
(* (cli/app.py), the workers prepare it once more (trainer/helpers.py,     *)
(* flow/lora/lora_io.py), read their shards of the checkpoint to resume    *)
(* from, and write checkpoints shard by shard, with a manifest last        *)
(* (adapters/transformer_adapter.py); rank 0 of an RL trainer exports the  *)
(* final one.                                                              *)
(*                                                                         *)
(* A job can be killed between any two file operations.  A file is absent, *)
(* partly written, or holds what one save put into it.  What happens       *)
(* between two saves is in RLTrainer, DPTrainer and SFTTrainer.            *)
(***************************************************************************)
EXTENDS Integers, FiniteSets

CONSTANTS
  world_size,   \* number of ranks
  Trainers,     \* the trainers launched: a subset of {"rl", "sft"}
  OutputDirs,   \* the values of training.output_dir
  Overwrites,   \* the values of training.overwrite_output_dir
  FinalFormats, \* export.final_formats is not empty
  MaxSteps,     \* optimizer steps of a run; every step is saved
  MaxLaunches,  \* bound: launches
  None,         \* no file, no checkpoint
  Partial       \* a file that is not completely written

ASSUME CheckpointAssumption ==
  /\ world_size \in Nat \ {0}
  /\ Trainers \subseteq {"rl", "sft"}
  /\ Overwrites \subseteq BOOLEAN
  /\ FinalFormats \in BOOLEAN
  /\ MaxSteps \in Nat
  /\ MaxLaunches \in Nat
  /\ None # Partial /\ {None, Partial} \cap (Nat \X Nat) = {}

Ranks   == 0..(world_size - 1)
Primary == 0

\* Checkpoint directories: step_<n>, with n = 1 .. MaxSteps, and final.
Final       == MaxSteps + 1
Checkpoints == 1..Final

\* The files of an output directory: each checkpoint's shards, manifest and
\* export, and the tree of log files.
Shards  == {"shard"} \X Checkpoints \X Ranks
Markers == {"manifest", "export"} \X Checkpoints \X {Primary}
Logs    == <<"logs", 0, Primary>>
Files   == Shards \cup Markers \cup {Logs}

Shard(n, r) == <<"shard", n, r>>
Manifest(n) == <<"manifest", n, Primary>>
Exported(n) == <<"export", n, Primary>>

\* A save is named by the launch and the optimizer step it was taken at.
Saves    == (1..MaxLaunches) \X (0..MaxSteps)
Contents == Saves \cup {None, Partial}

VARIABLES
  disk,     \* disk[d][f]: the content of file f in output directory d
  job,      \* "down", "launcher" (graspo launch) or "workers"
  launches, \* the number of launches so far
  config,   \* the configuration of the launch
  pc,       \* pc[r]: where rank r is
  verdict,  \* what rank 0 broadcasts about the output directory
  step,     \* step[r]: global_step
  loaded,   \* loaded[r]: the save rank r resumed from
  saving,   \* saving[r]: the checkpoint directory of its latest save
  exported  \* history: what exports read, as functions of the rank

vars == <<disk, job, launches, config, pc, verdict, step, loaded, saving, exported>>

Labels == {"construct", "setup", "prepare", "logger", "resume", "train",
           "shard", "writing", "barrier", "manifest", "export", "close",
           "done", "failed"}

\* checkpoint: resume_from_checkpoint.
Configs ==
  [trainer : Trainers, out : OutputDirs, overwrite : Overwrites,
   checkpoint : (OutputDirs \X Checkpoints) \cup {None}]

out == config.out
Present(d) == {f \in Files : disk[d][f] # None}
Whole(c) == c \in Saves

\* Rank r has passed the preparation of the output directory.
Prepared == {"resume", "train", "shard", "writing", "barrier", "manifest", "export",
             "close", "done"}

-----------------------------------------------------------------------------

Init ==
  /\ disk = [d \in OutputDirs |-> [f \in Files |-> None]]
  /\ job = "down"
  /\ launches = 0
  /\ config \in [trainer : Trainers, out : OutputDirs, overwrite : Overwrites,
                 checkpoint : {None}]
  /\ pc = [r \in Ranks |-> "done"]
  /\ verdict = "none"
  /\ step = [r \in Ranks |-> 0]
  /\ loaded = [r \in Ranks |-> None]
  /\ saving = [r \in Ranks |-> Final]
  /\ exported = {}

\* Somebody starts the program.  Only a checkpoint directory that exists is
\* named as the one to resume from.
Launch ==
  /\ job = "down"
  /\ launches < MaxLaunches
  /\ \E t \in Trainers, d \in OutputDirs, o \in Overwrites,
        c \in {x \in OutputDirs \X Checkpoints :
                 \E f \in Present(x[1]) : f[2] = x[2]} \cup {None} :
       config' = [trainer |-> t, out |-> d, overwrite |-> o, checkpoint |-> c]
  /\ job' = "launcher"
  /\ launches' = launches + 1
  /\ pc' = [r \in Ranks |-> "construct"]
  /\ verdict' = "none"
  /\ step' = [r \in Ranks |-> 0]
  /\ loaded' = [r \in Ranks |-> None]
  /\ saving' = [r \in Ranks |-> Final]
  /\ UNCHANGED <<disk, exported>>

\* Variant: a directory that is not empty is used as it is.
refuses_never(d, overwrite) == FALSE

\* prepare_output_dir raises FileExistsError.
refuses(d, overwrite) == Present(d) # {} /\ ~overwrite

\* Variant: without asking.
clears_unasked(d, overwrite) == Present(d) # {}

\* prepare_output_dir goes on to shutil.rmtree.
clears(d, overwrite) == Present(d) # {} /\ overwrite

\* rmtree deletes one file after the other, in the order of the file system.
RemoveFile(d) == \E f \in Present(d) : disk' = [disk EXCEPT ![d][f] = None]

\* _validate_launch_paths, in the launcher: the configured overwrite, resume or not.
LauncherClears ==
  /\ job = "launcher"
  /\ clears(out, config.overwrite)
  /\ RemoveFile(out)
  /\ UNCHANGED <<job, launches, config, pc, verdict, step, loaded, saving, exported>>

LauncherRefuses ==
  /\ job = "launcher"
  /\ refuses(out, config.overwrite)
  /\ job' = "down"
  /\ UNCHANGED <<disk, launches, config, pc, verdict, step, loaded, saving, exported>>

StartWorkers ==
  /\ job = "launcher"
  /\ ~refuses(out, config.overwrite) /\ ~clears(out, config.overwrite)
  /\ job' = "workers"
  /\ UNCHANGED <<disk, launches, config, pc, verdict, step, loaded, saving, exported>>

-----------------------------------------------------------------------------
(* The workers *)

Goto(r, label) == pc' = [pc EXCEPT ![r] = label]
At(r, label) == job = "workers" /\ pc[r] = label
Write(f, c) == disk' = [disk EXCEPT ![out][f] = c]
LogContent == <<launches, 0>>  \* which launch made the directory

\* The constructor of the RL trainer builds a NativeRolloutLogger, which makes
\* {output_dir}/logs/<run_id>/.  The SFT trainer's does not.
Construct(r) ==
  /\ At(r, "construct")
  /\ Goto(r, "setup")
  /\ IF config.trainer = "rl" THEN Write(Logs, LogContent) ELSE UNCHANGED disk
  /\ UNCHANGED <<job, launches, config, verdict, step, loaded, saving, exported>>

\* runtime.setup(): init_process_group is a rendezvous of all ranks.
Setup ==
  /\ \A r \in Ranks : At(r, "setup")
  /\ pc' = [r \in Ranks |-> "prepare"]
  /\ UNCHANGED <<disk, job, launches, config, verdict, step, loaded, saving, exported>>

\* The overwrite argument of prepare_output_dir_once: an RL trainer that resumes
\* passes FALSE.
overwrite_once ==
  config.overwrite /\ ~(config.trainer = "rl" /\ config.checkpoint # None)

\* prepare_output_dir_once: only the primary rank touches the directory.
preparing_rank(r) == r = Primary

Prepare(r) ==
  /\ At(r, "prepare")
  /\ preparing_rank(r)
  /\ \/ /\ refuses(out, overwrite_once)
        /\ verdict' = "refused"
        /\ Goto(r, "failed")
        /\ UNCHANGED disk
     \/ /\ clears(out, overwrite_once)
        /\ RemoveFile(out)
        /\ UNCHANGED <<pc, verdict>>
     \/ /\ ~refuses(out, overwrite_once) /\ ~clears(out, overwrite_once)
        /\ verdict' = "ready"
        /\ Goto(r, "logger")
        /\ UNCHANGED disk
  /\ UNCHANGED <<job, launches, config, step, loaded, saving, exported>>

\* The other ranks wait for the broadcast of rank 0's status, and raise what it raised.
AwaitPrepared(r) ==
  /\ At(r, "prepare")
  /\ ~preparing_rank(r)
  /\ verdict # "none"
  /\ Goto(r, IF verdict = "refused" THEN "failed" ELSE "logger")
  /\ UNCHANGED <<disk, job, launches, config, verdict, step, loaded, saving, exported>>

\* The RL trainer builds its logger again, the SFT trainer makes logs/, and both
\* call setup_logging.
BuildLogger(r) ==
  /\ At(r, "logger")
  /\ Write(Logs, LogContent)
  /\ Goto(r, IF config.checkpoint = None THEN "train" ELSE "resume")
  /\ UNCHANGED <<job, launches, config, verdict, step, loaded, saving, exported>>

\* Variant: a rank without the shard it wants takes its newest one.
shard_of_newest(n, r) ==
  LET whole == {m \in Checkpoints : Whole(disk[config.checkpoint[1]][Shard(m, r)])}
  IN IF n \in whole \/ whole = {} THEN Shard(n, r)
     ELSE Shard(CHOOSE m \in whole : \A k \in whole : k <= m, r)

\* load_checkpoint: rank_<rank>_tp_<tp_rank>_pp_<pp_rank>.pt.
shard_of(n, r) == Shard(n, r)

\* _resume_if_requested: a missing shard is a FileNotFoundError, a partly written one
\* an error of torch.load.
Resume(r) ==
  /\ At(r, "resume")
  /\ LET c == disk[config.checkpoint[1]][shard_of(config.checkpoint[2], r)]
     IN IF Whole(c)
        THEN /\ loaded' = [loaded EXCEPT ![r] = c]
             /\ step' = [step EXCEPT ![r] = c[2]]
             /\ Goto(r, "train")
        ELSE /\ Goto(r, "failed")
             /\ UNCHANGED <<loaded, step>>
  /\ UNCHANGED <<disk, job, launches, config, verdict, saving, exported>>

steps_left(r) == step[r] < MaxSteps

\* An optimizer step, which no rank completes without the others, and the save that
\* follows it.
TrainStep ==
  /\ \A r \in Ranks : At(r, "train") /\ steps_left(r)
  /\ step' = [r \in Ranks |-> step[r] + 1]
  /\ saving' = [r \in Ranks |-> step'[r]]
  /\ pc' = [r \in Ranks |-> "shard"]
  /\ UNCHANGED <<disk, job, launches, config, verdict, loaded, exported>>

\* After the last step: the final checkpoint.
Finish(r) ==
  /\ At(r, "train")
  /\ ~steps_left(r)
  /\ saving' = [saving EXCEPT ![r] = Final]
  /\ Goto(r, "shard")
  /\ UNCHANGED <<disk, job, launches, config, verdict, step, loaded, exported>>

\* save_checkpoint: torch.save of the rank's own shard, begun and completed.
BeginShard(r) ==
  /\ At(r, "shard")
  /\ Write(Shard(saving[r], r), Partial)
  /\ Goto(r, "writing")
  /\ UNCHANGED <<job, launches, config, verdict, step, loaded, saving, exported>>

CompleteShard(r) ==
  /\ At(r, "writing")
  /\ Write(Shard(saving[r], r), <<launches, step[r]>>)
  /\ Goto(r, "barrier")
  /\ UNCHANGED <<job, launches, config, verdict, step, loaded, saving, exported>>

\* Variant: the loop goes on after the final checkpoint.
after_save_train(r) == "train"

after_save(r) == IF saving[r] = Final THEN "close" ELSE "train"

\* Variant: every rank is its own group.
barrier_group_self(r) == {r}

\* The group of the barrier in save_checkpoint: WORLD.
barrier_group(r) == Ranks

Barrier ==
  \E r \in Ranks :
    LET group == barrier_group(r) IN
      /\ \A q \in group : At(q, "barrier")
      /\ pc' = [q \in Ranks |-> IF q \notin group THEN pc[q]
                               ELSE IF q = Primary THEN "manifest" ELSE after_save(q)]
      /\ UNCHANGED <<disk, job, launches, config, verdict, step, loaded, saving, exported>>

exports_final(r) == config.trainer = "rl" /\ FinalFormats /\ saving[r] = Final

WriteManifest ==
  /\ At(Primary, "manifest")
  /\ Write(Manifest(saving[Primary]), <<launches, step[Primary]>>)
  /\ Goto(Primary, IF exports_final(Primary) THEN "export" ELSE after_save(Primary))
  /\ UNCHANGED <<job, launches, config, verdict, step, loaded, saving, exported>>

\* _export_final_checkpoint: load every shard in final/, and write final/<format>/,
\* which must not hold anything yet.
Export ==
  /\ At(Primary, "export")
  /\ LET shards == [r \in Ranks |-> disk[out][Shard(Final, r)]] IN
     IF disk[out][Exported(Final)] = None /\ \A r \in Ranks : shards[r] # Partial
     THEN /\ Write(Exported(Final), <<launches, step[Primary]>>)
          /\ exported' = exported \cup {shards}
          /\ Goto(Primary, "close")
     ELSE /\ Goto(Primary, "failed")
          /\ UNCHANGED <<disk, exported>>
  /\ UNCHANGED <<job, launches, config, verdict, step, loaded, saving>>

\* The barriers of the teardown, and the end of the job.
Close ==
  /\ \A r \in Ranks : At(r, "close")
  /\ pc' = [r \in Ranks |-> "done"]
  /\ job' = "down"
  /\ UNCHANGED <<disk, launches, config, verdict, step, loaded, saving, exported>>

\* torchrun stops the other workers when one has failed.
Reap ==
  /\ \E r \in Ranks : At(r, "failed")
  /\ job' = "down"
  /\ UNCHANGED <<disk, launches, config, pc, verdict, step, loaded, saving, exported>>

\* The machine goes down, or somebody stops the job.
Kill ==
  /\ job # "down"
  /\ job' = "down"
  /\ UNCHANGED <<disk, launches, config, pc, verdict, step, loaded, saving, exported>>

Worker(r) ==
  \/ Construct(r) \/ Prepare(r) \/ AwaitPrepared(r) \/ BuildLogger(r) \/ Resume(r)
  \/ Finish(r) \/ BeginShard(r) \/ CompleteShard(r)

Together == Setup \/ TrainStep \/ Barrier \/ Close

Launcher == LauncherClears \/ LauncherRefuses \/ StartWorkers

\* What goes on by itself.
Progress == Launcher \/ Together \/ WriteManifest \/ Export \/ Reap \/ \E r \in Ranks : Worker(r)

Next == Launch \/ Kill \/ Progress

Spec == Init /\ [][Next]_vars

\* A job that is up goes on; nobody has to launch or kill one.
FairSpec == Spec /\ WF_vars(Progress)

-----------------------------------------------------------------------------
(* Properties *)

TypeOK ==
  /\ disk \in [OutputDirs -> [Files -> Contents]]
  /\ job \in {"down", "launcher", "workers"}
  /\ launches \in 0..MaxLaunches
  /\ config \in Configs
  /\ pc \in [Ranks -> Labels]
  /\ verdict \in {"none", "refused", "ready"}
  /\ step \in [Ranks -> 0..MaxSteps]
  /\ loaded \in [Ranks -> Saves \cup {None}]
  /\ saving \in [Ranks -> Checkpoints]
  /\ exported \subseteq [Ranks -> Contents]

\* The complete shards of a checkpoint directory are of one save, whatever was killed
\* when: nothing that loads them can mix two training states.
OneSavePerDirectory ==
  \A d \in OutputDirs, n \in Checkpoints, r, q \in Ranks :
    Whole(disk[d][Shard(n, r)]) /\ Whole(disk[d][Shard(n, q)])
      => disk[d][Shard(n, r)] = disk[d][Shard(n, q)]

\* All ranks that have resumed have resumed from the same save, and are at its step.
ResumedAlike ==
  job = "workers" =>
    \A r, q \in Ranks : loaded[r] # None /\ loaded[q] # None => loaded[r] = loaded[q]

\* A manifest is only ever written over a complete set of shards of its own save
\* ("recoverable": every rank finds its shard), and the export reads a complete final
\* checkpoint: all shards, all of one save.
ExportWhole ==
  /\ [](\A e \in exported : \A r, q \in Ranks : Whole(e[r]) /\ e[r] = e[q])
  /\ [][\A d \in OutputDirs, n \in Checkpoints :
          disk[d][Manifest(n)]' \notin {None, disk[d][Manifest(n)]}
            => \A r \in Ranks : disk[d][Shard(n, r)] = disk[d][Manifest(n)]']_vars

\* Without overwrite_output_dir no launch removes or overwrites anything that an earlier
\* one has saved, in its own output directory or another; with it, only in its own; and a
\* running job keeps its log directory once a rank has built it: no other rank, and no
\* second preparation, removes it.
NothingLostUnasked ==
  /\ [](\A r \in Ranks : job = "workers" /\ pc[r] \in Prepared => disk[out][Logs] # None)
  /\ [][\A d \in OutputDirs, f \in Shards \cup Markers :
          Whole(disk[d][f]) /\ (d # out \/ ~config.overwrite)
            => disk'[d][f] = disk[d][f]]_vars

\* Every job ends, by itself or because a rank has failed.
EveryJobEnds == job # "down" ~> job = "down"
====
