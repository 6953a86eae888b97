---- MODULE MergedExport ----
(***************************************************************************)
(* How a checkpoint is told apart and merged into its base model so that   *)
(* an inference server can load it (eval/merged_export.py): pure operators *)
(* over what the files of a directory say.  Evaluation takes the steps.    *)
(*                                                                         *)
(* External, modelled from how the code uses them: the loader classes of   *)
(* transformers and the injection of an adapter by peft.                   *)
(***************************************************************************)
EXTENDS Naturals, FiniteSets

CONSTANT None

-----------------------------------------------------------------------------
\* What a directory holds.

\* A model: its base, the adapter merged into it and whether the vision tower is there.
Model(base, adapter, vision) == [base |-> base, adapter |-> adapter, vision |-> vision]

Absent == [config |-> FALSE, weights |-> None, tokenizer |-> FALSE]

BASE_MODEL == "base-model"
GRASPO_NATIVE == "graspo-native"
PEFT_ADAPTER == "peft-adapter"

\* classify_checkpoint, over the names of the files of a directory.
classify_checkpoint(files) ==
  IF "config" \in files /\ "weights" \in files THEN BASE_MODEL
  ELSE IF "adapter_config" \in files THEN PEFT_ADAPTER
  ELSE IF "safetensors" \in files /\ "config" \notin files THEN GRASPO_NATIVE
  ELSE None

\* A directory is written only if it is empty or may be cleared; None is a refusal.
prepare_output_directory(dir, overwrite) ==
  IF dir = Absent \/ overwrite THEN Absent ELSE None

-----------------------------------------------------------------------------
\* The loader.

BASE_MULTIMODAL_MARKERS == {"has_vision_config", "vision_config", "image_token_id",
                            "video_token_id", "ConditionalGeneration"}

is_multimodal_base_config(markers) == markers \intersect BASE_MULTIMODAL_MARKERS # {}

MULTIMODAL_AUTO_MODEL_CLASS_NAMES == <<"AutoModelForImageTextToText", "AutoModel">>
TEXT_AUTO_MODEL_CLASS_NAME == "AutoModelForCausalLM"

\* The first class of the kind that transformers has, None if it has none.
resolve_auto_model_class(installed, multimodal) ==
  LET names == MULTIMODAL_AUTO_MODEL_CLASS_NAMES
      hits == {i \in DOMAIN names : names[i] \in installed}
  IN IF ~multimodal
     THEN IF TEXT_AUTO_MODEL_CLASS_NAME \in installed THEN TEXT_AUTO_MODEL_CLASS_NAME ELSE None
     ELSE IF hits = {} THEN None ELSE names[CHOOSE i \in hits : \A j \in hits : i <= j]

\* What from_pretrained makes of a base: a text loader reads a multimodal one without its
\* vision tower and says nothing; AutoModel makes it without the sub-tree.
from_pretrained(class, multimodal) ==
  [vision |-> multimodal /\ class # TEXT_AUTO_MODEL_CLASS_NAME,
   language_model |-> multimodal /\ class = "AutoModelForImageTextToText"]

assert_loader_class_matches_base(object, multimodal) == object.language_model = multimodal

\* The modules the adapter is injected into: as recorded for a multimodal base, which
\* must be of that namespace, without the prefix for a text base; None is a refusal.
resolve_injection_targets(targets, multimodal) ==
  IF targets = "unrecorded" THEN "unrecorded"
  ELSE IF multimodal THEN IF targets = "model.language_model" THEN targets ELSE None
  ELSE "model"

\* peft injects where it finds the modules, and refuses to inject nowhere.
injected(targets, object) ==
  \/ targets = "unrecorded"
  \/ targets = (IF object.language_model THEN "model.language_model" ELSE "model")

\* Of the base an adapter was trained on and of the one given, the last parts of the paths
\* are compared: another base of that name in another directory passes for it.
assert_base_matches(recorded, name) == recorded # None /\ recorded = name
====
