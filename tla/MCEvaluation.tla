---- MODULE MCEvaluation ----
\* Values for TLC of the constants of Evaluation that a .cfg cannot state.
EXTENDS Evaluation

CONSTANTS b, a1, a2, click, type, left, right

Call(tool, action) == [tool |-> tool, action |-> action]
Response(tool, parsed, action) == [tool |-> tool, parsed |-> parsed, action |-> action]

\* A sample that asks for an action, and one whose call has none.
MCGround == <<Call(click, left), Call(type, None)>>

\* The base is wrong on both, the first checkpoint is right on both, as an adapter and as a
\* model, the second on one, by a call whose arguments are no object.
MCAnswer ==
  [m \in [base : {b, a1}, adapter : {None, a1, a2}, vision : BOOLEAN] |->
     IF a1 \in {m.base, m.adapter} THEN <<Response(click, TRUE, left), Response(type, TRUE, None)>>
     ELSE IF m.adapter = a2 THEN <<Response(click, FALSE, left), Response(type, FALSE, left)>>
     ELSE <<Response(click, TRUE, right), Response(None, TRUE, None)>>]

\* An installation whose adapters were trained on its base.
Tier(markers, vision, installed, targets) ==
  [base |-> b, base_name |-> "b", markers |-> markers, vision |-> vision, installed |-> installed,
   targets |-> targets,
   recorded |-> [a \in {a1, a2} |-> "b"],
   files |-> [a \in {a1, a2} |-> {"adapter_config", "safetensors"}]]

TextTier == Tier({}, FALSE, {"AutoModelForCausalLM"}, "model")

AllClasses == {"AutoModelForImageTextToText", "AutoModel", "AutoModelForCausalLM"}

MCTiers ==
  {Tier({"vision_config"}, TRUE, classes, "model.language_model") :
     classes \in {AllClasses, AllClasses \ {"AutoModelForImageTextToText"},
                  {"AutoModelForCausalLM"}}}
  \cup {Tier({"vision_config"}, TRUE, AllClasses, "model")}
  \cup {Tier({}, FALSE, AllClasses, t) : t \in {"model", "model.language_model"}}
  \cup {[TextTier EXCEPT !.recorded[a1] = "other"],
        [TextTier EXCEPT !.files[a1] = {"config", "weights"}]}

Config(role, checkpoint, dir, name, output, overlap) ==
  [role |-> role, checkpoint |-> checkpoint, merged_dir |-> dir, served_name |-> name,
   output_dir |-> output, overlap |-> overlap]

MCConfigs ==
  {Config("base", None, None, "n1", "before", None),
   Config("after", a1, "d1", "n2", "after", {1})}
====
