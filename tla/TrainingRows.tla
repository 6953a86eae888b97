---- MODULE TrainingRows ----
(***************************************************************************)
(* Records of a training file, and what becomes of them: the sample the    *)
(* native trainers take (sample_from_record), the rows ms-swift takes      *)
(* (build_sft_rows and the like), and the ARD form of a record and back.   *)
(*                                                                         *)
(* A text is a sequence of atoms: words, the placeholders of media, calls  *)
(* rendered into it, and raw markup of a call.  A content is Nil (null), a text  *)
(* or a list of blocks; Absent stands for a field that is not there.       *)
(***************************************************************************)
EXTENDS Integers, Sequences, FiniteSets

LOCAL INSTANCE SequencesExt

CONSTANTS Nil, Absent, Refused,
  HistoryLimit \* what is kept of a tool's answer, in atoms (_HISTORY_TOOL_RESPONSE_LIMIT)

word_of(w) == [word |-> w]
RawCall == [markup |-> "<tool_call>"]
image_mark == [mark |-> "<image>"]
texts(t) == [text |-> t]
blocks_of(b) == [blocks |-> b]
is_text(content) == content \notin {Nil, Absent} /\ "text" \in DOMAIN content
is_blocks(content) == content \notin {Nil, Absent} /\ "blocks" \in DOMAIN content

textblock(t) == [type |-> "text", text |-> t, path |-> Nil]
\* An image whose path is in the block, or nested in an image_url.
imageblock(path) == [type |-> "image", text |-> <<>>, path |-> path]

concat(seqs) == FoldLeft(LAMBDA a, b : a \o b, <<>>, seqs)
map(Op(_), seq) == [i \in DOMAIN seq |-> Op(seq[i])]
keep(seq, n) == SubSeq(seq, 1, IF n < Len(seq) THEN n ELSE Len(seq))
first_of(test(_), seq) == CHOOSE i \in DOMAIN seq : test(seq[i]) /\ \A j \in 1..(i - 1) : ~test(seq[j])
holds(test(_), seq) == \E i \in DOMAIN seq : test(seq[i])

-----------------------------------------------------------------------------
\* From a record to a sample.

raw_markup(text) == \E i \in DOMAIN text : text[i] = RawCall

\* _require_canonical_tool_calls
canonical(calls) ==
  /\ calls # <<>>
  /\ \A i \in DOMAIN calls :
       /\ calls[i].id # Nil /\ calls[i].name # Nil
       /\ \A k \in DOMAIN calls[i].arguments : ~raw_markup(<<calls[i].arguments[k]>>)

texts_in(content) ==
  IF is_text(content) THEN content.text
  ELSE IF is_blocks(content) THEN concat(map(LAMBDA b : b.text, content.blocks)) ELSE <<>>

\* _validate_messages, _validate_assistant_tool_calls, _validate_tool_messages
valid_messages(messages) ==
  /\ messages # <<>> /\ Last(messages).role # "assistant"
  /\ \A i \in DOMAIN messages :
       LET m == messages[i] IN
       /\ m.content # Absent
       /\ m.role = "assistant" =>
            /\ ~raw_markup(texts_in(m.content))
            /\ m.tool_calls # Nil => m.content = Nil /\ canonical(m.tool_calls)
       /\ m.role = "tool" => m.tool_call_id # Nil /\ is_text(m.content)

\* normalize_targets: an output with content, calls or both, content being an object.
\* A content that is a string is the mark of an ARD record.
is_ard_record(record) ==
  record.targets # <<>> /\ record.targets[1].content # Absent
    /\ "answer" \in DOMAIN record.targets[1].content

normalize_target(target) ==
  IF \/ target.content # Absent /\ "answer" \in DOMAIN target.content
     \/ target.tool_calls = <<>>
     \/ target.content = Absent /\ target.tool_calls = Absent
  THEN Refused
  ELSE [target EXCEPT !.reasoning = IF @ = Absent THEN Nil ELSE @]

\* _validate_tool_call_targets: calls of declared tools with the arguments they require,
\* and of the values they allow.
fits_declaration(call, tools) ==
  /\ tools # <<>> => holds(LAMBDA t : t.name = call.name, tools)
  /\ holds(LAMBDA t : t.name = call.name, tools) =>
       LET tool == tools[first_of(LAMBDA t : t.name = call.name, tools)] IN
       /\ tool.required \subseteq DOMAIN call.arguments
       /\ \A k \in DOMAIN call.arguments \cap DOMAIN tool.allowed :
            call.arguments[k] \in tool.allowed[k]

\* _messages_media, _dedupe_media: every medium with a path, once.
media_in(messages) ==
  LET of_message(m) == IF is_blocks(m.content)
                       THEN SelectSeq(m.content.blocks, LAMBDA b : b.type = "image") ELSE <<>>
  IN FoldLeft(LAMBDA seen, p : IF Contains(seen, p) THEN seen ELSE Append(seen, p), <<>>,
              map(LAMBDA b : [b.path EXCEPT !.nested = FALSE], concat(map(of_message, messages))))

Removed == {"prompt", "image", "ground_truth"}

sample_from_record(record) ==
  LET targets == map(normalize_target, record.targets) IN
  IF \/ Removed \cap DOMAIN record.extra # {} \/ ~valid_messages(record.messages)
     \/ targets = <<>> \/ Contains(targets, Refused)
     \/ /\ record.tools # Nil
        /\ \E i \in DOMAIN targets :
             /\ targets[i].tool_calls # Absent
             /\ \E c \in DOMAIN targets[i].tool_calls :
                  ~fits_declaration(targets[i].tool_calls[c], record.tools)
  THEN Refused
  ELSE [messages |-> record.messages, targets |-> targets, tools |-> record.tools,
        metadata |-> record.extra, media |-> media_in(record.messages)]

\* The text the model is to write (build_sft_target_text): calls rather than content.
target_text(target) ==
  IF target.tool_calls # Absent THEN map(LAMBDA c : [call |-> c], target.tool_calls)
  ELSE <<[json |-> target.content]>>

-----------------------------------------------------------------------------
\* ARD records.

ArdFields == {"id", "source"}

\* validate_ard_messages: user first, but for a system message, and last; no role twice in
\* a row.
valid_ard_messages(messages) ==
  LET dialogue == SelectSeq(messages, LAMBDA m : m.role # "system") IN
  /\ dialogue # <<>> /\ dialogue[1].role = "user" /\ Last(messages).role = "user"
  /\ \A i \in DOMAIN messages :
       /\ messages[i].content = Absent => messages[i].role = "tool"
       /\ messages[i].role = "tool" => messages[i].tool_call_id # Nil
       /\ i > 1 => messages[i].role \notin {"system", messages[i - 1].role}

\* ard_target_to_graspo, ard_output_to_graspo: an answer becomes an object of one text.
ard_target_to_graspo(target) ==
  IF \/ target.content = Absent \/ target.tool_calls # Absent THEN Refused
  ELSE IF "answer" \notin DOMAIN target.content THEN Refused
  ELSE [target EXCEPT !.content = [object |-> target.content.answer]]

\* GraspoToMsSwiftAdapter.convert_sample: fields other than those of a sample go under
\* metadata.
convert_sample(record) ==
  LET targets == map(ard_target_to_graspo, record.targets) IN
  IF ~valid_ard_messages(record.messages) \/ targets = <<>> \/ Contains(targets, Refused)
  THEN Refused
  ELSE [messages |-> record.messages, targets |-> targets, tools |-> record.tools,
        extra |-> ("metadata" :> record.extra)]

\* graspo_target_to_ard
graspo_target_to_ard(target) ==
  IF target.content = Absent THEN Refused
  ELSE IF "object" \notin DOMAIN target.content THEN Refused
  ELSE [target EXCEPT !.content = [answer |-> target.content.object], !.tool_calls = Absent]

\* MsSwiftToGraspoAdapter.convert_sample, graspo_sample_to_ard: of the metadata the fields of
\* an ARD record come back to the top.
graspo_sample_to_ard(sample) ==
  LET targets == map(graspo_target_to_ard, sample.targets) IN
  IF sample.messages = <<>> \/ targets = <<>> \/ Contains(targets, Refused) THEN Refused
  ELSE [messages |-> sample.messages, targets |-> targets, tools |-> sample.tools,
        extra |-> [k \in ArdFields \cap DOMAIN sample.metadata |-> sample.metadata[k]]]

\* load_graspo_samples
load(record) ==
  IF ~is_ard_record(record) THEN sample_from_record(record)
  ELSE LET loaded(converted) == IF converted = Refused THEN Refused
                                ELSE sample_from_record(converted)
       IN loaded(convert_sample(record))

-----------------------------------------------------------------------------
\* Paths of media.

\* resolve_sample_media_paths: relative paths are taken from the directory of the data; one
\* nested in an image_url is not looked at.
resolved(path) ==
  IF path.nested \/ path.absolute THEN path ELSE [path EXCEPT !.absolute = TRUE]

resolve_blocks(blocks) ==
  map(LAMBDA b : IF b.type = "image" THEN [b EXCEPT !.path = resolved(@)] ELSE b, blocks)

resolve_media_paths(messages) ==
  map(LAMBDA m : IF is_blocks(m.content)
                 THEN [m EXCEPT !.content = blocks_of(resolve_blocks(@.blocks))] ELSE m,
      messages)

-----------------------------------------------------------------------------
\* Rows for ms-swift.

\* _block_text, _content_text
content_text(content) ==
  IF is_text(content) THEN content.text
  ELSE IF is_blocks(content)
  THEN concat(map(LAMBDA b : IF b.type = "image" THEN <<image_mark>> ELSE b.text, content.blocks))
  ELSE <<>>

rendered_calls(calls) == IF calls = Nil THEN <<>> ELSE map(LAMBDA c : [call |-> c], calls)

\* One message of the history as a line, nothing if it has no text (_render_history).
history_line(m) ==
  LET body == content_text(m.content) \o rendered_calls(m.tool_calls)
      line(kept) == IF m.role = "system" \/ kept = <<>> THEN <<>> ELSE <<[role |-> m.role]>> \o kept
  IN line(keep(body, IF m.role = "tool" THEN HistoryLimit ELSE Len(body)))

render_history(messages) == concat(map(history_line, messages))

\* _prepend_history_text: before the text, or before the first image among blocks.
prepend_history(content, history) ==
  IF history = <<>> THEN content
  ELSE IF is_text(content) THEN texts(history \o content.text)
  ELSE LET image(b) == b.type = "image"
           at_ == IF holds(image, content.blocks) THEN first_of(image, content.blocks)
                  ELSE Len(content.blocks) + 1
       IN blocks_of(InsertAt(content.blocks, at_, textblock(history)))

last_user(messages) == SelectLastInSeq(messages, LAMBDA m : m.role = "user")

\* One message of the user, after one of the system if that came first.
build_ms_swift_messages(messages) ==
  LET u == last_user(messages) IN
  IF u = 0 THEN Refused
  ELSE IF messages[u].content = Nil THEN Refused
  ELSE LET system == IF messages[1].role = "system" /\ messages[1].content # Nil
                     THEN <<[role |-> "system", content |-> texts(content_text(messages[1].content))]>>
                     ELSE <<>>
           history == render_history(SubSeq(messages, 1, u - 1))
       IN Append(system, [role |-> "user", content |-> prepend_history(messages[u].content, history)])

build_sft_row(messages, sample) ==
  IF messages = Refused THEN Refused
  ELSE [messages |-> Append(messages, [role |-> "assistant",
                                       content |-> texts(target_text(sample.targets[1]))])]

build_grpo_row(messages, sample) ==
  IF messages = Refused THEN Refused
  ELSE [messages |-> messages, targets |-> sample.targets, tools |-> sample.tools]

build_opd_row(messages) ==
  IF messages = Refused THEN Refused ELSE [messages |-> messages]

\* _flatten_blocks: everything as one list of blocks; build_cpt_rows puts the target behind.
flatten_blocks(messages) ==
  LET own(m) == IF is_text(m.content)
                THEN IF m.content.text = <<>> THEN <<>> ELSE <<textblock(m.content.text)>>
                ELSE IF is_blocks(m.content) THEN m.content.blocks ELSE <<>>
      calls(m) == IF m.tool_calls = Nil \/ history_line(m) = <<>> THEN <<>>
                  ELSE <<textblock(history_line(m))>>
  IN concat(map(LAMBDA m : own(m) \o calls(m), messages))

build_cpt_row(sample) ==
  LET blocks == Append(flatten_blocks(sample.messages), textblock(target_text(sample.targets[1])))
  IN [messages |-> <<[role |-> "assistant", content |-> blocks_of(blocks)]>>]

\* prepare_ms_swift_dataset, for one record and each stage.
prepare_row(record, stage) ==
  LET row(messages, sample) ==
        CASE stage = "sft" -> build_sft_row(messages, sample)
          [] stage = "rlhf" -> build_grpo_row(messages, sample)
          [] stage = "cpt" -> build_cpt_row(sample)
          [] stage = "opd" -> build_opd_row(messages)
      row_of(sample) == row(build_ms_swift_messages(sample.messages), sample)
      prepared(loaded) == IF loaded = Refused THEN Refused
                          ELSE row_of([loaded EXCEPT !.messages = resolve_media_paths(@)])
  IN prepared(load(record))
====
