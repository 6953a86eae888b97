---- MODULE RowChecks ----
(***************************************************************************)
(* Cases and properties of the rows and batches made of training data.     *)
(***************************************************************************)
EXTENDS Cases, MediaBatches

LOCAL INSTANCE SequencesExt
LOCAL INSTANCE FiniteSetsExt

Message(role, content) ==
  [role |-> role, content |-> content, tool_calls |-> Nil, tool_call_id |-> Nil]
Call_f(id, argument) == [id |-> id, name |-> "f", arguments |-> ("x" :> argument)]
Relative(name) == [name |-> name, nested |-> FALSE, absolute |-> FALSE]

Said(w) == Message("user", texts(<<word_of(w)>>))
Shown == Message("user", blocks_of(<<textblock(<<word_of("look")>>), imageblock(Relative("i")),
                                     textblock(<<word_of("there")>>),
                                     imageblock([Relative("j") EXCEPT !.absolute = TRUE])>>))
Linked == Message("user", blocks_of(<<imageblock([Relative("i") EXCEPT !.nested = TRUE])>>))
Listed == Message("user", blocks_of(<<textblock(<<word_of("list")>>)>>))
Answered == Message("assistant", texts(<<word_of("yes")>>))
Called(id) == [Message("assistant", Nil) EXCEPT !.tool_calls = <<Call_f(id, word_of("v"))>>]
Marked == Message("assistant", texts(<<RawCall>>))
Returned == [Message("tool", texts(<<word_of("r1"), word_of("r2")>>)) EXCEPT !.tool_call_id = "c"]
Unanswered == [Message("tool", Absent) EXCEPT !.tool_call_id = "c"]
System == Message("system", texts(<<word_of("rules")>>))

Turns == {Said("a"), Said("b"), Shown, Linked, Listed, Answered, Called("c"), Called(Nil), Marked,
          Returned, Unanswered, System}
Dialogue == {Said("a"), Shown, Called("c"), Returned, Answered}

Object == [content |-> [object |-> "o"], tool_calls |-> Absent, reasoning |-> Absent]
Answering == [Object EXCEPT !.content = [answer |-> "o"]]
Calling(x) == [Object EXCEPT !.content = Absent, !.tool_calls = <<Call_f("c", word_of(x))>>]
Both == [Object EXCEPT !.tool_calls = <<Call_f("c", word_of("v"))>>]
TargetLists == {<<Object>>, <<Answering>>, <<Calling("v")>>, <<Calling("w")>>, <<Both>>,
                <<Answering, Object>>, <<[Object EXCEPT !.content = Absent]>>, <<>>}
Declared == <<[name |-> "f", required |-> {"x"}, allowed |-> ("x" :> {word_of("v")})]>>
ToolLists == {Nil, <<>>, Declared, <<[Declared[1] EXCEPT !.name = "g"]>>,
              <<[Declared[1] EXCEPT !.required = {"x", "y"}]>>}
Extras == {<<>>, [id |-> "1", note |-> "n"], [prompt |-> "p"]}

Record ==
  \/ \E n \in 1..2 : \E messages \in [1..n -> Turns], targets \in TargetLists, tools \in ToolLists,
        extra \in Extras :
       picks([of |-> "record", record |-> [messages |-> messages, targets |-> targets,
                                           tools |-> tools, extra |-> extra]])
  \/ \E n \in 3..5, targets \in {<<Object>>, <<Answering>>, <<Calling("v")>>} :
       \E messages \in [1..n -> IF n = 3 THEN Turns ELSE Dialogue] :
         /\ n = 5 => messages[1].role = "user"
         /\ picks([of |-> "record", record |-> [messages |-> messages, targets |-> targets,
                                             tools |-> Declared, extra |-> [id |-> "1", note |-> "n"]]])

Image(name, patches) == [name |-> name, patches |-> patches]
ImageLists == {<<Image("i", 2)>>, <<Image("j", 3)>>, <<Image("i", 2), Image("k", 1)>>,
               <<Image("i", 2), Image("i", 2)>>}

Rollout ==
  \E n \in 1..3, G \in 1..3, micro_batch \in 1..3 : \E samples \in [1..n -> ImageLists] :
    picks([of |-> "media", samples |-> samples, G |-> G, micro_batch |-> micro_batch])

Experiences ==
  \E n \in 1..3 : \E chosen \in [1..n -> ImageLists \cup {<<>>}], row \in 1..2 :
    picks([of |-> "experiences", chosen |-> chosen, row |-> row])

Prompts == {<<>>, <<"text">>, <<"text", "text", "text">>, <<"image", "text">>,
            <<"text", "image", "image">>}

SupervisedBatch ==
  \E n \in 1..2, max_seq_length \in 1..5 :
    \E prompts \in [1..n -> Prompts], answers \in [1..n -> 1..2], merges \in BOOLEAN :
      picks([of |-> "sft_batch", max_seq_length |-> max_seq_length,
             items |-> [i \in 1..n |-> [prompt |-> [k \in DOMAIN prompts[i] |-> <<prompts[i][k], k>>],
                                       answer |-> answers[i], merges |-> merges]]])

-----------------------------------------------------------------------------
\* What a message says: words and calls, and a placeholder for each image.
says(m) == content_text(m.content) \o rendered_calls(m.tool_calls)
says_in(messages) ==
  concat(map(LAMBDA m : IF m.role = "tool" THEN keep(says(m), HistoryLimit) ELSE says(m),
                 messages))
without_roles(text) == SelectSeq(text, LAMBDA a : "role" \notin DOMAIN a)
images_of(content) == IF is_blocks(content)
                      THEN SelectSeq(content.blocks, LAMBDA b : b.type = "image") ELSE <<>>

\* Messages the prompt of ms-swift leaves out without a word, though the comment at
\* dataset.py:54-57 says that history is rendered and not dropped: what stands behind the last
\* turn of the user (the answer of a tool it asked for, say), and whatever a system says later
\* than in the first message.
left_out(messages) ==
  {i \in DOMAIN messages :
     i > last_user(messages) \/ (i > 1 /\ messages[i].role = "system")}

\* The prompt of ms-swift says all that the sample says in its other messages, each of them
\* whole and in its place except that a tool's answer is cut, and nothing of those left out:
\* first the system, then the history, which stands before all of the last turn or before its
\* first image.  The images of that turn keep their order; of earlier ones a mark is left.
PromptOf(messages, row) ==
  LET u == last_user(messages)
      user == Last(row)
      own == says(messages[u])
      said(i) == i < u /\ i \notin left_out(messages) /\ messages[i].role # "system"
      kept == SelectSeq([i \in DOMAIN messages |-> i], said)
      history == says_in(map(LAMBDA i : messages[i], kept))
      text == without_roles(content_text(user.content)) IN
  /\ messages[1].role = "system" => row[1].role = "system" /\ content_text(row[1].content) = says(messages[1])
  /\ \E k \in 0..Len(own) :
       /\ text = SubSeq(own, 1, k) \o history \o SubSeq(own, k + 1, Len(own))
       /\ \A i \in 1..k : own[i] # image_mark
  /\ Len(images_of(user.content)) = Len(images_of(messages[u].content))
  /\ \A i \in DOMAIN images_of(user.content) :
       LET path == images_of(user.content)[i].path IN
       /\ path.name = images_of(messages[u].content)[i].path.name
       /\ ~path.nested => path.absolute

\* A record that is taken has a row at every stage, but for one that needs a turn of the user;
\* all stages prompt alike, and the supervised row ends with what the native trainer trains.
StagesAgree(row, sample) ==
  LET prompted == \E i \in DOMAIN sample.messages : sample.messages[i].role = "user" IN
  /\ row.cpt # Refused
  /\ Last(row.cpt.messages[1].content.blocks).text = target_text(sample.targets[1])
  /\ prompted =>
       LET prompt == row.opd.messages IN
       /\ row.sft.messages =
            Append(prompt, [role |-> "assistant", content |-> texts(target_text(sample.targets[1]))])
       /\ row.rlhf.messages = prompt /\ row.rlhf.targets = sample.targets
       /\ PromptOf(sample.messages, prompt)

\* An ARD record goes to a sample and back without loss but for fields it does not name, and
\* what its conversion takes the sample takes too, unless an assistant writes raw markup,
\* calls without the form of a call, or a tool says nothing.
ArdKept(record) ==
  LET converted == convert_sample(record)
      back == graspo_sample_to_ard([messages |-> converted.messages, targets |-> converted.targets,
                                    tools |-> converted.tools, metadata |-> converted.extra.metadata])
  IN converted # Refused =>
       /\ back = [record EXCEPT !.extra = [k \in ArdFields \cap DOMAIN @ |-> @[k]]]
       /\ valid_messages(record.messages) => load(record) # Refused
       /\ load(record) # Refused =>
            target_text(load(record).targets[1]) = <<[json |-> [object |-> record.targets[1].content.answer]]>>

\* Training data keep their meaning on the way to the native trainers, and on that to ms-swift
\* but for the messages left out (dataset.py, adapter.py, data.py).
RecordsKept ==
  case.of = "record" =>
    LET record == case.record
        sample == load(record) IN
    /\ sample # Refused =>
         /\ StagesAgree([stage \in {"sft", "rlhf", "cpt", "opd"} |-> prepare_row(record, stage)],
                        sample)
         /\ sample.media = <<>> <=> \A i \in DOMAIN sample.messages :
                                      images_of(sample.messages[i].content) = <<>>
    /\ is_ard_record(record) => ArdKept(record)

\* Each micro-batch of a rollout is given the images of its own rows, and each generation
\* takes the rows of its own prompt along, so that training sees what the rollout saw; only
\* a sample that shows one image twice is refused.
ImagesOfTheirRows ==
  case.of = "media" =>
    LET result == generate_groups(case.samples, case.G, case.micro_batch)
        rows == rows_of(case.samples, case.G)
        repeats == \E i \in DOMAIN case.samples : Len(case.samples[i]) # image_count(case.samples[i])
    IN IF repeats THEN result = Failed
       ELSE /\ \A m \in Range(result.micro_batches) :
                 LET own == SubSeq(rows, m.start + 1, m.stop) IN
                 m.inputs = [grid |-> image_grid_thw(own), pixels |-> pixel_values(own)]
            /\ concat(map(LAMBDA m : SubSeq(rows, m.start + 1, m.stop), result.micro_batches)) = rows
            /\ Len(result.rows) = Len(case.samples)
            /\ \A p \in DOMAIN case.samples :
                 rows_of_item(attach_rows(result.rows[p]), case.G) = [r \in 1..case.G |-> case.samples[p]]

\* A training micro-batch whose rows have images sees those of each row in order, or is
\* refused: images are never dropped or exchanged silently.
ImagesNeverDropped ==
  case.of = "experiences" =>
    LET items == [i \in DOMAIN case.chosen |->
                    experience_metadata_for_row(
                      attach_rows(IF case.chosen[i] = <<>> THEN <<>> ELSE <<case.chosen[i], case.chosen[i]>>),
                      case.row)]
        some == \E i \in DOMAIN case.chosen : case.chosen[i] # <<>>
        result == training_inputs(items, some)
    IN \/ result = Failed /\ some /\ \E i \in DOMAIN case.chosen : case.chosen[i] = <<>>
       \/ result.grid = concat(case.chosen) /\ result.pixels = pixel_values(case.chosen)

\* In a supervised batch nothing but the answer is trained, all of it with the end mark as
\* far as the length goes (but for what a tokenizer has merged with the prompt), every row
\* attends to its own tokens alone, and no image is cut.
AnswersTrained ==
  case.of = "sft_batch" =>
    LET batch == collate_sft_batch(case.items, case.max_seq_length)
        item(i) == case.items[i]
        answer(i) == LET whole == answer_tokens(item(i).answer) IN
                     IF item(i).merges /\ item(i).prompt # <<>> /\ ~has_media(item(i))
                     THEN Tail(whole) ELSE whole
        room(i) == case.max_seq_length - Len(item(i).prompt)
        trained(i) == SelectSeq(batch[i].labels, LAMBDA l : l # Ignored)
    IN batch # Failed =>
         \A i \in DOMAIN batch :
           /\ trained(i) = keep(answer(i), Max({0, room(i)}))
           /\ \A k \in DOMAIN batch[i].ids :
                /\ batch[i].labels[k] \in {Ignored, batch[i].ids[k]}
                /\ batch[i].mask[k] <=> batch[i].ids[k] # <<"pad", 0>>
           /\ Len(batch[i].ids) = Len(batch[1].ids) /\ Len(batch[i].ids) <= case.max_seq_length
           /\ \A k \in DOMAIN item(i).prompt :
                item(i).prompt[k][1] = "image" => \E j \in DOMAIN batch[i].ids : batch[i].ids[j] = item(i).prompt[k]

\* A record that is taken reaches the native trainers as it is written, and ms-swift without
\* the messages left out of its prompt; every row has its own images and all of them, and
\* exactly the answers are trained (ripple/data.py, dataset.py, multimodal_tensors.py).
RowsSound == RecordsKept /\ ImagesOfTheirRows /\ ImagesNeverDropped /\ AnswersTrained
====
