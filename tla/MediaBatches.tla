---- MODULE MediaBatches ----
(***************************************************************************)
(* Samples as the tensors of a batch.  A rollout encodes the rows of all   *)
(* groups at once and cuts the images of each micro-batch out again by     *)
(* offset tables (multimodal_tensors.py); the rows go with the experiences *)
(* and are encoded once more for the training forward.  A supervised batch *)
(* is a prompt with its answer, of which only the answer is trained.       *)
(*                                                                         *)
(* A sample is the sequence of its images, an image the number of patches  *)
(* it is cut into with a name; a row of a batch is a sequence of tokens.   *)
(***************************************************************************)
EXTENDS TrainingRows

LOCAL INSTANCE SequencesExt

CONSTANT Failed \* an assertion or an exception stopped the step

total_of(seq) == FoldLeft(LAMBDA a, b : a + b, 0, seq)

-----------------------------------------------------------------------------
\* Rollout of samples with images.

\* The rows of all groups, each the images of its sample, and what the processor makes of
\* them (_encode_multimodal_rows): one entry of the grid for an image, all patches in order.
rows_of(samples, G) == [r \in 1..(Len(samples) * G) |-> samples[(r - 1) \div G + 1]]
patches_of(image) == [k \in 1..image.patches |-> <<image.name, k>>]
image_grid_thw(rows) == concat(rows)
pixel_values(rows) == concat(map(patches_of, concat(rows)))

\* Images of a sample, each counted once however often it stands in the messages
\* (_dedupe_media, _generate_multimodal_groups).
image_count(sample) == Cardinality(ToSet(sample))

\* _compute_multimodal_offset_tables: the images and the patches before each row.
offset_tables(counts, G, grid, pixels) ==
  LET row_counts == [r \in 1..(Len(counts) * G) |-> counts[(r - 1) \div G + 1]]
      images(r) == total_of(SubSeq(row_counts, 1, r))
      first_row(r) == ((r - 1) \div G) * G
      row_patches(r) == total_of([j \in 1..row_counts[r] |->
                          LET i == images(first_row(r)) + j IN
                          IF i <= Len(grid) THEN grid[i].patches ELSE 0])
      patches(r) == total_of([q \in 1..r |-> row_patches(q)])
      n == Len(row_counts)
  IN IF \/ grid # <<>> /\ images(n) # Len(grid)
        \/ pixels # <<>> /\ patches(n) # Len(pixels)
     THEN Failed
     ELSE [image |-> [r \in 0..n |-> images(r)], patch |-> [r \in 0..n |-> patches(r)]]

\* _slice_multimodal_inputs_offset, for the rows after `start` up to `stop`.
slice_inputs(grid, pixels, offsets, start, stop) ==
  [grid |-> SubSeq(grid, offsets.image[start] + 1, offsets.image[stop]),
   pixels |-> SubSeq(pixels, offsets.patch[start] + 1, offsets.patch[stop])]

\* _shared_rollout_prompt_chunk_size, _shared_generation_micro_batch_size
\* Variant: one prompt at a time.
rollout_prompt_chunk_size_one(n) == 1
rollout_prompt_chunk_size(n) == IF n > 1 THEN n ELSE 1
generation_micro_batch_size(micro_batch, rows) ==
  IF micro_batch < rows THEN micro_batch ELSE rows

\* Consecutive pieces of at most `size` of 1..n, as pairs of what is before and the last.
pieces_of(n, size) ==
  [k \in 1..((n + size - 1) \div size) |->
     <<(k - 1) * size, IF k * size < n THEN k * size ELSE n>>]

\* The rollout of a queue (_generate_multimodal_groups): what each micro-batch is given, and
\* the rows each prompt's generation takes along.  The rows are looked up from the start of
\* the queue, whichever chunk the prompt is in.
generate_groups(samples, G, micro_batch) ==
  LET rows == rows_of(samples, G)
      grid == image_grid_thw(rows)
      pixels == pixel_values(rows)
      offsets == offset_tables(map(image_count, samples), G, grid, pixels)
      chunks == pieces_of(Len(samples), rollout_prompt_chunk_size(Len(samples)))
      micro(chunk) ==
        LET from == chunk[1] * G
            n == (chunk[2] - chunk[1]) * G IN
        map(LAMBDA p : [start |-> from + p[1], stop |-> from + p[2],
                            inputs |-> slice_inputs(grid, pixels, offsets, from + p[1], from + p[2])],
                pieces_of(n, generation_micro_batch_size(micro_batch, n)))
      generation_rows(chunk) ==
        [i \in 1..(chunk[2] - chunk[1]) |-> SubSeq(rows, (i - 1) * G + 1, i * G)]
  IN IF offsets = Failed THEN Failed
     ELSE [micro_batches |-> concat(map(micro, chunks)),
           rows |-> concat(map(generation_rows, chunks))]

-----------------------------------------------------------------------------
\* The rows of experiences, for training.

\* attach_rows, and the row of one completion (experience_metadata_for_row); a generation
\* without media has none.
attach_rows(rows) == IF rows = <<>> THEN [plain |-> TRUE] ELSE [rows |-> rows]
experience_metadata_for_row(metadata, r) ==
  IF "rows" \notin DOMAIN metadata THEN metadata
  ELSE IF r > Len(metadata.rows) THEN Failed ELSE [rows |-> <<metadata.rows[r]>>]

\* rows_from_metadata, of one item and of the items of a batch.
rows_of_item(metadata, expected) ==
  IF "rows" \notin DOMAIN metadata THEN <<>>
  ELSE IF Len(metadata.rows) = 1 /\ expected > 1
  THEN [i \in 1..expected |-> metadata.rows[1]]
  ELSE IF Len(metadata.rows) # expected THEN Failed ELSE metadata.rows

rows_from_metadata(items, expected) ==
  LET parts == map(LAMBDA item : rows_of_item(item, 1), items) IN
  IF Contains(parts, Failed) THEN Failed
  ELSE IF concat(parts) = <<>> THEN <<>>
  ELSE IF Len(concat(parts)) # expected THEN Failed ELSE concat(parts)

\* What the training forward of a micro-batch gets to see: the images of its rows, or
\* nothing; image tokens without images are refused (assert_rl_training_has_multimodal).
training_inputs(items, image_tokens) ==
  LET rows == rows_from_metadata(items, Len(items)) IN
  IF rows = Failed \/ (image_tokens /\ rows = <<>>) THEN Failed
  ELSE [grid |-> image_grid_thw(rows), pixels |-> pixel_values(rows)]

-----------------------------------------------------------------------------
\* Supervised batches.  A prompt is a sequence of tokens "text" and "image"; an answer has
\* the tokens 1, 2, .. and ends with "eos".

Ignored == <<"ignored", 0>> \* -100

answer_tokens(n) == [i \in 1..(n + 1) |-> IF i > n THEN <<"eos", 0>> ELSE <<"answer", i>>]

cut_at(row, n) == [ids |-> keep(row.ids, n), labels |-> keep(row.labels, n),
                   mask |-> keep(row.mask, n)]

\* Tokens of a prompt and an answer in one text.  A tokenizer may take the end of the one and
\* the beginning of the other for one token.
full_ids(prompt, answer, merges) ==
  IF merges /\ prompt # <<>>
  THEN Front(prompt) \o <<<<"merged", 1>>>> \o Tail(answer) ELSE prompt \o answer

\* sft_tokenize_text: tokens up to the length of the prompt alone are not trained.
sft_tokenize_text(prompt, n, merges, max_seq_length) ==
  LET ids == keep(full_ids(prompt, answer_tokens(n), merges), max_seq_length) IN
  [ids |-> ids,
   labels |-> [i \in DOMAIN ids |-> IF i <= Len(prompt) THEN Ignored ELSE ids[i]],
   mask |-> [i \in DOMAIN ids |-> TRUE]]

padded_to(row, n, pad) ==
  [ids |-> row.ids \o [i \in 1..(n - Len(row.ids)) |-> pad],
   labels |-> row.labels \o [i \in 1..(n - Len(row.ids)) |-> Ignored],
   mask |-> row.mask \o [i \in 1..(n - Len(row.ids)) |-> FALSE]]

longest(rows) ==
  FoldLeft(LAMBDA n, row : IF Len(row.ids) > n THEN Len(row.ids) ELSE n, 0, rows)

\* collate_sft_text_batch
collate_sft_text_batch(rows) == map(LAMBDA row : padded_to(row, longest(rows), <<"pad", 0>>), rows)

\* collate_sft_multimodal_batch: each answer right behind its own prompt; the batch is cut at
\* the length unless that would cut an image.
collate_sft_multimodal_batch(items, max_seq_length) ==
  LET whole(item) ==
        LET ids == item.prompt \o answer_tokens(item.answer) IN
        [ids |-> ids,
         labels |-> [i \in DOMAIN ids |-> IF i <= Len(item.prompt) THEN Ignored ELSE ids[i]],
         mask |-> [i \in DOMAIN ids |-> TRUE]]
      prompts == FoldLeft(LAMBDA n, item : IF Len(item.prompt) > n THEN Len(item.prompt) ELSE n,
                          0, items)
      answers == FoldLeft(LAMBDA n, item : IF item.answer + 1 > n THEN item.answer + 1 ELSE n,
                          0, items)
      rows == map(LAMBDA item : padded_to(whole(item), prompts + answers, <<"pad", 0>>), items)
      cut_image(row) == \E i \in DOMAIN row.ids : i > max_seq_length /\ row.ids[i][1] = "image"
  IN IF \E i \in DOMAIN rows : cut_image(rows[i]) THEN Failed
     ELSE map(LAMBDA row : cut_at(row, max_seq_length), rows)

has_media(item) == \E i \in DOMAIN item.prompt : item.prompt[i][1] = "image"

\* sft_tokenize, collate_sft_batch: samples with media are left to the batch; batches with
\* both kinds are refused.
collate_sft_batch(items, max_seq_length) ==
  IF \A i \in DOMAIN items : has_media(items[i])
  THEN collate_sft_multimodal_batch(items, max_seq_length)
  ELSE IF \E i \in DOMAIN items : has_media(items[i]) THEN Failed
  ELSE collate_sft_text_batch(map(LAMBDA item : sft_tokenize_text(item.prompt, item.answer,
                                                                     item.merges, max_seq_length),
                                      items))
====
