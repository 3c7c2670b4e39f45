---------------------------- MODULE SemanticViews ----------------------------
(* From a page's text to the inputs of the embedding queue: what             *)
(* extract_semantic_document() of src/src/ingestion/semantic_views.rs emits, *)
(* and the gate of src/src/ingestion/revision.rs it has to pass.             *)
(*                                                                           *)
(* A text is what the pipeline tells apart of it: the lower-cased words it   *)
(* is made of and its size in characters.  A page is given by the lists the  *)
(* scanners find in it: up to 12 headings of each tag, the sentences of      *)
(* accepted length, entities and keywords by rank.  The limits are the       *)
(* code's own numbers, the extractor's and the gate's apart.                 *)
EXTENDS Integers, Sequences, FiniteSets, FiniteSetsExt, SequencesExt

CONSTANTS Word,  \* lower-cased words
          Page,  \* pages
          Null   \* no title, no URL signal

Text == [words : Seq(Word), size : Nat]

ASSUME PageAssumption ==
  /\ Null \notin Text
  /\ Page \subseteq [content : Text, title : Text \cup {Null}, headings : Seq(Text),
                     sentences : Seq(Text), entities : Seq(Text), keywords : Seq(Text),
                     signal : Text \cup {Null}]

VARIABLES page,    \* the page at hand
          inputs,  \* embedding inputs so far
          stage    \* how far the pipeline has come
vars == <<page, inputs, stage>>

MaxInputs == 96
MaxInputChars == 700
MaxEmbeddingTextChars == 24000

\* The gate of revision.rs writes its limits down once more, on its own.
MaxEmbeddingInputs_Fewer == 64  \* mutant of MaxEmbeddingInputs
MaxEmbeddingInputs == 96
GateEmbeddingTextChars == 24000

Kind == {"title", "heading", "summary", "sentence", "entity", "keyword", "url_signal", "document"}
LabelSize == [k \in Kind |->
  CASE k = "title" -> 5 [] k \in {"heading", "summary"} -> 7 [] k = "url_signal" -> 3 [] OTHER -> 8]
-----------------------------------------------------------------------------
(* Texts *)

\* An ellipsis takes the place of the last character.
Truncated(text, n) == [text EXCEPT !.size = Min({@, n})]

\* What the first n of the numbers add up to, for each n.
RunningTotal(numbers) ==
  LET total[n \in 0 .. Len(numbers)] == IF n = 0 THEN 0 ELSE total[n - 1] + numbers[n]
  IN  total

\* The separator of the code's join counts for gap characters.
Joined(texts, gap) ==
  [words |-> FlattenSeq([i \in DOMAIN texts |-> texts[i].words]),
   size  |-> RunningTotal([i \in DOMAIN texts |-> texts[i].size + gap])[Len(texts)] - gap]

Chunks(texts, n) ==
  [c \in 1 .. (Len(texts) + n - 1) \div n |->
     SubSeq(texts, (c - 1) * n + 1, Min({c * n, Len(texts)}))]

Take(s, n) == SubSeq(s, 1, Min({n, Len(s)}))

\* The elements of s whose index is in K, in their order.
Selected(s, K) ==
  LET kept[n \in 0 .. Len(s)] ==
        IF n = 0 THEN << >>
        ELSE IF n \in K THEN Append(kept[n - 1], s[n]) ELSE kept[n - 1]
  IN  kept[Len(s)]

\* The elements of s whose key no earlier element has.
Distinct(s, key) ==
  Selected(s, {i \in DOMAIN s : \A j \in 1 .. i - 1 : key[j] # key[i]})

DedupeText(texts, limit) == Take(Distinct(texts, texts), limit)
-----------------------------------------------------------------------------
(* The views of a page *)

\* push_input() for each text; texts of fewer than three characters are left
\* out, and weights are in hundredths.
Views(kind, texts, weight) ==
  LET cut == [i \in DOMAIN texts |-> Truncated(texts[i], MaxInputChars)]
      kept == Selected(cut, {i \in DOMAIN cut : cut[i].size >= 3})
  IN  [i \in DOMAIN kept |->
         [kind |-> kind, ordinal |-> 0, text |-> kept[i], weight |-> weight]]

Optional(x) == IF x = Null THEN << >> ELSE <<x>>

\* Mutant of Headings: the tags' headings are not limited together.
Headings_NoLimit(p) == DedupeText(p.headings, 36)
Headings(p) == DedupeText(p.headings, 24)
Sentences(p) == DedupeText(Take(p.sentences, 48), 48)
EntityGroups(p) == [g \in DOMAIN Chunks(Take(p.entities, 32), 6) |->
                      Joined(Chunks(Take(p.entities, 32), 6)[g], 2)]
KeywordGroups(p) == [g \in DOMAIN Chunks(Take(p.keywords, 32), 8) |->
                       Joined(Chunks(Take(p.keywords, 32), 8)[g], 2)]

\* The first three sentences, or the page itself when they say too little.
Summary(p) ==
  LET lead == Take(Sentences(p), 3)
  IN  IF lead # << >> /\ Joined(lead, 1).size >= 80
      THEN Truncated(Joined(lead, 1), 900)
      ELSE Truncated(p.content, 900)

AllViews(p) ==
  Views("title", Optional(p.title), 125)
    \o Views("heading", Headings(p), 115)
    \o Views("summary", <<Summary(p)>>, 110)
    \o Views("entity", EntityGroups(p), 105)
    \o Views("keyword", KeywordGroups(p), 90)
    \o Views("sentence", Sentences(p), 100)
    \o Views("url_signal", Optional(p.signal), 65)
    \o Views("document", <<Truncated(p.content, 2000)>>, 75)

InputAccepted(input) == input.text.size \in 1 .. MaxInputChars /\ input.weight \in 10 .. 200

\* SemanticDocument::validate
DocumentAccepted(p, ins) ==
  /\ p.content.size > 0
  /\ Len(ins) \in 1 .. MaxInputs
  /\ \A i \in DOMAIN ins : InputAccepted(ins[i])

\* validate_embedding_inputs of revision.rs; ordinals start at zero.
InputsAccepted(ins) ==
  /\ Len(ins) \in 1 .. MaxEmbeddingInputs
  /\ \A i \in DOMAIN ins : InputAccepted(ins[i]) /\ ins[i].ordinal = i - 1

LineSize(input) == LabelSize[input.kind] + 2 + input.text.size + 1

\* Mutant of CombinedSize: the room is looked for before a line is added.
CombinedSize_CheckBefore(ins) ==
  LET size == RunningTotal([i \in DOMAIN ins |-> LineSize(ins[i])])
  IN  Max({size[n] : n \in {m \in DOMAIN ins : size[m - 1] <= MaxEmbeddingTextChars}} \cup {1}) - 1

\* The size of combined_embedding_text(): whole lines, newlines included, while
\* they fit, but for the newline of the last one.
CombinedSize(ins) ==
  LET size == RunningTotal([i \in DOMAIN ins |-> LineSize(ins[i])])
      fitting == {size[n] : n \in DOMAIN ins} \cap 0 .. MaxEmbeddingTextChars
  IN  IF fitting = {} THEN 0 ELSE Max(fitting) - 1

\* EmbeddingWorkItem::validate, as far as the pipeline decides it.
WorkItemAccepted(p, ins) ==
  /\ p.content.size > 0
  /\ CombinedSize(ins) <= GateEmbeddingTextChars
  /\ ins # << >> => InputsAccepted(ins)
-----------------------------------------------------------------------------
(* The pipeline *)

Init == page \in Page /\ inputs = << >> /\ stage = "fetched"

Move(from, to) == stage = from /\ stage' = to /\ UNCHANGED page

EmptyContent == page.content.size = 0 /\ Move("fetched", "failed") /\ UNCHANGED inputs
Collect == page.content.size > 0 /\ Move("fetched", "collected") /\ inputs' = AllViews(page)
\* Mutant of Dedupe: a text may come back under another kind.
Dedupe_PerKind ==
  /\ Move("collected", "deduped")
  /\ inputs' = Distinct(inputs, [i \in DOMAIN inputs |-> <<inputs[i].kind, inputs[i].text>>])
Dedupe == /\ Move("collected", "deduped")
          /\ inputs' = Distinct(inputs, [i \in DOMAIN inputs |-> inputs[i].text])
Cap == Move("deduped", "capped") /\ inputs' = Take(inputs, MaxInputs)
Number == /\ Move("capped", "numbered")
          /\ inputs' = [i \in DOMAIN inputs |-> [inputs[i] EXCEPT !.ordinal = i - 1]]
Validate ==
  /\ \/ DocumentAccepted(page, inputs) /\ Move("numbered", "extracted")
     \/ ~DocumentAccepted(page, inputs) /\ Move("numbered", "failed")
  /\ UNCHANGED inputs

\* The hash the source was last stored under, against the page's.
Previous == {"none", "malformed", "same", "other"}

\* decide_revision_with_inputs()
Decide(previous) ==
  /\ \/ /\ ~InputsAccepted(inputs) \/ previous = "malformed"
        /\ Move("extracted", "refused")
     \/ /\ InputsAccepted(inputs) /\ previous = "same"
        /\ Move("extracted", "unchanged")
     \/ /\ InputsAccepted(inputs) /\ previous \in {"none", "other"}
        /\ Move("extracted", "stored")
  /\ UNCHANGED inputs

Done == stage \in {"failed", "stored", "unchanged", "refused"} /\ UNCHANGED vars

Next ==
  \/ EmptyContent \/ Collect \/ Dedupe \/ Cap \/ Number \/ Validate
  \/ \E previous \in Previous : Decide(previous)
  \/ Done

Spec == Init /\ [][Next]_vars
-----------------------------------------------------------------------------
(* Properties *)

TextsOf(ins) == {ins[i].text : i \in DOMAIN ins}

\* A page of three characters or more is extracted, and the cap of 96 inputs
\* never costs it a view: the limits on headings, sentences, groups and the rest
\* add up to less.  The views that would be lost first are the URL's and the
\* page's own text (semantic_views.rs, truncate, push_input).
NoViewLost ==
  /\ stage = "failed" => page.content.size < 3
  /\ stage = "extracted" => TextsOf(AllViews(page)) = TextsOf(inputs)

\* What the extractor emits under its own limits always passes the gate that guards
\* the embedding queue under the gate's, and no text is paid for twice (revision.rs,
\* validate_embedding_inputs; semantic_views.rs, dedupe_inputs).
ExtractedAccepted ==
  stage \in {"extracted", "refused"} =>
    /\ InputsAccepted(inputs)
    /\ Cardinality(TextsOf(inputs)) = Len(inputs)

\* The combined text of an extracted page is never empty, in which case the
\* provider would be sent the whole page, and always fits the work item, which has
\* a limit of its own (combined_embedding_text(), EmbeddingWorkItem::validate()).
ProviderTextBounded ==
  stage = "extracted" => WorkItemAccepted(page, inputs) /\ CombinedSize(inputs) > 0
=============================================================================
