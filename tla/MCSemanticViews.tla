--------------------------- MODULE MCSemanticViews ---------------------------
(* Pages at the limits of the extractor.                                      *)
EXTENDS SemanticViews

MCWord == {"title", "heading", "sentence", "entity", "keyword", "rest", "url"} \X (1 .. 48)

Said(word, size) == [words |-> <<word>>, size |-> size]
Texts(name, n, size, same) == [i \in 1 .. n |-> Said(<<name, IF same THEN 1 ELSE i>>, size)]

(* A page is its title, headings and sentences one after the other, and may   *)
(* have text of its own besides.                                              *)
PageOf(title, headings, sentences, entities, keywords, signal, rest) ==
  [content   |-> Joined(Optional(title) \o headings \o sentences \o rest, 1),
   title     |-> title,
   headings  |-> headings,
   sentences |-> sentences,
   entities  |-> Texts("entity", entities, 10, FALSE),
   keywords  |-> Texts("keyword", keywords, 5, FALSE),
   signal    |-> signal]

TinyPages ==
  {[content |-> Said(<<"rest", 1>>, size), title |-> Null, headings |-> << >>,
    sentences |-> << >>, entities |-> << >>, keywords |-> << >>, signal |-> Null] : size \in 0 .. 4}

FullPages ==
  {PageOf(title, Texts(name, headings, 20, same), Texts("sentence", sentences, size, same),
          entities, keywords, signal, <<Said(<<"rest", 1>>, rest)>>) :
     title \in {Null, Said(<<"title", 1>>, 2), Said(<<"title", 1>>, 20)},
     name \in {"title", "heading"}, headings \in {0, 1, 36}, same \in BOOLEAN,
     sentences \in {0, 3, 48}, size \in {36, 900}, entities \in {40},
     keywords \in {0, 40}, signal \in {Null, Said(<<"url", 1>>, 12)}, rest \in {3, 5000}}

OneSentencePages ==
  {PageOf(Null, << >>, Texts("sentence", n, size, FALSE), 1, 1, Null, << >>) :
     n \in 1 .. 4, size \in {36, 80, 700, 900}}

MCPage == TinyPages \cup FullPages \cup OneSentencePages
=============================================================================
