---------------------------- MODULE TextExtraction ----------------------------
(* The visible text of a page, which its hash is taken of, and its title and  *)
(* headings: extract_text() of src/src/ingestion/content.rs with its four     *)
(* branches, and extract_tag_texts() of semantic_views.rs.                    *)
(*                                                                            *)
(* Markup is a sequence of tokens, each a kind and a name: "<script" and      *)
(* "</script>" are one token each, an entity is two, "&" and its name.  An    *)
(* HTML page is written from pieces, so that what it shows is known.          *)
EXTENDS JsonFragments

CONSTANTS Page,        \* sequences of pieces
          TitleLimit,  \* titles looked for: 1 in the code
          HeadingLimit \* headings of one tag: 12 in the code

VARIABLES type,    \* content type: json, html, plain or other
          page,    \* the pieces of a page that is not JSON
          text,    \* what is being cleaned: the page, then the inside of an element
          content, \* the text of the page, once it is found
          stage,   \* the step that comes next
          at,      \* the ignored tag or the entity it is at
          sought,  \* which of Elements it looks for
          cursor,  \* where that scan goes on
          found    \* texts of the elements found, by tag
scanVars == <<sought, cursor, found>>
textVars == <<type, page, text, content, stage, at, scanVars>>

Word(w) == <<"word", w>>
Opening(tag) == <<"opening", tag>>  \* "<tag", whatever follows
Closing(tag) == <<"closing", tag>>  \* "</tag>"
Space == <<"space", " ">>
Amp == <<"word", "&">>
Lt == <<"mark", "<">>
Gt == <<"mark", ">">>

\* Limits are numbers and pages are finite; the names above are strings, which
\* provers have to be told of a literal.
ASSUME PageAssumption ==
  /\ TitleLimit \in Nat /\ HeadingLimit \in Nat
  /\ Page \subseteq Seq([kind : STRING, tag : STRING, inside : Seq(Token)])
  /\ {" ", "&", "<", ">", "er", "class"} \subseteq STRING

Piece(kind, tag, inside) == [kind |-> kind, tag |-> tag, inside |-> inside]

\* A block or an element has an attribute, a space apart.  A "named" piece is an
\* element whose longer name starts with a tag's.
Written(piece) ==
  CASE piece.kind = "text" -> piece.inside
    [] piece.kind = "comment" -> <<Lt>> \o piece.inside \o <<Gt>>
    [] piece.kind = "named" -> <<Opening(piece.tag), Word("er"), Gt>> \o piece.inside
    [] OTHER -> <<Opening(piece.tag), Space, Word("class"), Gt>> \o piece.inside
                \o <<Closing(piece.tag)>>

Markup(pieces) == FlattenSeq([i \in DOMAIN pieces |-> Written(pieces[i])])

Ignored == <<"script", "style", "noscript", "template", "svg">>
Entities == <<<<"nbsp;", Space>>, <<"amp;", Amp>>, <<"lt;", Lt>>, <<"gt;", Gt>>>>
Elements == <<<<"title", TitleLimit>>, <<"h1", HeadingLimit>>>>

IgnoredTags == {Ignored[k] : k \in DOMAIN Ignored}
ElementTags == {Elements[n][1] : n \in DOMAIN Elements}
EntityNames == {Word(Entities[n][1]) : n \in DOMAIN Entities}

NoMarkup(tokens) == \A i \in 1 .. Len(tokens) : tokens[i][1] \in {"word", "space"}

\* "&" stands before the name of an entity and nowhere else, nor does the name.
WholeEntities(tokens) ==
  /\ \A i \in 1 .. Len(tokens) :
       tokens[i] = Amp => i < Len(tokens) /\ tokens[i + 1] \in EntityNames
  /\ \A i \in 1 .. Len(tokens) : tokens[i] \in EntityNames => i > 1 /\ tokens[i - 1] = Amp

\* What can be told apart without an HTML parser.
WellWritten(piece) ==
  LET inside == piece.inside
  IN  \/ /\ piece.kind \in {"text", "named", "element"}
         /\ NoMarkup(inside) /\ WholeEntities(inside)
         /\ piece.kind # "text" => piece.tag \notin IgnoredTags
      \/ /\ piece.kind = "comment"
         /\ \A i \in 1 .. Len(inside) :
              /\ inside[i][1] # "closing" /\ inside[i] # Gt
              /\ \A tag \in IgnoredTags \cup ElementTags : inside[i] # Opening(tag)
      \/ /\ piece.kind = "block"
         /\ \E k \in DOMAIN Ignored :
              /\ piece.tag = Ignored[k]
              /\ \A i \in 1 .. Len(inside) :
                   /\ inside[i] # Closing(piece.tag)
                   /\ \A j \in 1 .. k - 1 : inside[i] # Opening(Ignored[j])
                   /\ \A tag \in ElementTags : inside[i] # Opening(tag)

\* What the pipeline promises of a page, it promises of one whose pieces do not
\* run into each other.
ASSUME PieceAssumption ==
  \A pieces \in Page : \A i \in 1 .. Len(pieces) : WellWritten(pieces[i])
-----------------------------------------------------------------------------
(* Rewriting of tokens *)

\* "<" hides what follows, up to the next ">".
Hidden(tokens, i) ==
  \E k \in 1 .. i - 1 :
    /\ tokens[k][1] = "opening" \/ tokens[k] = Lt
    /\ \A n \in k + 1 .. i - 1 : tokens[n][1] # "closing" /\ tokens[n] # Gt

\* strip_markup()
Stripped(tokens) ==
  FlattenSeq([i \in DOMAIN tokens |->
    CASE tokens[i][1] = "closing" -> <<Space, Space>>
      [] tokens[i][1] = "opening" \/ tokens[i] \in {Lt, Gt} -> <<Space>>
      [] OTHER -> IF Hidden(tokens, i) THEN << >> ELSE <<tokens[i]>>])

\* One replace() of decode_common_entities().
Replaced(tokens, name, by) ==
  LET Entity(i) == i \in 1 .. Len(tokens) - 1 /\ tokens[i] = Amp /\ tokens[i + 1] = Word(name)
  IN  FlattenSeq([i \in DOMAIN tokens |->
        IF Entity(i) THEN <<by>> ELSE IF Entity(i - 1) THEN << >> ELSE <<tokens[i]>>])

\* Mutant of Collapsed: a space is kept also before the first word.
Collapsed_LeadingSpace(tokens) ==
  FlattenSeq([i \in DOMAIN tokens |->
    CASE tokens[i] = Space -> << >>
      [] i > 1 /\ tokens[i - 1] = Space -> <<Space, tokens[i]>>
      [] OTHER -> <<tokens[i]>>])

\* collapse_whitespace()
Collapsed(tokens) ==
  LET Started(i) == \E k \in 1 .. i - 1 : tokens[k] # Space
  IN  FlattenSeq([i \in DOMAIN tokens |->
        CASE tokens[i] = Space -> << >>
          [] tokens[i] # Space /\ Started(i) /\ tokens[i - 1] = Space -> <<Space, tokens[i]>>
          [] OTHER -> <<tokens[i]>>])
-----------------------------------------------------------------------------
(* extract_text() *)

Nothing == [tag \in ElementTags |-> << >>]

Init ==
  /\ content = << >> /\ at = 1 /\ sought = 1 /\ cursor = 1 /\ found = Nothing
  /\ \/ type = "json" /\ WalkInit /\ page = << >> /\ text = << >> /\ stage = "parse"
     \/ /\ type \in {"html", "plain", "other"} /\ page \in Page /\ text = Markup(page)
        /\ document = Scalar /\ todo = << >> /\ output = << >> /\ outcome = "ok"
        /\ stage = CASE type = "html" -> "remove" [] type = "plain" -> "decode"
                     [] OTHER -> "strip"

Goto(next) == stage' = next /\ at' = 1

ParseFails ==
  /\ stage = "parse" /\ todo = <<Visit(document, 0)>>
  /\ Goto("failed")
  /\ UNCHANGED <<walkVars, type, page, text, content, scanVars>>

CollectText ==
  /\ stage = "parse"
  /\ Walk
  /\ UNCHANGED textVars

WalkFails ==
  /\ stage = "parse" /\ outcome \in {"too_deep", "too_many"}
  /\ Goto("failed")
  /\ UNCHANGED <<walkVars, type, page, text, content, scanVars>>

\* fragments.join(" ")
JoinFragments ==
  /\ stage = "parse" /\ outcome = "ok"
  /\ text' = FlattenSeq([i \in DOMAIN output |->
               IF i = 1 THEN <<output[i]>> ELSE <<Space, output[i]>>])
  /\ Goto("decode")
  /\ UNCHANGED <<walkVars, type, page, content, scanVars>>

Positions(token) == {i \in DOMAIN text : text[i] = token}

\* Mutant of BlockEnd: any closing tag ends the block.
BlockEnd_AnyTag(start) ==
  Min({i \in DOMAIN text : i > start /\ text[i][1] = "closing"} \cup {Len(text)})

\* An unclosed block reaches to the end of the page.
BlockEnd(start) ==
  Min({i \in Positions(Closing(Ignored[at])) : i > start} \cup {Len(text)})

\* Mutant of WithoutBlock: the opening tag is left where it was.
WithoutBlock_KeepsOpening(start) ==
  SubSeq(text, 1, start) \o <<Space>> \o SubSeq(text, BlockEnd(start) + 1, Len(text))

WithoutBlock(start) ==
  SubSeq(text, 1, start - 1) \o <<Space>> \o SubSeq(text, BlockEnd(start) + 1, Len(text))

\* One round of remove_ignored_html_blocks().
RemoveBlock ==
  /\ stage = "remove" /\ Positions(Opening(Ignored[at])) # {}
  /\ \E start \in Positions(Opening(Ignored[at])) :
       /\ \A i \in Positions(Opening(Ignored[at])) : start <= i
       /\ text' = WithoutBlock(start)
  /\ UNCHANGED <<walkVars, type, page, content, stage, at, scanVars>>

NextIgnored ==
  /\ stage = "remove" /\ Positions(Opening(Ignored[at])) = {}
  /\ IF at < Len(Ignored) THEN at' = at + 1 /\ UNCHANGED stage ELSE Goto("strip")
  /\ UNCHANGED <<walkVars, type, page, text, content, scanVars>>

Strip ==
  /\ stage = "strip"
  /\ text' = Stripped(text)
  /\ Goto("decode")
  /\ UNCHANGED <<walkVars, type, page, content, scanVars>>

DecodeEntity ==
  /\ stage = "decode"
  /\ text' = Replaced(text, Entities[at][1], Entities[at][2])
  /\ IF at < Len(Entities) THEN at' = at + 1 /\ UNCHANGED stage ELSE Goto("collapse")
  /\ UNCHANGED <<walkVars, type, page, content, scanVars>>

CollapseContent ==
  /\ stage = "collapse" /\ content = << >>
  /\ content' = Collapsed(text)
  /\ Goto(IF content' = << >> THEN "failed" ELSE IF type = "html" THEN "elements" ELSE "done")
  /\ UNCHANGED <<walkVars, type, page, text, scanVars>>
-----------------------------------------------------------------------------
(* extract_tag_texts(), on the markup as it came *)

Tag == Elements[sought][1]
Limit == Elements[sought][2]

\* Mutant of OpensAt: the limit is looked at too late.
OpensAt_OneMore(markup, open) ==
  /\ Len(found[Tag]) <= Limit
  /\ open >= cursor /\ markup[open] = Opening(Tag)
  /\ \A i \in cursor .. open - 1 : markup[i] # Opening(Tag)

\* The next "<tag" is at open.
OpensAt(markup, open) ==
  /\ Len(found[Tag]) < Limit
  /\ open >= cursor /\ markup[open] = Opening(Tag)
  /\ \A i \in cursor .. open - 1 : markup[i] # Opening(Tag)

\* Mutant of Bounded: a longer name will do.
Bounded_AnyName(markup, open) == open < Len(markup)

\* The tag's name ends there.
Bounded(markup, open) == open < Len(markup) /\ markup[open + 1] \in {Gt, Space}

\* The inside of the element starts after the first ">".
InsideFrom(markup, open, start) ==
  /\ start > open + 1 /\ (markup[start - 1] = Gt \/ markup[start - 1][1] = "closing")
  /\ \A i \in open + 1 .. start - 2 : markup[i] # Gt /\ markup[i][1] # "closing"

\* And it ends at its closing tag.
ClosesAt(markup, start, end) ==
  /\ end >= start /\ markup[end] = Closing(Tag)
  /\ \A i \in start .. end - 1 : markup[i] # Closing(Tag)

LongerName ==
  /\ stage = "elements"
  /\ \E markup \in {Markup(page)} : \E open \in DOMAIN markup :
       /\ OpensAt(markup, open) /\ ~Bounded(markup, open)
       /\ cursor' = open + 1
  /\ UNCHANGED <<walkVars, type, page, text, content, stage, at, sought, found>>

\* The next element, if it is closed.
ElementAt(markup, open, start, end) ==
  /\ OpensAt(markup, open) /\ Bounded(markup, open)
  /\ InsideFrom(markup, open, start) /\ ClosesAt(markup, start, end)

\* Its inside is stripped, decoded and collapsed as the page was.
TakeElement ==
  /\ stage = "elements"
  /\ \E markup \in {Markup(page)} : \E open, start, end \in DOMAIN markup :
       /\ ElementAt(markup, open, start, end)
       /\ text' = SubSeq(markup, start, end - 1)
       /\ cursor' = end + 1
  /\ Goto("strip")
  /\ UNCHANGED <<walkVars, type, page, content, sought, found>>

CollapseElement ==
  /\ stage = "collapse" /\ content # << >>
  /\ text' = Collapsed(text)
  /\ found' = [found EXCEPT ![Tag] = IF text' = << >> THEN @ ELSE Append(@, text')]
  /\ Goto("elements")
  /\ UNCHANGED <<walkVars, type, page, content, sought, cursor>>

\* No such tag is left, or it is never closed, or enough are found.
NoElement(markup) ==
  ~ \E open \in DOMAIN markup :
      /\ OpensAt(markup, open)
      /\ Bounded(markup, open) =>
           \E start, end \in DOMAIN markup : ElementAt(markup, open, start, end)

NextElementTag ==
  /\ stage = "elements"
  /\ NoElement(Markup(page))
  /\ IF sought < Len(Elements)
     THEN sought' = sought + 1 /\ cursor' = 1 /\ UNCHANGED <<stage, at>>
     ELSE Goto("done") /\ UNCHANGED <<sought, cursor>>
  /\ UNCHANGED <<walkVars, type, page, text, content, found>>

Done == stage \in {"done", "failed"} /\ UNCHANGED <<walkVars, textVars>>

Extract ==
  \/ ParseFails \/ CollectText \/ WalkFails \/ JoinFragments
  \/ RemoveBlock \/ NextIgnored \/ Strip \/ DecodeEntity \/ CollapseContent
  \/ LongerName \/ TakeElement \/ CollapseElement \/ NextElementTag

Next == Extract \/ Done

\* Only of the loop that removes blocks is it in doubt that it ends.
Spec ==
  /\ Init /\ [][Next]_<<walkVars, textVars>>
  /\ WF_<<walkVars, textVars>>(RemoveBlock \/ NextIgnored)
-----------------------------------------------------------------------------
(* Properties *)

\* What a reader of the page sees of a piece: nothing of ignored blocks, comments
\* and tags, each of which sets words apart.
Shown(piece) ==
  CASE piece.kind = "text" -> piece.inside
    [] piece.kind \in {"block", "comment"} -> <<Space>>
    [] piece.kind = "named" -> <<Space>> \o piece.inside
    [] OTHER -> <<Space>> \o piece.inside \o <<Space>>

Character(name) == Entities[CHOOSE n \in DOMAIN Entities : Word(Entities[n][1]) = name][2]

\* Every entity read once.
Read(tokens) ==
  FlattenSeq([i \in DOMAIN tokens |->
    CASE tokens[i] # Amp /\ (i = 1 \/ tokens[i - 1] # Amp) -> <<tokens[i]>>
      [] tokens[i] = Amp -> <<Character(tokens[i + 1])>>
      [] OTHER -> << >>])

Visible(pieces) ==
  Collapsed(Read(FlattenSeq([i \in DOMAIN pieces |-> Shown(pieces[i])])))

\* Type invariant of the pipeline and of the walk, whose keys may be pushed one
\* past the limit: the visit of the value then refuses the document.
TextTypeOK ==
  /\ outcome \in {"running", "ok", "too_deep", "too_many"}
  /\ Len(output) <= MaxFragments + 1
  /\ stage \in {"parse", "remove", "strip", "decode", "collapse", "elements", "done", "failed"}
  /\ at \in 1 .. Len(Ignored) /\ sought \in DOMAIN Elements
  /\ cursor \in 1 .. Len(Markup(page)) + 1
  /\ \A n \in DOMAIN Elements : Len(found[Elements[n][1]]) <= Elements[n][2]

\* The text of an HTML page is what the page shows: nothing of an ignored block
\* gets into the hash, and no visible word is lost beside one (content.rs,
\* remove_ignored_html_blocks).
VisibleTextKept == type = "html" /\ content # << >> => content = Visible(page)

\* The text is normal, whatever its type: a page that changes its spacing alone
\* keeps its hash (docs/architecture.md, "normalized visible text").
TextIsNormal ==
  content # << >> =>
    /\ content[1] # Space /\ content[Len(content)] # Space
    /\ \A i \in 1 .. Len(content) - 1 : content[i] = Space => content[i + 1] # Space

\* What the elements of a page with this tag show, of those that show something.
Headings(piece, tag) ==
  IF piece.kind = "element" /\ piece.tag = tag /\ Visible(<<piece>>) # << >>
  THEN <<Visible(<<piece>>)>> ELSE << >>

ElementsOf(tag) == FlattenSeq([i \in DOMAIN page |-> Headings(page[i], tag)])

\* Title and headings are those of the page, the first of each tag up to its
\* limit, in their order (semantic_views.rs, extract_tag_texts).
ElementsFound ==
  stage = "done" /\ type = "html" =>
    \A n \in DOMAIN Elements :
      LET all == ElementsOf(Elements[n][1])
      IN  found[Elements[n][1]] = SubSeq(all, 1, Min({Elements[n][2], Len(all)}))

\* The removal of blocks ends, whatever one round leaves behind for the next.
RemovalEnds == stage = "remove" ~> stage # "remove"
=============================================================================
