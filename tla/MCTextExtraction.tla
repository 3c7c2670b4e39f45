--------------------------- MODULE MCTextExtraction ---------------------------
(* JSON documents of up to two members or items a level and three levels, the *)
(* smaller ones once more two arrays deep; pages of up to three pieces.       *)
EXTENDS TextExtraction

Leaf == {String(Word("a")), String(Word("b")), Scalar}
Pairs(S) == {<< >>} \cup {<<x>> : x \in S} \cup {<<x, y>> : x \in S, y \in S}
Members(s) == [i \in DOMAIN s |-> <<Word(<<"k1", "k2">>[i]), s[i]>>]
Grow(S) == S \cup {Array(s) : s \in Pairs(S)} \cup {Object(Members(s)) : s \in Pairs(S)}
Shallow == Grow(Leaf)

MCDocument == Grow(Shallow) \cup {Array(<<Array(<<value>>)>>) : value \in Shallow}

\* The solution of the equations for Nesting, Fragments and EndsInText.
RECURSIVE Height(_)
Height(value) ==
  IF Children(value) = {} THEN 0 ELSE 1 + Max({Height(child) : child \in Children(value)})

RECURSIVE Spelled(_)
Spelled(value) ==
  CASE value.kind = "string" -> <<value.text>>
    [] value.kind = "array"  -> FlattenSeq([i \in DOMAIN value.items |-> Spelled(value.items[i])])
    [] value.kind = "object" -> FlattenSeq([i \in DOMAIN value.members |->
                                  <<value.members[i][1]>> \o Spelled(value.members[i][2])])
    [] OTHER -> << >>

RECURSIVE Closes(_)
Closes(value) ==
  CASE value.kind = "string" -> TRUE
    [] value.kind = "array"  -> value.items # << >> /\ Closes(Last(value.items))
    [] value.kind = "object" -> value.members # << >> /\ Closes(Last(value.members)[2])
    [] OTHER -> FALSE

MCFragments == [value \in MCDocument |-> Spelled(value)]
MCEndsInText == [value \in MCDocument |-> Closes(value)]
MCNesting == [value \in MCDocument |-> Height(value)]

Texts == {<<Word("a")>>, <<Space>>, <<Space, Word("b"), Space>>,
          <<Amp, Word("nbsp;")>>, <<Word("a"), Amp, Word("amp;")>>, <<Amp, Word("lt;"), Word("b")>>}

\* What is inside a block is no markup to a browser: tags of its own, tags that a
\* later round looks for, and marks.
Insides == {<< >>, <<Word("x")>>, <<Word("x"), Lt, Word("x")>>,
            <<Opening("p"), Gt, Word("x"), Closing("p"), Word("x")>>,
            <<Opening("svg"), Gt, Word("x")>>}

Pieces ==
  {Piece("text", "", inside) : inside \in Texts}
  \cup {Piece("block", tag, inside) : tag \in {"script", "style"}, inside \in Insides}
  \cup {Piece("block", "svg", <<Opening("p"), Gt, Word("x")>>)}
  \cup {Piece("element", tag, inside) : tag \in {"title", "h1", "p"},
          inside \in {<<Word("a")>>, <<Space>>, <<Amp, Word("gt;"), Word("b")>>}}
  \cup {Piece("named", "h1", <<Word("a")>>), Piece("comment", "", <<Word("x")>>)}

\* One of each, for the pages of three.
Few ==
  {Piece("text", "", <<Space>>), Piece("text", "", <<Amp, Word("nbsp;")>>),
   Piece("text", "", <<Word("a"), Amp, Word("amp;")>>),
   Piece("block", "script", <<Opening("svg"), Gt, Word("x")>>),
   Piece("block", "style", <<Word("x"), Lt, Word("x")>>),
   Piece("element", "title", <<Word("a")>>), Piece("element", "h1", <<Word("a")>>),
   Piece("element", "h1", <<Space>>), Piece("named", "h1", <<Word("a")>>),
   Piece("comment", "", <<Word("x")>>)}

MCPage == {<<p>> : p \in Pieces} \cup {<<p, q>> : p \in Pieces, q \in Pieces}
          \cup {<<p, q, r>> : p \in Few, q \in Few, r \in Few}
=============================================================================
