---------------------------- MODULE JsonFragments ----------------------------
(* The text of a JSON page: collect_json_text() of                            *)
(* src/src/ingestion/content.rs, which extract_text() calls on the root.      *)
(*                                                                            *)
(* The recursion is a stack of what is left to do, its calls and the keys     *)
(* pushed between them.  What it is checked against is defined by recursion.  *)
EXTENDS Integers, Sequences, SequencesExt, FiniteSetsExt

CONSTANTS Document,     \* JSON documents, with the values inside them
          Fragments,    \* the texts and keys of a document, in their order
          Nesting,      \* the depth of its deepest value
          EndsInText,   \* whether the last value visited in it is a string
          MaxDepth,     \* 64 in the code; the root is at depth 0
          MaxFragments  \* 20000 in the code

VARIABLES document,  \* the page's JSON
          todo,      \* keys and values still to handle, the next one first
          output,    \* fragments collected
          outcome    \* of the call on the root
walkVars == <<document, todo, output, outcome>>

(* JSON values; a member of an object is a pair of its key and its value. *)
String(text) == [kind |-> "string", text |-> text]
Scalar == [kind |-> "scalar"]
Array(items) == [kind |-> "array", items |-> items]
Object(members) == [kind |-> "object", members |-> members]

\* A text is a token, as those of markup are.
Token == {"word", "opening", "closing", "space", "mark"} \X STRING

Children(value) ==
  CASE value.kind = "array"  -> {value.items[i] : i \in DOMAIN value.items}
    [] value.kind = "object" -> {value.members[i][2] : i \in DOMAIN value.members}
    [] OTHER -> {}

\* A document is a finite tree of JSON values.
ASSUME DocumentAssumption ==
  /\ MaxDepth \in Nat /\ MaxFragments \in Nat \ {0}
  /\ Scalar \in Document
  /\ \A value \in Document :
       \/ value.kind = "string" /\ value = String(value.text) /\ value.text \in Token
       \/ value = Scalar
       \/ value.kind = "array" /\ value = Array(value.items) /\ value.items \in Seq(Document)
       \/ /\ value.kind = "object" /\ value = Object(value.members)
          /\ value.members \in Seq(Token \X Document)

\* What the walk should collect, how deep it has to go and what it comes to last,
\* each by recursion.
ASSUME RecursionAssumption ==
  /\ Fragments \in [Document -> Seq(Token)]
  /\ \A value \in Document :
       Fragments[value] =
         CASE value.kind = "string" -> <<value.text>>
           [] value.kind = "array" ->
                FlattenSeq([i \in DOMAIN value.items |-> Fragments[value.items[i]]])
           [] value.kind = "object" ->
                FlattenSeq([i \in DOMAIN value.members |->
                  <<value.members[i][1]>> \o Fragments[value.members[i][2]]])
           [] OTHER -> << >>
  /\ Nesting \in [Document -> Nat]
  /\ \A value \in Document :
       IF Children(value) = {}
       THEN Nesting[value] = 0
       ELSE /\ \A child \in Children(value) : Nesting[child] < Nesting[value]
            /\ \E child \in Children(value) : Nesting[child] + 1 = Nesting[value]
  /\ EndsInText \in [Document -> BOOLEAN]
  /\ \A value \in Document :
       EndsInText[value] =
         CASE value.kind = "string" -> TRUE
           [] value.kind = "array" ->
                value.items # << >> /\ EndsInText[Last(value.items)]
           [] value.kind = "object" ->
                value.members # << >> /\ EndsInText[Last(value.members)[2]]
           [] OTHER -> FALSE

Visit(value, depth) == [task |-> "visit", value |-> value, depth |-> depth]
Key(text) == [task |-> "key", text |-> text]
-----------------------------------------------------------------------------
(* The walk *)

WalkInit == /\ document \in Document /\ todo = <<Visit(document, 0)>>
            /\ output = << >> /\ outcome = "running"

Current == Head(todo)
Visiting(kind) ==
  /\ outcome = "running" /\ todo # << >> /\ Current.task = "visit"
  /\ Current.value.kind = kind

DepthExceeded(depth) == depth > MaxDepth
Full(collected) == Len(collected) >= MaxFragments

Admitted == ~DepthExceeded(Current.depth) /\ ~Full(output)

Refuse ==
  /\ \E kind \in {"string", "scalar", "array", "object"} : Visiting(kind)
  /\ \/ DepthExceeded(Current.depth) /\ outcome' = "too_deep"
     \/ ~DepthExceeded(Current.depth) /\ Full(output) /\ outcome' = "too_many"
  /\ UNCHANGED <<document, todo, output>>

Skip == /\ Visiting("scalar") /\ Admitted
        /\ todo' = Tail(todo)
        /\ UNCHANGED <<document, output, outcome>>

PushString == /\ Visiting("string") /\ Admitted
              /\ output' = Append(output, Current.value.text)
              /\ todo' = Tail(todo)
              /\ UNCHANGED <<document, outcome>>

OpenArray ==
  /\ Visiting("array") /\ Admitted
  /\ LET items == Current.value.items
     IN  todo' = [i \in DOMAIN items |-> Visit(items[i], Current.depth + 1)] \o Tail(todo)
  /\ UNCHANGED <<document, output, outcome>>

\* Mutant of Opened: the keys of an object come before all of its values.
Opened_KeysFirst(members, depth) ==
  [i \in DOMAIN members |-> Key(members[i][1])]
  \o [i \in DOMAIN members |-> Visit(members[i][2], depth)]

\* Each key goes out just before its value is visited.
Opened(members, depth) ==
  FlattenSeq([i \in DOMAIN members |-> <<Key(members[i][1]), Visit(members[i][2], depth)>>])

OpenObject ==
  /\ Visiting("object") /\ Admitted
  /\ todo' = Opened(Current.value.members, Current.depth + 1) \o Tail(todo)
  /\ UNCHANGED <<document, output, outcome>>

\* A key is pushed without a look at the limits.
PushKey == /\ outcome = "running" /\ todo # << >> /\ Current.task = "key"
           /\ output' = Append(output, Current.text)
           /\ todo' = Tail(todo)
           /\ UNCHANGED <<document, outcome>>

Finish == /\ outcome = "running" /\ todo = << >>
          /\ outcome' = "ok"
          /\ UNCHANGED <<document, todo, output>>

Walk == Refuse \/ Skip \/ PushString \/ OpenArray \/ OpenObject \/ PushKey \/ Finish
-----------------------------------------------------------------------------
(* Properties *)

\* Equal documents give equal text, keys and values where they stand: the text
\* is what the page's hash is taken of.  A document within both limits is taken
\* whole and no other is; but one with exactly as many fragments as the limit is
\* taken only when nothing is visited after the last of them, since every visit
\* finds the output full.  It is refused for a null or an empty array at its end
\* (content.rs, collect_json_text, "json_too_deep", "json_too_many_strings").
CollectedExactly ==
  LET fragments == Fragments[document]
      nesting == Nesting[document]
      Fits == \/ Len(fragments) < MaxFragments
              \/ Len(fragments) = MaxFragments /\ EndsInText[document]
  IN  /\ IsPrefix(output, fragments)
      /\ outcome = "ok" => output = fragments /\ nesting <= MaxDepth /\ Fits
      /\ outcome = "too_deep" => nesting > MaxDepth
      /\ outcome = "too_many" => ~Fits
=============================================================================
