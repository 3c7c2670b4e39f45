-------------------------- MODULE LinkDiscoveryProofs --------------------------
(***************************************************************************)
(* Theorems about LinkDiscovery, for every set of pages.  The scan never   *)
(* stands inside a character and finds the values of the attributes in     *)
(* their order; a call returns the first pages they link to, never more    *)
(* than it was asked for.                                                  *)
(***************************************************************************)
EXTENDS LinkDiscovery, ListLemmas

\* While the scan runs no value has been looked at yet; while values are looked
\* at there is room for a link.
Room ==
  /\ IsFiniteSet(DOMAIN links)
  /\ stage \in {"start", "scan"} => next = 1 /\ DOMAIN links = {}
  /\ stage \in {"scan", "links"} => Cardinality(DOMAIN links) < call.max_links

LinkInv ==
  /\ call \in Call /\ markup = Markup(call.page)
  /\ values \in Seq(Seq(Byte))
  /\ LinksTypeOK
  /\ Room

\* The smaller of two positions.
LEMMA SmallerOf ==
  ASSUME NEW a \in Int, NEW b \in Int
  PROVE  Min({a, b}) = IF a <= b THEN a ELSE b
BY DEF Min

-----------------------------------------------------------------------------
(* How a page is written *)

WrittenPieces(page) == [i \in DOMAIN page |-> Written(page[i])]

\* A piece is a sequence of bytes.
LEMMA WrittenBytes ==
  ASSUME NEW piece \in HtmlText \cup HtmlAttribute
  PROVE  Written(piece) \in Seq(Byte)
<1>1. {"href", "=", " ", ">"} \cup Quotes \subseteq Byte
  BY StrAssumption
<1>2. CASE piece \in HtmlText
  BY <1>2 DEF HtmlText, Written
<1>3. CASE piece \in HtmlAttribute
  <2>1. piece.kind # "text" /\ piece.gap \in Seq({" "}) /\ piece.value \in Seq(Byte)
        /\ piece.quote \in {<< >>} \cup {<<q>> : q \in Quotes}
    BY <1>3 DEF HtmlAttribute
  <2>2. \A x \in Byte : <<x>> \in Seq(Byte)
    OBVIOUS
  <2>3. /\ <<"href">> \in Seq(Byte) /\ <<"=">> \in Seq(Byte) /\ <<">">> \in Seq(Byte)
    <3>1. "href" \in Byte /\ "=" \in Byte /\ ">" \in Byte
      BY <1>1
    <3> QED
      BY <2>2, <3>1
  <2>4. piece.quote \in Seq(Byte)
    <3>1. \A q \in Quotes : q \in Byte
      BY <1>1
    <3>2. << >> \in Seq(Byte)
      OBVIOUS
    <3> QED
      BY <2>1, <2>2, <3>1, <3>2
  <2>5. piece.gap \in Seq(Byte)
    <3>1. {" "} \subseteq Byte
      BY <1>1
    <3> QED
      BY <2>1, <3>1, SeqMonotonic
  <2> QED
    BY <2>1, <2>3, <2>4, <2>5, ConcatProperties DEF Written
<1> QED
  BY <1>2, <1>3

\* Markup is its pieces, one after the other.
LEMMA MarkupPieces ==
  ASSUME NEW page \in Page
  PROVE  /\ page \in Seq(HtmlText \cup HtmlAttribute)
         /\ DOMAIN page = 1 .. Len(page) /\ Len(page) \in Nat
         /\ WrittenPieces(page) \in Seq(Seq(Byte)) /\ Len(WrittenPieces(page)) = Len(page)
         /\ \A i \in 1 .. Len(page) : WrittenPieces(page)[i] = Written(page[i])
         /\ Markup(page) = FlattenSeq(WrittenPieces(page))
         /\ Markup(page) \in Seq(Byte)
         /\ \A n \in 0 .. Len(page) : Markup(SubSeq(page, 1, n)) = Flat(WrittenPieces(page), n)
<1>1. /\ page \in Seq(HtmlText \cup HtmlAttribute)
      /\ DOMAIN page = 1 .. Len(page) /\ Len(page) \in Nat
  BY StrAssumption, LenProperties
<1> DEFINE W == WrittenPieces(page)
<1>2. W = [i \in 1 .. Len(page) |-> Written(page[i])]
  BY <1>1 DEF WrittenPieces
<1>3. \A i \in 1 .. Len(page) : Written(page[i]) \in Seq(Byte)
  BY <1>1, WrittenBytes
<1>4. W \in Seq(Seq(Byte)) /\ Len(W) = Len(page)
  BY <1>1, <1>2, <1>3
<1>5. \A i \in 1 .. Len(page) : W[i] = Written(page[i])
  BY <1>2
<1>6. Markup(page) = FlattenSeq(W)
  BY DEF Markup, WrittenPieces
<1>7. FlattenSeq(W) \in Seq(Byte)
  BY <1>4, FlattenType
<1>8. ASSUME NEW n \in 0 .. Len(page) PROVE Markup(SubSeq(page, 1, n)) = Flat(W, n)
  <2>1. /\ SubSeq(W, 1, n) = [i \in 1 .. n |-> W[i]]
        /\ DOMAIN SubSeq(page, 1, n) = 1 .. n
        /\ \A i \in 1 .. n : SubSeq(page, 1, n)[i] = page[i]
    BY <1>1, <1>4
  <2>2. SubSeq(W, 1, n) = [i \in 1 .. n |-> Written(SubSeq(page, 1, n)[i])]
    BY <1>1, <1>5, <2>1
  <2> QED
    BY <2>1, <2>2 DEF Markup, Flat
<1> HIDE DEF W
<1> QED
  BY <1>1, <1>4, <1>5, <1>6, <1>7, <1>8 DEF W

\* Markup is a sequence of bytes in which no character starts with "cont".
LEMMA MarkupBytes ==
  ASSUME call \in Call, markup = Markup(call.page)
  PROVE  /\ markup \in Seq(Byte) /\ Len(markup) \in Nat /\ End \in Nat
         /\ DOMAIN markup = 1 .. Len(markup)
         /\ \A i \in 1 .. Len(markup) : markup[i] = "cont" => i > 1 /\ markup[i - 1] = "lead"
<1>1. call.page \in Page
  BY DEF Call
<1>2. markup \in Seq(Byte)
  BY <1>1, MarkupPieces
<1>3. \A i \in DOMAIN markup : markup[i] = "cont" => i > 1 /\ markup[i - 1] = "lead"
  BY <1>1, StrAssumption
<1> QED
  BY <1>2, <1>3, LenProperties DEF End

\* The position after an "href" and its spaces does not lie inside a character.
LEMMA AfterHref ==
  ASSUME LinkInv, NEW h \in cursor .. End, NEW k \in h + 1 .. End, HrefAt(h, k)
  PROVE  k \in 1 .. End /\ (k = End \/ markup[k] # "cont")
<1>1. cursor \in 1 .. End /\ End \in Nat /\ Len(markup) \in Nat
  BY MarkupBytes DEF LinkInv, LinksTypeOK
<1>2. /\ h < End /\ markup[h] = "href"
      /\ \A n \in h + 1 .. k - 1 : ~(markup[n] # " ")
  BY DEF HrefAt, PastSpaces, IsFirst
<1>3. ASSUME k # End, markup[k] = "cont" PROVE FALSE
  <2>1. k \in 1 .. Len(markup) /\ k - 1 \in h .. k - 1
    BY <1>1, <1>3 DEF End
  <2>2. markup[k - 1] = "lead"
    BY <1>3, <2>1, MarkupBytes DEF LinkInv
  <2>3. k - 1 = h \/ k - 1 \in h + 1 .. k - 1
    BY <1>1, <2>1
  <2> QED
    BY <1>2, <2>2, <2>3
<1> QED
  BY <1>1, <1>3

\* A value is a part of the markup.
LEMMA ValuePart ==
  ASSUME LinkInv, NEW start \in 1 .. End, NEW stop \in start .. End
  PROVE  Valued(start, stop) \in Seq(Seq(Byte))
<1>1. /\ markup \in Seq(Byte) /\ Len(markup) \in Nat /\ End \in Nat /\ values \in Seq(Seq(Byte))
  BY MarkupBytes DEF LinkInv
<1>2. start < stop => SubSeq(markup, start, stop - 1) \in Seq(Byte)
  BY <1>1, SubSeqProperties DEF End
<1> QED
  BY <1>1, <1>2, AppendProperties DEF Valued

\* Nothing has been looked at yet.
LEMMA InitEstablishes == Init => LinkInv
<1> SUFFICES ASSUME Init PROVE LinkInv
  OBVIOUS
<1>1. /\ call \in Call /\ markup = Markup(call.page) /\ stage = "start" /\ cursor = 1
      /\ values = << >> /\ next = 1 /\ links = << >>
  BY DEF Init
<1>2. DOMAIN links = {} /\ IsFiniteSet({}) /\ Cardinality({}) = 0
  BY <1>1, FS_EmptySet
<1>3. /\ End \in Nat /\ End >= 1 /\ (cursor = End \/ markup[cursor] # "cont")
  <2>1. /\ Len(markup) \in Nat
        /\ \A i \in 1 .. Len(markup) : markup[i] = "cont" => i > 1 /\ markup[i - 1] = "lead"
    BY <1>1, MarkupBytes
  <2> QED
    BY <1>1, <2>1 DEF End
<1>4. call.max_links \in Nat
  BY <1>1, BoundsAssumption DEF Call
<1>5. LinksTypeOK
  BY <1>1, <1>2, <1>3, <1>4 DEF LinksTypeOK
<1>6. Room
  BY <1>1, <1>2 DEF Room
<1> QED
  BY <1>1, <1>5, <1>6 DEF LinkInv

\* A round of the scan leaves the cursor on a character.
LEMMA ScanKeeps ==
  ASSUME LinkInv, NoValue \/ TakeValue
  PROVE  LinkInv'
<1>1. /\ stage = "scan" /\ UNCHANGED <<call, markup, stage, next, links>>
      /\ next = 1 /\ DOMAIN links = {} /\ End' = End
  BY DEF NoValue, TakeValue, LinkInv, Room, End
<1>2. cursor \in 1 .. End /\ End \in Nat
  BY MarkupBytes DEF LinkInv, LinksTypeOK
<1>3. CASE NoValue
  <2>1. \E h \in cursor .. End : \E k \in h + 1 .. End : HrefAt(h, k) /\ cursor' = k
    BY <1>3 DEF NoValue, Resume
  <2>2. cursor' \in 1 .. End /\ (cursor' = End \/ markup[cursor'] # "cont")
    BY <2>1, AfterHref
  <2>3. values' = values
    BY <1>3 DEF NoValue
  <2>4. LinksTypeOK'
    BY <1>1, <2>2, <2>3 DEF LinkInv, LinksTypeOK, Accepted
  <2>5. Room'
    BY <1>1 DEF LinkInv, Room
  <2> QED
    BY <1>1, <2>3, <2>4, <2>5 DEF LinkInv
<1>4. CASE TakeValue
  <2> DEFINE Taken(open, start, stop) ==
        /\ stop < End => Closes(open, markup[stop])
        /\ values' = Valued(start, stop)
        /\ cursor' = Min({stop + 1, End})
  <2>1. \E h \in cursor .. End : \E k \in h + 1 .. End : \E v \in k + 1 .. End :
          /\ v < End
          /\ LET open == markup[v]
                 start == IF open \in Quotes THEN v + 1 ELSE v
             IN  \E stop \in start .. End : Taken(open, start, stop)
    BY <1>4 DEF TakeValue, IsFirst
  <2>2. PICK v \in 1 .. End :
          /\ v < End
          /\ LET open == markup[v]
                 start == IF open \in Quotes THEN v + 1 ELSE v
             IN  \E stop \in start .. End : Taken(open, start, stop)
    <3> HIDE DEF Taken
    <3> QED
      BY <1>2, <2>1
  <2> DEFINE start == IF markup[v] \in Quotes THEN v + 1 ELSE v
  <2>2a. start \in 1 .. End
    BY <1>2, <2>2
  <2>2b. PICK stop \in start .. End : Taken(markup[v], start, stop)
    BY <2>2
  <2>3. values' \in Seq(Seq(Byte))
    BY <2>2a, <2>2b, ValuePart
  <2>4. cursor' \in 1 .. End /\ (cursor' = End \/ markup[cursor'] # "cont")
    <3>1. cursor' = IF stop + 1 <= End THEN stop + 1 ELSE End
      BY <1>2, <2>2a, <2>2b, SmallerOf
    <3>2. ASSUME stop + 1 < End, markup[stop + 1] = "cont" PROVE FALSE
      <4>1. markup[stop] = "lead"
        <5>1. stop + 1 \in 1 .. Len(markup) /\ stop + 1 - 1 = stop
          BY <1>2, <2>2a, <2>2b, <3>2, MarkupBytes DEF End, LinkInv
        <5> QED
          BY <3>2, <5>1, MarkupBytes DEF LinkInv
      <4>2. Closes(markup[v], markup[stop])
        BY <1>2, <2>2a, <2>2b, <3>2
      <4> QED
        BY <4>1, <4>2 DEF Closes, Quotes
    <3> QED
      BY <1>2, <2>2a, <2>2b, <3>1, <3>2
  <2>5. LinksTypeOK'
    <3>1. Len(values') \in Nat
      BY <2>3
    <3> QED
      BY <1>1, <2>4, <3>1 DEF LinkInv, LinksTypeOK, Accepted
  <2>6. Room'
    BY <1>1 DEF LinkInv, Room
  <2> QED
    BY <1>1, <2>3, <2>5, <2>6 DEF LinkInv
<1> QED
  BY <1>3, <1>4

\* A value that is looked at adds at most one link, and there was room for it.
LEMMA AddLinkKeeps ==
  ASSUME LinkInv, AddLink
  PROVE  LinkInv'
<1> DEFINE c == Resolved(values[next]).canonical
<1>1. /\ Looking /\ Accepted(values[next]) /\ next' = next + 1
      /\ UNCHANGED <<call, markup, cursor, values>> /\ End' = End
      /\ stage' = IF AtLimit(links') THEN "done" ELSE "links"
  BY DEF AddLink, End
<1>2. DOMAIN links' = DOMAIN links \cup {c}
  BY DEF AddLink, WithLink
<1>3. /\ IsFiniteSet(DOMAIN links) /\ Cardinality(DOMAIN links) \in Nat
      /\ Cardinality(DOMAIN links) < call.max_links /\ call.max_links \in Nat
  BY <1>1, FS_CardinalityType, BoundsAssumption DEF LinkInv, Room, Looking, Call
<1>4. /\ IsFiniteSet(DOMAIN links')
      /\ Cardinality(DOMAIN links') \in Nat
      /\ Cardinality(DOMAIN links') <= Cardinality(DOMAIN links) + 1
  <2>1. /\ IsFiniteSet(DOMAIN links \cup {c})
        /\ \/ Cardinality(DOMAIN links \cup {c}) = Cardinality(DOMAIN links)
           \/ Cardinality(DOMAIN links \cup {c}) = Cardinality(DOMAIN links) + 1
    BY <1>3, FS_AddElement
  <2>2. /\ IsFiniteSet(DOMAIN links')
        /\ \/ Cardinality(DOMAIN links') = Cardinality(DOMAIN links)
           \/ Cardinality(DOMAIN links') = Cardinality(DOMAIN links) + 1
    BY <1>2, <2>1, Zenon
  <2> QED
    BY <1>3, <2>2
<1>5. next \in 1 .. Len(values) /\ Len(values) \in Nat
  BY <1>1 DEF LinkInv, LinksTypeOK, Looking
<1>6. LinksTypeOK'
  <2>1. DOMAIN links' \subseteq
          {Resolved(values[i]).canonical : i \in {k \in 1 .. next' - 1 : Accepted(values[k])}}
    <3> DEFINE From(n) == {Resolved(values[i]).canonical : i \in {k \in 1 .. n : Accepted(values[k])}}
    <3> SUFFICES ASSUME NEW d \in DOMAIN links' PROVE d \in From(next' - 1)
      OBVIOUS
    <3>1. next' - 1 = next /\ next \in 1 .. next /\ \A k \in 1 .. next - 1 : k \in 1 .. next
      BY <1>1, <1>5
    <3>2. CASE d \in DOMAIN links
      <4>1. PICK i \in 1 .. next - 1 : Accepted(values[i]) /\ d = Resolved(values[i]).canonical
        BY <3>2 DEF LinkInv, LinksTypeOK
      <4> QED
        BY <3>1, <4>1
    <3>3. CASE d = c
      BY <1>1, <3>1, <3>3
    <3> QED
      BY <1>2, <3>2, <3>3
  <2>2. Cardinality(DOMAIN links') <= call.max_links
    BY <1>3, <1>4
  <2> QED
    BY <1>1, <1>5, <2>1, <2>2 DEF LinkInv, LinksTypeOK, Accepted
<1>7. Room'
  BY <1>1, <1>3, <1>4 DEF Room, AtLimit
<1> QED
  BY <1>1, <1>6, <1>7 DEF LinkInv

\* The other steps move on in the page or in the list of its values.
LEMMA StepKeeps ==
  ASSUME LinkInv, [Next]_vars
  PROVE  LinkInv'
<1>1. CASE NoValue \/ TakeValue
  BY <1>1, ScanKeeps
<1>2. CASE AddLink
  BY <1>2, AddLinkKeeps
<1>3. CASE Start
  <2>1. UNCHANGED <<call, markup, cursor, values, next, links>> /\ stage = "start"
    BY <1>3 DEF Start
  <2>2. stage' = "refused" \/ (stage' = "scan" /\ call.max_links \in 1 .. LinkCeiling)
    BY <1>3 DEF Start
  <2>3. Cardinality({}) = 0 /\ LinkCeiling \in Nat
    BY FS_EmptySet, BoundsAssumption
  <2>4. LinksTypeOK'
    BY <2>1, <2>2 DEF LinkInv, LinksTypeOK, Accepted, End
  <2>5. Room'
    BY <2>1, <2>2, <2>3 DEF LinkInv, Room
  <2> QED
    BY <2>1, <2>4, <2>5 DEF LinkInv
<1>4. CASE EndScan \/ Finish
  <2>1. UNCHANGED <<call, markup, cursor, values, next, links>>
        /\ ((stage = "scan" /\ stage' = "links") \/ stage' = "done")
    BY <1>4 DEF EndScan, Finish
  <2>2. LinksTypeOK'
    BY <2>1 DEF LinkInv, LinksTypeOK, Accepted, End
  <2>3. Room'
    BY <2>1 DEF LinkInv, Room
  <2> QED
    BY <2>1, <2>2, <2>3 DEF LinkInv
<1>5. CASE SkipValue
  <2>1. UNCHANGED <<call, markup, cursor, stage, values, links>> /\ next' = next + 1
        /\ next <= Len(values) /\ stage = "links"
    BY <1>5 DEF SkipValue, Looking
  <2>2. next \in Nat /\ Len(values) \in Nat
    BY DEF LinkInv, LinksTypeOK
  <2>3. LinksTypeOK'
    BY <2>1, <2>2 DEF LinkInv, LinksTypeOK, Accepted, End
  <2>4. Room'
    BY <2>1 DEF LinkInv, Room
  <2> QED
    BY <2>1, <2>3, <2>4 DEF LinkInv
<1>6. CASE UNCHANGED vars
  BY <1>6 DEF vars, LinkInv, LinksTypeOK, Room, Accepted, End
<1> QED
  BY <1>1, <1>2, <1>3, <1>4, <1>5, <1>6 DEF Next, Discover, Done

\* For every set of pages, the scan and the loop over its values keep the
\* invariant.
THEOREM LinkInvariance == Spec => []LinkInv
BY InitEstablishes, StepKeeps, PTL DEF Spec

\* extract_href_values never slices the page inside a character, and
\* discover_links never holds more links than max_links.
THEOREM LinksTypeCorrect == Spec => []LinksTypeOK
<1>1. LinkInv => LinksTypeOK
  BY DEF LinkInv
<1> QED
  BY <1>1, LinkInvariance, PTL
-----------------------------------------------------------------------------
(* The scan against the pieces of the page *)

\* Where the pieces start and what they are made of, byte by byte.
LEMMA PieceAt ==
  ASSUME NEW page \in Page
  PROVE  /\ Offset(page, 1) = 0
         /\ Offset(page, Len(page) + 1) = Len(Markup(page))
         /\ \A i \in 1 .. Len(page) + 1 : Offset(page, i) \in Nat
         /\ \A i \in 1 .. Len(page) : \A j \in i .. Len(page) : Offset(page, i + 1) <= Offset(page, j + 1)
         /\ \A i \in 1 .. Len(page) :
              /\ Offset(page, i + 1) = Offset(page, i) + Len(Written(page[i]))
              /\ Offset(page, i + 1) <= Len(Markup(page))
              /\ \A d \in 1 .. Len(Written(page[i])) :
                   Markup(page)[Offset(page, i) + d] = Written(page[i])[d]
         /\ \A h \in 1 .. Len(Markup(page)) : \E i \in 1 .. Len(page) :
              h > Offset(page, i) /\ h <= Offset(page, i + 1)
<1>1. PICK W : W = WrittenPieces(page)
  OBVIOUS
<1>2. PICK N \in Nat : N = Len(page)
  BY MarkupPieces
<1>3. /\ W \in Seq(Seq(Byte)) /\ Len(W) = N
      /\ \A i \in 1 .. N : W[i] = Written(page[i])
      /\ Markup(page) = FlattenSeq(W)
      /\ \A n \in 0 .. N : Markup(SubSeq(page, 1, n)) = Flat(W, n)
  BY <1>1, <1>2, MarkupPieces, Zenon
<1>4. \A i \in 1 .. N + 1 : Offset(page, i) = Len(Flat(W, i - 1))
  BY <1>2, <1>3 DEF Offset
<1>5. \A n \in 0 .. N : Offset(page, n + 1) = Len(Flat(W, n))
  BY <1>2, <1>4
<1>6. /\ Len(Flat(W, 0)) = 0
      /\ Len(Flat(W, N)) = Len(FlattenSeq(W))
      /\ \A n \in 0 .. N : Len(Flat(W, n)) \in Nat
      /\ \A n \in 1 .. N : Len(Flat(W, n)) = Len(Flat(W, n - 1)) + Len(W[n])
      /\ \A m \in 0 .. N : \A n \in m .. N : Len(Flat(W, m)) <= Len(Flat(W, n))
  BY <1>3, FlatLengths, Zenon
<1>7. /\ Offset(page, 1) = 0
      /\ Offset(page, N + 1) = Len(Markup(page))
  BY <1>2, <1>3, <1>4, <1>5, <1>6
<1>8. \A i \in 1 .. N + 1 : Offset(page, i) \in Nat
  BY <1>2, <1>4, <1>6
<1>9. \A i \in 1 .. N : \A j \in i .. N : Offset(page, i + 1) <= Offset(page, j + 1)
  BY <1>2, <1>5, <1>6
<1>10. ASSUME NEW i \in 1 .. N
       PROVE  /\ Offset(page, i + 1) = Offset(page, i) + Len(Written(page[i]))
              /\ Offset(page, i + 1) <= Len(Markup(page))
              /\ \A d \in 1 .. Len(Written(page[i])) :
                   Markup(page)[Offset(page, i) + d] = Written(page[i])[d]
  <2>1. Offset(page, i + 1) = Len(Flat(W, i)) /\ Offset(page, i) = Len(Flat(W, i - 1))
    BY <1>2, <1>4, <1>5
  <2>2. W[i] = Written(page[i]) /\ i \in 0 .. N /\ N \in i .. N
    BY <1>2, <1>3
  <2>3. Len(Flat(W, i)) = Len(Flat(W, i - 1)) + Len(W[i]) /\ Len(Flat(W, i)) <= Len(Flat(W, N))
    BY <1>6, <2>2
  <2>4. ASSUME NEW d \in 1 .. Len(W[i])
        PROVE  FlattenSeq(W)[Len(Flat(W, i - 1)) + d] = W[i][d]
    BY <1>3, PartOfFlat
  <2> QED
    BY <1>3, <1>6, <2>1, <2>2, <2>3, <2>4
<1>11. ASSUME NEW h \in 1 .. Len(Markup(page))
       PROVE  \E i \in 1 .. N : h > Offset(page, i) /\ h <= Offset(page, i + 1)
  <2>1. \E i \in 1 .. N : h > Len(Flat(W, i - 1)) /\ h <= Len(Flat(W, i))
    BY <1>3, PartAtFlat
  <2>2. \A i \in 1 .. N : Offset(page, i + 1) = Len(Flat(W, i)) /\ Offset(page, i) = Len(Flat(W, i - 1))
    BY <1>2, <1>4, <1>5
  <2> QED
    BY <2>1, <2>2
<1> QED
  BY <1>2, <1>7, <1>8, <1>9, <1>10, <1>11

\* What an attribute is made of.
LEMMA AttributeParts ==
  ASSUME NEW attribute \in HtmlAttribute
  PROVE  /\ attribute.kind # "text"
         /\ attribute.gap \in Seq(Byte) /\ \A i \in 1 .. Len(attribute.gap) : attribute.gap[i] = " "
         /\ attribute.value \in Seq(Byte)
         /\ attribute.quote \in Seq(Byte)
         /\ \/ attribute.quote = << >> /\ Len(attribute.quote) = 0
            \/ /\ attribute.quote # << >> /\ Len(attribute.quote) = 1
               /\ attribute.quote[1] \in Quotes
<1>1. {"href", "=", " ", ">"} \cup Quotes \subseteq Byte
  BY StrAssumption
<1>2. /\ attribute.kind = "attribute" /\ attribute.gap \in Seq({" "}) /\ attribute.value \in Seq(Byte)
      /\ attribute.quote \in {<< >>} \cup {<<q>> : q \in Quotes}
  BY DEF HtmlAttribute
<1>3. PICK gap : gap = attribute.gap /\ gap \in Seq({" "})
  BY <1>2
<1>4. gap \in Seq(Byte) /\ \A i \in 1 .. Len(gap) : gap[i] = " "
  <2>1. {" "} \subseteq Byte
    BY <1>1
  <2>2. \A i \in 1 .. Len(gap) : gap[i] \in {" "}
    BY <1>3, ElementOfSeq
  <2> QED
    BY <1>3, <2>1, <2>2, SeqMonotonic
<1>5. /\ << >> \in Seq(Byte) /\ Len(<< >>) = 0
      /\ \A q \in Quotes : <<q>> \in Seq(Byte) /\ <<q>> # << >> /\ Len(<<q>>) = 1 /\ <<q>>[1] = q
  <2>1. Quotes \subseteq Byte
    BY <1>1
  <2>2. \A q \in Byte : <<q>> \in Seq(Byte) /\ <<q>> # << >> /\ Len(<<q>>) = 1 /\ <<q>>[1] = q
    OBVIOUS
  <2>3. << >> \in Seq(Byte) /\ Len(<< >>) = 0
    OBVIOUS
  <2> QED
    BY <2>1, <2>2, <2>3, Zenon
<1>6. attribute.quote = << >> \/ \E q \in Quotes : attribute.quote = <<q>>
  BY <1>2, Zenon
<1>7. "attribute" # "text"
  OBVIOUS
<1> QED
  BY <1>2, <1>3, <1>4, <1>5, <1>6, <1>7, Zenon

\* How an attribute is laid out behind the first o bytes of a page: its "=" is at
\* e, the first byte after that and its spaces at v, its value from s to t - 1,
\* and its last byte at z.
LaidOut(bytes, attribute, o, e, v, s, t, z) ==
  /\ bytes[o + 1] = "href" /\ e > o + 1
  /\ \A n \in o + 2 .. e - 1 : bytes[n] = " "
  /\ bytes[e] = "=" /\ v > e
  /\ \A n \in e + 1 .. v - 1 : bytes[n] = " "
  /\ t = s + Len(attribute.value)
  /\ \A d \in 1 .. Len(attribute.value) : bytes[s + d - 1] = attribute.value[d]
  /\ IF attribute.quote = << >>
     THEN s = v /\ z = t
     ELSE /\ s = v + 1 /\ z = t + 1
          /\ attribute.quote[1] \in Quotes
          /\ bytes[v] = attribute.quote[1] /\ bytes[t] = attribute.quote[1]
  /\ bytes[z] = ">"

\* The parts stand behind the first o bytes of w, each at the end of the one before.
InOrder(w, o, a, b, c, gap, quote, value) ==
  \E p1, p2, p3, p4, p5, p6, p7 \in Nat :
    /\ p1 = o + Len(a) /\ p2 = p1 + Len(gap) /\ p3 = p2 + Len(b) /\ p4 = p3 + Len(gap)
    /\ p5 = p4 + Len(quote) /\ p6 = p5 + Len(value) /\ p7 = p6 + Len(quote)
    /\ o + Len(a \o gap \o b \o gap \o quote \o value \o quote \o c) = p7 + Len(c)
    /\ Holds(w, o, a) /\ Holds(w, p1, gap) /\ Holds(w, p2, b) /\ Holds(w, p3, gap)
    /\ Holds(w, p4, quote) /\ Holds(w, p5, value) /\ Holds(w, p6, quote) /\ Holds(w, p7, c)

\* The parts of an attribute stand one behind the other.
LEMMA PartsHold ==
  ASSUME NEW w, NEW o \in Nat,
         NEW a \in Seq(Byte), NEW b \in Seq(Byte), NEW c \in Seq(Byte),
         NEW gap \in Seq(Byte), NEW quote \in Seq(Byte), NEW value \in Seq(Byte),
         Holds(w, o, a \o gap \o b \o gap \o quote \o value \o quote \o c)
  PROVE  InOrder(w, o, a, b, c, gap, quote, value)
<1>1. \A s, t \in Seq(Byte) : s \o t \in Seq(Byte) /\ Len(s \o t) = Len(s) + Len(t)
  OBVIOUS
<1>2. \A s, t \in Seq(Byte) : Holds(w, o, s \o t) => Holds(w, o, s) /\ Holds(w, o + Len(s), t)
  BY HoldsParts, Zenon
<1>3. /\ Len(a) \in Nat /\ Len(b) \in Nat /\ Len(c) \in Nat
      /\ Len(gap) \in Nat /\ Len(quote) \in Nat /\ Len(value) \in Nat
  OBVIOUS
<1> DEFINE s1 == a \o gap
           s2 == s1 \o b
           s3 == s2 \o gap
           s4 == s3 \o quote
           s5 == s4 \o value
           s6 == s5 \o quote
<1>4. Holds(w, o, s6 \o c)
  OBVIOUS
<1>5. s1 \in Seq(Byte) /\ Len(s1) = Len(a) + Len(gap)
  BY <1>1, Zenon
<1> HIDE DEF s1
<1>6. s2 \in Seq(Byte) /\ Len(s2) = Len(s1) + Len(b)
  BY <1>1, <1>5, Zenon
<1> HIDE DEF s2
<1>7. s3 \in Seq(Byte) /\ Len(s3) = Len(s2) + Len(gap)
  BY <1>1, <1>6, Zenon
<1> HIDE DEF s3
<1>8. s4 \in Seq(Byte) /\ Len(s4) = Len(s3) + Len(quote)
  BY <1>1, <1>7, Zenon
<1> HIDE DEF s4
<1>9. s5 \in Seq(Byte) /\ Len(s5) = Len(s4) + Len(value)
  BY <1>1, <1>8, Zenon
<1> HIDE DEF s5
<1>10. s6 \in Seq(Byte) /\ Len(s6) = Len(s5) + Len(quote)
  BY <1>1, <1>9, Zenon
<1> HIDE DEF s6
<1>10a. Len(s6 \o c) = Len(s6) + Len(c)
  BY <1>1, <1>10, Zenon
<1>10b. s6 \o c = a \o gap \o b \o gap \o quote \o value \o quote \o c
  BY DEF s1, s2, s3, s4, s5, s6
<1>11. Holds(w, o, s6) /\ Holds(w, o + Len(s6), c)
  BY <1>2, <1>4, <1>10, Zenon
<1>12. Holds(w, o, s5) /\ Holds(w, o + Len(s5), quote)
  BY <1>2, <1>9, <1>11, Zenon DEF s6
<1>13. Holds(w, o, s4) /\ Holds(w, o + Len(s4), value)
  BY <1>2, <1>8, <1>12, Zenon DEF s5
<1>14. Holds(w, o, s3) /\ Holds(w, o + Len(s3), quote)
  BY <1>2, <1>7, <1>13, Zenon DEF s4
<1>15. Holds(w, o, s2) /\ Holds(w, o + Len(s2), gap)
  BY <1>2, <1>6, <1>14, Zenon DEF s3
<1>16. Holds(w, o, s1) /\ Holds(w, o + Len(s1), b)
  BY <1>2, <1>5, <1>15, Zenon DEF s2
<1>17. Holds(w, o, a) /\ Holds(w, o + Len(a), gap)
  BY <1>2, <1>16, Zenon DEF s1
<1>18a. /\ Len(s1) \in Nat /\ Len(s2) \in Nat /\ Len(s3) \in Nat
        /\ Len(s4) \in Nat /\ Len(s5) \in Nat /\ Len(s6) \in Nat
  BY <1>5, <1>6, <1>7, <1>8, <1>9, <1>10, LenProperties, Zenon
<1>18. /\ o + Len(a) \in Nat
       /\ o + Len(s1) \in Nat /\ o + Len(s1) = (o + Len(a)) + Len(gap)
       /\ o + Len(s2) \in Nat /\ o + Len(s2) = (o + Len(s1)) + Len(b)
       /\ o + Len(s3) \in Nat /\ o + Len(s3) = (o + Len(s2)) + Len(gap)
       /\ o + Len(s4) \in Nat /\ o + Len(s4) = (o + Len(s3)) + Len(quote)
       /\ o + Len(s5) \in Nat /\ o + Len(s5) = (o + Len(s4)) + Len(value)
       /\ o + Len(s6) \in Nat /\ o + Len(s6) = (o + Len(s5)) + Len(quote)
  <2>1. o + Len(a) \in Nat
    BY <1>3
  <2>2. o + Len(s1) \in Nat /\ o + Len(s1) = (o + Len(a)) + Len(gap)
    BY <1>3, <1>5, <1>18a
  <2>3. o + Len(s2) \in Nat /\ o + Len(s2) = (o + Len(s1)) + Len(b)
    BY <1>3, <1>6, <1>18a
  <2>4. o + Len(s3) \in Nat /\ o + Len(s3) = (o + Len(s2)) + Len(gap)
    BY <1>3, <1>7, <1>18a
  <2>5. o + Len(s4) \in Nat /\ o + Len(s4) = (o + Len(s3)) + Len(quote)
    BY <1>3, <1>8, <1>18a
  <2>6. o + Len(s5) \in Nat /\ o + Len(s5) = (o + Len(s4)) + Len(value)
    BY <1>3, <1>9, <1>18a
  <2>7. o + Len(s6) \in Nat /\ o + Len(s6) = (o + Len(s5)) + Len(quote)
    BY <1>3, <1>10, <1>18a
  <2> QED
    BY <2>1, <2>2, <2>3, <2>4, <2>5, <2>6, <2>7, Zenon
<1>19. o + (Len(s6) + Len(c)) = (o + Len(s6)) + Len(c)
  <2>1. Len(s6) \in Nat
    BY <1>10
  <2> QED
    BY <1>3, <2>1
<1> HIDE DEF Holds
<1> QED
  BY <1>10a, <1>10b, <1>11, <1>12, <1>13, <1>14, <1>15, <1>16, <1>17, <1>18, <1>19, Zenon DEF InOrder

\* An attribute is laid out as it is written.
LEMMA AttributeLayout ==
  ASSUME NEW w, NEW o \in Nat, NEW attribute \in HtmlAttribute,
         Holds(w, o, Written(attribute))
  PROVE  \E e, v, s, t \in Nat :
           LaidOut(w, attribute, o, e, v, s, t, o + Len(Written(attribute)))
<1>1. PICK a, b, c :
        /\ a = <<"href">> /\ b = <<"=">> /\ c = <<">">>
        /\ a \in Seq(Byte) /\ b \in Seq(Byte) /\ c \in Seq(Byte)
        /\ Len(a) = 1 /\ Len(b) = 1 /\ Len(c) = 1
        /\ a[1] = "href" /\ b[1] = "=" /\ c[1] = ">"
  <2>1. "href" \in Byte /\ "=" \in Byte /\ ">" \in Byte
    BY StrAssumption
  <2>2. \A x \in Byte : <<x>> \in Seq(Byte) /\ Len(<<x>>) = 1 /\ <<x>>[1] = x
    OBVIOUS
  <2> QED
    BY <2>1, <2>2, ZenonT(40)
<1>2. PICK gap, quote, value :
        /\ gap \in Seq(Byte) /\ quote \in Seq(Byte) /\ value \in Seq(Byte)
        /\ gap = attribute.gap /\ quote = attribute.quote /\ value = attribute.value
  BY AttributeParts, Zenon
<1>3. Written(attribute) = a \o gap \o b \o gap \o quote \o value \o quote \o c
  BY <1>1, <1>2, AttributeParts, Zenon DEF Written
<1>4. PICK p1, p2, p3, p4, p5, p6, p7 \in Nat :
        /\ p1 = o + Len(a) /\ p2 = p1 + Len(gap) /\ p3 = p2 + Len(b) /\ p4 = p3 + Len(gap)
        /\ p5 = p4 + Len(quote) /\ p6 = p5 + Len(value) /\ p7 = p6 + Len(quote)
        /\ o + Len(a \o gap \o b \o gap \o quote \o value \o quote \o c) = p7 + Len(c)
        /\ Holds(w, o, a) /\ Holds(w, p1, gap) /\ Holds(w, p2, b) /\ Holds(w, p3, gap)
        /\ Holds(w, p4, quote) /\ Holds(w, p5, value) /\ Holds(w, p6, quote) /\ Holds(w, p7, c)
  <2>1. Holds(w, o, a \o gap \o b \o gap \o quote \o value \o quote \o c)
    BY <1>3, Zenon
  <2>2. /\ a \in Seq(Byte) /\ b \in Seq(Byte) /\ c \in Seq(Byte)
        /\ gap \in Seq(Byte) /\ quote \in Seq(Byte) /\ value \in Seq(Byte)
    BY <1>1, <1>2, Zenon
  <2>3. InOrder(w, o, a, b, c, gap, quote, value)
    BY <2>1, <2>2, PartsHold, Zenon
  <2> QED
    BY <2>3 DEF InOrder
<1>5. PICK g, q, l \in Nat : g = Len(gap) /\ q = Len(quote) /\ l = Len(value)
  BY <1>2, LenProperties
<1>6. /\ p1 = o + 1 /\ p2 = p1 + g /\ p3 = p2 + 1 /\ p4 = p3 + g
      /\ p5 = p4 + q /\ p6 = p5 + l /\ p7 = p6 + q
      /\ o + Len(Written(attribute)) = p7 + 1
  BY <1>1, <1>3, <1>4, <1>5, Zenon
<1>7. w[o + 1] = "href" /\ w[p2 + 1] = "=" /\ w[p7 + 1] = ">"
  <2>1. 1 \in 1 .. 1
    OBVIOUS
  <2> QED
    BY <1>1, <1>4, <2>1, Zenon DEF Holds
<1>8. \A i \in 1 .. g : w[p1 + i] = " " /\ w[p3 + i] = " "
  <2>1. \A i \in 1 .. Len(gap) : gap[i] = " "
    BY <1>2, AttributeParts, Zenon
  <2>2. \A i \in 1 .. Len(gap) : w[p1 + i] = gap[i] /\ w[p3 + i] = gap[i]
    BY <1>4, Zenon DEF Holds
  <2> QED
    BY <1>5, <2>1, <2>2, Zenon
<1>9. \A d \in 1 .. l : w[p5 + d] = value[d]
  BY <1>4, <1>5, Zenon DEF Holds
<1>10. \/ quote = << >> /\ q = 0
       \/ quote # << >> /\ q = 1 /\ quote[1] \in Quotes
          /\ w[p4 + 1] = quote[1] /\ w[p6 + 1] = quote[1]
  <2>1. \/ quote = << >> /\ q = 0
        \/ quote # << >> /\ q = 1 /\ quote[1] \in Quotes
    BY <1>2, <1>5, AttributeParts, Zenon
  <2>2. 1 \in 1 .. 1
    OBVIOUS
  <2>3. \A i \in 1 .. q : w[p4 + i] = quote[i] /\ w[p6 + i] = quote[i]
    BY <1>4, <1>5, Zenon DEF Holds
  <2> QED
    BY <2>1, <2>2, <2>3, Zenon
<1> DEFINE e == p2 + 1
           v == p4 + 1
           s == p5 + 1
           t == p6 + 1
           z == p7 + 1
<1>11. e \in Nat /\ v \in Nat /\ s \in Nat /\ t \in Nat /\ z = o + Len(Written(attribute))
  BY <1>6
<1>12. w[o + 1] = "href" /\ e > o + 1 /\ w[e] = "=" /\ v > e /\ t = s + l /\ w[z] = ">"
  BY <1>6, <1>7
<1>13. /\ \A n \in o + 2 .. e - 1 : w[n] = " "
       /\ \A n \in e + 1 .. v - 1 : w[n] = " "
  <2>1. \A n \in o + 2 .. e - 1 : n - p1 \in 1 .. g /\ p1 + (n - p1) = n
    BY <1>6
  <2>2. \A n \in e + 1 .. v - 1 : n - p3 \in 1 .. g /\ p3 + (n - p3) = n
    BY <1>6
  <2> HIDE DEF e, v
  <2> QED
    BY <1>8, <2>1, <2>2, ZenonT(40)
<1>14. \A d \in 1 .. l : w[s + d - 1] = value[d]
  <2>1. \A d \in 1 .. l : s + d - 1 = p5 + d
    OBVIOUS
  <2> HIDE DEF s
  <2> QED
    BY <1>9, <2>1, Zenon
<1>15. IF quote = << >>
       THEN s = v /\ z = t
       ELSE /\ s = v + 1 /\ z = t + 1 /\ quote[1] \in Quotes
            /\ w[v] = quote[1] /\ w[t] = quote[1]
  <2>1. (q = 0 => s = v /\ z = t) /\ (q = 1 => s = v + 1 /\ z = t + 1)
    BY <1>6
  <2>2. w[p4 + 1] = w[v] /\ w[p6 + 1] = w[t]
    OBVIOUS
  <2> HIDE DEF s, v, z, t
  <2> QED
    BY <1>10, <2>1, <2>2, Zenon
<1> HIDE DEF e, v, s, t, z
<1>16. LaidOut(w, attribute, o, e, v, s, t, z)
  BY <1>2, <1>5, <1>12, <1>13, <1>14, <1>15, Zenon DEF LaidOut
<1> QED
  BY <1>11, <1>16, Zenon

\* What the scan meets in such an attribute: the first byte after the "=" that is no
\* space is at v, and what closes the value that starts there at t.
Scanned(w, attribute, o, e, v, s, t, z) ==
  /\ w[o + 1] = "href" /\ w[e] = "="
  /\ e > o + 1 /\ v > e /\ s >= v /\ t >= s /\ z >= t
  /\ \A n \in o + 2 .. e - 1 : w[n] = " "
  /\ \A n \in e + 1 .. v - 1 : w[n] = " "
  /\ w[v] # " "
  /\ s = IF w[v] \in Quotes THEN v + 1 ELSE v
  /\ Closes(w[v], w[t])
  /\ \A n \in s .. t - 1 : ~Closes(w[v], w[n])
  /\ t = s + Len(attribute.value)
  /\ \A d \in 1 .. Len(attribute.value) : w[s + d - 1] = attribute.value[d]
  /\ z = IF attribute.quote = << >> THEN t ELSE t + 1
  /\ w[z] = ">"

\* The scan meets the value where it stands.
LEMMA ScannedAsLaidOut ==
  ASSUME NEW w, NEW attribute \in HtmlAttribute, Delimited(attribute),
         NEW o \in Nat, NEW e \in Nat, NEW v \in Nat, NEW s \in Nat, NEW t \in Nat, NEW z \in Nat,
         LaidOut(w, attribute, o, e, v, s, t, z)
  PROVE  Scanned(w, attribute, o, e, v, s, t, z)
<1>1. PICK l, value : l \in Nat /\ l = Len(attribute.value) /\ value = attribute.value
  BY AttributeParts, LenProperties, Zenon
<1> l \in Nat
  BY <1>1
<1>0. /\ w[o + 1] = "href" /\ w[e] = "=" /\ w[z] = ">"
      /\ \A n \in o + 2 .. e - 1 : w[n] = " "
      /\ \A n \in e + 1 .. v - 1 : w[n] = " "
  BY Zenon DEF LaidOut
<1>2. /\ e > o + 1 /\ v > e /\ t = s + l
      /\ \A d \in 1 .. l : w[s + d - 1] = value[d]
  BY <1>1, Zenon DEF LaidOut
<1>3. \A d \in 1 .. l :
        IF attribute.quote = << >>
        THEN value[d] \notin {" ", ">"} /\ (d = 1 => value[d] \notin Quotes)
        ELSE value[d] # attribute.quote[1]
  BY <1>1, AttributeParts, LenProperties, Zenon DEF Delimited
<1>4. \A n \in s .. t - 1 : n - s + 1 \in 1 .. l /\ s + (n - s + 1) - 1 = n
  BY <1>2
<1>5. \A n \in s .. t - 1 : w[n] = value[n - s + 1]
  BY <1>2, <1>4, Zenon
<1>6. " " \notin Quotes /\ ">" \notin Quotes
  BY DEF Quotes
<1>7. CASE attribute.quote = << >>
  <2>1. s = v /\ z = t /\ w[z] = ">"
    BY <1>7, Zenon DEF LaidOut
  <2>2. \A n \in s .. t - 1 : w[n] \notin {" ", ">"}
    BY <1>3, <1>4, <1>5, <1>7, Zenon
  <2>3. w[v] # " " /\ w[v] \notin Quotes
    <3>1. CASE l = 0
      <4>1. v = z
        BY <1>2, <2>1, <3>1
      <4>2. w[v] = ">"
        BY <2>1, <4>1, Zenon
      <4> QED
        BY <1>6, <4>2
    <3>2. CASE l # 0
      <4>1. v \in s .. t - 1 /\ v - s + 1 = 1 /\ 1 \in 1 .. l
        BY <1>2, <2>1, <3>2
      <4>2. w[v] = value[1]
        BY <1>5, <4>1, Zenon
      <4> QED
        BY <1>3, <1>7, <4>1, <4>2, Zenon
    <3> QED
      BY <3>1, <3>2
  <2>4. Closes(w[v], w[t]) /\ \A n \in s .. t - 1 : ~Closes(w[v], w[n])
    BY <2>1, <2>2, <2>3, Zenon DEF Closes
  <2>5. s >= v /\ t >= s /\ z >= t
    BY <1>2, <2>1
  <2>6. s = (IF w[v] \in Quotes THEN v + 1 ELSE v) /\ z = (IF attribute.quote = << >> THEN t ELSE t + 1)
    BY <1>7, <2>1, <2>3, Zenon
  <2> QED
    BY <1>0, <1>1, <1>2, <2>3, <2>4, <2>5, <2>6, Zenon DEF Scanned
<1>8. CASE attribute.quote # << >>
  <2>1. /\ s = v + 1 /\ z = t + 1 /\ attribute.quote[1] \in Quotes
        /\ w[v] = attribute.quote[1] /\ w[t] = attribute.quote[1]
    BY <1>8, Zenon DEF LaidOut
  <2>2. \A n \in s .. t - 1 : w[n] # attribute.quote[1]
    BY <1>3, <1>4, <1>5, <1>8, Zenon
  <2>3. w[v] # " " /\ w[v] \in Quotes
    BY <1>6, <2>1, Zenon
  <2>4. Closes(w[v], w[t]) /\ \A n \in s .. t - 1 : ~Closes(w[v], w[n])
    BY <2>1, <2>2, <2>3, Zenon DEF Closes
  <2>5. s >= v /\ t >= s /\ z >= t
    BY <1>2, <2>1
  <2>6. s = (IF w[v] \in Quotes THEN v + 1 ELSE v) /\ z = (IF attribute.quote = << >> THEN t ELSE t + 1)
    BY <1>8, <2>1, <2>3, Zenon
  <2> QED
    BY <1>0, <1>1, <1>2, <2>3, <2>4, <2>5, <2>6, Zenon DEF Scanned
<1> QED
  BY <1>7, <1>8

\* Every attribute of a page is laid out where it stands.
LEMMA AttributeAt ==
  ASSUME NEW page \in Page, NEW i \in 1 .. Len(page), page[i].kind = "attribute"
  PROVE  /\ Offset(page, i) \in Nat /\ Offset(page, i + 1) \in Nat
         /\ Offset(page, i + 1) <= Len(Markup(page))
         /\ page[i] \in HtmlAttribute
         /\ \E e, v, s, t \in Nat :
              Scanned(Markup(page), page[i], Offset(page, i), e, v, s, t, Offset(page, i + 1))
<1>1. Len(page) \in Nat /\ i \in Nat /\ i + 1 \in 1 .. Len(page) + 1 /\ i \in 1 .. Len(page) + 1
  BY MarkupPieces
<1>2. /\ Offset(page, i) \in Nat /\ Offset(page, i + 1) \in Nat
      /\ Offset(page, i + 1) <= Len(Markup(page))
      /\ Offset(page, i + 1) = Offset(page, i) + Len(Written(page[i]))
      /\ \A d \in 1 .. Len(Written(page[i])) : Markup(page)[Offset(page, i) + d] = Written(page[i])[d]
  BY <1>1, PieceAt, Zenon
<1>3. page[i] \in HtmlAttribute
  <2>1. page[i] \in HtmlText \cup HtmlAttribute
    BY MarkupPieces, ElementOfSeq
  <2>2. page[i] \notin HtmlText
    BY DEF HtmlText
  <2> QED
    BY <2>1, <2>2
<1>4. Delimited(page[i])
  <2>1. DOMAIN page = 1 .. Len(page)
    BY MarkupPieces
  <2> QED
    BY <2>1, PieceAssumption
<1>5. Holds(Markup(page), Offset(page, i), Written(page[i]))
  BY <1>2 DEF Holds
<1>6. \E e, v, s, t \in Nat :
        LaidOut(Markup(page), page[i], Offset(page, i), e, v, s, t,
                Offset(page, i) + Len(Written(page[i])))
  BY <1>2, <1>3, <1>5, AttributeLayout, Zenon
<1>7. Offset(page, i) + Len(Written(page[i])) = Offset(page, i + 1)
  BY <1>2
<1>8. \E e, v, s, t \in Nat :
        LaidOut(Markup(page), page[i], Offset(page, i), e, v, s, t, Offset(page, i + 1))
  BY <1>6, <1>7, Zenon
<1>9. \E e, v, s, t \in Nat :
        Scanned(Markup(page), page[i], Offset(page, i), e, v, s, t, Offset(page, i + 1))
  BY <1>2, <1>3, <1>4, <1>8, ScannedAsLaidOut, ZenonT(40)
<1> QED
  BY <1>2, <1>3, <1>9, Zenon

\* The values that the pieces give, and the first of them that the scan has found:
\* it stands behind piece n, and in no attribute that it has not taken.
ValueOf(piece) ==
  IF piece.kind = "attribute" /\ piece.value # << >> THEN <<piece.value>> ELSE << >>

ValuesOf(page) == [i \in DOMAIN page |-> ValueOf(page[i])]

Reached(n) ==
  /\ values = Flat(ValuesOf(call.page), n)
  /\ cursor >= Offset(call.page, n + 1)
  /\ cursor = Offset(call.page, n + 1) => markup[cursor] # "href"
  /\ \A i \in n + 1 .. Len(call.page) :
       call.page[i].kind = "attribute" => cursor <= Offset(call.page, i) + 1

\* The values are sequences of bytes, in the order of the pieces.
LEMMA ValuesOfPieces ==
  ASSUME NEW page \in Page
  PROVE  /\ ValuesOf(page) \in Seq(Seq(Seq(Byte))) /\ Len(ValuesOf(page)) = Len(page)
         /\ \A i \in 1 .. Len(page) : ValuesOf(page)[i] = ValueOf(page[i])
         /\ HrefsOf(page) = FlattenSeq(ValuesOf(page))
<1>1. Len(page) \in Nat /\ DOMAIN page = 1 .. Len(page)
  BY MarkupPieces
<1>2. ASSUME NEW i \in 1 .. Len(page) PROVE ValueOf(page[i]) \in Seq(Seq(Byte))
  <2>1. CASE page[i].kind = "attribute"
    <3>1. page[i].value \in Seq(Byte)
      BY <2>1, AttributeAt, AttributeParts
    <3>2. \A value \in Seq(Byte) : <<value>> \in Seq(Seq(Byte))
      OBVIOUS
    <3>3. << >> \in Seq(Seq(Byte))
      OBVIOUS
    <3> QED
      BY <3>1, <3>2, <3>3, Zenon DEF ValueOf
  <2>2. CASE page[i].kind # "attribute"
    <3>1. << >> \in Seq(Seq(Byte))
      OBVIOUS
    <3> QED
      BY <2>2, <3>1, Zenon DEF ValueOf
  <2> QED
    BY <2>1, <2>2
<1>3. ValuesOf(page) = [i \in 1 .. Len(page) |-> ValueOf(page[i])]
  BY <1>1 DEF ValuesOf
<1>4. \A i \in 1 .. Len(page) : ValuesOf(page)[i] = ValueOf(page[i])
  BY <1>3
<1>5. PICK n \in Nat : n = Len(page)
  BY <1>1
<1>6. ValuesOf(page) \in [1 .. n -> Seq(Seq(Byte))]
  BY <1>2, <1>3, <1>5
<1>7. ValuesOf(page) \in Seq(Seq(Seq(Byte))) /\ Len(ValuesOf(page)) = n
  BY <1>6
<1>8. HrefsOf(page) = FlattenSeq(ValuesOf(page))
  BY DEF HrefsOf, ValuesOf, ValueOf
<1> QED
  BY <1>4, <1>5, <1>7, <1>8, Zenon

\* There is one first position, before the end, at which a property of positions
\* stops to hold.
LEMMA FirstOnce ==
  ASSUME NEW Passed, NEW end \in Nat, NEW i \in Nat, NEW p \in Nat, NEW r \in Nat,
         i <= p, p <= end, p \in Passed => p = end, i .. p - 1 \subseteq Passed,
         i <= r, r < end, r \notin Passed, i .. r - 1 \subseteq Passed
  PROVE  p = r
<1>1. ~(p < r)
  OBVIOUS
<1>2. ~(r < p)
  OBVIOUS
<1> QED
  BY <1>1, <1>2

\* The next "href" and the byte after it.
LEMMA HrefFacts ==
  ASSUME NEW h, NEW k, HrefAt(h, k)
  PROVE  /\ h < End /\ markup[h] = "href"
         /\ \A n \in cursor .. h - 1 : markup[n] # "href"
         /\ k < End => markup[k] # " "
         /\ \A n \in h + 1 .. k - 1 : markup[n] = " "
BY DEF HrefAt, PastSpaces, IsFirst

\* It stands no further than the next attribute.
LEMMA NextHref ==
  ASSUME LinkInv, NEW n \in 0 .. Len(call.page), Reached(n),
         NEW h \in cursor .. End, NEW k \in h + 1 .. End, HrefAt(h, k),
         NEW i \in n + 1 .. Len(call.page), call.page[i].kind = "attribute"
  PROVE  /\ h <= Offset(call.page, i) + 1
         /\ markup[Offset(call.page, i) + 1] = "href"
         /\ Offset(call.page, i) + 1 < End
<1>1. /\ call.page \in Page /\ markup = Markup(call.page) /\ End = Len(markup) + 1
      /\ Len(markup) \in Nat /\ cursor \in Nat /\ Len(call.page) \in Nat
  BY MarkupBytes, MarkupPieces DEF LinkInv, LinksTypeOK, Call, End
<1>2. PICK page : page = call.page
  OBVIOUS
<1>3. i \in 1 .. Len(page) /\ n + 1 \in 1 .. Len(page) + 1
  BY <1>1, <1>2
<1>4. Offset(page, n + 1) \in Nat /\ Offset(page, i) \in Nat /\ Offset(page, i + 1) \in Nat
  <2>1. i \in 1 .. Len(page) + 1 /\ i + 1 \in 1 .. Len(page) + 1
    BY <1>1, <1>2
  <2> QED
    BY <1>1, <1>2, <1>3, <2>1, PieceAt, Zenon
<1>5. /\ cursor >= Offset(page, n + 1)
      /\ cursor = Offset(page, n + 1) => markup[cursor] # "href"
      /\ cursor <= Offset(page, i) + 1
  BY <1>2 DEF Reached
<1>6. PICK e, v, s, t :
        /\ e \in Nat /\ v \in Nat /\ s \in Nat /\ t \in Nat
        /\ Scanned(markup, page[i], Offset(page, i), e, v, s, t, Offset(page, i + 1))
  BY <1>1, <1>2, <1>3, AttributeAt, Zenon
<1>7. markup[Offset(page, i) + 1] = "href"
  BY <1>6, Zenon DEF Scanned
<1>8. Offset(page, i) + 1 < End
  <2>1. Offset(page, i + 1) <= Len(markup)
    BY <1>1, <1>2, <1>3, AttributeAt, Zenon
  <2>2. /\ e > Offset(page, i) + 1 /\ v > e /\ s >= v /\ t >= s /\ Offset(page, i + 1) >= t
    BY <1>6, Zenon DEF Scanned
  <2> QED
    BY <1>1, <1>4, <1>6, <2>1, <2>2, SMTT(30)
<1>9. h <= Offset(page, i) + 1
  <2>1. h > Offset(page, i) + 1 => Offset(page, i) + 1 \in cursor .. h - 1
    BY <1>1, <1>4, <1>5, SMTT(30)
  <2>2. ~(h > Offset(page, i) + 1)
    BY <1>7, <2>1, HrefFacts, Zenon
  <2> QED
    BY <1>1, <1>4, <2>2
<1> QED
  BY <1>2, <1>7, <1>8, <1>9, Zenon

\* Positions of the markup that hold a space.
Spaces == {n \in Nat : markup[n] = " "}

\* What follows the "href" of an attribute and its spaces is the "=".
LEMMA AssignsAtAttribute ==
  ASSUME NEW attribute, NEW o \in Nat, NEW e \in Nat, NEW v \in Nat, NEW s \in Nat, NEW t \in Nat,
         NEW z \in Nat, Scanned(markup, attribute, o, e, v, s, t, z),
         End \in Nat, z < End,
         NEW k \in o + 2 .. End, HrefAt(o + 1, k)
  PROVE  k = e /\ Assigns(k)
<1>1. e > o + 1 /\ v > e /\ s >= v /\ t >= s /\ z >= t
  BY Zenon DEF Scanned
<1>2. o + 2 <= k /\ k <= End /\ o + 2 <= e /\ e < End /\ k \in Nat
  BY <1>1
<1>3. /\ k \in Spaces => k = End
      /\ o + 2 .. k - 1 \subseteq Spaces
  <2>1. /\ k < End => markup[k] # " "
        /\ \A n \in (o + 1) + 1 .. k - 1 : markup[n] = " "
    BY HrefFacts, Zenon
  <2>2. (o + 1) + 1 = o + 2 /\ (~(k < End) => k = End) /\ \A n \in o + 2 .. k - 1 : n \in Nat
    BY <1>2
  <2> QED
    BY <2>1, <2>2, Zenon DEF Spaces
<1>4. e \notin Spaces /\ o + 2 .. e - 1 \subseteq Spaces
  <2>1. markup[e] = "=" /\ \A n \in o + 2 .. e - 1 : markup[n] = " "
    BY Zenon DEF Scanned
  <2>2. \A n \in o + 2 .. e - 1 : n \in Nat
    OBVIOUS
  <2>3. "=" # " "
    OBVIOUS
  <2> QED
    BY <2>1, <2>2, <2>3, Zenon DEF Spaces
<1>5. k = e
  <2>1. o + 2 \in Nat
    OBVIOUS
  <2> QED
    BY <1>2, <1>3, <1>4, <2>1, FirstOnce
<1>6. markup[e] = "="
  BY Zenon DEF Scanned
<1> QED
  BY <1>2, <1>5, <1>6, Zenon DEF Assigns

\* Some part of the page has been scanned.
Scanning == \E n \in 0 .. Len(call.page) : Reached(n)

\* An "href" without a value is in no attribute.
LEMMA NoValueKeeps ==
  ASSUME LinkInv, NEW n \in 0 .. Len(call.page), Reached(n), NoValue
  PROVE  Reached(n)'
<1>1. PICK page, N : page = call.page /\ N = Len(call.page)
  OBVIOUS
<1>2. /\ page \in Page /\ markup = Markup(page) /\ N \in Nat
      /\ cursor \in Nat /\ End \in Nat /\ End = Len(markup) + 1 /\ Len(markup) \in Nat
  BY <1>1, MarkupBytes, MarkupPieces DEF LinkInv, LinksTypeOK, Call, End
<1>3. PICK h \in cursor .. End : \E k \in h + 1 .. End : HrefAt(h, k) /\ ~Assigns(k) /\ cursor' = k
  BY DEF NoValue, Resume
<1>4. PICK k \in h + 1 .. End : HrefAt(h, k) /\ ~Assigns(k) /\ cursor' = k
  BY <1>3
<1>5. values' = values /\ call' = call /\ markup' = markup
  BY DEF NoValue
<1>6. /\ Offset(page, n + 1) \in Nat
      /\ \A i \in n + 1 .. N : Offset(page, i) \in Nat /\ Offset(page, i + 1) \in Nat
  <2>1. /\ n + 1 \in 1 .. N + 1
        /\ \A i \in n + 1 .. N : i \in 1 .. N + 1 /\ i + 1 \in 1 .. N + 1
    BY <1>1, <1>2
  <2> QED
    BY <1>1, <1>2, <2>1, PieceAt, Zenon
<1>7. cursor' > Offset(page, n + 1)
  BY <1>1, <1>2, <1>4, <1>6 DEF Reached
<1>8. ASSUME NEW i \in n + 1 .. N, page[i].kind = "attribute"
      PROVE  cursor' <= Offset(page, i) + 1
  <2>1. PICK o, z : o = Offset(page, i) /\ z = Offset(page, i + 1) /\ o \in Nat /\ z \in Nat
    BY <1>6
  <2>2. /\ h <= o + 1 /\ markup[o + 1] = "href" /\ o + 1 < End
    BY <1>1, <1>4, <1>8, <2>1, NextHref, Zenon
  <2>3. h # o + 1
    <3>1. SUFFICES ASSUME h = o + 1 PROVE FALSE
      OBVIOUS
    <3>2. PICK e, v, s, t :
            /\ e \in Nat /\ v \in Nat /\ s \in Nat /\ t \in Nat
            /\ Scanned(markup, page[i], o, e, v, s, t, z)
            /\ z <= Len(markup)
      <4>1. i \in 1 .. N
        BY <1>1, <1>2
      <4> QED
        BY <1>1, <1>2, <1>8, <2>1, <4>1, AttributeAt, Zenon
    <3>3. k \in o + 2 .. End /\ z < End
      <4>1. z <= Len(markup)
        BY <3>2, Zenon
      <4>2. k \in (o + 1) + 1 .. End
        BY <3>1, Zenon
      <4> QED
        BY <1>2, <2>1, <4>1, <4>2
    <3>4. HrefAt(o + 1, k)
      BY <1>4, <3>1, Zenon
    <3>5. k = e /\ Assigns(k)
      BY <1>2, <2>1, <3>2, <3>3, <3>4, AssignsAtAttribute, SMTT(30)
    <3> QED
      BY <1>4, <3>5, Zenon
  <2>4. ~(k > o + 1)
    <3>1. k > o + 1 => o + 1 \in h + 1 .. k - 1
      BY <1>2, <2>1, <2>2, <2>3, SMTT(30)
    <3>2. \A m \in h + 1 .. k - 1 : markup[m] = " "
      BY <1>4, HrefFacts, Zenon
    <3>3. "href" # " "
      OBVIOUS
    <3> QED
      BY <2>2, <3>1, <3>2, <3>3, Zenon
  <2> QED
    BY <1>2, <1>4, <2>1, <2>4
<1>9. values = Flat(ValuesOf(page), n)
  BY <1>1, Zenon DEF Reached
<1>10. page = call'.page /\ N = Len(call'.page)
  BY <1>1, <1>5
<1>11. /\ cursor' >= Offset(page, n + 1)
       /\ cursor' = Offset(page, n + 1) => markup'[cursor'] # "href"
  BY <1>2, <1>4, <1>6, <1>7
<1> QED
  BY <1>5, <1>8, <1>9, <1>10, <1>11, Zenon DEF Reached

\* The pieces stand one behind the other.
LEMMA OffsetsGrow ==
  ASSUME NEW page \in Page
  PROVE  /\ \A i \in 1 .. Len(page) + 1 : Offset(page, i) \in Nat
         /\ \A i \in 1 .. Len(page) + 1 : \A j \in i .. Len(page) + 1 :
              Offset(page, i) <= Offset(page, j)
<1>1. PICK N \in Nat : N = Len(page)
  BY MarkupPieces
<1>2. /\ Offset(page, 1) = 0
      /\ \A i \in 1 .. N + 1 : Offset(page, i) \in Nat
      /\ \A i \in 1 .. N : \A j \in i .. N : Offset(page, i + 1) <= Offset(page, j + 1)
  BY <1>1, PieceAt, Zenon
<1>3. ASSUME NEW i \in 1 .. N + 1, NEW j \in i .. N + 1
      PROVE  Offset(page, i) <= Offset(page, j)
  <2>1. CASE i = 1
    <3>1. j \in 1 .. N + 1
      BY <1>1, <1>3
    <3> QED
      BY <1>2, <2>1, <3>1
  <2>2. CASE i # 1
    <3>1. i - 1 \in 1 .. N /\ j - 1 \in i - 1 .. N /\ (i - 1) + 1 = i /\ (j - 1) + 1 = j
      BY <1>1, <1>3, <2>2
    <3>2. Offset(page, (i - 1) + 1) <= Offset(page, (j - 1) + 1)
      BY <1>2, <3>1, Zenon
    <3> QED
      BY <3>1, <3>2, Zenon
  <2> QED
    BY <2>1, <2>2
<1> QED
  BY <1>1, <1>2, <1>3, Zenon

\* The next "href" stands in a piece that has not been scanned.
LEMMA HrefPiece ==
  ASSUME LinkInv, NEW n \in 0 .. Len(call.page), Reached(n),
         NEW h \in cursor .. End, NEW k \in h + 1 .. End, HrefAt(h, k)
  PROVE  \E j \in n + 1 .. Len(call.page) :
           h > Offset(call.page, j) /\ h <= Offset(call.page, j + 1)
<1>1. PICK page, N : page = call.page /\ N = Len(call.page)
  OBVIOUS
<1>2. /\ page \in Page /\ markup = Markup(page) /\ N \in Nat /\ N = Len(page)
      /\ cursor \in Nat /\ cursor >= 1 /\ End = Len(markup) + 1 /\ Len(markup) \in Nat
  BY <1>1, MarkupBytes, MarkupPieces DEF LinkInv, LinksTypeOK, Call, End
<1>3. /\ Offset(page, n + 1) \in Nat
      /\ \A j \in 1 .. N : j <= n => Offset(page, j + 1) \in Nat /\ Offset(page, j + 1) <= Offset(page, n + 1)
  <2>1. /\ n + 1 \in 1 .. N + 1
        /\ \A j \in 1 .. N : j <= n => j + 1 \in 1 .. N + 1 /\ n + 1 \in j + 1 .. N + 1
    BY <1>1, <1>2
  <2> QED
    BY <1>2, <2>1, OffsetsGrow, Zenon
<1>4. h > Offset(page, n + 1)
  <2>1. /\ cursor >= Offset(page, n + 1)
        /\ cursor = Offset(page, n + 1) => markup[cursor] # "href"
    BY <1>1, Zenon DEF Reached
  <2>2. h = cursor => cursor # Offset(page, n + 1)
    BY <2>1, HrefFacts, Zenon
  <2> QED
    BY <1>2, <1>3, <2>1, <2>2
<1>5. h \in 1 .. Len(markup)
  <2>1. h < End
    BY HrefFacts, Zenon
  <2> QED
    BY <1>2, <2>1
<1>6. PICK j \in 1 .. N : h > Offset(page, j) /\ h <= Offset(page, j + 1)
  BY <1>2, <1>5, PieceAt, Zenon
<1>7. j > n
  BY <1>1, <1>2, <1>3, <1>4, <1>6
<1>8. j \in n + 1 .. N
  BY <1>1, <1>2, <1>7
<1> QED
  BY <1>1, <1>6, <1>8, Zenon

\* A value is taken from start to stop; it is given to the "href" at h.
Taken(h, k, v, start, stop) ==
  /\ h \in cursor .. End /\ k \in h + 1 .. End /\ v \in k + 1 .. End
  /\ HrefAt(h, k) /\ Assigns(k)
  /\ v < End /\ markup[v] # " " /\ \A m \in k + 1 .. v - 1 : markup[m] = " "
  /\ start = IF markup[v] \in Quotes THEN v + 1 ELSE v
  /\ stop \in start .. End
  /\ stop < End => Closes(markup[v], markup[stop])
  /\ \A m \in start .. stop - 1 : ~Closes(markup[v], markup[m])
  /\ values' = Valued(start, stop)
  /\ cursor' = Min({stop + 1, End})
  /\ call' = call /\ markup' = markup

LEMMA TakeFacts ==
  ASSUME TakeValue
  PROVE  \E h, k, v, start, stop : Taken(h, k, v, start, stop)
BY ZenonT(40) DEF TakeValue, Taken, PastSpaces, IsFirst

\* The piece that is given a value is the next attribute.
LEMMA TakenAttribute ==
  ASSUME LinkInv, NEW n \in 0 .. Len(call.page), Reached(n),
         NEW h, NEW k, NEW v, NEW start, NEW stop, Taken(h, k, v, start, stop)
  PROVE  \E j \in n + 1 .. Len(call.page) :
           /\ call.page[j].kind = "attribute"
           /\ h = Offset(call.page, j) + 1
           /\ \A i \in n + 1 .. j - 1 : call.page[i].kind # "attribute"
<1>1. PICK page, N : page = call.page /\ N = Len(call.page)
  OBVIOUS
<1>2. /\ page \in Page /\ markup = Markup(page) /\ N \in Nat /\ N = Len(page) /\ DOMAIN page = 1 .. N
      /\ cursor \in Nat /\ cursor >= 1 /\ End = Len(markup) + 1 /\ Len(markup) \in Nat
  BY <1>1, MarkupBytes, MarkupPieces DEF LinkInv, LinksTypeOK, Call, End
<1>3. /\ h \in cursor .. End /\ k \in h + 1 .. End /\ v \in k + 1 .. End /\ v < End
      /\ HrefAt(h, k) /\ Assigns(k)
      /\ markup[v] # " "
  BY Zenon DEF Taken
<1>3a. h \in cursor .. End /\ k \in h + 1 .. End /\ v \in k + 1 .. End /\ v < End
  BY <1>3, Zenon
<1>4. PICK j \in n + 1 .. N : h > Offset(page, j) /\ h <= Offset(page, j + 1)
  BY <1>1, <1>3, HrefPiece, Zenon
<1>5. /\ j \in 1 .. N /\ j \in 1 .. N + 1 /\ j + 1 \in 1 .. N + 1
      /\ \A i \in n + 1 .. j - 1 : i \in n + 1 .. N /\ i \in 1 .. N + 1 /\ j \in i .. N + 1
  BY <1>1, <1>2, <1>4
<1>6. /\ Offset(page, j) \in Nat /\ Offset(page, j + 1) \in Nat
      /\ \A i \in n + 1 .. j - 1 : Offset(page, i) \in Nat /\ Offset(page, i) <= Offset(page, j)
  BY <1>2, <1>5, OffsetsGrow, Zenon
<1>7. page[j].kind = "attribute"
  <2>1. SUFFICES ASSUME page[j].kind # "attribute" PROVE FALSE
    OBVIOUS
  <2>2. NothingAssigned(Markup(page), Offset(page, j) + 1, Offset(page, j + 1))
    BY <1>2, <1>5, <2>1, PieceAssumption, Zenon
  <2>3. h \in Offset(page, j) + 1 .. Offset(page, j + 1)
    BY <1>2, <1>3a, <1>4, <1>6
  <2>4. k \in h + 1 .. Len(markup) /\ v \in k + 1 .. Len(markup)
    BY <1>2, <1>3a
  <2>5. /\ markup[h] = "href" /\ markup[k] = "="
        /\ \A m \in h + 1 .. k - 1 : markup[m] = " "
    BY <1>3, HrefFacts, Zenon DEF Assigns
  <2>6. \A m \in k + 1 .. Len(markup) : markup[m] = " "
    BY <1>2, <2>2, <2>3, <2>4, <2>5, Zenon DEF NothingAssigned
  <2> QED
    BY <1>3, <2>4, <2>6, Zenon
<1>8. h <= Offset(page, j) + 1
  BY <1>1, <1>3, <1>4, <1>7, NextHref, Zenon
<1>9. ASSUME NEW i \in n + 1 .. j - 1, page[i].kind = "attribute" PROVE FALSE
  <2>1. h <= Offset(page, i) + 1
    BY <1>1, <1>3, <1>5, <1>9, NextHref, Zenon
  <2>2. i \in 1 .. N /\ i + 1 \in 1 .. N + 1 /\ j \in i + 1 .. N + 1
    BY <1>1, <1>2, <1>4, <1>9, SMTT(30)
  <2>3. Offset(page, i + 1) \in Nat /\ Offset(page, i + 1) <= Offset(page, j)
    BY <1>2, <2>2, OffsetsGrow, Zenon
  <2>4. Offset(page, i) + 1 <= Offset(page, i + 1)
    <3>1. PICK o, z : o = Offset(page, i) /\ z = Offset(page, i + 1) /\ o \in Nat /\ z \in Nat
      BY <1>6, <2>3, Zenon
    <3>2. PICK e, w, s, t :
            /\ e \in Nat /\ w \in Nat /\ s \in Nat /\ t \in Nat
            /\ Scanned(markup, page[i], o, e, w, s, t, z)
      BY <1>2, <1>9, <2>2, <3>1, AttributeAt, Zenon
    <3>3. e > o + 1 /\ w > e /\ s >= w /\ t >= s /\ z >= t
      BY <3>2, Zenon DEF Scanned
    <3>4. e \in Nat /\ w \in Nat /\ s \in Nat /\ t \in Nat
      BY <3>2, Zenon
    <3>5. o + 1 <= z
      BY <3>1, <3>3, <3>4
    <3> QED
      BY <3>1, <3>5, Zenon
  <2> QED
    BY <1>2, <1>3a, <1>4, <1>6, <2>1, <2>3, <2>4, SMTT(30)
<1>10. h = Offset(page, j) + 1
  BY <1>2, <1>3a, <1>4, <1>6, <1>8
<1> QED
  BY <1>1, <1>4, <1>7, <1>9, <1>10, Zenon

\* The scan takes the value of an attribute from where it starts to what closes it.
LEMMA TakenBounds ==
  ASSUME NEW attribute, NEW o \in Nat, NEW e \in Nat, NEW w \in Nat, NEW s \in Nat, NEW t \in Nat,
         NEW z \in Nat, Scanned(markup, attribute, o, e, w, s, t, z),
         End \in Nat, z < End,
         NEW k \in o + 2 .. End, NEW v \in k + 1 .. End, NEW start, NEW stop,
         Taken(o + 1, k, v, start, stop)
  PROVE  k = e /\ v = w /\ start = s /\ stop = t
<1>1. e > o + 1 /\ w > e /\ s >= w /\ t >= s /\ z >= t
  BY Zenon DEF Scanned
<1>2. k = e
  BY AssignsAtAttribute, Zenon DEF Taken
<1>3. v = w
  <2>1. e + 1 <= v /\ v <= End /\ e + 1 <= w /\ w < End /\ e + 1 \in Nat /\ v \in Nat
    BY <1>1, <1>2
  <2>2. v \in Spaces => v = End
    BY Zenon DEF Spaces, Taken
  <2>3. \A m \in e + 1 .. v - 1 : markup[m] = " "
    BY <1>2, Zenon DEF Taken
  <2>4. w \notin Spaces /\ \A m \in e + 1 .. w - 1 : markup[m] = " "
    BY Zenon DEF Spaces, Scanned
  <2>5. \A m \in e + 1 .. v - 1 : m \in Nat
    BY <2>1
  <2>6. \A m \in e + 1 .. w - 1 : m \in Nat
    BY <2>1
  <2>7. e + 1 .. v - 1 \subseteq Spaces /\ e + 1 .. w - 1 \subseteq Spaces
    BY <2>3, <2>4, <2>5, <2>6, Zenon DEF Spaces
  <2> QED
    BY <2>1, <2>2, <2>4, <2>7, FirstOnce
<1>4. start = s
  BY <1>3, Zenon DEF Taken, Scanned
<1>5. stop = t
  <2> DEFINE Inside == {m \in Nat : ~Closes(markup[v], markup[m])}
  <2>0. stop \in start .. End
    BY Zenon DEF Taken
  <2>1. s <= stop /\ stop <= End /\ s <= t /\ t < End /\ stop \in Nat
    BY <1>1, <1>4, <2>0
  <2>2. stop \in Inside => stop = End
    <3>1. stop < End => Closes(markup[v], markup[stop])
      BY Zenon DEF Taken
    <3>2. ~(stop < End) => stop = End
      BY <2>1
    <3> QED
      BY <3>1, <3>2, Zenon
  <2>3. \A m \in s .. stop - 1 : ~Closes(markup[v], markup[m])
    BY <1>4, Zenon DEF Taken
  <2>4. t \notin Inside /\ \A m \in s .. t - 1 : ~Closes(markup[v], markup[m])
    BY <1>3, Zenon DEF Scanned
  <2>5. \A m \in s .. stop - 1 : m \in Nat
    BY <2>1
  <2>6. \A m \in s .. t - 1 : m \in Nat
    BY <2>1
  <2>7. s .. stop - 1 \subseteq Inside /\ s .. t - 1 \subseteq Inside
    BY <2>3, <2>4, <2>5, <2>6, Zenon
  <2> HIDE DEF Inside
  <2> QED
    BY <2>1, <2>2, <2>4, <2>7, FirstOnce
<1> QED
  BY <1>2, <1>3, <1>4, <1>5

\* What the scan adds to its values is what the attribute gives.
LEMMA ValuedAs ==
  ASSUME values \in Seq(Seq(Byte)), markup \in Seq(Byte), NEW value \in Seq(Byte),
         NEW s \in Nat, NEW t \in Nat, s >= 1, t = s + Len(value), t - 1 <= Len(markup),
         \A d \in 1 .. Len(value) : markup[s + d - 1] = value[d]
  PROVE  Valued(s, t) = values \o (IF value # << >> THEN <<value>> ELSE << >>)
<1>1. CASE value = << >>
  <2>1. t = s
    BY <1>1
  <2>2. values \o << >> = values
    BY ConcatEmptySeq
  <2>3. ~(s < t)
    BY <2>1
  <2> QED
    BY <1>1, <2>2, <2>3, Zenon DEF Valued
<1>2. CASE value # << >>
  <2>1. PICK l \in Nat : l = Len(value)
    OBVIOUS
  <2>2. l # 0 /\ s < t /\ t - 1 = s + l - 1
    BY <1>2, <2>1
  <2>3. SubSeq(markup, s, t - 1) = value
    <3>1. PICK part : part = SubSeq(markup, s, t - 1)
      OBVIOUS
    <3>2. /\ part \in Seq(Byte) /\ Len(part) = l
          /\ \A d \in 1 .. l : part[d] = markup[s + d - 1]
      BY <2>1, <2>2, <3>1, SubSeqProperties
    <3>3. \A d \in 1 .. l : part[d] = value[d]
      BY <2>1, <3>2, Zenon
    <3>4. part = value
      BY <2>1, <3>2, <3>3, SeqEqual
    <3> QED
      BY <3>1, <3>4
  <2>4. Append(values, value) = values \o <<value>>
    OBVIOUS
  <2> QED
    BY <1>2, <2>2, <2>3, <2>4, Zenon DEF Valued
<1> QED
  BY <1>1, <1>2

\* The pieces between n and j give no value.
LEMMA ValuesBetween ==
  ASSUME NEW page \in Page, NEW n \in 0 .. Len(page), NEW j \in n .. Len(page),
         \A i \in n + 1 .. j : page[i].kind # "attribute"
  PROVE  Flat(ValuesOf(page), j) = Flat(ValuesOf(page), n)
<1>1. PICK V, N : V = ValuesOf(page) /\ N = Len(page)
  OBVIOUS
<1>2. /\ V \in Seq(Seq(Seq(Byte))) /\ Len(V) = N /\ N \in Nat
      /\ \A i \in 1 .. N : V[i] = ValueOf(page[i])
  BY <1>1, ValuesOfPieces, MarkupPieces, Zenon
<1>3. \A i \in n + 1 .. j : i \in 1 .. N
  BY <1>1, <1>2
<1>4. \A i \in n + 1 .. j : V[i] = << >>
  BY <1>2, <1>3, Zenon DEF ValueOf
<1>5. n \in 0 .. Len(V) /\ j \in n .. Len(V)
  BY <1>1, <1>2, Zenon
<1>6. Flat(V, j) = Flat(V, n)
  BY <1>2, <1>4, <1>5, FlatSkips, Zenon
<1> QED
  BY <1>1, <1>6, Zenon

\* An attribute gives its value, and the scan goes on behind it.
LEMMA TakeValueKeeps ==
  ASSUME LinkInv, NEW n \in 0 .. Len(call.page), Reached(n), TakeValue
  PROVE  Scanning'
<1>1. PICK page, N : page = call.page /\ N = Len(call.page)
  OBVIOUS
<1>2. /\ page \in Page /\ markup = Markup(page) /\ N \in Nat /\ N = Len(page)
      /\ cursor \in Nat /\ End \in Nat /\ End = Len(markup) + 1 /\ Len(markup) \in Nat
      /\ markup \in Seq(Byte) /\ values \in Seq(Seq(Byte))
  BY <1>1, MarkupBytes, MarkupPieces DEF LinkInv, LinksTypeOK, Call, End
<1>3. PICK h, k, v, start, stop : Taken(h, k, v, start, stop)
  BY TakeFacts
<1>4. PICK j :
        /\ j \in n + 1 .. N
        /\ page[j].kind = "attribute"
        /\ h = Offset(page, j) + 1
        /\ \A i \in n + 1 .. j - 1 : page[i].kind # "attribute"
  <2>1. \E j \in n + 1 .. Len(call.page) :
          /\ call.page[j].kind = "attribute"
          /\ h = Offset(call.page, j) + 1
          /\ \A i \in n + 1 .. j - 1 : call.page[i].kind # "attribute"
    BY <1>3, TakenAttribute
  <2> QED
    BY <1>1, <2>1, Zenon
<1>5. j \in n + 1 .. N
  BY <1>4, Zenon
<1>6. /\ j \in 1 .. N /\ j \in 1 .. N + 1 /\ j + 1 \in 1 .. N + 1 /\ j \in 0 .. N
      /\ j - 1 \in n .. N /\ j \in Nat
  BY <1>1, <1>2, <1>5
<1>7. PICK o, z : o = Offset(page, j) /\ z = Offset(page, j + 1) /\ o \in Nat /\ z \in Nat
  BY <1>2, <1>6, OffsetsGrow, Zenon
<1>8. PICK attribute, e, w, s, t :
        /\ attribute = page[j] /\ attribute \in HtmlAttribute /\ z <= Len(markup)
        /\ e \in Nat /\ w \in Nat /\ s \in Nat /\ t \in Nat
        /\ Scanned(markup, attribute, o, e, w, s, t, z)
  BY <1>2, <1>4, <1>6, <1>7, AttributeAt, Zenon
<1>9. PICK l, value :
        /\ value = attribute.value /\ value \in Seq(Byte) /\ l = Len(value) /\ l \in Nat
  BY <1>8, AttributeParts, LenProperties, Zenon
<1>10. /\ e > o + 1 /\ w > e /\ s >= w /\ t >= s /\ z >= t /\ t = s + l /\ (z = t \/ z = t + 1)
  BY <1>8, <1>9, Zenon DEF Scanned
<1>11. z < End /\ s >= 1 /\ t - 1 <= Len(markup) /\ t < End /\ t + 1 <= End
  <2>1. z <= Len(markup) /\ e \in Nat /\ w \in Nat /\ s \in Nat /\ t \in Nat
    BY <1>8, Zenon
  <2> QED
    BY <1>2, <1>7, <1>10, <2>1, SMTT(30)
<1>12. h = o + 1
  BY <1>4, <1>7, Zenon
<1>13. k \in o + 2 .. End /\ v \in k + 1 .. End
  <2>1. k \in (o + 1) + 1 .. End /\ v \in k + 1 .. End
    BY <1>3, <1>12, Zenon DEF Taken
  <2> QED
    BY <1>2, <1>7, <2>1
<1>14. start = s /\ stop = t
  <2>1. Taken(o + 1, k, v, start, stop)
    BY <1>3, <1>12, Zenon
  <2> QED
    BY <1>2, <1>7, <1>8, <1>11, <1>13, <2>1, TakenBounds, SMTT(30)
<1>15. cursor' = t + 1 /\ call' = call /\ markup' = markup /\ values' = Valued(s, t)
  <2>1. /\ cursor' = Min({t + 1, End}) /\ call' = call /\ markup' = markup /\ values' = Valued(s, t)
    BY <1>3, <1>14, Zenon DEF Taken
  <2>2. t + 1 \in Int /\ End \in Int /\ t + 1 <= End
    BY <1>2, <1>8, <1>11
  <2>3. Min({t + 1, End}) = t + 1
    BY <2>2, SmallerOf
  <2> QED
    BY <2>1, <2>3, Zenon
<1>16. values' = values \o ValueOf(page[j])
  <2>1. \A d \in 1 .. Len(value) : markup[s + d - 1] = value[d]
    BY <1>8, <1>9, Zenon DEF Scanned
  <2>2. Valued(s, t) = values \o (IF value # << >> THEN <<value>> ELSE << >>)
    <3>1. t = s + Len(value)
      BY <1>9, <1>10, Zenon
    <3>2. /\ values \in Seq(Seq(Byte)) /\ markup \in Seq(Byte) /\ value \in Seq(Byte)
          /\ s \in Nat /\ t \in Nat /\ s >= 1 /\ t - 1 <= Len(markup)
      BY <1>2, <1>8, <1>9, <1>11, Zenon
    <3> QED
      BY <2>1, <3>1, <3>2, ValuedAs
  <2>3. ValueOf(page[j]) = IF value # << >> THEN <<value>> ELSE << >>
    BY <1>4, <1>8, <1>9, Zenon DEF ValueOf
  <2> QED
    BY <1>15, <2>2, <2>3, Zenon
<1>17. values' = Flat(ValuesOf(page), j)
  <2>1. PICK V : V = ValuesOf(page)
    OBVIOUS
  <2>2. /\ V \in Seq(Seq(Seq(Byte))) /\ Len(V) = N /\ V[j] = ValueOf(page[j])
    BY <1>2, <1>6, <2>1, ValuesOfPieces, Zenon
  <2>3. values = Flat(V, n)
    BY <1>1, <2>1, Zenon DEF Reached
  <2>4. Flat(V, j - 1) = Flat(V, n)
    <3>1. n \in 0 .. Len(page) /\ j - 1 \in n .. Len(page)
      BY <1>1, <1>2, <1>6, Zenon
    <3> QED
      BY <1>2, <1>4, <2>1, <3>1, ValuesBetween, Zenon
  <2>5. Flat(V, j) = Flat(V, j - 1) \o V[j]
    BY <1>6, <2>2, FlatSteps, Zenon
  <2> QED
    BY <1>16, <2>1, <2>2, <2>3, <2>4, <2>5, Zenon
<1>18. cursor' >= z /\ (cursor' = z => markup[cursor'] # "href")
  <2>1. markup[z] = ">"
    BY <1>8, Zenon DEF Scanned
  <2>2. ">" # "href"
    OBVIOUS
  <2>3. t + 1 >= z
    BY <1>7, <1>8, <1>10
  <2> QED
    BY <1>15, <2>1, <2>2, <2>3, Zenon
<1>19. ASSUME NEW i \in j + 1 .. N PROVE cursor' <= Offset(page, i) + 1
  <2>1. i \in j + 1 .. N + 1
    BY <1>2, <1>6
  <2>2. i \in 1 .. N + 1
    BY <1>6, <2>1
  <2>3. Offset(page, i) \in Nat /\ z <= Offset(page, i)
    BY <1>2, <1>6, <1>7, <2>1, <2>2, OffsetsGrow, Zenon
  <2>4. t \in Nat /\ t <= z
    BY <1>8, <1>10
  <2> QED
    BY <1>7, <1>15, <2>3, <2>4
<1>20. Reached(j)'
  <2>1. page = call'.page /\ N = Len(call'.page)
    BY <1>1, <1>15, Zenon
  <2> QED
    BY <1>7, <1>15, <1>17, <1>18, <1>19, <2>1, Zenon DEF Reached
<1>21. j \in 0 .. Len(call'.page)
  BY <1>1, <1>6, <1>15, Zenon
<1> QED
  BY <1>20, <1>21, Zenon DEF Scanning

\* Where the scan ends no attribute is left.
LEMMA NoneLeft ==
  ASSUME LinkInv, NEW n \in 0 .. Len(call.page), Reached(n), EndScan,
         NEW i \in n + 1 .. Len(call.page), call.page[i].kind = "attribute"
  PROVE  FALSE
<1>1. PICK page, N : page = call.page /\ N = Len(call.page)
  OBVIOUS
<1>2. /\ page \in Page /\ markup = Markup(page) /\ N \in Nat /\ N = Len(page)
      /\ cursor \in Nat /\ End \in Nat /\ End = Len(markup) + 1 /\ Len(markup) \in Nat
  BY <1>1, MarkupBytes, MarkupPieces DEF LinkInv, LinksTypeOK, Call, End
<1>3. i \in n + 1 .. N /\ i \in 1 .. N /\ page[i].kind = "attribute"
  BY <1>1, <1>2
<1>4. PICK o, z, e, v, s, t :
        /\ o = Offset(page, i) /\ z = Offset(page, i + 1) /\ o \in Nat /\ z \in Nat /\ z <= Len(markup)
        /\ e \in Nat /\ v \in Nat /\ s \in Nat /\ t \in Nat
        /\ Scanned(markup, page[i], o, e, v, s, t, z)
  BY <1>2, <1>3, AttributeAt, Zenon
<1>5. /\ e > o + 1 /\ v > e /\ s >= v /\ t >= s /\ z >= t
      /\ markup[o + 1] = "href" /\ markup[z] = ">"
  BY <1>4, Zenon DEF Scanned
<1>6. o \in Nat /\ z \in Nat /\ e \in Nat /\ e > o + 1 /\ z > e /\ z < End
  <2>1. /\ o \in Nat /\ z \in Nat /\ z <= Len(markup)
        /\ e \in Nat /\ v \in Nat /\ s \in Nat /\ t \in Nat
    BY <1>4, Zenon
  <2>2. e > o + 1 /\ v > e /\ s >= v /\ t >= s /\ z >= t
    BY <1>5, Zenon
  <2> QED
    BY <1>2, <2>1, <2>2
<1>7. CASE \A h \in cursor .. Len(markup) : markup[h] # "href"
  <2>1. cursor <= o + 1
    BY <1>1, <1>3, <1>4, Zenon DEF Reached
  <2>2. o + 1 \in cursor .. Len(markup)
    BY <1>2, <1>6, <2>1
  <2> QED
    BY <1>5, <1>7, <2>2, Zenon
<1>8. CASE \E h \in cursor .. End : \E k \in h + 1 .. End :
             HrefAt(h, k) /\ Assigns(k) /\ PastSpaces(End, k + 1)
  <2>1. PICK h \in cursor .. End : \E k \in h + 1 .. End :
             HrefAt(h, k) /\ Assigns(k) /\ PastSpaces(End, k + 1)
    BY <1>8
  <2>2. PICK k \in h + 1 .. End : HrefAt(h, k) /\ Assigns(k) /\ PastSpaces(End, k + 1)
    BY <2>1
  <2>3. markup[k] = "=" /\ \A m \in k + 1 .. End - 1 : markup[m] = " "
    BY <2>2 DEF Assigns, PastSpaces, IsFirst
  <2>4. h <= o + 1
    BY <1>1, <1>3, <1>4, <2>2, NextHref, Zenon
  <2>5. CASE h = o + 1
    <3>1. k \in o + 2 .. End
      <4>1. k \in (o + 1) + 1 .. End
        BY <2>5, Zenon
      <4> QED
        BY <1>2, <1>6, <4>1
    <3>2. HrefAt(o + 1, k)
      BY <2>2, <2>5, Zenon
    <3>3. k = e /\ Assigns(k)
      <4>1. /\ o \in Nat /\ z \in Nat /\ e \in Nat /\ v \in Nat /\ s \in Nat /\ t \in Nat
            /\ Scanned(markup, page[i], o, e, v, s, t, z) /\ End \in Nat /\ z < End
        BY <1>2, <1>4, <1>6, Zenon
      <4> QED
        BY <3>1, <3>2, <4>1, AssignsAtAttribute
    <3>4. z \in k + 1 .. End - 1
      BY <1>2, <1>6, <3>3
    <3>5. ">" # " "
      OBVIOUS
    <3> QED
      BY <1>5, <2>3, <3>4, <3>5, Zenon
  <2>6. CASE h # o + 1
    <3>1. o + 1 \in h + 1 .. k - 1 \/ o + 1 = k \/ o + 1 \in k + 1 .. End - 1
      <4>1. h \in Nat /\ k \in Nat /\ h < o + 1
        BY <1>2, <1>6, <2>4, <2>6
      <4> QED
        BY <1>2, <1>6, <4>1
    <3>2. \A m \in h + 1 .. k - 1 : markup[m] = " "
      BY <2>2, HrefFacts, Zenon
    <3>3. "href" # " " /\ "href" # "="
      OBVIOUS
    <3> QED
      BY <1>5, <2>3, <3>1, <3>2, <3>3, Zenon
  <2> QED
    BY <2>5, <2>6
<1> QED
  BY <1>7, <1>8 DEF EndScan

\* Then every value has been found.
LEMMA EndScanFinds ==
  ASSUME LinkInv, Scanning, EndScan
  PROVE  values = Hrefs
<1>1. PICK n \in 0 .. Len(call.page) : Reached(n)
  BY DEF Scanning
<1>2. call.page \in Page /\ Len(call.page) \in Nat
  BY MarkupPieces DEF LinkInv, Call
<1>3. \A i \in n + 1 .. Len(call.page) : call.page[i].kind # "attribute"
  BY <1>1, NoneLeft, Zenon
<1>4. Len(call.page) \in n .. Len(call.page)
  BY <1>2
<1>5. Flat(ValuesOf(call.page), Len(call.page)) = Flat(ValuesOf(call.page), n)
  BY <1>2, <1>3, <1>4, ValuesBetween, Zenon
<1>6. Flat(ValuesOf(call.page), Len(call.page)) = HrefsOf(call.page)
  <2>1. /\ ValuesOf(call.page) \in Seq(Seq(Seq(Byte)))
        /\ Len(ValuesOf(call.page)) = Len(call.page)
        /\ HrefsOf(call.page) = FlattenSeq(ValuesOf(call.page))
    BY <1>2, ValuesOfPieces, Zenon
  <2>2. Flat(ValuesOf(call.page), Len(ValuesOf(call.page))) = FlattenSeq(ValuesOf(call.page))
    BY <2>1, FlatSteps, Zenon
  <2> QED
    BY <2>1, <2>2, Zenon
<1>7. values = Flat(ValuesOf(call.page), n)
  BY <1>1, Zenon DEF Reached
<1> QED
  BY <1>5, <1>6, <1>7, Zenon DEF Hrefs

\* The scan stands behind some of the pieces with the values of those, and ends with
\* the values of all.
ScanInv ==
  /\ stage \in {"start", "scan"} => Scanning
  /\ stage \in {"links", "done"} => values = Hrefs
  /\ stage \in {"start", "refused"} => values = << >>

LEMMA ScanStarts == Init => ScanInv
<1> SUFFICES ASSUME Init PROVE ScanInv
  OBVIOUS
<1>1. /\ call.page \in Page /\ markup = Markup(call.page) /\ stage = "start"
      /\ cursor = 1 /\ values = << >>
  BY DEF Init, Call
<1>2. PICK page, N : page = call.page /\ N = Len(call.page)
  OBVIOUS
<1>3. N \in Nat /\ ValuesOf(page) \in Seq(Seq(Seq(Byte)))
  BY <1>1, <1>2, MarkupPieces, ValuesOfPieces, Zenon
<1>4. values = Flat(ValuesOf(page), 0)
  BY <1>1, <1>3, FlatSteps, Zenon
<1>5. Offset(page, 0 + 1) = 0
  <2>1. Offset(page, 1) = 0
    BY <1>1, <1>2, PieceAt, Zenon
  <2>2. 0 + 1 = 1
    OBVIOUS
  <2> QED
    BY <2>1, <2>2, Zenon
<1>6. ASSUME NEW i \in 0 + 1 .. N PROVE cursor <= Offset(page, i) + 1
  <2>1. i \in 1 .. N + 1
    BY <1>3
  <2>2. Offset(page, i) \in Nat
    BY <1>1, <1>2, <2>1, OffsetsGrow, Zenon
  <2> QED
    BY <1>1, <2>2
<1>7. cursor >= Offset(page, 0 + 1) /\ cursor # Offset(page, 0 + 1)
  BY <1>1, <1>5
<1>8. Reached(0)
  BY <1>2, <1>4, <1>6, <1>7, Zenon DEF Reached
<1>9. 0 \in 0 .. Len(call.page)
  BY <1>2, <1>3
<1>10. Scanning
  BY <1>8, <1>9, Zenon DEF Scanning
<1> QED
  BY <1>1, <1>10 DEF ScanInv

LEMMA ScanKept ==
  ASSUME LinkInv, ScanInv, [Next]_vars
  PROVE  ScanInv'
<1>1. CASE NoValue
  <2>1. PICK n \in 0 .. Len(call.page) : Reached(n)
    BY <1>1 DEF NoValue, ScanInv, Scanning
  <2>2. Reached(n)' /\ call' = call /\ stage' = stage /\ stage = "scan"
    BY <1>1, <2>1, NoValueKeeps DEF NoValue
  <2>3. Scanning'
    BY <2>2, Zenon DEF Scanning
  <2> QED
    BY <2>2, <2>3 DEF ScanInv
<1>2. CASE TakeValue
  <2>1. PICK n \in 0 .. Len(call.page) : Reached(n)
    BY <1>2 DEF TakeValue, ScanInv, Scanning
  <2>2. Scanning'
    BY <1>2, <2>1, TakeValueKeeps
  <2>3. stage' = stage /\ stage = "scan"
    BY <1>2 DEF TakeValue
  <2> QED
    BY <2>2, <2>3 DEF ScanInv
<1>3. CASE EndScan
  <2>1. stage = "scan" /\ stage' = "links" /\ values' = values /\ call' = call
    BY <1>3 DEF EndScan
  <2>2. values = Hrefs
    BY <1>3, <2>1, EndScanFinds DEF ScanInv
  <2> QED
    BY <2>1, <2>2 DEF ScanInv, Hrefs
<1>4. CASE Start
  <2>1. /\ stage = "start" /\ (stage' = "scan" \/ stage' = "refused")
        /\ UNCHANGED <<call, markup, cursor, values>>
    BY <1>4 DEF Start
  <2>2. Scanning
    BY <2>1 DEF ScanInv
  <2>3. CASE stage' = "scan"
    BY <2>1, <2>2, <2>3 DEF ScanInv, Scanning, Reached
  <2>4. CASE stage' = "refused"
    BY <2>1, <2>4 DEF ScanInv
  <2> QED
    BY <2>1, <2>3, <2>4
<1>5. CASE SkipValue \/ AddLink \/ Finish
  <2>1. /\ stage = "links" /\ stage' \in {"links", "done"}
        /\ UNCHANGED <<call, values>>
    BY <1>5 DEF SkipValue, AddLink, Finish, Looking
  <2> QED
    BY <2>1 DEF ScanInv, Hrefs
<1>6. CASE UNCHANGED vars
  BY <1>6 DEF vars, ScanInv, Hrefs, Scanning, Reached
<1> QED
  BY <1>1, <1>2, <1>3, <1>4, <1>5, <1>6 DEF Next, Discover, Done

LEMMA ScanInvariance == Spec => []ScanInv
BY LinkInvariance, ScanStarts, ScanKept, PTL DEF Spec

\* For every page, the scan finds the attributes that were written, each once and in
\* their order, however they are quoted and spaced and whatever text stands between
\* them: what extract_href_values has so far is a prefix of it, and what it returns
\* is all of it.
THEOREM ValuesAreFound == Spec => []ValuesAreAttributes
<1>1. LinkInv /\ ScanInv => ValuesAreAttributes
  <2> SUFFICES ASSUME LinkInv, ScanInv PROVE ValuesAreAttributes
    OBVIOUS
  <2>1. PICK V, N : V = ValuesOf(call.page) /\ N = Len(call.page)
    OBVIOUS
  <2>2. V \in Seq(Seq(Seq(Byte))) /\ Len(V) = N /\ N \in Nat /\ Hrefs = FlattenSeq(V)
    <3>1. call.page \in Page
      BY DEF LinkInv, Call
    <3> QED
      BY <2>1, <3>1, ValuesOfPieces, MarkupPieces, Zenon DEF Hrefs
  <2>3. \A n \in 0 .. N : IsPrefix(Flat(V, n), Hrefs)
    BY <2>2, FlatPrefix, Zenon
  <2>4. 0 \in 0 .. N /\ N \in 0 .. N
    BY <2>2
  <2>5. Flat(V, 0) = << >> /\ Flat(V, N) = Hrefs
    BY <2>2, FlatSteps, Zenon
  <2>6. \E n \in 0 .. N : values = Flat(V, n)
    <3>1. CASE stage \in {"start", "scan"}
      BY <2>1, <3>1, Zenon DEF ScanInv, Scanning, Reached
    <3>2. CASE stage \in {"links", "done"}
      BY <2>4, <2>5, <3>2, Zenon DEF ScanInv
    <3>3. CASE stage = "refused"
      BY <2>4, <2>5, <3>3 DEF ScanInv
    <3> QED
      BY <3>1, <3>2, <3>3 DEF LinkInv, LinksTypeOK
  <2> QED
    BY <2>3, <2>6, Zenon DEF ScanInv, ValuesAreAttributes
<1> QED
  BY <1>1, LinkInvariance, ScanInvariance, PTL
-----------------------------------------------------------------------------
(* The loop over the values *)

Canonical(i) == Resolved(values[i]).canonical

\* The values that are the first of their canonical form, and those looked at.
Firsts == {i \in DOMAIN values : IsFirstOfKind(values, i)}

Seen == {i \in Firsts : i < next}

\* The links are those of the first values looked at, as they are spelled there; it
\* ends when all were looked at or when the links are as many as were asked for.
LoopInv ==
  /\ DOMAIN links = {Canonical(i) : i \in Seen}
  /\ \A i \in Seen : links[Canonical(i)] = Resolved(values[i]).url
  /\ \A i \in 1 .. next - 1 : Accepted(values[i]) => Canonical(i) \in DOMAIN links
  /\ stage = "done" => Firsts = Seen \/ Cardinality(DOMAIN links) = call.max_links

\* Nothing is looked at before the scan has ended.
LEMMA LoopWaits ==
  ASSUME LinkInv, next = 1, DOMAIN links = {}, stage # "done"
  PROVE  LoopInv
<1>1. DOMAIN values = 1 .. Len(values) /\ Len(values) \in Nat
  BY LenProperties DEF LinkInv
<1>2. Seen = {}
  BY <1>1 DEF Seen, Firsts
<1> QED
  BY <1>2 DEF LoopInv

LEMMA AddLinkFirst ==
  ASSUME LinkInv, LoopInv, AddLink
  PROVE  LoopInv'
<1>1. /\ next \in 1 .. Len(values) /\ Len(values) \in Nat /\ DOMAIN values = 1 .. Len(values)
      /\ next' = next + 1 /\ call' = call /\ values' = values
      /\ Accepted(values[next])
      /\ links' = WithLink(Resolved(values[next]))
      /\ stage' = IF AtLimit(links') THEN "done" ELSE "links"
  BY LenProperties DEF AddLink, Looking, LinkInv, LinksTypeOK
<1>2. /\ DOMAIN links' = DOMAIN links \cup {Canonical(next)}
      /\ \A c \in DOMAIN links : links'[c] = links[c]
      /\ Canonical(next) \notin DOMAIN links => links'[Canonical(next)] = Resolved(values[next]).url
  BY <1>1 DEF WithLink, Canonical
<1>3. Firsts' = Firsts
  BY <1>1 DEF Firsts, IsFirstOfKind, Accepted
<1>4. next \in Firsts <=> Canonical(next) \notin DOMAIN links
  <2>1. ASSUME next \in Firsts, Canonical(next) \in DOMAIN links PROVE FALSE
    <3>1. PICK i \in Seen : Canonical(i) = Canonical(next)
      BY <2>1 DEF LoopInv
    <3>2. i \in 1 .. next - 1 /\ Accepted(values[i])
      BY <1>1, <3>1 DEF Seen, Firsts, IsFirstOfKind
    <3> QED
      BY <2>1, <3>1, <3>2 DEF Firsts, IsFirstOfKind, Canonical
  <2>2. ASSUME Canonical(next) \notin DOMAIN links PROVE next \in Firsts
    <3>1. \A i \in 1 .. next - 1 : Accepted(values[i]) => Canonical(i) # Canonical(next)
      BY <2>2 DEF LoopInv
    <3> QED
      BY <1>1, <3>1 DEF Firsts, IsFirstOfKind, Canonical
  <2> QED
    BY <2>1, <2>2
<1>5. Seen' = IF next \in Firsts THEN Seen \cup {next} ELSE Seen
  <2>1. \A i \in Firsts : i \in Int /\ (i < next + 1 <=> i < next \/ i = next)
    BY <1>1 DEF Firsts
  <2> QED
    BY <1>1, <1>3, <2>1 DEF Seen
<1>6. \A i : Canonical(i)' = Canonical(i)
  BY <1>1 DEF Canonical
<1>7. DOMAIN links' = {Canonical(i) : i \in Seen'}
  <2>1. DOMAIN links = {Canonical(i) : i \in Seen}
    BY DEF LoopInv
  <2> QED
    BY <1>2, <1>4, <1>5, <2>1
<1>8. \A i \in Seen' : links'[Canonical(i)] = Resolved(values[i]).url
  <2>1. \A i \in Seen : Canonical(i) \in DOMAIN links /\ links[Canonical(i)] = Resolved(values[i]).url
    BY DEF LoopInv
  <2> QED
    BY <1>2, <1>4, <1>5, <2>1
<1>9. \A i \in 1 .. next' - 1 : Accepted(values[i]) => Canonical(i) \in DOMAIN links'
  <2>1. \A i \in 1 .. next' - 1 : i \in 1 .. next - 1 \/ i = next
    BY <1>1
  <2> QED
    BY <1>2, <2>1 DEF LoopInv
<1>10. stage' = "done" => Cardinality(DOMAIN links') = call.max_links
  <2>1. Cardinality(DOMAIN links') <= call.max_links /\ IsFiniteSet(DOMAIN links') /\ call.max_links \in Nat
    <3>1. LinkInv'
      BY AddLinkKeeps
    <3> QED
      BY <1>1, <3>1, BoundsAssumption DEF LinkInv, LinksTypeOK, Room, Call
  <2>2. Cardinality(DOMAIN links') \in Nat
    BY <2>1, FS_CardinalityType
  <2>3. stage' = "done" => Cardinality(DOMAIN links') >= call.max_links
    BY <1>1 DEF AtLimit
  <2> QED
    BY <2>1, <2>2, <2>3
<1>11. \A i : Accepted(values[i])' <=> Accepted(values[i])
  BY <1>1 DEF Accepted
<1> QED
  BY <1>1, <1>6, <1>7, <1>8, <1>9, <1>10, <1>11 DEF LoopInv, Accepted

LEMMA LoopKept ==
  ASSUME LinkInv, LoopInv, [Next]_vars
  PROVE  LoopInv'
<1>0. LinkInv'
  BY StepKeeps
<1>1. CASE NoValue \/ TakeValue \/ Start \/ EndScan
  <2>1. /\ next' = next /\ links' = links /\ stage \in {"start", "scan"}
        /\ stage' # "done"
    BY <1>1 DEF NoValue, TakeValue, Start, EndScan
  <2>2. next' = 1 /\ DOMAIN links' = {}
    BY <2>1 DEF LinkInv, Room
  <2>3. (LinkInv /\ next = 1 /\ DOMAIN links = {} /\ stage # "done" => LoopInv)'
    BY LoopWaits, PTL
  <2> QED
    BY <1>0, <2>1, <2>2, <2>3
<1>2. CASE AddLink
  BY <1>2, AddLinkFirst
<1>3. CASE SkipValue
  <2>1. /\ UNCHANGED <<call, markup, stage, cursor, values, links>> /\ next' = next + 1
        /\ stage = "links" /\ ~Accepted(values[next])
    BY <1>3 DEF SkipValue, Looking
  <2>2. next \in Nat /\ DOMAIN values = 1 .. Len(values)
    BY LenProperties DEF LinkInv, LinksTypeOK
  <2>3. Firsts' = Firsts /\ next \notin Firsts
    BY <2>1 DEF Firsts, IsFirstOfKind, Accepted
  <2>4. Seen' = Seen
    <3>1. \A i \in Firsts : i \in Int /\ i # next /\ (i < next + 1 <=> i < next)
      BY <2>2, <2>3 DEF Firsts
    <3> QED
      BY <2>1, <2>3, <3>1 DEF Seen
  <2>5. \A i \in 1 .. next' - 1 : Accepted(values[i]) => i \in 1 .. next - 1
    BY <2>1, <2>2
  <2> QED
    BY <2>1, <2>4, <2>5 DEF LoopInv, Canonical, Accepted
<1>4. CASE Finish
  <2>1. /\ UNCHANGED <<call, markup, cursor, values, next, links>> /\ next > Len(values)
    BY <1>4 DEF Finish
  <2>2. Seen = Firsts
    <3>1. next \in Nat /\ Len(values) \in Nat /\ DOMAIN values = 1 .. Len(values)
      BY LenProperties DEF LinkInv, LinksTypeOK
    <3> QED
      BY <2>1, <3>1 DEF Seen, Firsts
  <2>3. Seen' = Seen /\ Firsts' = Firsts
    BY <2>1 DEF Seen, Firsts, IsFirstOfKind, Accepted
  <2> QED
    BY <2>1, <2>2, <2>3 DEF LoopInv, Canonical, Accepted
<1>5. CASE UNCHANGED vars
  BY <1>5 DEF vars, LoopInv, Seen, Firsts, IsFirstOfKind, Canonical, Accepted
<1> QED
  BY <1>1, <1>2, <1>3, <1>4, <1>5 DEF Next, Discover, Done

LEMMA LoopInvariance == Spec => []LoopInv
<1>1. Init => LoopInv
  <2>1. Init => LinkInv /\ next = 1 /\ stage # "done" /\ DOMAIN links = {}
    BY InitEstablishes DEF Init
  <2> QED
    BY <2>1, LoopWaits
<1> QED
  BY <1>1, LinkInvariance, LoopKept, PTL DEF Spec

\* The canonical forms of the first values looked at are as many as those.
LEMMA AsManyLinks ==
  ASSUME LinkInv, LoopInv
  PROVE  IsFiniteSet(Seen) /\ Cardinality(Seen) = Cardinality(DOMAIN links)
<1> DEFINE f == [i \in Seen |-> Canonical(i)]
<1>1. DOMAIN links = {Canonical(i) : i \in Seen}
  BY DEF LoopInv
<1>2. DOMAIN values = 1 .. Len(values) /\ Len(values) \in Nat
  BY LenProperties DEF LinkInv
<1>3. IsFiniteSet(Seen)
  <2>1. IsFiniteSet(1 .. Len(values))
    BY <1>2, FS_Interval
  <2>2. Seen \in SUBSET (1 .. Len(values))
    BY <1>2 DEF Seen, Firsts
  <2> QED
    BY <2>1, <2>2, FS_Subset
<1>4. ASSUME NEW i \in Seen, NEW j \in Seen, Canonical(i) = Canonical(j) PROVE i = j
  <2>1. i \in 1 .. Len(values) /\ j \in 1 .. Len(values)
    BY <1>2 DEF Seen, Firsts
  <2>2. Accepted(values[i]) /\ Accepted(values[j])
    BY DEF Seen, Firsts, IsFirstOfKind
  <2>3. ~(i \in 1 .. j - 1)
    BY <1>4, <2>2 DEF Seen, Firsts, IsFirstOfKind, Canonical
  <2>4. ~(j \in 1 .. i - 1)
    BY <1>4, <2>2 DEF Seen, Firsts, IsFirstOfKind, Canonical
  <2> QED
    BY <2>1, <2>3, <2>4
<1>5. f \in Bijection(Seen, DOMAIN links)
  BY <1>1, <1>4 DEF Bijection, Injection, Surjection, IsInjective
<1> QED
  BY <1>3, <1>5, FS_Bijection DEF ExistsBijection

\* For every page and every limit, discover_links returns the first pages it links
\* to, each once and as it was first spelled.
THEOREM FirstLinksAreFound == Spec => []FirstLinksFound
<1>1. LinkInv /\ ScanInv /\ LoopInv => FirstLinksFound
  <2> SUFFICES ASSUME LinkInv, ScanInv, LoopInv, stage = "done",
                      NEW firsts, firsts = {i \in DOMAIN Hrefs : IsFirstOfKind(Hrefs, i)},
                      NEW kept,
                      kept = {i \in firsts : Cardinality({k \in firsts : k <= i}) <= call.max_links}
               PROVE  /\ DOMAIN links = {Resolved(Hrefs[i]).canonical : i \in kept}
                      /\ \A i \in kept : links[Resolved(Hrefs[i]).canonical] = Resolved(Hrefs[i]).url
    BY DEF FirstLinksFound
  <2>1. values = Hrefs /\ firsts = Firsts
    BY DEF ScanInv, Firsts
  <2>2. /\ DOMAIN values = 1 .. Len(values) /\ Len(values) \in Nat /\ next \in Nat
        /\ \A i \in Firsts : i \in 1 .. Len(values)
    BY LenProperties DEF LinkInv, LinksTypeOK, Firsts
  <2>3. /\ IsFiniteSet(Seen) /\ Cardinality(Seen) \in Nat /\ call.max_links \in Nat
        /\ Cardinality(Seen) <= call.max_links
        /\ Firsts = Seen \/ Cardinality(Seen) = call.max_links
    BY AsManyLinks, FS_CardinalityType, BoundsAssumption DEF LoopInv, LinkInv, LinksTypeOK, Call
  <2>4. ASSUME NEW i \in Seen PROVE i \in kept
    <3> DEFINE upto == {k \in Firsts : k <= i}
    <3>1. upto \in SUBSET Seen
      BY <2>2 DEF Seen
    <3>2. IsFiniteSet(upto) /\ Cardinality(upto) <= Cardinality(Seen)
      BY <2>3, <3>1, FS_Subset
    <3>3. Cardinality(upto) \in Nat
      BY <3>2, FS_CardinalityType
    <3>4. Cardinality(upto) <= call.max_links
      BY <2>3, <3>2, <3>3
    <3>5. i \in Firsts
      BY DEF Seen
    <3> QED
      BY <2>1, <3>4, <3>5
  <2>5. ASSUME NEW i \in Firsts, i \notin Seen PROVE i \notin kept
    <3> DEFINE upto == {k \in Firsts : k <= i}
    <3>1. Seen \cup {i} \in SUBSET upto
      BY <2>2, <2>5 DEF Seen
    <3>2. IsFiniteSet(upto)
      <4>1. upto \in SUBSET (1 .. Len(values))
        BY <2>2
      <4>2. IsFiniteSet(1 .. Len(values))
        BY <2>2, FS_Interval
      <4> QED
        BY <4>1, <4>2, FS_Subset
    <3>3. Cardinality(Seen \cup {i}) = Cardinality(Seen) + 1 /\ IsFiniteSet(Seen \cup {i})
      BY <2>3, <2>5, FS_AddElement
    <3>4. Cardinality(Seen \cup {i}) <= Cardinality(upto)
      BY <3>1, <3>2, FS_Subset
    <3>5. Cardinality(Seen) = call.max_links
      BY <2>3, <2>5
    <3>6. Cardinality(upto) \in Nat
      BY <3>2, FS_CardinalityType
    <3>7. ~(Cardinality(upto) <= call.max_links)
      BY <2>3, <3>3, <3>4, <3>5, <3>6
    <3> QED
      BY <2>1, <3>7
  <2>6. kept = Seen
    BY <2>1, <2>4, <2>5 DEF Seen
  <2>7. /\ DOMAIN links = {Canonical(i) : i \in Seen}
        /\ \A i \in Seen : links[Canonical(i)] = Resolved(values[i]).url
    BY DEF LoopInv
  <2> QED
    BY <2>1, <2>6, <2>7 DEF Canonical
<1> QED
  BY <1>1, LinkInvariance, ScanInvariance, LoopInvariance, PTL

=============================================================================
