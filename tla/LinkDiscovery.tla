---------------------------- MODULE LinkDiscovery ----------------------------
(* The links of a page: discover_links() and extract_href_values() of         *)
(* src/src/ingestion/content.rs.                                              *)
(*                                                                            *)
(* Markup is a sequence of bytes, of which the letters of "href" are one and  *)
(* a character outside ASCII is two, "lead" and "cont".  It is written from   *)
(* pieces, texts and href attributes, so that what the scan should find is    *)
(* known.  Positions count from one.                                          *)
EXTENDS Integers, Sequences, FiniteSets, SequencesExt, FiniteSetsExt

CONSTANTS Byte,         \* bytes of pages
          Page,         \* sequences of pieces
          Resolved(_),  \* url, canonical and host of an href joined to the base
                        \* URL, less its fragment; or Null where that, its
                        \* scheme, its user information or its canonical form
                        \* is not accepted
          BaseHost,     \* host of the base URL
          MaxLinks,     \* values of max_links
          LinkCeiling,  \* 10000 in the code
          Null

VARIABLES call,    \* the arguments: page, base_ok, same_host_only, max_links
          markup,  \* the page as it is written
          stage,   \* start, scan, links, done or refused
          cursor,  \* where the scan goes on
          values,  \* href values found
          next,    \* the next of them to look at
          links    \* the url under each canonical form: they are returned in its order
vars == <<call, markup, stage, cursor, values, next, links>>

Text(bytes) == [kind |-> "text", bytes |-> bytes]
Attribute(gap, quote, value) ==
  [kind |-> "attribute", gap |-> gap, quote |-> quote, value |-> value]

Written(piece) ==
  IF piece.kind = "text"
  THEN piece.bytes
  ELSE <<"href">> \o piece.gap \o <<"=">> \o piece.gap
       \o piece.quote \o piece.value \o piece.quote \o <<">">>

Markup(page) == FlattenSeq([i \in DOMAIN page |-> Written(page[i])])

\* How many bytes stand before piece i.
Offset(page, i) == Len(Markup(SubSeq(page, 1, i - 1)))

ASSUME BoundsAssumption == MaxLinks \subseteq Nat /\ LinkCeiling \in Nat

Quotes == {"'", "\""}

HtmlText == [kind : {"text"}, bytes : Seq(Byte)]
HtmlAttribute == [kind : {"attribute"}, gap : Seq({" "}),
                  quote : {<< >>} \cup {<<q>> : q \in Quotes}, value : Seq(Byte)]

\* A page is a str: "cont" only ever follows "lead".
ASSUME StrAssumption ==
  /\ {"href", "=", " ", ">"} \cup Quotes \subseteq Byte
  /\ Page \subseteq Seq(HtmlText \cup HtmlAttribute)
  /\ \A page \in Page :
       LET bytes == Markup(page)
       IN  \A i \in DOMAIN bytes : bytes[i] = "cont" => i > 1 /\ bytes[i - 1] = "lead"

\* A value does not hold the byte that ends it; one without quotes does not start
\* with a quote either.
Delimited(attribute) ==
  \A d \in DOMAIN attribute.value :
    IF attribute.quote = << >>
    THEN attribute.value[d] \notin {" ", ">"} /\ (d = 1 => attribute.value[d] \notin Quotes)
    ELSE attribute.value[d] # attribute.quote[1]

\* No "href" among these bytes of a page is given a value: an "=" that follows it
\* is followed by nothing.
NothingAssigned(bytes, first, last) ==
  \A h \in first .. last : bytes[h] = "href" =>
    \A k \in h + 1 .. Len(bytes) :
      bytes[k] = "=" /\ (\A n \in h + 1 .. k - 1 : bytes[n] = " ") =>
        \A n \in k + 1 .. Len(bytes) : bytes[n] = " "

\* The pieces are what they are called.
ASSUME PieceAssumption ==
  \A page \in Page : \A i \in DOMAIN page :
    IF page[i].kind = "attribute"
    THEN Delimited(page[i])
    ELSE NothingAssigned(Markup(page), Offset(page, i) + 1, Offset(page, i + 1))

Call == [page : Page, base_ok : BOOLEAN, same_host_only : BOOLEAN, max_links : MaxLinks]
-----------------------------------------------------------------------------
(* The scan for href values *)

End == Len(markup) + 1

\* k is the first position from i on at which the markup ends or its byte stops.
IsFirst(k, i, Stops(_)) ==
  /\ k < End => Stops(markup[k])
  /\ \A n \in i .. k - 1 : ~Stops(markup[n])

PastSpaces(k, i) == IsFirst(k, i, LAMBDA byte : byte # " ")

\* The next "href" is at h, and the byte after it and its spaces at k.
HrefAt(h, k) ==
  /\ h < End /\ IsFirst(h, cursor, LAMBDA byte : byte = "href")
  /\ PastSpaces(k, h + 1)

Assigns(k) == k < End /\ markup[k] = "="

\* Mutant of Closes: any quote ends a quoted value.
Closes_AnyQuote(open, byte) == IF open \in Quotes THEN byte \in Quotes ELSE byte \in {" ", ">"}

\* byte ends the value that starts with the byte open.
Closes(open, byte) == IF open \in Quotes THEN byte = open ELSE byte \in {" ", ">"}

\* Mutants of Resume: the byte that was no "=" is passed over; the scan goes
\* back to where it was.
Resume_PastByte(k) == Min({k + 1, End})
Resume_Stays(k) == cursor

Resume(k) == k

NoValue ==
  /\ stage = "scan"
  /\ \E h \in cursor .. End : \E k \in h + 1 .. End :
       /\ HrefAt(h, k) /\ ~Assigns(k)
       /\ cursor' = Resume(k)
  /\ UNCHANGED <<call, markup, stage, values, next, links>>

Valued(start, stop) ==
  IF start < stop THEN Append(values, SubSeq(markup, start, stop - 1)) ELSE values

TakeValue ==
  /\ stage = "scan"
  /\ \E h \in cursor .. End : \E k \in h + 1 .. End : \E v \in k + 1 .. End :
       /\ HrefAt(h, k) /\ Assigns(k) /\ PastSpaces(v, k + 1) /\ v < End
       /\ LET open == markup[v]
              start == IF open \in Quotes THEN v + 1 ELSE v
          IN  \E stop \in start .. End :
                /\ IsFirst(stop, start, LAMBDA byte : Closes(open, byte))
                /\ values' = Valued(start, stop)
                /\ cursor' = Min({stop + 1, End})
  /\ UNCHANGED <<call, markup, stage, next, links>>

\* No "href" is left, or nothing follows the "=" of the last one.
EndScan ==
  /\ stage = "scan"
  /\ \/ \A h \in cursor .. Len(markup) : markup[h] # "href"
     \/ \E h \in cursor .. End : \E k \in h + 1 .. End :
          HrefAt(h, k) /\ Assigns(k) /\ PastSpaces(End, k + 1)
  /\ stage' = "links"
  /\ UNCHANGED <<call, markup, cursor, values, next, links>>
-----------------------------------------------------------------------------
(* The links among them *)

Init ==
  /\ call \in Call /\ markup = Markup(call.page) /\ stage = "start"
  /\ cursor = 1 /\ values = << >> /\ next = 1 /\ links = << >>

Start ==
  /\ stage = "start"
  /\ stage' = IF call.max_links \in 1 .. LinkCeiling /\ call.base_ok THEN "scan" ELSE "refused"
  /\ UNCHANGED <<call, markup, cursor, values, next, links>>

\* A link of its own, and not a place in this page.
Accepted(value) ==
  /\ Head(value) # "#"
  /\ Resolved(value) # Null
  /\ call.same_host_only => Resolved(value).host = BaseHost

Looking == stage = "links" /\ next <= Len(values)

SkipValue ==
  /\ Looking /\ ~Accepted(values[next])
  /\ next' = next + 1
  /\ UNCHANGED <<call, markup, stage, cursor, values, links>>

\* Mutant of WithLink: a later spelling replaces the first.
WithLink_Replaced(link) ==
  [c \in DOMAIN links \cup {link.canonical} |->
     IF c = link.canonical THEN link.url ELSE links[c]]

\* entry().or_insert_with()
WithLink(link) ==
  [c \in DOMAIN links \cup {link.canonical} |->
     IF c \in DOMAIN links THEN links[c] ELSE link.url]

AtLimit(found) == Cardinality(DOMAIN found) >= call.max_links

AddLink ==
  /\ Looking /\ Accepted(values[next])
  /\ links' = WithLink(Resolved(values[next]))
  /\ next' = next + 1
  /\ stage' = IF AtLimit(links') THEN "done" ELSE "links"
  /\ UNCHANGED <<call, markup, cursor, values>>

Finish ==
  /\ stage = "links" /\ next > Len(values)
  /\ stage' = "done"
  /\ UNCHANGED <<call, markup, cursor, values, next, links>>

Done == stage \in {"done", "refused"} /\ UNCHANGED vars

Discover == Start \/ NoValue \/ TakeValue \/ EndScan \/ SkipValue \/ AddLink \/ Finish

Next == Discover \/ Done

Spec == Init /\ [][Next]_vars /\ WF_vars(Discover)
-----------------------------------------------------------------------------
(* Properties *)

\* Type invariant of the scan and of the loop over its values, which never holds
\* more links than it was asked for.  The scan goes on between characters:
\* lowered[cursor..] would panic inside one (content.rs, extract_href_values).
LinksTypeOK ==
  /\ stage \in {"start", "scan", "links", "done", "refused"}
  /\ cursor \in 1 .. End
  /\ cursor = End \/ markup[cursor] # "cont"
  /\ next \in 1 .. Len(values) + 1
  /\ DOMAIN links \subseteq
       {Resolved(values[i]).canonical : i \in {k \in 1 .. next - 1 : Accepted(values[k])}}
  /\ Cardinality(DOMAIN links) <= call.max_links

\* The values that are not empty.
HrefsOf(page) ==
  FlattenSeq([i \in DOMAIN page |->
    IF page[i].kind = "attribute" /\ page[i].value # << >> THEN <<page[i].value>> ELSE << >>])

Hrefs == HrefsOf(call.page)

\* The scan finds the attributes that were written, each once and in their order,
\* however they are quoted and spaced and whatever text stands between them.
ValuesAreAttributes ==
  /\ IsPrefix(values, Hrefs)
  /\ stage \in {"links", "done"} => values = Hrefs

\* hrefs[i] is the first accepted value of its canonical form.
IsFirstOfKind(hrefs, i) ==
  /\ Accepted(hrefs[i])
  /\ \A k \in 1 .. i - 1 :
       Accepted(hrefs[k]) => Resolved(hrefs[k]).canonical # Resolved(hrefs[i]).canonical

\* The call returns the first max_links pages the markup links to, each once and
\* as it was first spelled.
FirstLinksFound ==
  LET hrefs == Hrefs
      firsts == {i \in DOMAIN hrefs : IsFirstOfKind(hrefs, i)}
      kept == {i \in firsts : Cardinality({k \in firsts : k <= i}) <= call.max_links}
  IN  stage = "done" =>
        /\ DOMAIN links = {Resolved(hrefs[i]).canonical : i \in kept}
        /\ \A i \in kept : links[Resolved(hrefs[i]).canonical] = Resolved(hrefs[i]).url

\* Every call returns: each round of the scan leaves its "href" behind.
CallReturns == <>(stage \in {"done", "refused"})
=============================================================================
