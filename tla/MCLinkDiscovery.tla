--------------------------- MODULE MCLinkDiscovery ---------------------------
(* Pages of up to three pieces: every quoting, spacing and kind of value, and *)
(* texts that look like one, cut off or not.                                  *)
EXTENDS LinkDiscovery

Link(url, canonical, host) == [url |-> url, canonical |-> canonical, host |-> host]

\* Two spellings of a page of the base host, one of another host, a place in the
\* page, one that holds "href=", a quote or a space, and a mail address.
MCResolved(value) ==
  CASE value = <<"a">> -> Link("a", "A", "base")
    [] value = <<"lead", "cont">> -> Link("lc", "A", "base")
    [] value = <<"b">> -> Link("b", "B", "other")
    [] value = <<"a", "href", "=", "b">> -> Link("c", "C", "base")
    [] value = <<"'", " ", "b">> -> Link("d", "D", "base")
    [] value = <<"#", "a">> -> Link("base", "BASE", "base")
    [] OTHER -> Null

MCByte == {"a", "b", "m", "#", "href", "lead", "cont", "=", " ", ">", "'", "\""}

Plain == {<< >>, <<"a">>, <<"lead", "cont">>, <<"b">>, <<"a", "href", "=", "b">>,
          <<"#", "a">>, <<"m">>}

Texts == {Text(<<"href">>), Text(<<"href", "lead", "cont">>), Text(<<"href", " ", ">">>),
          Text(<<"a", "'">>)}

Attributes ==
  {Attribute(<<" ">>, <<"\"">>, value) : value \in Plain \cup {<<"'", " ", "b">>}}
  \cup {Attribute(<< >>, <<"'">>, value) : value \in Plain}
  \cup {Attribute(<<" ">>, << >>, value) : value \in Plain \ {<< >>}}

Pieces == Texts \cup Attributes
Few == Texts \cup {Attribute(<< >>, <<"\"">>, value) : value \in Plain \ {<< >>}}

MCPage ==
  {<< >>} \cup {<<p>> : p \in Pieces} \cup {<<p, q>> : p \in Pieces, q \in Pieces}
  \cup {<<p, q, r>> : p \in Few, q \in Few, r \in Few}
  \cup {<<p, Text(<<"href", " ", "=">>)>> : p \in Pieces}
=============================================================================
