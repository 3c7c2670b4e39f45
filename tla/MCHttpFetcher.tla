---------------------------- MODULE MCHttpFetcher ---------------------------
EXTENDS HttpFetcher, TLC

Site == <<"site", "example">>
Blog == <<"blog", "site", "example">>
Other == <<"other", "example">>
Dotted == <<"site", "example", "">>
TwiceDotted == <<"site", "example", "", "">>

Feed == UrlOf(Site, <<"feed">>, TRUE)
FeedPage == UrlOf(Site, <<"feed", "1">>, TRUE)
BlogFeed == UrlOf(Blog, <<"feed">>, TRUE)
OddPort == UrlOf(Site, <<"feed">>, FALSE)
OtherFeed == UrlOf(Other, <<"feed">>, TRUE)
DottedFeed == UrlOf(Dotted, <<"feed">>, TRUE)
TwiceDottedFeed == UrlOf(TwiceDotted, <<"feed">>, TRUE)
Feeder == UrlOf(Site, <<"feeder">>, TRUE)

WithBlog == AllowHost(ForUrl(Feed), Blog)
AnyPortBelow == [ForUrl(Feed) EXCEPT !.subdomains = TRUE, !.default_port = FALSE]

(* Two sources whose pages redirect into each other's host, each with a    *)
(* stored validator, one of them on any port, and a third registered on a  *)
(* port its own scope refuses.  The host is also spelled with two dots.    *)
MCRequest ==
    { [url |-> Feed, scope |-> WithBlog, conditional |-> TRUE],
      [url |-> BlogFeed, scope |-> AnyPortBelow, conditional |-> TRUE],
      [url |-> OddPort, scope |-> ForUrl(OddPort), conditional |-> FALSE] }
MCTarget == {FeedPage, BlogFeed, Feeder, OtherFeed, OddPort, TwiceDottedFeed}

DottedRequest == { [url |-> Feed, scope |-> ForUrl(Feed), conditional |-> FALSE] }
DottedTarget == {DottedFeed}

=============================================================================
