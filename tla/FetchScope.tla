----------------------------- MODULE FetchScope -----------------------------
(***************************************************************************)
(* What a source may fetch: the scope of src/src/ingestion/network/        *)
(* policy.rs and the target check of safety.rs.                            *)
(*                                                                         *)
(* A host is the sequence of its labels, a path the sequence of its        *)
(* segments, so that the string tests of the code on '.' and '/'           *)
(* boundaries become tests on sequences.  A fully qualified host written   *)
(* with its trailing dot ends in the empty label, and a path ending in a   *)
(* slash in the empty segment.                                             *)
(***************************************************************************)
EXTENDS Sequences, SequencesExt, Integers

(* A URL as far as the scope looks at it; "standard" is uses_default_port. *)
UrlOf(host, path, standard) == [host |-> host, path |-> path, standard |-> standard]

(* Drops the empty elements that trailing separators leave, all of them. *)
Trimmed(s) == SubSeq(s, 1, SelectLastInSeq(s, LAMBDA element : element # ""))

NormalHost(host) == Trimmed(host)

(* A registered host is a DNS name of two labels or more, none empty. *)
IsRegistrable(host) ==
    LET name == NormalHost(host)
    IN  Len(name) >= 2 /\ \A i \in DOMAIN name : name[i] # ""

(* The prefix covers whole segments: /blog covers /blog/post, not /blogger. *)
PathMatchesPrefix(path, prefix) == IsPrefix(Trimmed(prefix), path)

(* FetchScope::for_url: the URL's own host and path, default ports only. *)
ForUrl(url) ==
    [root |-> NormalHost(url.host), subdomains |-> FALSE, hosts |-> {},
     prefixes |-> {url.path}, default_port |-> TRUE]

AllowHost(scope, host) == [scope EXCEPT !.hosts = @ \union {NormalHost(host)}]

AllowPathPrefix(scope, prefix) == [scope EXCEPT !.prefixes = @ \union {prefix}]

HostAllowed(scope, host) ==
    \/ host = scope.root
    \/ host \in scope.hosts
    \/ scope.subdomains /\ IsStrictSuffix(scope.root, host)

AllowsUrl(scope, url) ==
    /\ IsRegistrable(url.host)
    /\ HostAllowed(scope, NormalHost(url.host))
    /\ scope.default_port => url.standard
    /\ \E prefix \in scope.prefixes : PathMatchesPrefix(url.path, prefix)
=============================================================================
