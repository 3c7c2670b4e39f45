----------------------------- MODULE HttpFetcher ----------------------------
(***************************************************************************)
(* Concurrent fetches through one HttpFetcher                              *)
(* (src/src/ingestion/network/fetcher.rs).                                 *)
(*                                                                         *)
(* A fetch follows redirects itself, one hop at a time.  On each hop it    *)
(* takes a permit of the host it is about to call, resolves the host,      *)
(* sends the request, and holds the permit until the hop is over: the      *)
(* permit of the last hop until the body has been read.  The semaphores    *)
(* are shared by every clone of the fetcher and serve waiters in order.    *)
(*                                                                         *)
(* Time is not modelled.  A request that exceeds request_timeout and one   *)
(* that fails otherwise are the same answer here, "failed".                *)
(***************************************************************************)
EXTENDS FetchScope, FiniteSets

CONSTANTS
    Fetch,          \* calls of fetch
    Request,        \* what a call may ask for: [url, scope, conditional]
    Target,         \* URLs a server may redirect to
    Limit,          \* max_concurrency_per_host
    MaxRedirects,   \* max_redirects
    Null            \* no request yet

ASSUMPTION FetcherAssumption ==
    /\ IsFiniteSet(Fetch)
    /\ Limit \in Nat \ {0}
    /\ MaxRedirects \in Nat

VARIABLES
    pc,         \* where each fetch is
    request,    \* what it was asked for
    current,    \* the URL of the hop it is on
    hops,       \* redirects it has followed
    held,       \* the hosts it holds a permit of
    available,  \* permits left, per host
    waiting,    \* fetches queued for a permit, per host
    wire,       \* the requests it has sent
    outcome     \* what it returned

task == <<pc, request, current, hops>>
limiter == <<held, available, waiting>>
vars == <<pc, request, current, hops, held, available, waiting, wire, outcome>>

(* Limiters are created on first use and never dropped; a host never asked *)
(* for is indistinguishable from one whose permits are all available.      *)
Host == {r.url.host : r \in Request} \union {url.host : url \in Target}

Outcome == {"pending", "changed", "not_modified", "out_of_scope", "dns_failed",
            "request_failed", "redirect_limit", "invalid_redirect", "refused"}

(* The semaphore's key is the host of the URL as spelled. *)
LimiterKey(url) == url.host

(* prepare_target_url, on the first URL and on every redirect. *)
Prepared_HostOnly(r, url) == HostAllowed(r.scope, NormalHost(url.host))
Prepared(r, url) == AllowsUrl(r.scope, url)

(* Validators go to the host the caller asked for, and to no other. *)
SendsValidators_Always(r, url) == r.conditional
SendsValidators(r, url) == r.conditional /\ url.host = r.url.host

Init ==
    /\ pc = [f \in Fetch |-> "idle"]
    /\ request = [f \in Fetch |-> Null]
    /\ current = [f \in Fetch |-> Null]
    /\ hops = [f \in Fetch |-> 0]
    /\ held = [f \in Fetch |-> {}]
    /\ available = [h \in Host |-> Limit]
    /\ waiting = [h \in Host |-> << >>]
    /\ wire = [f \in Fetch |-> << >>]
    /\ outcome = [f \in Fetch |-> "pending"]

Goto(f, here, there) == pc[f] = here /\ pc' = [pc EXCEPT ![f] = there]

(* The hop's permit goes back to its semaphore when the hop ends. *)
ReleasePermits_Leaks(f) ==
    held' = [held EXCEPT ![f] = {}] /\ UNCHANGED <<available, waiting>>
ReleasePermits(f) ==
    /\ available' = [h \in Host |-> available[h] + IF h \in held[f] THEN 1 ELSE 0]
    /\ held' = [held EXCEPT ![f] = {}]
    /\ UNCHANGED waiting

(* Returning from inside the loop drops the permit of the hop. *)
Return(f, here, result) ==
    /\ Goto(f, here, "done")
    /\ outcome' = [outcome EXCEPT ![f] = result]
    /\ ReleasePermits(f)
    /\ UNCHANGED <<request, current, hops, wire>>

Begin(f, r) ==
    /\ request' = [request EXCEPT ![f] = r]
    /\ current' = [current EXCEPT ![f] = r.url]
    /\ UNCHANGED <<hops, limiter, wire>>
    /\ \/ /\ Prepared(r, r.url)
          /\ Goto(f, "idle", "hop")
          /\ UNCHANGED outcome
       \/ /\ ~Prepared(r, r.url)
          /\ Goto(f, "idle", "done")
          /\ outcome' = [outcome EXCEPT ![f] = "out_of_scope"]

(* acquire_host_permit: join the queue of the hop's host ... *)
AskPermit(f) ==
    /\ Goto(f, "hop", "queued")
    /\ LET h == LimiterKey(current[f])
       IN  waiting' = [waiting EXCEPT ![h] = Append(@, f)]
    /\ UNCHANGED <<request, current, hops, held, available, wire, outcome>>

(* ... and be admitted, first come first served. *)
Admit(f) ==
    LET h == LimiterKey(current[f])
    IN  /\ Goto(f, "queued", "resolve")
        /\ available[h] > 0
        /\ Head(waiting[h]) = f
        /\ available' = [available EXCEPT ![h] = @ - 1]
        /\ waiting' = [waiting EXCEPT ![h] = Tail(@)]
        /\ held' = [held EXCEPT ![f] = @ \union {h}]
        /\ UNCHANGED <<request, current, hops, wire, outcome>>

(* pinned_client: the lookup yields a public address to connect to, or the *)
(* fetch ends; or the resolver never answers, and no timeout is armed yet. *)
Resolve(f) ==
    \/ /\ Goto(f, "resolve", "send")
       /\ UNCHANGED <<request, current, hops, limiter, wire, outcome>>
    \/ Return(f, "resolve", "dns_failed")

Send(f) ==
    /\ Goto(f, "send", "answer")
    /\ wire' = [wire EXCEPT ![f] = Append(@,
                  [url |-> current[f], validators |-> SendsValidators(request[f], current[f])])]
    /\ UNCHANGED <<request, current, hops, limiter, outcome>>

(* Any 304 ends the fetch, also one to a request that sent no validators:  *)
(* the server is taken at its word.                                        *)
NotModified(f) == Return(f, "answer", "not_modified")

(* A redirect within the limit and the scope starts the next hop; the      *)
(* permit is dropped with the hop it was taken for.                        *)
Follow_KeepsPermit(f, url) ==
    /\ Goto(f, "answer", "hop")
    /\ hops[f] < MaxRedirects
    /\ Prepared(request[f], url)
    /\ current' = [current EXCEPT ![f] = url]
    /\ hops' = [hops EXCEPT ![f] = @ + 1]
    /\ UNCHANGED <<request, limiter, wire, outcome>>
Follow(f, url) ==
    /\ Goto(f, "answer", "hop")
    /\ hops[f] < MaxRedirects
    /\ Prepared(request[f], url)
    /\ current' = [current EXCEPT ![f] = url]
    /\ hops' = [hops EXCEPT ![f] = @ + 1]
    /\ ReleasePermits(f)
    /\ UNCHANGED <<request, wire, outcome>>

(* A redirect too many, one without a usable Location, one out of scope. *)
RefuseRedirect(f) ==
    \/ Return(f, "answer", "redirect_limit") /\ hops[f] = MaxRedirects
    \/ Return(f, "answer", "invalid_redirect") /\ hops[f] < MaxRedirects
    \/ /\ Return(f, "answer", "out_of_scope")
       /\ hops[f] < MaxRedirects
       /\ \E url \in Target : ~Prepared(request[f], url)

(* A status, declared length or content type that is not accepted. *)
Refuse(f) == Return(f, "answer", "refused")

RequestFails(f) == \E here \in {"answer", "body"} : Return(f, here, "request_failed")

(* A success whose headers pass: the body is read under the same permit. *)
Accept_DropsPermit(f) ==
    /\ Goto(f, "answer", "body")
    /\ ReleasePermits(f)
    /\ UNCHANGED <<request, current, hops, wire, outcome>>
Accept(f) ==
    /\ Goto(f, "answer", "body")
    /\ UNCHANGED <<request, current, hops, limiter, wire, outcome>>

(* The body is within max_response_bytes and its document extracted, or not. *)
ReadBody(f) == Return(f, "body", "changed") \/ Return(f, "body", "refused")

Answer(f) ==
    \/ NotModified(f)
    \/ \E url \in Target : Follow(f, url)
    \/ RefuseRedirect(f)
    \/ Refuse(f)
    \/ RequestFails(f)
    \/ Accept(f)

(* What a fetch does by itself, or under request_timeout. *)
Proceed(f) == AskPermit(f) \/ Admit(f) \/ Send(f) \/ Answer(f) \/ ReadBody(f)

Advance(f) == Proceed(f) \/ Resolve(f)

Next == \E f \in Fetch : (\E r \in Request : Begin(f, r)) \/ Advance(f)

(* A request is answered or times out, a body ends or times out, and the   *)
(* semaphore serves its queue; a lookup need not end.                      *)
Spec == Init /\ [][Next]_vars /\ \A f \in Fetch : WF_vars(Proceed(f))

-----------------------------------------------------------------------------
InFlight(f) == pc[f] \in {"resolve", "send", "answer", "body"}

(* Types, and what the limiter's books say: a fetch holds exactly the      *)
(* permit of the hop it is on, waits in that host's queue and in no other, *)
(* and every permit is either available or held (acquire_host_permit and   *)
(* the drop of the permit on each of the ways out of a hop).               *)
FetcherTypeOK ==
    /\ pc \in [Fetch -> {"idle", "hop", "queued", "resolve", "send", "answer", "body", "done"}]
    /\ outcome \in [Fetch -> Outcome]
    /\ hops \in [Fetch -> 0..MaxRedirects]
    /\ \A f \in Fetch : pc[f] = "done" <=> outcome[f] # "pending"
    /\ \A f \in Fetch : held[f] = IF InFlight(f) THEN {LimiterKey(current[f])} ELSE {}
    /\ \A h \in Host : available[h] + Cardinality({f \in Fetch : h \in held[f]}) = Limit
    /\ \A h \in Host : /\ IsInjective(waiting[h])
                       /\ ToSet(waiting[h]) = {f \in Fetch : pc[f] = "queued" /\ LimiterKey(current[f]) = h}

(* No host is called by more than Limit fetches at once, whichever hosts   *)
(* redirect to it and however long the bodies take (README: per-host       *)
(* concurrency).                                                           *)
HostSpared ==
    \A h \in Host :
        Cardinality({f \in Fetch : InFlight(f) /\ current[f].host = h}) <= Limit

(* Whatever the servers redirect to, every request sent is in the scope    *)
(* the caller registered, the caller's validators are sent to the host the *)
(* caller asked for and to no other, and at most MaxRedirects + 1 requests *)
(* are sent.                                                               *)
WireInScope ==
    \A f \in Fetch :
        /\ Len(wire[f]) <= MaxRedirects + 1
        /\ \A i \in DOMAIN wire[f] :
              /\ AllowsUrl(request[f].scope, wire[f][i].url)
              /\ wire[f][i].validators => wire[f][i].url.host = request[f].url.host

(* A fetch looks its host up, or waits for a host all of whose permits are *)
(* held by fetches that look it up.                                        *)
HeldUp(f) ==
    \/ pc[f] = "resolve"
    \/ /\ pc[f] = "queued"
       /\ Cardinality({g \in Fetch : pc[g] = "resolve" /\ LimiterKey(current[g]) = LimiterKey(current[f])}) = Limit

(* Every call returns, unless a lookup never ends, and then only calls on  *)
(* a hop to that host are held up: fetches that redirect into each other's *)
(* hosts never wait for each other, a chain of redirects ends, and a       *)
(* resolver that hangs for one host leaves the others alone.               *)
FetchReturns ==
    \A f \in Fetch : <>(pc[f] # "idle") => <>(pc[f] = "done") \/ <>[]HeldUp(f)

(* The README's "per-host concurrency" of the host itself, whichever way   *)
(* the URL spells it: the scope reads a host with and without its trailing *)
(* dot as the same host.                                                   *)
NamedHostSpared ==
    \A h \in Host :
        Cardinality({f \in Fetch : InFlight(f) /\ NormalHost(current[f].host) = h}) <= Limit

=============================================================================
