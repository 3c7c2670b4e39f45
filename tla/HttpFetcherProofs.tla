--------------------------- MODULE HttpFetcherProofs --------------------------
(***************************************************************************)
(* Theorems about HttpFetcher, for any number of concurrent fetches, every *)
(* set of requests and redirect targets, and every limit.                  *)
(***************************************************************************)
EXTENDS HttpFetcher, FiniteSetTheorems, TLAPS

Url == {r.url : r \in Request} \union Target

(* The fetches that hold a permit of h. *)
Holders(h) == {f \in Fetch : h \in held[f]}

(* Between the scope check of a hop and its request. *)
OnItsWay(f) == pc[f] \in {"hop", "queued", "resolve", "send"}

Place == {"idle", "hop", "queued", "resolve", "send", "answer", "body", "done"}

TaskTypes ==
    /\ pc \in [Fetch -> Place]
    /\ request \in [Fetch -> Request \union {Null}]
    /\ current \in [Fetch -> Url \union {Null}]
    /\ hops \in [Fetch -> 0..MaxRedirects]
    /\ wire \in [Fetch -> Seq([url : Url, validators : BOOLEAN])]
    /\ outcome \in [Fetch -> Outcome]
    /\ \A f \in Fetch : pc[f] # "idle" => request[f] \in Request /\ current[f] \in Url
    /\ \A f \in Fetch : pc[f] = "done" <=> outcome[f] # "pending"

(* Every permit is available or held by a fetch on a hop to its host, and  *)
(* a queue holds each of the fetches that wait for its host once.          *)
LimiterBooks ==
    /\ held \in [Fetch -> SUBSET Host]
    /\ available \in [Host -> Nat]
    /\ waiting \in [Host -> Seq(Fetch)]
    /\ \A f \in Fetch : held[f] = IF InFlight(f) THEN {LimiterKey(current[f])} ELSE {}
    /\ \A h \in Host : available[h] + Cardinality(Holders(h)) = Limit
    /\ \A h \in Host : /\ IsInjective(waiting[h])
                       /\ ToSet(waiting[h]) = {f \in Fetch : pc[f] = "queued" /\ LimiterKey(current[f]) = h}

(* A fetch on its way has sent one request for every redirect it followed, *)
(* one that waits for an answer has sent one more.                         *)
Traffic(f) ==
    /\ OnItsWay(f) => AllowsUrl(request[f].scope, current[f]) /\ Len(wire[f]) = hops[f]
    /\ pc[f] = "idle" => wire[f] = << >> /\ hops[f] = 0
    /\ Len(wire[f]) <= hops[f] + 1
    /\ \A i \in DOMAIN wire[f] :
          /\ AllowsUrl(request[f].scope, wire[f][i].url)
          /\ wire[f][i].validators => wire[f][i].url.host = request[f].url.host
    /\ pc[f] = "answer" => Len(wire[f]) = hops[f] + 1

FetcherInv == TaskTypes /\ LimiterBooks /\ \A f \in Fetch : Traffic(f)

-----------------------------------------------------------------------------
(* Queues of distinct members *)

(* A newcomer at the end leaves the members of a queue distinct. *)
LEMMA JoinQueue ==
    ASSUME NEW S, NEW q \in Seq(S), NEW x \in S, IsInjective(q), x \notin ToSet(q)
    PROVE  /\ Append(q, x) \in Seq(S) /\ IsInjective(Append(q, x))
           /\ ToSet(Append(q, x)) = ToSet(q) \union {x}
<1>1. /\ Append(q, x) \in Seq(S) /\ DOMAIN Append(q, x) = 1 .. (Len(q) + 1)
      /\ DOMAIN q = 1 .. Len(q) /\ Len(q) \in Nat
      /\ \A i \in 1 .. Len(q) : Append(q, x)[i] = q[i]
      /\ Append(q, x)[Len(q) + 1] = x
    OBVIOUS
<1>2. IsInjective(Append(q, x))
    BY <1>1 DEF IsInjective, ToSet
<1>3. ToSet(Append(q, x)) = ToSet(q) \union {x}
    <2>1. \A y \in ToSet(Append(q, x)) : y \in ToSet(q) \union {x}
        BY <1>1 DEF ToSet
    <2>2. \A y \in ToSet(q) \union {x} : y \in ToSet(Append(q, x))
        BY <1>1 DEF ToSet
    <2> QED
        BY <2>1, <2>2
<1> QED
    BY <1>1, <1>2, <1>3

(* So does the first member when it goes. *)
LEMMA LeaveQueue ==
    ASSUME NEW S, NEW q \in Seq(S), q # << >>, IsInjective(q)
    PROVE  /\ Tail(q) \in Seq(S) /\ IsInjective(Tail(q))
           /\ ToSet(Tail(q)) = ToSet(q) \ {Head(q)}
<1>1. /\ Tail(q) \in Seq(S) /\ DOMAIN Tail(q) = 1 .. (Len(q) - 1)
      /\ DOMAIN q = 1 .. Len(q) /\ Len(q) \in Nat /\ Len(q) >= 1
      /\ \A i \in 1 .. (Len(q) - 1) : Tail(q)[i] = q[i + 1]
      /\ Head(q) = q[1]
    OBVIOUS
<1>2. IsInjective(Tail(q))
    <2> SUFFICES ASSUME NEW i \in 1 .. (Len(q) - 1), NEW j \in 1 .. (Len(q) - 1),
                        Tail(q)[i] = Tail(q)[j]
                 PROVE  i = j
        BY <1>1 DEF IsInjective
    <2>1. i + 1 \in DOMAIN q /\ j + 1 \in DOMAIN q /\ q[i + 1] = q[j + 1]
        BY <1>1
    <2> QED
        BY <2>1 DEF IsInjective
<1>3. \A y \in ToSet(Tail(q)) : y \in ToSet(q) \ {Head(q)}
    <2> SUFFICES ASSUME NEW i \in 1 .. (Len(q) - 1)
                 PROVE  Tail(q)[i] \in ToSet(q) \ {Head(q)}
        BY <1>1 DEF ToSet
    <2>1. i + 1 \in DOMAIN q /\ 1 \in DOMAIN q /\ i + 1 # 1 /\ Tail(q)[i] = q[i + 1]
        BY <1>1
    <2> QED
        BY <1>1, <2>1 DEF ToSet, IsInjective
<1>4. \A y \in ToSet(q) \ {Head(q)} : y \in ToSet(Tail(q))
    <2> SUFFICES ASSUME NEW i \in DOMAIN q, q[i] # Head(q)
                 PROVE  q[i] \in ToSet(Tail(q))
        BY DEF ToSet
    <2>1. i - 1 \in 1 .. (Len(q) - 1) /\ Tail(q)[i - 1] = q[i]
        BY <1>1
    <2> QED
        BY <1>1, <2>1 DEF ToSet
<1> QED
    BY <1>1, <1>2, <1>3, <1>4
-----------------------------------------------------------------------------
(* The limiter *)

(* The limiter has an entry for the key of every URL a fetch can be at. *)
LEMMA KeyIsHost == \A url \in Url : LimiterKey(url) \in Host
BY DEF Url, LimiterKey, Host

(* The fetches that hold a permit can be counted. *)
LEMMA HoldersFinite == \A h : IsFiniteSet(Holders(h))
BY FetcherAssumption, FS_Subset DEF Holders

(* A step of f that neither queues it nor changes what it holds. *)
LEMMA SameLimiter ==
    ASSUME TaskTypes, LimiterBooks, NEW f \in Fetch, UNCHANGED limiter,
           NEW there \in Place \ {"queued"}, pc[f] # "queued", pc' = [pc EXCEPT ![f] = there],
           InFlight(f) <=> there \in {"resolve", "send", "answer", "body"},
           InFlight(f) => current'[f] = current[f],
           \A g \in Fetch \ {f} : current'[g] = current[g]
    PROVE  LimiterBooks'
<1>1. \A g \in Fetch \ {f} : pc'[g] = pc[g]
    BY DEF TaskTypes
<1>2. pc'[f] = there
    BY DEF TaskTypes
<1>3. \A g \in Fetch : held'[g] = IF InFlight(g)' THEN {LimiterKey(current'[g])} ELSE {}
    BY <1>1, <1>2 DEF LimiterBooks, limiter, InFlight
<1>4. \A h \in Host : Holders(h)' = Holders(h)
    BY DEF Holders, limiter
<1>5. \A h \in Host : {g \in Fetch : pc'[g] = "queued" /\ LimiterKey(current'[g]) = h}
                       = {g \in Fetch : pc[g] = "queued" /\ LimiterKey(current[g]) = h}
    BY <1>1, <1>2
<1> QED
    BY <1>3, <1>4, <1>5 DEF LimiterBooks, limiter

(* The end of a hop gives its one permit back. *)
LEMMA ReleaseLimiter ==
    ASSUME TaskTypes, LimiterBooks, NEW f \in Fetch, InFlight(f), ReleasePermits(f),
           NEW there \in {"hop", "done"}, pc' = [pc EXCEPT ![f] = there],
           \A g \in Fetch \ {f} : current'[g] = current[g]
    PROVE  LimiterBooks'
<1>1. \A g \in Fetch \ {f} : pc'[g] = pc[g] /\ held'[g] = held[g]
    BY DEF TaskTypes, LimiterBooks, ReleasePermits
<1>2. pc'[f] = there /\ held'[f] = {}
    BY DEF TaskTypes, LimiterBooks, ReleasePermits
<1>3. \A g \in Fetch : held'[g] = IF InFlight(g)' THEN {LimiterKey(current'[g])} ELSE {}
    BY <1>1, <1>2 DEF LimiterBooks, InFlight
<1>4. ASSUME NEW h \in Host
      PROVE  available'[h] \in Nat /\ available'[h] + Cardinality(Holders(h)') = Limit
    <2>1. Holders(h)' = Holders(h) \ {f}
        BY <1>1, <1>2 DEF Holders
    <2>2. IsFiniteSet(Holders(h)) /\ Cardinality(Holders(h)) \in Nat
        BY HoldersFinite, FS_CardinalityType
    <2>3. available[h] \in Nat /\ available[h] + Cardinality(Holders(h)) = Limit
        BY DEF LimiterBooks
    <2>4. CASE h \in held[f]
        <3>1. f \in Holders(h) /\ available'[h] = available[h] + 1
            BY <2>4 DEF Holders, ReleasePermits
        <3>2. Cardinality(Holders(h)') = Cardinality(Holders(h)) - 1
            BY <2>1, <2>2, <3>1, FS_RemoveElement
        <3> QED
            BY <2>2, <2>3, <3>1, <3>2
    <2>5. CASE h \notin held[f]
        <3>1. Holders(h)' = Holders(h) /\ available'[h] = available[h]
            BY <2>1, <2>3, <2>5 DEF Holders, ReleasePermits
        <3> QED
            BY <2>3, <3>1
    <2> QED
        BY <2>4, <2>5
<1>5. \A h \in Host : {g \in Fetch : pc'[g] = "queued" /\ LimiterKey(current'[g]) = h}
                       = {g \in Fetch : pc[g] = "queued" /\ LimiterKey(current[g]) = h}
    BY <1>1, <1>2 DEF InFlight
<1>6. held' \in [Fetch -> SUBSET Host] /\ available' \in [Host -> Nat] /\ waiting' = waiting
    BY <1>4 DEF LimiterBooks, ReleasePermits
<1> QED
    BY <1>3, <1>4, <1>5, <1>6 DEF LimiterBooks

(* acquire_host_permit puts the fetch into its host's queue ... *)
LEMMA AskLimiter ==
    ASSUME TaskTypes, LimiterBooks, NEW f \in Fetch, AskPermit(f)
    PROVE  LimiterBooks'
<1> DEFINE key == LimiterKey(current[f])
<1>1. pc[f] = "hop" /\ current' = current /\ held' = held /\ available' = available
    BY DEF AskPermit, Goto
<1>2. pc'[f] = "queued" /\ \A g \in Fetch \ {f} : pc'[g] = pc[g]
    BY DEF AskPermit, Goto, TaskTypes
<1>3. key \in Host
    BY <1>1, KeyIsHost DEF TaskTypes
<1>4. waiting' = [waiting EXCEPT ![key] = Append(waiting[key], f)]
    BY DEF AskPermit
<1>5. f \notin ToSet(waiting[key])
    BY <1>1, <1>3 DEF LimiterBooks
<1>6. /\ Append(waiting[key], f) \in Seq(Fetch) /\ IsInjective(Append(waiting[key], f))
      /\ ToSet(Append(waiting[key], f)) = ToSet(waiting[key]) \union {f}
    BY <1>3, <1>5, JoinQueue DEF LimiterBooks
<1>7. waiting' \in [Host -> Seq(Fetch)]
    BY <1>3, <1>4, <1>6 DEF LimiterBooks
<1>8. ASSUME NEW h \in Host
      PROVE  /\ IsInjective(waiting'[h])
             /\ ToSet(waiting'[h]) = {g \in Fetch : pc'[g] = "queued" /\ LimiterKey(current'[g]) = h}
    <2>1. CASE h = key
        BY <1>1, <1>2, <1>3, <1>4, <1>6, <2>1 DEF LimiterBooks
    <2>2. CASE h # key
        <3>1. waiting'[h] = waiting[h]
            BY <1>4, <2>2 DEF LimiterBooks
        <3>2. {g \in Fetch : pc'[g] = "queued" /\ LimiterKey(current'[g]) = h}
                = {g \in Fetch : pc[g] = "queued" /\ LimiterKey(current[g]) = h}
            BY <1>1, <1>2, <2>2
        <3> QED
            BY <3>1, <3>2 DEF LimiterBooks
    <2> QED
        BY <2>1, <2>2
<1>9. \A h : Holders(h)' = Holders(h)
    BY <1>1 DEF Holders
<1>10. \A g \in Fetch : held'[g] = IF InFlight(g)' THEN {LimiterKey(current'[g])} ELSE {}
    BY <1>1, <1>2 DEF LimiterBooks, InFlight
<1> QED
    BY <1>1, <1>7, <1>8, <1>9, <1>10 DEF LimiterBooks

(* ... and admits the first of the queue when a permit is left. *)
LEMMA AdmitLimiter ==
    ASSUME TaskTypes, LimiterBooks, NEW f \in Fetch, Admit(f)
    PROVE  LimiterBooks'
<1> DEFINE key == LimiterKey(current[f])
<1>1. /\ pc[f] = "queued" /\ current' = current /\ Head(waiting[key]) = f
      /\ available[key] > 0
    BY DEF Admit, Goto
<1>2. pc'[f] = "resolve" /\ \A g \in Fetch \ {f} : pc'[g] = pc[g]
    BY DEF Admit, Goto, TaskTypes
<1>3. key \in Host
    BY <1>1, KeyIsHost DEF TaskTypes
<1>4. held[f] = {}
    BY <1>1 DEF LimiterBooks, InFlight
<1>5. held'[f] = {key} /\ \A g \in Fetch \ {f} : held'[g] = held[g]
    BY <1>4 DEF Admit, LimiterBooks
<1>6. held' \in [Fetch -> SUBSET Host]
    BY <1>3 DEF Admit, LimiterBooks
<1>7. f \in ToSet(waiting[key])
    BY <1>1, <1>3 DEF LimiterBooks
<1>8. waiting[key] \in Seq(Fetch) /\ waiting[key] # << >> /\ IsInjective(waiting[key])
    BY <1>3, <1>7 DEF LimiterBooks, ToSet
<1>9. /\ Tail(waiting[key]) \in Seq(Fetch) /\ IsInjective(Tail(waiting[key]))
      /\ ToSet(Tail(waiting[key])) = ToSet(waiting[key]) \ {f}
    BY <1>1, <1>8, LeaveQueue
<1>10. waiting' = [waiting EXCEPT ![key] = Tail(waiting[key])]
    BY DEF Admit
<1>11. waiting' \in [Host -> Seq(Fetch)]
    BY <1>3, <1>9, <1>10 DEF LimiterBooks
<1>12. ASSUME NEW h \in Host
       PROVE  /\ IsInjective(waiting'[h])
              /\ ToSet(waiting'[h]) = {g \in Fetch : pc'[g] = "queued" /\ LimiterKey(current'[g]) = h}
    <2>1. CASE h = key
        <3>1. waiting'[h] = Tail(waiting[key])
            BY <1>3, <1>10, <2>1 DEF LimiterBooks
        <3>2. {g \in Fetch : pc'[g] = "queued" /\ LimiterKey(current'[g]) = h}
                = {g \in Fetch : pc[g] = "queued" /\ LimiterKey(current[g]) = h} \ {f}
            BY <1>1, <1>2
        <3> QED
            BY <1>9, <2>1, <3>1, <3>2 DEF LimiterBooks
    <2>2. CASE h # key
        <3>1. waiting'[h] = waiting[h]
            BY <1>10, <2>2 DEF LimiterBooks
        <3>2. {g \in Fetch : pc'[g] = "queued" /\ LimiterKey(current'[g]) = h}
                = {g \in Fetch : pc[g] = "queued" /\ LimiterKey(current[g]) = h}
            BY <1>1, <1>2, <2>2
        <3> QED
            BY <3>1, <3>2 DEF LimiterBooks
    <2> QED
        BY <2>1, <2>2
<1>13. \A g \in Fetch : held'[g] = IF InFlight(g)' THEN {LimiterKey(current'[g])} ELSE {}
    BY <1>1, <1>2, <1>5 DEF LimiterBooks, InFlight
<1>14. available' = [available EXCEPT ![key] = available[key] - 1]
    BY DEF Admit
<1>15. ASSUME NEW h \in Host
       PROVE  available'[h] \in Nat /\ available'[h] + Cardinality(Holders(h)') = Limit
    <2>1. available[h] \in Nat /\ available[h] + Cardinality(Holders(h)) = Limit
        BY DEF LimiterBooks
    <2>2. IsFiniteSet(Holders(h)) /\ Cardinality(Holders(h)) \in Nat
        BY HoldersFinite, FS_CardinalityType
    <2>3. CASE h = key
        <3>1. Holders(h)' = Holders(h) \union {f} /\ f \notin Holders(h)
            BY <1>4, <1>5, <2>3 DEF Holders
        <3>2. Cardinality(Holders(h)') = Cardinality(Holders(h)) + 1
            BY <2>2, <3>1, FS_AddElement
        <3>3. available'[h] = available[h] - 1
            BY <1>3, <1>14, <2>3 DEF LimiterBooks
        <3> QED
            BY <1>1, <2>1, <2>2, <2>3, <3>2, <3>3
    <2>4. CASE h # key
        <3>1. Holders(h)' = Holders(h)
            BY <1>4, <1>5, <2>4 DEF Holders
        <3>2. available'[h] = available[h]
            BY <1>14, <2>4 DEF LimiterBooks
        <3> QED
            BY <2>1, <3>1, <3>2
    <2> QED
        BY <2>3, <2>4
<1>16. available' \in [Host -> Nat]
    BY <1>14, <1>15 DEF LimiterBooks
<1> QED
    BY <1>6, <1>11, <1>12, <1>13, <1>15, <1>16 DEF LimiterBooks
-----------------------------------------------------------------------------
(* The fetches *)

(* A fetch that is not touched keeps its traffic. *)
LEMMA OthersKeep ==
    ASSUME NEW g, Traffic(g), pc'[g] = pc[g], request'[g] = request[g],
           current'[g] = current[g], hops'[g] = hops[g], wire'[g] = wire[g],
           outcome'[g] = outcome[g]
    PROVE  Traffic(g)'
BY DEF Traffic, OnItsWay

(* Idle fetches and a full limiter satisfy the invariant. *)
LEMMA InitFetcher == Init => FetcherInv
<1> SUFFICES ASSUME Init PROVE FetcherInv
    OBVIOUS
<1>1. TaskTypes
    BY FetcherAssumption DEF Init, TaskTypes, Place, Outcome
<1>2. LimiterBooks
    <2>1. \A h \in Host : Holders(h) = {} /\ ToSet(waiting[h]) = {} /\ IsInjective(waiting[h])
        <3>1. \A f \in Fetch : held[f] = {}
            BY DEF Init
        <3>2. \A h \in Host : waiting[h] = << >>
            BY DEF Init
        <3>3. DOMAIN << >> = {}
            OBVIOUS
        <3>4. ToSet(<< >>) = {} /\ IsInjective(<< >>)
            BY <3>3 DEF ToSet, IsInjective
        <3> QED
            BY <3>1, <3>2, <3>4 DEF Holders
    <2>2. \A h \in Host : available[h] + Cardinality(Holders(h)) = Limit
        <3>1. Cardinality({}) = 0
            BY FS_EmptySet
        <3>2. \A h \in Host : available[h] = Limit
            BY DEF Init
        <3> QED
            BY <2>1, <3>1, <3>2, FetcherAssumption
    <2>3. {f \in Fetch : pc[f] = "queued"} = {} /\ \A f \in Fetch : ~InFlight(f)
        BY DEF Init, InFlight
    <2>4. /\ held \in [Fetch -> SUBSET Host] /\ available \in [Host -> Nat]
          /\ waiting \in [Host -> Seq(Fetch)] /\ \A f \in Fetch : held[f] = {}
        BY FetcherAssumption DEF Init
    <2> QED
        BY <2>1, <2>2, <2>3, <2>4 DEF LimiterBooks
<1>3. \A f \in Fetch : Traffic(f)
    BY DEF Init, Traffic, OnItsWay
<1> QED
    BY <1>1, <1>2, <1>3 DEF FetcherInv

(* A fetch begins within its scope or not at all. *)
LEMMA BeginKeeps ==
    ASSUME FetcherInv, NEW f \in Fetch, NEW r \in Request, Begin(f, r)
    PROVE  FetcherInv'
<1> USE DEF FetcherInv
<1>1. PICK there \in {"hop", "done"} :
        /\ pc[f] = "idle" /\ pc' = [pc EXCEPT ![f] = there]
        /\ there = "hop" => Prepared(r, r.url) /\ outcome' = outcome
        /\ there = "done" => outcome' = [outcome EXCEPT ![f] = "out_of_scope"]
    BY DEF Begin, Goto
<1>2. /\ request' = [request EXCEPT ![f] = r] /\ current' = [current EXCEPT ![f] = r.url]
      /\ hops' = hops /\ wire' = wire /\ UNCHANGED limiter
    BY DEF Begin
<1>3. r.url \in Url
    BY DEF Url
<1>4. TaskTypes'
    BY <1>1, <1>2, <1>3 DEF TaskTypes, Place, Outcome
<1>5. LimiterBooks'
    BY <1>1, <1>2, SameLimiter DEF InFlight, Place, TaskTypes
<1>6. wire[f] = << >> /\ hops[f] = 0
    BY <1>1 DEF Traffic
<1>7. Traffic(f)'
    BY <1>1, <1>2, <1>6 DEF Traffic, OnItsWay, Prepared, TaskTypes
<1>8. \A g \in Fetch \ {f} : Traffic(g)'
    BY <1>1, <1>2, OthersKeep DEF TaskTypes
<1> QED
    BY <1>4, <1>5, <1>7, <1>8

(* A hop goes on: asked for its permit, admitted, resolved, or accepted. *)
LEMMA HopKeeps ==
    ASSUME FetcherInv, NEW f \in Fetch, LimiterBooks',
           NEW here \in {"hop", "queued", "resolve", "answer"},
           NEW there \in {"queued", "resolve", "send", "body"},
           here = "answer" <=> there = "body", Goto(f, here, there),
           UNCHANGED <<request, current, hops, wire, outcome>>
    PROVE  FetcherInv'
<1>1. TaskTypes'
    BY DEF FetcherInv, TaskTypes, Goto, Place
<1>2. Traffic(f)'
    BY DEF FetcherInv, Traffic, OnItsWay, Goto, TaskTypes
<1>3. \A g \in Fetch \ {f} : Traffic(g)'
    BY OthersKeep DEF FetcherInv, Goto, TaskTypes
<1> QED
    BY <1>1, <1>2, <1>3 DEF FetcherInv

(* A request goes to the URL its hop was checked for. *)
LEMMA SendKeeps ==
    ASSUME FetcherInv, NEW f \in Fetch, Send(f)
    PROVE  FetcherInv'
<1> DEFINE sent == [url |-> current[f], validators |-> SendsValidators(request[f], current[f])]
<1>1. /\ pc[f] = "send" /\ pc' = [pc EXCEPT ![f] = "answer"]
      /\ wire' = [wire EXCEPT ![f] = Append(wire[f], sent)]
      /\ UNCHANGED <<request, current, hops, limiter, outcome>>
    BY DEF Send, Goto
<1>2. current[f] \in Url /\ wire[f] \in Seq([url : Url, validators : BOOLEAN])
    BY <1>1 DEF FetcherInv, TaskTypes
<1>3. SendsValidators(request[f], current[f]) \in BOOLEAN
    BY DEF SendsValidators
<1>4. sent \in [url : Url, validators : BOOLEAN]
    BY <1>2, <1>3
<1>5. /\ Append(wire[f], sent) \in Seq([url : Url, validators : BOOLEAN])
      /\ Len(Append(wire[f], sent)) = Len(wire[f]) + 1
      /\ Append(wire[f], sent)[Len(wire[f]) + 1] = sent
      /\ \A i \in 1 .. Len(wire[f]) : Append(wire[f], sent)[i] = wire[f][i]
      /\ Append(wire[f], sent) # << >> /\ Len(wire[f]) \in Nat
      /\ DOMAIN Append(wire[f], sent) = 1 .. (Len(wire[f]) + 1)
      /\ DOMAIN wire[f] = 1 .. Len(wire[f])
    BY <1>2, <1>4
<1> HIDE DEF sent
<1>6. wire'[f] = Append(wire[f], sent)
    BY <1>1 DEF FetcherInv, TaskTypes
<1>7. TaskTypes'
    BY <1>1, <1>5 DEF FetcherInv, TaskTypes, Place
<1>8. LimiterBooks'
    BY <1>1, SameLimiter DEF FetcherInv, InFlight, Place, TaskTypes
<1>9. AllowsUrl(request[f].scope, current[f]) /\ Len(wire[f]) = hops[f]
    BY <1>1 DEF FetcherInv, Traffic, OnItsWay
<1>10. sent.url = current[f] /\ (sent.validators => current[f].host = request[f].url.host)
    BY DEF sent, SendsValidators
<1>11. \A i \in DOMAIN wire'[f] :
         /\ AllowsUrl(request[f].scope, wire'[f][i].url)
         /\ wire'[f][i].validators => wire'[f][i].url.host = request[f].url.host
    <2> SUFFICES ASSUME NEW i \in 1 .. (Len(wire[f]) + 1)
                 PROVE  /\ AllowsUrl(request[f].scope, wire'[f][i].url)
                        /\ wire'[f][i].validators => wire'[f][i].url.host = request[f].url.host
        BY <1>5, <1>6
    <2>1. CASE i = Len(wire[f]) + 1
        BY <1>5, <1>6, <1>9, <1>10, <2>1
    <2>2. CASE i # Len(wire[f]) + 1
        <3>1. i \in DOMAIN wire[f] /\ wire'[f][i] = wire[f][i]
            BY <1>5, <1>6, <2>2
        <3> QED
            BY <3>1 DEF FetcherInv, Traffic
    <2> QED
        BY <2>1, <2>2
<1>12. Len(wire'[f]) = hops[f] + 1
    BY <1>5, <1>6, <1>9 DEF FetcherInv, TaskTypes
<1>13. pc'[f] = "answer"
    BY <1>1 DEF FetcherInv, TaskTypes
<1>14. Traffic(f)'
    BY <1>1, <1>5, <1>6, <1>11, <1>12, <1>13 DEF Traffic, OnItsWay
<1>15. \A g \in Fetch \ {f} : Traffic(g)'
    BY <1>1, OthersKeep DEF FetcherInv, TaskTypes
<1> QED
    BY <1>7, <1>8, <1>14, <1>15 DEF FetcherInv

(* A redirect is followed only to a URL in scope, one hop further. *)
LEMMA FollowKeeps ==
    ASSUME FetcherInv, NEW f \in Fetch, NEW url \in Target, Follow(f, url)
    PROVE  FetcherInv'
<1>1. /\ pc[f] = "answer" /\ pc' = [pc EXCEPT ![f] = "hop"] /\ hops[f] < MaxRedirects
      /\ Prepared(request[f], url) /\ current' = [current EXCEPT ![f] = url]
      /\ hops' = [hops EXCEPT ![f] = hops[f] + 1] /\ ReleasePermits(f)
      /\ UNCHANGED <<request, wire, outcome>>
    BY DEF Follow, Goto
<1>2. TaskTypes'
    <2>1. hops' \in [Fetch -> 0..MaxRedirects]
        BY <1>1, FetcherAssumption DEF FetcherInv, TaskTypes
    <2>2. url \in Url
        BY DEF Url
    <2> QED
        BY <1>1, <2>1, <2>2 DEF FetcherInv, TaskTypes, Place
<1>3. LimiterBooks'
    BY <1>1, ReleaseLimiter DEF FetcherInv, InFlight, TaskTypes
<1>4. Len(wire[f]) = hops[f] + 1
    BY <1>1 DEF FetcherInv, Traffic
<1>5. /\ pc'[f] = "hop" /\ current'[f] = url /\ hops'[f] = hops[f] + 1
      /\ request'[f] = request[f] /\ wire'[f] = wire[f] /\ outcome'[f] = outcome[f]
    BY <1>1 DEF FetcherInv, TaskTypes
<1>6. \A i \in DOMAIN wire[f] :
        /\ AllowsUrl(request[f].scope, wire[f][i].url)
        /\ wire[f][i].validators => wire[f][i].url.host = request[f].url.host
    BY DEF FetcherInv, Traffic
<1>7. hops[f] \in Nat
    BY FetcherAssumption DEF FetcherInv, TaskTypes
<1>8. Traffic(f)'
    BY <1>1, <1>4, <1>5, <1>6, <1>7 DEF Traffic, OnItsWay, Prepared
<1>9. \A g \in Fetch \ {f} : Traffic(g)'
    BY <1>1, OthersKeep DEF FetcherInv, TaskTypes
<1> QED
    BY <1>2, <1>3, <1>8, <1>9 DEF FetcherInv

(* A fetch that ends gives its permits back. *)
LEMMA ReturnKeeps ==
    ASSUME FetcherInv, NEW f \in Fetch, NEW here \in {"resolve", "answer", "body"},
           NEW result \in Outcome \ {"pending"}, Return(f, here, result)
    PROVE  FetcherInv'
<1>1. /\ pc[f] = here /\ pc' = [pc EXCEPT ![f] = "done"]
      /\ outcome' = [outcome EXCEPT ![f] = result] /\ ReleasePermits(f)
      /\ UNCHANGED <<request, current, hops, wire>>
    BY DEF Return, Goto
<1>2. TaskTypes'
    BY <1>1 DEF FetcherInv, TaskTypes, Place
<1>3. LimiterBooks'
    BY <1>1, ReleaseLimiter DEF FetcherInv, InFlight
<1>4. Traffic(f)'
    BY <1>1 DEF FetcherInv, Traffic, OnItsWay, TaskTypes
<1>5. \A g \in Fetch \ {f} : Traffic(g)'
    BY <1>1, OthersKeep DEF FetcherInv, TaskTypes
<1> QED
    BY <1>2, <1>3, <1>4, <1>5 DEF FetcherInv

(* Every step of every fetch keeps the invariant. *)
LEMMA NextKeeps == ASSUME FetcherInv, [Next]_vars PROVE FetcherInv'
<1>1. CASE UNCHANGED vars
    <2>1. \A h : Holders(h)' = Holders(h)
        BY <1>1 DEF vars, Holders
    <2>2. TaskTypes' /\ LimiterBooks'
        BY <1>1, <2>1 DEF vars, FetcherInv, TaskTypes, LimiterBooks, InFlight
    <2>3. \A f \in Fetch : Traffic(f)'
        BY <1>1, OthersKeep DEF vars, FetcherInv
    <2> QED
        BY <2>2, <2>3 DEF FetcherInv
<1>2. ASSUME NEW f \in Fetch, NEW r \in Request, Begin(f, r) PROVE FetcherInv'
    BY <1>2, BeginKeeps
<1>3. ASSUME NEW f \in Fetch, Advance(f) PROVE FetcherInv'
    <2>1. ASSUME NEW there \in {"send", "body"}, NEW here \in {"resolve", "answer"},
                 Goto(f, here, there), here = "answer" <=> there = "body",
                 UNCHANGED <<request, current, hops, limiter, wire, outcome>>
          PROVE  FetcherInv'
        <3>1. LimiterBooks'
            BY <2>1, SameLimiter DEF FetcherInv, Goto, InFlight, Place
        <3> QED
            BY <2>1, <3>1, HopKeeps DEF limiter
    <2>2. CASE AskPermit(f)
        BY <2>2, AskLimiter, HopKeeps DEF AskPermit, FetcherInv
    <2>3. CASE Admit(f)
        BY <2>3, AdmitLimiter, HopKeeps DEF Admit, FetcherInv
    <2>4. CASE Resolve(f)
        BY <2>1, <2>4, ReturnKeeps DEF Resolve, Outcome, limiter
    <2>5. CASE Send(f)
        BY <2>5, SendKeeps
    <2>6. CASE \E url \in Target : Follow(f, url)
        BY <2>6, FollowKeeps
    <2>7. CASE Accept(f)
        BY <2>1, <2>7 DEF Accept, limiter
    <2>8. CASE NotModified(f) \/ RefuseRedirect(f) \/ Refuse(f) \/ RequestFails(f) \/ ReadBody(f)
        <3>1. \E here \in {"answer", "body"}, result \in Outcome \ {"pending"} :
                Return(f, here, result)
            BY <2>8 DEF NotModified, RefuseRedirect, Refuse, RequestFails, ReadBody, Outcome
        <3> QED
            BY <3>1, ReturnKeeps
    <2> QED
        BY <1>3, <2>2, <2>3, <2>4, <2>5, <2>6, <2>7, <2>8 DEF Advance, Proceed, Answer
<1> QED
    BY <1>1, <1>2, <1>3 DEF Next

-----------------------------------------------------------------------------
(* Theorems *)

(* Types, the limiter's books and the traffic of every fetch, by induction. *)
THEOREM FetcherInvariance == Spec => []FetcherInv
<1>1. Init => FetcherInv
    BY InitFetcher
<1>2. FetcherInv /\ [Next]_vars => FetcherInv'
    BY NextKeeps
<1> QED
    BY <1>1, <1>2, PTL DEF Spec

(* No permit is ever lost or doubled, whichever way a hop ends             *)
(* (acquire_host_permit and the drop of the permit).                       *)
THEOREM FetcherTypeCorrect == Spec => []FetcherTypeOK
<1>1. FetcherInv => FetcherTypeOK
    <2> SUFFICES ASSUME FetcherInv PROVE FetcherTypeOK
        OBVIOUS
    <2>1. \A h \in Host : {f \in Fetch : h \in held[f]} = Holders(h)
        BY DEF Holders
    <2>2. \A h \in Host : available[h] + Cardinality({f \in Fetch : h \in held[f]}) = Limit
        BY <2>1 DEF FetcherInv, LimiterBooks
    <2> QED
        <3>1. /\ pc \in [Fetch -> Place] /\ outcome \in [Fetch -> Outcome]
              /\ hops \in [Fetch -> 0..MaxRedirects]
              /\ \A f \in Fetch : pc[f] = "done" <=> outcome[f] # "pending"
            BY DEF FetcherInv, TaskTypes
        <3>2. /\ \A f \in Fetch : held[f] = IF InFlight(f) THEN {LimiterKey(current[f])} ELSE {}
              /\ \A h \in Host : /\ IsInjective(waiting[h])
                                 /\ ToSet(waiting[h]) = {f \in Fetch : pc[f] = "queued" /\ LimiterKey(current[f]) = h}
            BY DEF FetcherInv, LimiterBooks
        <3> QED
            BY <2>2, <3>1, <3>2, Zenon DEF FetcherTypeOK, Place
<1> QED
    BY <1>1, FetcherInvariance, PTL

(* No host is called by more than Limit fetches at once, for any number of *)
(* fetches that redirect into it (README: per-host concurrency).           *)
THEOREM HostsAreSpared == Spec => []HostSpared
<1>1. FetcherInv => HostSpared
    <2> SUFFICES ASSUME FetcherInv, NEW h \in Host
                 PROVE  Cardinality({f \in Fetch : InFlight(f) /\ current[f].host = h}) <= Limit
        BY DEF HostSpared
    <2>1. {f \in Fetch : InFlight(f) /\ current[f].host = h} = Holders(h)
        BY DEF Holders, FetcherInv, LimiterBooks, LimiterKey
    <2>2. Cardinality(Holders(h)) \in Nat /\ available[h] \in Nat
          /\ available[h] + Cardinality(Holders(h)) = Limit
        BY HoldersFinite, FS_CardinalityType DEF FetcherInv, LimiterBooks
    <2>3. Cardinality(Holders(h)) <= Limit
        BY <2>2, FetcherAssumption
    <2> QED
        BY <2>1, <2>3
<1> QED
    BY <1>1, FetcherInvariance, PTL

(* Whatever the servers redirect to, requests stay in the registered scope *)
(* and validators with their host, on redirect chains of any length.       *)
THEOREM WireStaysInScope == Spec => []WireInScope
<1>1. FetcherInv => WireInScope
    <2> SUFFICES ASSUME FetcherInv, NEW f \in Fetch
                 PROVE  Len(wire[f]) <= MaxRedirects + 1
        BY DEF FetcherInv, Traffic, WireInScope
    <2>1. Len(wire[f]) \in Nat /\ Len(wire[f]) <= hops[f] + 1 /\ hops[f] \in 0..MaxRedirects
        BY DEF FetcherInv, TaskTypes, Traffic
    <2> QED
        BY <2>1, FetcherAssumption
<1> QED
    BY <1>1, FetcherInvariance, PTL
=============================================================================
