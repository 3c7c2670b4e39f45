------------------------ MODULE TextExtractionProofs ------------------------
(* Theorems about JsonFragments and TextExtraction, for every document and   *)
(* every page: the walk collects a document exactly and within its limits,   *)
(* the text of a page is normal and is what the page shows, and the scan for *)
(* elements keeps to its limits and finds those of the page, in their order. *)
EXTENDS TextExtraction, ListLemmas

(* The walk *)

Task == [task : {"visit"}, value : Document, depth : Nat] \cup [task : {"key"}, text : Token]

\* The texts a task still has to put out, and those of a list of tasks.
Said(task) == IF task.task = "key" THEN <<task.text>> ELSE Fragments[task.value]
Remaining(tasks) == FlattenSeq([i \in DOMAIN tasks |-> Said(tasks[i])])

\* Every key stands before the visit of its value.
KeysLead(tasks) ==
  \A i \in 1 .. Len(tasks) : tasks[i].task = "key" => i < Len(tasks) /\ tasks[i + 1].task = "visit"

\* No visit goes deeper than the document; or one goes too deep.
Within(tasks, root) ==
  \A i \in 1 .. Len(tasks) :
    tasks[i].task = "visit" => tasks[i].depth + Nesting[tasks[i].value] <= Nesting[root]
TooDeep(tasks) ==
  \E i \in 1 .. Len(tasks) :
    tasks[i].task = "visit" /\ tasks[i].depth + Nesting[tasks[i].value] > MaxDepth

\* What was put out and what remains to put out make up the document; output that
\* is one too long is found out by the next visit; a document that is too deep has
\* a visit to come that is.
WalkInv ==
  /\ document \in Document /\ todo \in Seq(Task) /\ output \in Seq(Token)
  /\ outcome \in {"running", "ok", "too_deep", "too_many"}
  /\ output \o Remaining(todo) = Fragments[document]
  /\ KeysLead(todo) /\ Within(todo, document)
  /\ Len(output) <= MaxFragments + 1
  /\ Len(output) = MaxFragments + 1 => todo # << >> /\ todo[1].task = "visit"
  /\ Nesting[document] > MaxDepth => TooDeep(todo)
  /\ outcome = "ok" => todo = << >>
  /\ outcome = "too_deep" => Nesting[document] > MaxDepth
  /\ outcome = "too_many" => Len(output) >= MaxFragments

\* What the walk comes to last is what the document ends in; when it has come to
\* it, the output has room or ends in that text.
EndInv ==
  /\ todo # << >> =>
       Last(todo).task = "visit" /\ EndsInText[Last(todo).value] = EndsInText[document]
  /\ todo = << >> => Len(output) < MaxFragments \/ EndsInText[document]
  /\ outcome = "too_many" => todo # << >>
-----------------------------------------------------------------------------
(* What remains to put out *)

\* What a task says are tokens.
LEMMA SaidType ==
  ASSUME NEW task \in Task
  PROVE  Said(task) \in Seq(Token)
<1>1. CASE task.task = "key"
  <2>1. task.text \in Token
    BY <1>1 DEF Task
  <2>2. <<task.text>> \in Seq(Token)
    BY <2>1
  <2>3. Said(task) = <<task.text>>
    BY <1>1 DEF Said
  <2> QED BY <2>2, <2>3, Zenon
<1>2. CASE task.task # "key"
  <2>1. task.value \in Document
    BY <1>2 DEF Task
  <2> QED BY <1>2, <2>1, RecursionAssumption DEF Said
<1> QED BY <1>1, <1>2

\* So is what each of a list of tasks says.
LEMMA SaidList ==
  ASSUME NEW tasks \in Seq(Task)
  PROVE  LET said == [i \in DOMAIN tasks |-> Said(tasks[i])]
         IN  /\ said \in Seq(Seq(Token)) /\ Len(said) = Len(tasks)
             /\ \A i \in 1 .. Len(tasks) : said[i] = Said(tasks[i])
<1>1. \A i \in 1 .. Len(tasks) : Said(tasks[i]) \in Seq(Token)
  BY SaidType
<1> QED BY <1>1

\* And all of it.
LEMMA RemainingType ==
  ASSUME NEW tasks \in Seq(Task)
  PROVE  Remaining(tasks) \in Seq(Token)
BY SaidList, FlattenType DEF Remaining

\* One list of tasks after the other.
LEMMA RemainingConcat ==
  ASSUME NEW a \in Seq(Task), NEW b \in Seq(Task)
  PROVE  Remaining(a \o b) = Remaining(a) \o Remaining(b)
<1> DEFINE F(tasks) == [i \in DOMAIN tasks |-> Said(tasks[i])]
<1>1. /\ a \o b \in Seq(Task) /\ Len(a \o b) = Len(a) + Len(b)
      /\ \A i \in 1 .. Len(a) : (a \o b)[i] = a[i]
      /\ \A i \in 1 .. Len(b) : (a \o b)[Len(a) + i] = b[i]
  OBVIOUS
<1>2. \A tasks \in Seq(Task) :
        /\ F(tasks) \in Seq(Seq(Token)) /\ Len(F(tasks)) = Len(tasks)
        /\ \A i \in 1 .. Len(tasks) : F(tasks)[i] = Said(tasks[i])
  BY SaidList
<1> HIDE DEF F
<1>3. F(a \o b) = F(a) \o F(b)
  <2>1. PICK f, g, h : f = F(a) /\ g = F(b) /\ h = F(a \o b)
    OBVIOUS
  <2>2. f \in Seq(Seq(Token)) /\ g \in Seq(Seq(Token)) /\ h \in Seq(Seq(Token))
        /\ Len(f) = Len(a) /\ Len(g) = Len(b) /\ Len(h) = Len(f) + Len(g)
    BY <1>1, <1>2, <2>1
  <2>3. \A i \in 1 .. Len(f) : h[i] = f[i]
    <3>1. \A i \in 1 .. Len(a) : i \in 1 .. Len(a \o b)
      BY <1>1
    <3>2. \A i \in 1 .. Len(a) : h[i] = f[i]
      BY <1>1, <1>2, <2>1, <3>1, Zenon
    <3>3. Len(f) = Len(a)
      BY <1>2, <2>1
    <3> QED BY <3>2, <3>3
  <2>4. \A i \in 1 .. Len(g) : h[Len(f) + i] = g[i]
    <3>1. \A i \in 1 .. Len(b) : Len(a) + i \in 1 .. Len(a \o b)
      BY <1>1
    <3>2. \A i \in 1 .. Len(b) : h[Len(a) + i] = Said((a \o b)[Len(a) + i])
      BY <1>1, <1>2, <2>1, <3>1, Zenon
    <3>3. \A i \in 1 .. Len(b) : g[i] = Said(b[i])
      BY <1>2, <2>1, Zenon
    <3>4. \A i \in 1 .. Len(b) : h[Len(a) + i] = g[i]
      BY <1>1, <3>2, <3>3, Zenon
    <3>5. Len(f) = Len(a) /\ Len(g) = Len(b)
      BY <1>2, <2>1
    <3> QED BY <3>4, <3>5
  <2>5. h = f \o g
    BY <2>2, <2>3, <2>4, JoinedInParts, Zenon
  <2> QED BY <2>1, <2>5
<1>4. FlattenSeq(F(a) \o F(b)) = FlattenSeq(F(a)) \o FlattenSeq(F(b))
  BY <1>2, FlattenConcat
<1> QED BY <1>3, <1>4 DEF Remaining, F

\* The first task, then the others.
LEMMA RemainingFirst ==
  ASSUME NEW tasks \in Seq(Task), tasks # << >>
  PROVE  Remaining(tasks) = Said(Head(tasks)) \o Remaining(Tail(tasks))
<1> DEFINE one == <<Head(tasks)>>
<1>1. Head(tasks) \in Task /\ one \in Seq(Task) /\ Tail(tasks) \in Seq(Task)
      /\ tasks = one \o Tail(tasks)
  OBVIOUS
<1>2. [i \in DOMAIN one |-> Said(one[i])] = <<Said(Head(tasks))>>
  OBVIOUS
<1>3. FlattenSeq(<<Said(Head(tasks))>>) = Said(Head(tasks))
  BY <1>1, SaidType, FlattenFew
<1> HIDE DEF one
<1>4. Remaining(one) = Said(Head(tasks))
  BY <1>2, <1>3 DEF Remaining
<1> QED BY <1>1, <1>4, RemainingConcat

\* Flattening commutes with what remains.
LEMMA RemainingParts ==
  ASSUME NEW seqs \in Seq(Seq(Task))
  PROVE  Remaining(FlattenSeq(seqs)) = FlattenSeq([i \in DOMAIN seqs |-> Remaining(seqs[i])])
<1> DEFINE rs == [i \in DOMAIN seqs |-> Remaining(seqs[i])]
           N == Len(seqs)
           T == {n \in 0 .. N : Remaining(Flat(seqs, n)) = Flat(rs, n)}
<1>1. /\ N \in Nat /\ N \in 0 .. N /\ \A n \in 1 .. N : n - 1 \in 0 .. N /\ n \in 0 .. N
      /\ \A n \in 1 .. N : seqs[n] \in Seq(Task)
  OBVIOUS
<1>2. /\ rs \in Seq(Seq(Token)) /\ Len(rs) = N
      /\ \A n \in 1 .. N : rs[n] = Remaining(seqs[n])
  <2>1. \A n \in 1 .. N : Remaining(seqs[n]) \in Seq(Token)
    BY <1>1, RemainingType
  <2>2. DOMAIN seqs = 1 .. N
    OBVIOUS
  <2>3. rs = [i \in 1 .. N |-> Remaining(seqs[i])]
    BY <2>2, Zenon
  <2> HIDE DEF N, rs
  <2>4. rs \in [1 .. N -> Seq(Token)]
    BY <2>1, <2>3, Zenon
  <2> QED BY <1>1, <2>3, <2>4
<1> HIDE DEF rs
<1>3. /\ Flat(seqs, 0) = << >> /\ Flat(seqs, N) = FlattenSeq(seqs)
      /\ \A n \in 0 .. N : Flat(seqs, n) \in Seq(Task)
      /\ \A n \in 1 .. N : Flat(seqs, n) = Flat(seqs, n - 1) \o seqs[n]
  BY FlatSteps, Zenon
<1>4. /\ Flat(rs, 0) = << >> /\ Flat(rs, Len(rs)) = FlattenSeq(rs)
      /\ \A n \in 1 .. Len(rs) : Flat(rs, n) = Flat(rs, n - 1) \o rs[n]
  BY <1>2, FlatSteps, Zenon
<1> HIDE DEF N
<1>5. 0 \in T
  <2>1. [i \in DOMAIN << >> |-> Said(<< >>[i])] = << >>
    OBVIOUS
  <2>2. Remaining(<< >>) = << >>
    BY <2>1 DEF Remaining, FlattenSeq
  <2>3. 0 \in 0 .. N
    BY <1>1
  <2> QED BY <1>3, <1>4, <2>2, <2>3, Zenon
<1>6. ASSUME NEW n \in 1 .. N, n - 1 \in T PROVE n \in T
  <2>1. Remaining(Flat(seqs, n)) = Remaining(Flat(seqs, n - 1)) \o Remaining(seqs[n])
    BY <1>1, <1>3, RemainingConcat, Zenon
  <2>2. Flat(rs, n) = Flat(rs, n - 1) \o rs[n]
    BY <1>2, <1>4
  <2>3. Remaining(Flat(seqs, n - 1)) = Flat(rs, n - 1)
    BY <1>6
  <2> QED BY <1>1, <1>2, <2>1, <2>2, <2>3, Zenon
<1>7. N \in T
  <2> HIDE DEF T
  <2>1. \A n \in 0 .. N : n \in T
    BY <1>1, <1>5, <1>6, AllNumbers
  <2> QED BY <1>1, <2>1
<1>8. Remaining(Flat(seqs, N)) = Flat(rs, N)
  BY <1>7
<1> QED BY <1>2, <1>3, <1>4, <1>8 DEF rs
-----------------------------------------------------------------------------
(* What the visit of a value leaves to do *)

\* The tasks say what the value says, visit all its children and nothing else at
\* this depth, and every key leads.
Unfolds(tasks, value, depth) ==
  /\ tasks \in Seq(Task)
  /\ Remaining(tasks) = Fragments[value]
  /\ KeysLead(tasks)
  /\ \A i \in 1 .. Len(tasks) :
       tasks[i].task = "visit" => tasks[i].value \in Children(value) /\ tasks[i].depth = depth
  /\ \A child \in Children(value) : \E i \in 1 .. Len(tasks) : tasks[i] = Visit(child, depth)

\* A scalar leaves nothing.
LEMMA ScalarUnfolds ==
  ASSUME NEW value \in Document, value.kind = "scalar", NEW depth \in Nat
  PROVE  Unfolds(<< >>, value, depth)
<1>1. Children(value) = {}
  BY DEF Children
<1>2. Fragments[value] = << >>
  BY RecursionAssumption
<1>3. [i \in DOMAIN << >> |-> Said(<< >>[i])] = << >>
  OBVIOUS
<1>4. Remaining(<< >>) = << >>
  BY <1>3 DEF Remaining, FlattenSeq
<1>5. << >> \in Seq(Task) /\ Len(<< >>) = 0
  OBVIOUS
<1> QED BY <1>1, <1>2, <1>4, <1>5 DEF Unfolds, KeysLead

\* The visit of a value is a task that says what the value says.
LEMMA VisitTask ==
  ASSUME NEW value \in Document, NEW depth \in Nat
  PROVE  /\ Visit(value, depth) \in Task
         /\ Visit(value, depth).task = "visit"
         /\ Visit(value, depth).value = value /\ Visit(value, depth).depth = depth
         /\ Said(Visit(value, depth)) = Fragments[value]
<1>1. /\ Visit(value, depth) \in Task /\ Visit(value, depth).task = "visit"
      /\ Visit(value, depth).value = value /\ Visit(value, depth).depth = depth
  BY DEF Visit, Task
<1> HIDE DEF Visit
<1>2. "visit" # "key"
  OBVIOUS
<1>3. Said(Visit(value, depth)) = Fragments[value]
  BY <1>1, <1>2, Zenon DEF Said
<1> QED BY <1>1, <1>3

\* A key is a task that says itself.
LEMMA KeyTask ==
  ASSUME NEW key \in Token
  PROVE  /\ Key(key) \in Task /\ Key(key).task = "key"
         /\ Said(Key(key)) = <<key>>
BY DEF Key, Task, Said

\* An array leaves the visits of its items.
LEMMA ArrayUnfolds ==
  ASSUME NEW value \in Document, value.kind = "array", NEW depth \in Nat
  PROVE  Unfolds([i \in DOMAIN value.items |-> Visit(value.items[i], depth)], value, depth)
<1> DEFINE items == value.items
           tasks == [i \in DOMAIN items |-> Visit(items[i], depth)]
<1>1. items \in Seq(Document)
  BY DocumentAssumption DEF String, Scalar, Object
<1>2. Children(value) = {items[i] : i \in DOMAIN items}
  BY DEF Children
<1>3. Fragments[value] = FlattenSeq([i \in DOMAIN items |-> Fragments[items[i]]])
  BY RecursionAssumption
<1> HIDE DEF items
<1>4. DOMAIN items = 1 .. Len(items) /\ \A i \in 1 .. Len(items) : items[i] \in Document
  BY <1>1
<1>5. \A i \in 1 .. Len(items) :
        /\ Visit(items[i], depth) \in Task /\ Visit(items[i], depth).task = "visit"
        /\ Visit(items[i], depth).value = items[i] /\ Visit(items[i], depth).depth = depth
        /\ Said(Visit(items[i], depth)) = Fragments[items[i]]
  BY <1>4, VisitTask
<1>6. /\ tasks \in Seq(Task) /\ Len(tasks) = Len(items) /\ DOMAIN tasks = DOMAIN items
      /\ \A i \in 1 .. Len(items) : tasks[i] = Visit(items[i], depth)
  BY <1>1, <1>4, <1>5
<1> HIDE DEF tasks
<1>7. [i \in DOMAIN tasks |-> Said(tasks[i])] = [i \in DOMAIN items |-> Fragments[items[i]]]
  BY <1>4, <1>5, <1>6, Zenon
<1>8. Remaining(tasks) = Fragments[value]
  BY <1>3, <1>7, Zenon DEF Remaining
<1>9. KeysLead(tasks)
  BY <1>5, <1>6 DEF KeysLead
<1>10. \A i \in 1 .. Len(tasks) : tasks[i].value \in Children(value) /\ tasks[i].depth = depth
  BY <1>2, <1>4, <1>5, <1>6
<1>11. \A child \in Children(value) : \E i \in 1 .. Len(tasks) : tasks[i] = Visit(child, depth)
  BY <1>2, <1>4, <1>6
<1> QED BY <1>6, <1>8, <1>9, <1>10, <1>11 DEF Unfolds, tasks, items

\* An object leaves each key and then the visit of its value.
LEMMA ObjectUnfolds ==
  ASSUME NEW value \in Document, value.kind = "object", NEW depth \in Nat
  PROVE  Unfolds(Opened(value.members, depth), value, depth)
<1> DEFINE members == value.members
           Part(i) == <<Key(members[i][1]), Visit(members[i][2], depth)>>
           parts == [i \in DOMAIN members |-> Part(i)]
           tasks == FlattenSeq(parts)
           N == Len(members)
<1>1. members \in Seq(Token \X Document)
  BY DocumentAssumption DEF String, Scalar, Array
<1>2. Children(value) = {members[i][2] : i \in DOMAIN members}
  BY DEF Children
<1>3. Fragments[value] =
        FlattenSeq([i \in DOMAIN members |-> <<members[i][1]>> \o Fragments[members[i][2]]])
  BY RecursionAssumption
<1>4. Opened(value.members, depth) = tasks
  BY DEF Opened
<1> HIDE DEF members
<1>5. /\ DOMAIN members = 1 .. N /\ N \in Nat
      /\ \A i \in 1 .. N : members[i][1] \in Token /\ members[i][2] \in Document
  BY <1>1
<1>6. \A i \in 1 .. N :
        /\ Key(members[i][1]) \in Task /\ Key(members[i][1]).task = "key"
        /\ Said(Key(members[i][1])) = <<members[i][1]>>
  BY <1>5, KeyTask
<1>7. \A i \in 1 .. N :
        /\ Visit(members[i][2], depth) \in Task /\ Visit(members[i][2], depth).task = "visit"
        /\ Visit(members[i][2], depth).value = members[i][2]
        /\ Visit(members[i][2], depth).depth = depth
        /\ Said(Visit(members[i][2], depth)) = Fragments[members[i][2]]
  BY <1>5, VisitTask
<1>8. \A i \in 1 .. N :
        /\ Part(i) \in Seq(Task) /\ Len(Part(i)) = 2
        /\ Part(i)[1] = Key(members[i][1]) /\ Part(i)[2] = Visit(members[i][2], depth)
        /\ Remaining(Part(i)) = <<members[i][1]>> \o Fragments[members[i][2]]
  <2> SUFFICES ASSUME NEW i \in 1 .. N
               PROVE  /\ Part(i) \in Seq(Task) /\ Len(Part(i)) = 2
                      /\ Part(i)[1] = Key(members[i][1])
                      /\ Part(i)[2] = Visit(members[i][2], depth)
                      /\ Remaining(Part(i)) = <<members[i][1]>> \o Fragments[members[i][2]]
    OBVIOUS
  <2>1. PICK k, v : k = Key(members[i][1]) /\ v = Visit(members[i][2], depth)
    OBVIOUS
  <2>2. /\ k \in Task /\ v \in Task
        /\ Said(k) = <<members[i][1]>> /\ Said(v) = Fragments[members[i][2]]
    BY <1>6, <1>7, <2>1
  <2>3. <<k, v>> \in Seq(Task) /\ Len(<<k, v>>) = 2 /\ <<k, v>>[1] = k /\ <<k, v>>[2] = v
    BY <2>2
  <2>4. [n \in DOMAIN <<k, v>> |-> Said(<<k, v>>[n])] = <<Said(k), Said(v)>>
    OBVIOUS
  <2>5. Said(k) \in Seq(Token) /\ Said(v) \in Seq(Token)
    BY <2>2, SaidType
  <2>6. FlattenSeq(<<Said(k), Said(v)>>) = Said(k) \o Said(v)
    BY <2>5, FlattenFew
  <2>7. Remaining(<<k, v>>) = Said(k) \o Said(v)
    BY <2>4, <2>6, Zenon DEF Remaining
  <2> QED BY <2>1, <2>2, <2>3, <2>7, Zenon
<1> HIDE DEF Part
<1>9. /\ parts \in Seq(Seq(Task)) /\ Len(parts) = N
      /\ DOMAIN parts = DOMAIN members /\ DOMAIN parts = 1 .. N
      /\ \A i \in 1 .. N : parts[i] = Part(i)
  <2>1. parts = [i \in 1 .. N |-> Part(i)]
    BY <1>5, Zenon
  <2> HIDE DEF N, parts
  <2>2. parts \in [1 .. N -> Seq(Task)]
    BY <1>8, <2>1, Zenon
  <2> QED BY <1>5, <2>1, <2>2
<1> HIDE DEF parts, N
<1>10. [i \in DOMAIN parts |-> Remaining(parts[i])]
       = [i \in DOMAIN members |-> <<members[i][1]>> \o Fragments[members[i][2]]]
  BY <1>5, <1>8, <1>9, Zenon
<1>11. Remaining(tasks) = Fragments[value]
  BY <1>3, <1>9, <1>10, RemainingParts
<1>12. tasks \in Seq(Task)
  BY <1>9, FlattenType
<1>13. \A i \in 1 .. N : \E h \in 1 .. Len(tasks) :
         /\ h + 1 \in 1 .. Len(tasks)
         /\ tasks[h] = Key(members[i][1]) /\ tasks[h + 1] = Visit(members[i][2], depth)
  <2> SUFFICES ASSUME NEW i \in 1 .. N
               PROVE  \E h \in 1 .. Len(tasks) :
                        /\ h + 1 \in 1 .. Len(tasks)
                        /\ tasks[h] = Key(members[i][1])
                        /\ tasks[h + 1] = Visit(members[i][2], depth)
    OBVIOUS
  <2>1. PICK p : p = Len(Flat(parts, i - 1))
    OBVIOUS
  <2>2. p \in Nat
    <3>1. i - 1 \in 0 .. Len(parts)
      BY <1>5, <1>9
    <3> QED BY <1>9, <2>1, <3>1, FlatLengths
  <2>3. \A d \in 1 .. 2 : p + d \in 1 .. Len(tasks) /\ tasks[p + d] = Part(i)[d]
    <3>1. i \in 1 .. Len(parts) /\ Len(parts[i]) = 2 /\ parts[i] = Part(i)
      BY <1>8, <1>9
    <3>2. \A d \in 1 .. Len(parts[i]) :
            p + d \in 1 .. Len(tasks) /\ tasks[p + d] = parts[i][d]
      <4>1. i \in 1 .. Len(parts)
        BY <3>1
      <4> QED BY <1>9, <2>1, <4>1, PartOfFlat, ZenonT(40)
    <3> QED BY <3>1, <3>2, Zenon
  <2>3a. 1 \in 1 .. 2 /\ 2 \in 1 .. 2
    OBVIOUS
  <2>4. p + 1 \in 1 .. Len(tasks) /\ tasks[p + 1] = Key(members[i][1])
    BY <1>8, <2>3, <2>3a, Zenon
  <2>5. (p + 1) + 1 \in 1 .. Len(tasks) /\ tasks[(p + 1) + 1] = Visit(members[i][2], depth)
    <3>1. (p + 1) + 1 = p + 2
      BY <2>2
    <3>2. p + 2 \in 1 .. Len(tasks) /\ tasks[p + 2] = Part(i)[2]
      BY <2>3
    <3> QED BY <1>8, <3>1, <3>2
  <2> QED BY <2>4, <2>5
<1>14. \A h \in 1 .. Len(tasks) : \E i \in 1 .. N :
         \/ /\ tasks[h] = Key(members[i][1]) /\ h < Len(tasks)
            /\ tasks[h + 1] = Visit(members[i][2], depth)
         \/ tasks[h] = Visit(members[i][2], depth)
  <2> SUFFICES ASSUME NEW h \in 1 .. Len(tasks)
               PROVE  \E i \in 1 .. N :
                        \/ /\ tasks[h] = Key(members[i][1]) /\ h < Len(tasks)
                           /\ tasks[h + 1] = Visit(members[i][2], depth)
                        \/ tasks[h] = Visit(members[i][2], depth)
    OBVIOUS
  <2>1. PICK i \in 1 .. Len(parts) : h > Len(Flat(parts, i - 1)) /\ h <= Len(Flat(parts, i))
    BY <1>9, PartAtFlat
  <2>2. PICK p : p = Len(Flat(parts, i - 1))
    OBVIOUS
  <2>3. p \in Nat /\ Len(Flat(parts, i)) = p + Len(parts[i])
    <3>1. i - 1 \in 0 .. Len(parts) /\ i \in 1 .. Len(parts)
      BY <1>5, <1>9
    <3> QED BY <1>9, <2>2, <3>1, FlatLengths
  <2>4. i \in 1 .. N /\ Len(parts[i]) = 2 /\ parts[i] = Part(i)
    BY <1>8, <1>9
  <2>5. \A d \in 1 .. 2 : p + d \in 1 .. Len(tasks) /\ tasks[p + d] = Part(i)[d]
    <3>1. \A d \in 1 .. Len(parts[i]) :
            p + d \in 1 .. Len(tasks) /\ tasks[p + d] = parts[i][d]
      BY <1>9, <2>2, PartOfFlat, ZenonT(40)
    <3> QED BY <2>4, <3>1, Zenon
  <2>5a. 1 \in 1 .. 2 /\ 2 \in 1 .. 2
    OBVIOUS
  <2>6. h = p + 1 \/ h = p + 2
    BY <2>1, <2>2, <2>3, <2>4
  <2>7. tasks[p + 1] = Key(members[i][1]) /\ tasks[p + 2] = Visit(members[i][2], depth)
    BY <1>8, <2>4, <2>5, <2>5a, Zenon
  <2>8. p + 2 \in 1 .. Len(tasks) /\ (p + 1) + 1 = p + 2
    BY <2>3, <2>5
  <2>9. CASE h = p + 1
    <3>1. h < Len(tasks) /\ h + 1 = p + 2
      BY <2>3, <2>8, <2>9
    <3> QED BY <2>4, <2>7, <2>9, <3>1
  <2>10. CASE h = p + 2
    BY <2>4, <2>7, <2>10
  <2> QED BY <2>6, <2>9, <2>10
<1> HIDE DEF tasks
<1>15. KeysLead(tasks)
  <2> SUFFICES ASSUME NEW h \in 1 .. Len(tasks), tasks[h].task = "key"
               PROVE  h < Len(tasks) /\ tasks[h + 1].task = "visit"
    BY DEF KeysLead
  <2> QED BY <1>6, <1>7, <1>14
<1>16. \A h \in 1 .. Len(tasks) :
         tasks[h].task = "visit" => tasks[h].value \in Children(value) /\ tasks[h].depth = depth
  <2> SUFFICES ASSUME NEW h \in 1 .. Len(tasks), tasks[h].task = "visit"
               PROVE  tasks[h].value \in Children(value) /\ tasks[h].depth = depth
    OBVIOUS
  <2>1. PICK i \in 1 .. N : tasks[h] \in {Key(members[i][1]), Visit(members[i][2], depth)}
    BY <1>14
  <2>2. tasks[h] # Key(members[i][1])
    BY <1>6
  <2>3. members[i][2] \in Children(value)
    BY <1>2, <1>5
  <2> QED BY <1>7, <2>1, <2>2, <2>3
<1>17. \A child \in Children(value) : \E h \in 1 .. Len(tasks) : tasks[h] = Visit(child, depth)
  BY <1>2, <1>5, <1>13
<1> QED BY <1>4, <1>11, <1>12, <1>15, <1>16, <1>17 DEF Unfolds
-----------------------------------------------------------------------------
(* The walk keeps its invariant *)

\* The parts of the invariant hold of two lists of tasks when they hold of each.
LEMMA TasksJoined ==
  ASSUME NEW a \in Seq(Task), NEW b \in Seq(Task), NEW root \in Document
  PROVE  /\ a \o b \in Seq(Task)
         /\ KeysLead(a) /\ KeysLead(b) => KeysLead(a \o b)
         /\ Within(a, root) /\ Within(b, root) => Within(a \o b, root)
         /\ TooDeep(a) \/ TooDeep(b) => TooDeep(a \o b)
<1> DEFINE ab == a \o b
<1>1. /\ ab \in Seq(Task) /\ Len(ab) = Len(a) + Len(b) /\ Len(a) \in Nat /\ Len(b) \in Nat
      /\ \A i \in 1 .. Len(a) : ab[i] = a[i]
      /\ \A i \in 1 .. Len(b) : ab[Len(a) + i] = b[i]
  OBVIOUS
<1> HIDE DEF ab
<1>2. \A i \in 1 .. Len(ab) : i \in 1 .. Len(a) \/ \E k \in 1 .. Len(b) : i = Len(a) + k
  <2> SUFFICES ASSUME NEW i \in 1 .. Len(ab), i \notin 1 .. Len(a)
               PROVE  \E k \in 1 .. Len(b) : i = Len(a) + k
    OBVIOUS
  <2>1. i - Len(a) \in 1 .. Len(b) /\ i = Len(a) + (i - Len(a))
    BY <1>1
  <2> QED BY <2>1
<1>3. /\ \A i \in 1 .. Len(a) : i \in 1 .. Len(ab)
      /\ \A i \in 1 .. Len(b) : Len(a) + i \in 1 .. Len(ab)
  BY <1>1
<1>4. ASSUME KeysLead(a), KeysLead(b) PROVE KeysLead(ab)
  <2> SUFFICES ASSUME NEW i \in 1 .. Len(ab), ab[i].task = "key"
               PROVE  i < Len(ab) /\ ab[i + 1].task = "visit"
    BY DEF KeysLead
  <2>1. CASE i \in 1 .. Len(a)
    <3>1. i < Len(a) /\ a[i + 1].task = "visit"
      BY <1>1, <1>4, <2>1 DEF KeysLead
    <3>2. i < Len(ab) /\ i + 1 \in 1 .. Len(a)
      BY <1>1, <3>1
    <3> QED BY <1>1, <3>1, <3>2
  <2>2. CASE i \notin 1 .. Len(a)
    <3>1. PICK k \in 1 .. Len(b) : i = Len(a) + k
      BY <1>2, <2>2
    <3>2. k < Len(b) /\ b[k + 1].task = "visit"
      BY <1>1, <1>4, <3>1 DEF KeysLead
    <3>3. k + 1 \in 1 .. Len(b) /\ i < Len(ab) /\ i + 1 = Len(a) + (k + 1)
      BY <1>1, <3>1, <3>2
    <3> QED BY <1>1, <3>2, <3>3
  <2> QED BY <2>1, <2>2
<1>5. ASSUME Within(a, root), Within(b, root) PROVE Within(ab, root)
  <2> SUFFICES ASSUME NEW i \in 1 .. Len(ab), ab[i].task = "visit"
               PROVE  ab[i].depth + Nesting[ab[i].value] <= Nesting[root]
    BY DEF Within
  <2>1. CASE i \in 1 .. Len(a)
    BY <1>1, <1>5, <2>1 DEF Within
  <2>2. CASE i \notin 1 .. Len(a)
    <3>1. PICK k \in 1 .. Len(b) : i = Len(a) + k
      BY <1>2, <2>2
    <3>2. ab[i] = b[k]
      BY <1>1, <3>1
    <3> QED BY <1>5, <3>2 DEF Within
  <2> QED BY <2>1, <2>2
<1>6. ASSUME TooDeep(a) \/ TooDeep(b) PROVE TooDeep(ab)
  BY <1>1, <1>3, <1>6 DEF TooDeep
<1> QED BY <1>1, <1>4, <1>5, <1>6 DEF ab

\* Without the first task: a task is the first or one of the others.
LEMMA TasksLeft ==
  ASSUME NEW tasks \in Seq(Task), tasks # << >>, NEW root \in Document
  PROVE  /\ Tail(tasks) \in Seq(Task) /\ Head(tasks) = tasks[1] /\ tasks[1] \in Task
         /\ KeysLead(tasks) => KeysLead(Tail(tasks))
         /\ KeysLead(tasks) /\ tasks[1].task = "key" =>
              Tail(tasks) # << >> /\ Tail(tasks)[1].task = "visit"
         /\ Within(tasks, root) => Within(Tail(tasks), root)
         /\ TooDeep(tasks) =>
              \/ TooDeep(Tail(tasks))
              \/ tasks[1].task = "visit" /\ tasks[1].depth + Nesting[tasks[1].value] > MaxDepth
<1> DEFINE rest == Tail(tasks)
<1>1. /\ rest \in Seq(Task) /\ Len(rest) = Len(tasks) - 1 /\ Len(tasks) \in Nat /\ Len(tasks) >= 1
      /\ \A i \in 1 .. Len(rest) : rest[i] = tasks[i + 1]
      /\ Head(tasks) = tasks[1] /\ tasks[1] \in Task
  OBVIOUS
<1> HIDE DEF rest
<1>2. \A i \in 1 .. Len(rest) : i + 1 \in 1 .. Len(tasks) /\ rest[i] = tasks[i + 1]
  BY <1>1
<1>3. \A i \in 1 .. Len(tasks) : i = 1 \/ (i - 1 \in 1 .. Len(rest) /\ tasks[i] = rest[i - 1])
  <2> SUFFICES ASSUME NEW i \in 1 .. Len(tasks), i # 1
               PROVE  i - 1 \in 1 .. Len(rest) /\ tasks[i] = rest[i - 1]
    OBVIOUS
  <2>1. i - 1 \in 1 .. Len(rest) /\ (i - 1) + 1 = i
    BY <1>1
  <2> QED BY <1>1, <2>1
<1>4. ASSUME KeysLead(tasks) PROVE KeysLead(rest)
  <2> SUFFICES ASSUME NEW i \in 1 .. Len(rest), rest[i].task = "key"
               PROVE  i < Len(rest) /\ rest[i + 1].task = "visit"
    BY DEF KeysLead
  <2>1. i + 1 < Len(tasks) /\ tasks[(i + 1) + 1].task = "visit"
    BY <1>2, <1>4 DEF KeysLead
  <2>2. i < Len(rest) /\ i + 1 \in 1 .. Len(rest)
    BY <1>1, <2>1
  <2> QED BY <1>1, <2>1, <2>2
<1>5. ASSUME KeysLead(tasks), tasks[1].task = "key" PROVE rest # << >> /\ rest[1].task = "visit"
  <2>1. 1 \in 1 .. Len(tasks)
    BY <1>1
  <2>2. 1 < Len(tasks) /\ tasks[1 + 1].task = "visit"
    BY <1>5, <2>1 DEF KeysLead
  <2>3. 1 \in 1 .. Len(rest)
    BY <1>1, <2>2
  <2> QED BY <1>1, <2>2, <2>3
<1>6. ASSUME Within(tasks, root) PROVE Within(rest, root)
  BY <1>2, <1>6 DEF Within
<1>7. ASSUME TooDeep(tasks)
      PROVE  \/ TooDeep(rest)
             \/ tasks[1].task = "visit" /\ tasks[1].depth + Nesting[tasks[1].value] > MaxDepth
  BY <1>3, <1>7 DEF TooDeep
<1> QED BY <1>1, <1>4, <1>5, <1>6, <1>7 DEF rest
\* What a list of unfolded tasks does to the invariant's parts.
LEMMA UnfoldedTasks ==
  ASSUME NEW value \in Document, NEW depth \in Nat, NEW root \in Document,
         NEW tasks, Unfolds(tasks, value, depth + 1),
         depth + Nesting[value] <= Nesting[root]
  PROVE  /\ Within(tasks, root)
         /\ depth <= MaxDepth /\ depth + Nesting[value] > MaxDepth => TooDeep(tasks)
<1>1. /\ Nesting \in [Document -> Nat] /\ MaxDepth \in Nat
      /\ Children(value) = {} => Nesting[value] = 0
      /\ Children(value) # {} =>
           /\ \A child \in Children(value) : Nesting[child] < Nesting[value]
           /\ \E child \in Children(value) : Nesting[child] + 1 = Nesting[value]
  BY RecursionAssumption, DocumentAssumption
<1>2. Children(value) \subseteq Document
  <2>1. \/ value.kind \notin {"array", "object"}
        \/ value.kind = "array" /\ value.items \in Seq(Document)
        \/ value.kind = "object" /\ value.members \in Seq(Token \X Document)
    BY DocumentAssumption DEF String, Scalar
  <2>2. CASE value.kind \notin {"array", "object"}
    BY <2>2 DEF Children
  <2>3. CASE value.kind = "array" /\ value.items \in Seq(Document)
    BY <2>3 DEF Children
  <2>4. CASE value.kind = "object" /\ value.members \in Seq(Token \X Document)
    BY <2>4 DEF Children
  <2> QED BY <2>1, <2>2, <2>3, <2>4
<1>3. \A child \in Children(value) : Nesting[child] \in Nat
  BY <1>1, <1>2
<1>4. Within(tasks, root)
  <2> SUFFICES ASSUME NEW i \in 1 .. Len(tasks), tasks[i].task = "visit"
               PROVE  tasks[i].depth + Nesting[tasks[i].value] <= Nesting[root]
    BY DEF Within
  <2>1. tasks[i].value \in Children(value) /\ tasks[i].depth = depth + 1
    BY DEF Unfolds
  <2>2. PICK n \in Nat : n = Nesting[tasks[i].value] /\ n < Nesting[value]
    BY <1>1, <1>3, <2>1
  <2>3. Nesting[value] \in Nat /\ Nesting[root] \in Nat
    BY <1>1
  <2> QED BY <2>1, <2>2, <2>3
<1>5. ASSUME depth <= MaxDepth, depth + Nesting[value] > MaxDepth PROVE TooDeep(tasks)
  <2>1. Nesting[value] # 0
    BY <1>1, <1>5
  <2>2. PICK child \in Children(value) : Nesting[child] + 1 = Nesting[value]
    BY <1>1, <2>1
  <2>3. PICK i \in 1 .. Len(tasks) : tasks[i] = Visit(child, depth + 1)
    BY DEF Unfolds
  <2>4. /\ tasks[i].task = "visit" /\ tasks[i].value = child /\ tasks[i].depth = depth + 1
    BY <1>2, <2>3, VisitTask
  <2>5. (depth + 1) + Nesting[child] > MaxDepth
    BY <1>1, <1>3, <1>5, <2>2
  <2> QED BY <2>4, <2>5 DEF TooDeep
<1> QED BY <1>4, <1>5

\* The walk begins with the visit of the document.
LEMMA WalkStart ==
  ASSUME WalkInit
  PROVE  WalkInv
<1> DEFINE first == Visit(document, 0)
<1>0. document \in Document /\ todo = <<first>> /\ output = << >> /\ outcome = "running"
  BY DEF WalkInit
<1>1. /\ first \in Task /\ first.task = "visit" /\ first.value = document /\ first.depth = 0
      /\ Said(first) = Fragments[document]
  BY <1>0, VisitTask
<1> HIDE DEF first
<1>2. todo \in Seq(Task) /\ Len(todo) = 1 /\ todo[1] = first /\ todo # << >>
      /\ Head(todo) = first /\ Tail(todo) = << >>
  BY <1>0, <1>1
<1>3. Fragments[document] \in Seq(Token) /\ Nesting[document] \in Nat
      /\ MaxDepth \in Nat /\ MaxFragments \in Nat
  BY <1>0, RecursionAssumption, DocumentAssumption
<1>4. output \o Remaining(todo) = Fragments[document]
  <2>1. Remaining(todo) = Said(first)
    <3>1. [i \in DOMAIN <<first>> |-> Said(<<first>>[i])] = <<Said(first)>>
      OBVIOUS
    <3>2. FlattenSeq(<<Said(first)>>) = Said(first)
      BY <1>1, SaidType, FlattenFew
    <3> QED BY <1>0, <3>1, <3>2 DEF Remaining
  <2>2. << >> \o Fragments[document] = Fragments[document]
    BY <1>3, ConcatEmptySeq
  <2> QED BY <1>0, <1>1, <2>1, <2>2
<1>5. KeysLead(todo)
  BY <1>1, <1>2 DEF KeysLead
<1>6. Within(todo, document)
  BY <1>1, <1>2, <1>3 DEF Within
<1>7. Nesting[document] > MaxDepth => TooDeep(todo)
  BY <1>1, <1>2, <1>3 DEF TooDeep
<1>8. output \in Seq(Token) /\ Len(output) = 0
  BY <1>0
<1> QED BY <1>0, <1>2, <1>3, <1>4, <1>5, <1>6, <1>7, <1>8 DEF WalkInv

\* Concatenation is associative.
LEMMA TokensMove == \A x, y, z \in Seq(Token) : (x \o y) \o z = x \o (y \o z)
BY ConcatAssociative

\* One task done: it put out `said` and left `new` to do.
LEMMA TaskDone ==
  ASSUME NEW root \in Document, NEW tasks \in Seq(Task), tasks # << >>,
         NEW out \in Seq(Token), NEW said \in Seq(Token), NEW new \in Seq(Task),
         out \o Remaining(tasks) = Fragments[root],
         KeysLead(tasks), Within(tasks, root), Nesting[root] > MaxDepth => TooDeep(tasks),
         Said(Head(tasks)) = said \o Remaining(new),
         KeysLead(new), Within(new, root),
         tasks[1].task = "visit" /\ tasks[1].depth + Nesting[tasks[1].value] > MaxDepth
           => TooDeep(new)
  PROVE  LET left == new \o Tail(tasks)
         IN  /\ left \in Seq(Task) /\ out \o said \in Seq(Token)
             /\ (out \o said) \o Remaining(left) = Fragments[root]
             /\ KeysLead(left) /\ Within(left, root)
             /\ Nesting[root] > MaxDepth => TooDeep(left)
<1> DEFINE left == new \o Tail(tasks)
<1>1. /\ Tail(tasks) \in Seq(Task) /\ KeysLead(Tail(tasks)) /\ Within(Tail(tasks), root)
      /\ TooDeep(tasks) => TooDeep(Tail(tasks)) \/ TooDeep(new)
  BY TasksLeft
<1>2. /\ left \in Seq(Task) /\ KeysLead(left) /\ Within(left, root)
      /\ TooDeep(new) \/ TooDeep(Tail(tasks)) => TooDeep(left)
  BY <1>1, TasksJoined
<1>3. (out \o said) \o Remaining(left) = Fragments[root]
  <2>1. PICK r, n, t \in Seq(Token) :
          r = Remaining(tasks) /\ n = Remaining(new) /\ t = Remaining(Tail(tasks))
    BY <1>1, RemainingType
  <2>2. Remaining(left) = n \o t
    BY <1>1, <2>1, RemainingConcat
  <2>3. r = (said \o n) \o t
    BY <2>1, RemainingFirst
  <2>4. \A x, y, z \in Seq(Token) : (x \o y) \o z = x \o (y \o z)
    BY TokensMove, Zenon
  <2>5. (out \o said) \o (n \o t) = out \o (said \o (n \o t))
    <3>1. n \o t \in Seq(Token)
      OBVIOUS
    <3> QED BY <2>4, <3>1, ZenonT(40)
  <2>6. said \o (n \o t) = (said \o n) \o t
    BY <2>4, ZenonT(40)
  <2> QED BY <2>1, <2>2, <2>3, <2>5, <2>6, Zenon
<1>4. out \o said \in Seq(Token)
  OBVIOUS
<1> HIDE DEF left
<1>5. Nesting[root] > MaxDepth => TooDeep(left)
  BY <1>1, <1>2
<1> QED BY <1>2, <1>3, <1>4, <1>5 DEF left

\* The visit of a value that opens into more tasks, or into none.
LEMMA VisitOpens ==
  ASSUME WalkInv, outcome = "running", todo # << >>, Current.task = "visit", Admitted,
         NEW new, Unfolds(new, Current.value, Current.depth + 1),
         todo' = new \o Tail(todo), UNCHANGED <<document, output, outcome>>
  PROVE  WalkInv'
<1>1. /\ document \in Document /\ todo \in Seq(Task) /\ output \in Seq(Token)
      /\ output \o Remaining(todo) = Fragments[document]
      /\ KeysLead(todo) /\ Within(todo, document)
      /\ Nesting[document] > MaxDepth => TooDeep(todo)
  BY DEF WalkInv
<1>2. /\ Head(todo) \in Task /\ Head(todo) = todo[1] /\ 1 \in 1 .. Len(todo)
  BY <1>1
<1>3. PICK value \in Document, depth \in Nat :
        value = Current.value /\ depth = Current.depth /\ Said(Head(todo)) = Fragments[value]
  <2>1. Current \in Task /\ Current.task = "visit"
    BY <1>2 DEF Current
  <2>2. Current.value \in Document /\ Current.depth \in Nat
    BY <2>1 DEF Task
  <2>3. Current.task # "key"
    BY <2>1
  <2>4. Said(Current) = Fragments[Current.value]
    BY <2>3, Zenon DEF Said
  <2> QED BY <2>2, <2>4 DEF Current
<1>4. /\ depth <= MaxDepth /\ Len(output) < MaxFragments
      /\ MaxDepth \in Nat /\ MaxFragments \in Nat
      /\ Nesting \in [Document -> Nat]
  <2>1. MaxDepth \in Nat /\ MaxFragments \in Nat /\ Nesting \in [Document -> Nat]
    BY DocumentAssumption, RecursionAssumption
  <2> QED BY <1>1, <1>3, <2>1 DEF Admitted, DepthExceeded, Full
<1>5. todo[1].task = "visit" /\ todo[1].value = value /\ todo[1].depth = depth
  BY <1>2, <1>3 DEF Current
<1>6. depth + Nesting[value] <= Nesting[document]
  BY <1>1, <1>2, <1>5 DEF Within
<1>7. /\ new \in Seq(Task) /\ Remaining(new) = Fragments[value] /\ KeysLead(new)
      /\ Unfolds(new, value, depth + 1)
  BY <1>3 DEF Unfolds
<1>8. /\ Within(new, document)
      /\ depth + Nesting[value] > MaxDepth => TooDeep(new)
  BY <1>1, <1>4, <1>6, <1>7, UnfoldedTasks
<1>9. Said(Head(todo)) = << >> \o Remaining(new) /\ << >> \in Seq(Token)
  <2>1. Fragments[value] \in Seq(Token)
    BY RecursionAssumption
  <2> QED BY <1>3, <1>7, <2>1, ConcatEmptySeq
<1>10. /\ todo' \in Seq(Task) /\ output \o << >> \in Seq(Token)
       /\ (output \o << >>) \o Remaining(todo') = Fragments[document]
       /\ KeysLead(todo') /\ Within(todo', document)
       /\ Nesting[document] > MaxDepth => TooDeep(todo')
  <2>1. /\ new \o Tail(todo) \in Seq(Task) /\ output \o << >> \in Seq(Token)
        /\ (output \o << >>) \o Remaining(new \o Tail(todo)) = Fragments[document]
        /\ KeysLead(new \o Tail(todo)) /\ Within(new \o Tail(todo), document)
        /\ Nesting[document] > MaxDepth => TooDeep(new \o Tail(todo))
    <3>1. todo[1].task = "visit" /\ todo[1].depth + Nesting[todo[1].value] > MaxDepth
            => TooDeep(new)
      BY <1>5, <1>8
    <3> QED BY <1>1, <1>7, <1>8, <1>9, <3>1, TaskDone, Zenon
  <2> QED BY <2>1
<1>11. output \o << >> = output
  BY <1>1, ConcatEmptySeq
<1>12. Len(output) \in Nat
  BY <1>1
<1>13. Len(output') <= MaxFragments + 1 /\ Len(output') # MaxFragments + 1
  BY <1>4, <1>12
<1> QED BY <1>1, <1>10, <1>11, <1>13 DEF WalkInv

\* A task that puts out a text of its own and opens into nothing.
LEMMA TaskPushes ==
  ASSUME WalkInv, outcome = "running", todo # << >>,
         NEW said \in Token, Said(Current) = <<said>>,
         Current.task = "key" \/ (Admitted /\ Nesting[Current.value] = 0),
         output' = Append(output, said), todo' = Tail(todo), UNCHANGED <<document, outcome>>
  PROVE  WalkInv'
<1>1. /\ document \in Document /\ todo \in Seq(Task) /\ output \in Seq(Token)
      /\ output \o Remaining(todo) = Fragments[document]
      /\ KeysLead(todo) /\ Within(todo, document)
      /\ Nesting[document] > MaxDepth => TooDeep(todo)
      /\ Len(output) <= MaxFragments + 1
      /\ Len(output) = MaxFragments + 1 => todo[1].task = "visit"
  BY DEF WalkInv
<1>2. /\ Head(todo) \in Task /\ Head(todo) = todo[1] /\ 1 \in 1 .. Len(todo)
      /\ Current = todo[1]
  BY <1>1 DEF Current
<1>3. MaxDepth \in Nat /\ MaxFragments \in Nat /\ Nesting \in [Document -> Nat]
      /\ Len(output) \in Nat
  BY <1>1, DocumentAssumption, RecursionAssumption
<1>4. [i \in DOMAIN << >> |-> Said(<< >>[i])] = << >>
  OBVIOUS
<1>5. << >> \in Seq(Task) /\ Len(<< >>) = 0 /\ Remaining(<< >>) = << >>
  BY <1>4 DEF Remaining, FlattenSeq
<1>6. KeysLead(<< >>) /\ Within(<< >>, document)
  BY <1>5 DEF KeysLead, Within
<1>7. ~ (todo[1].task = "visit" /\ todo[1].depth + Nesting[todo[1].value] > MaxDepth)
  <2>1. CASE Current.task = "key"
    BY <1>2, <2>1
  <2>2. CASE Current.task # "key" /\ Admitted /\ Nesting[Current.value] = 0
    <3>1. Current.depth \in Nat
      BY <1>2, <2>2 DEF Task
    <3>2. Current.depth <= MaxDepth
      BY <1>3, <2>2, <3>1 DEF Admitted, DepthExceeded
    <3> QED BY <1>2, <1>3, <2>2, <3>1, <3>2
  <2> QED BY <2>1, <2>2
<1>8. /\ <<said>> \in Seq(Token) /\ <<said>> \o << >> = <<said>>
      /\ output \o <<said>> = Append(output, said)
      /\ << >> \o Tail(todo) = Tail(todo)
  BY <1>1
<1>9. Said(Head(todo)) = <<said>> \o Remaining(<< >>)
  BY <1>5, <1>8 DEF Current
<1>10. /\ << >> \o Tail(todo) \in Seq(Task) /\ output \o <<said>> \in Seq(Token)
       /\ (output \o <<said>>) \o Remaining(<< >> \o Tail(todo)) = Fragments[document]
       /\ KeysLead(<< >> \o Tail(todo)) /\ Within(<< >> \o Tail(todo), document)
       /\ Nesting[document] > MaxDepth => TooDeep(<< >> \o Tail(todo))
  BY <1>1, <1>5, <1>6, <1>7, <1>8, <1>9, TaskDone
<1>11. /\ todo' \in Seq(Task) /\ output' \in Seq(Token)
       /\ output' \o Remaining(todo') = Fragments[document]
       /\ KeysLead(todo') /\ Within(todo', document)
       /\ Nesting[document] > MaxDepth => TooDeep(todo')
  BY <1>8, <1>10
<1>12. Len(output') = Len(output) + 1
  BY <1>1
<1>13. /\ Len(output') <= MaxFragments + 1
       /\ Len(output') = MaxFragments + 1 => todo' # << >> /\ todo'[1].task = "visit"
  <2>1. CASE Current.task = "key"
    <3>1. Len(output) # MaxFragments + 1
      BY <1>1, <1>2, <2>1
    <3>2. Tail(todo) # << >> /\ Tail(todo)[1].task = "visit"
      BY <1>1, <1>2, <2>1, TasksLeft
    <3> QED BY <1>1, <1>3, <1>12, <3>1, <3>2
  <2>2. CASE Admitted
    <3>1. Len(output) < MaxFragments
      BY <1>3, <2>2 DEF Admitted, Full
    <3> QED BY <1>3, <1>12, <3>1
  <2> QED BY <2>1, <2>2
<1> QED BY <1>1, <1>11, <1>13 DEF WalkInv

\* What the invariant and the type of a task say of a visit.
LEMMA VisitCurrent ==
  ASSUME WalkInv, todo # << >>, Current.task = "visit"
  PROVE  /\ Current \in Task /\ Current = todo[1]
         /\ Current.value \in Document /\ Current.depth \in Nat
         /\ Said(Current) = Fragments[Current.value]
         /\ Current.depth + Nesting[Current.value] <= Nesting[document]
<1>1. todo \in Seq(Task) /\ Within(todo, document)
  BY DEF WalkInv
<1>2. Current \in Task /\ Current = todo[1] /\ 1 \in 1 .. Len(todo)
  BY <1>1 DEF Current
<1>3. Current.value \in Document /\ Current.depth \in Nat
  BY <1>2 DEF Task
<1>4. Current.task # "key"
  OBVIOUS
<1>5. Said(Current) = Fragments[Current.value]
  BY <1>4, Zenon DEF Said
<1>6. Current.depth + Nesting[Current.value] <= Nesting[document]
  BY <1>1, <1>2 DEF Within
<1> QED BY <1>2, <1>3, <1>5, <1>6

\* Every step of the walk keeps its invariant.
LEMMA WalkSteps ==
  ASSUME WalkInv, Walk
  PROVE  WalkInv'
<1>1. CASE Refuse
  <2>1. /\ outcome = "running" /\ todo # << >> /\ Current.task = "visit"
        /\ UNCHANGED <<document, todo, output>>
    BY <1>1 DEF Refuse, Visiting
  <2>2. /\ MaxDepth \in Nat /\ MaxFragments \in Nat /\ Nesting \in [Document -> Nat]
        /\ document \in Document
    BY DocumentAssumption, RecursionAssumption DEF WalkInv
  <2>3. CASE DepthExceeded(Current.depth) /\ outcome' = "too_deep"
    <3>1. Current.depth \in Nat /\ Current.value \in Document
          /\ Current.depth + Nesting[Current.value] <= Nesting[document]
      BY <2>1, VisitCurrent
    <3>2. PICK d, n, m \in Nat : d = Current.depth /\ n = Nesting[Current.value]
                                 /\ m = Nesting[document]
      BY <2>2, <3>1
    <3>3. m > MaxDepth
      BY <2>2, <2>3, <3>1, <3>2 DEF DepthExceeded
    <3>4. Nesting[document] > MaxDepth
      BY <3>2, <3>3
    <3> QED BY <2>1, <2>3, <3>4 DEF WalkInv
  <2>4. CASE Full(output) /\ outcome' = "too_many"
    BY <2>1, <2>4 DEF WalkInv, Full
  <2> QED BY <1>1, <2>3, <2>4 DEF Refuse
<1>2. CASE Skip
  <2>1. /\ outcome = "running" /\ todo # << >> /\ Current.task = "visit" /\ Admitted
        /\ Current.value.kind = "scalar"
        /\ todo' = Tail(todo) /\ UNCHANGED <<document, output, outcome>>
    BY <1>2 DEF Skip, Visiting
  <2>2. Current.value \in Document /\ Current.depth \in Nat
    BY <2>1, VisitCurrent
  <2>3. Unfolds(<< >>, Current.value, Current.depth + 1)
    BY <2>1, <2>2, ScalarUnfolds
  <2>4. todo' = << >> \o Tail(todo)
    <3>1. Tail(todo) \in Seq(Task)
      BY <2>1 DEF WalkInv
    <3> QED BY <2>1, <3>1
  <2> QED BY <2>1, <2>3, <2>4, VisitOpens
<1>3. CASE PushString
  <2>1. /\ outcome = "running" /\ todo # << >> /\ Current.task = "visit" /\ Admitted
        /\ Current.value.kind = "string"
        /\ output' = Append(output, Current.value.text)
        /\ todo' = Tail(todo) /\ UNCHANGED <<document, outcome>>
    BY <1>3 DEF PushString, Visiting
  <2>2. Current.value \in Document /\ Said(Current) = Fragments[Current.value]
    BY <2>1, VisitCurrent
  <2>3. PICK value \in Document : value = Current.value
    BY <2>2
  <2>4. value.kind = "string"
    BY <2>1, <2>3
  <2>5. value.text \in Token
    BY <2>4, DocumentAssumption DEF Scalar, Array, Object
  <2>6. Fragments[value] = <<value.text>>
    BY <2>4, RecursionAssumption
  <2>7. Nesting[value] = 0
    <3>1. Children(value) = {}
      BY <2>4 DEF Children
    <3> QED BY <3>1, RecursionAssumption
  <2> QED BY <2>1, <2>2, <2>3, <2>5, <2>6, <2>7, TaskPushes
<1>4. CASE OpenArray
  <2> DEFINE new == [i \in DOMAIN Current.value.items |->
                       Visit(Current.value.items[i], Current.depth + 1)]
  <2>1. /\ outcome = "running" /\ todo # << >> /\ Current.task = "visit" /\ Admitted
        /\ Current.value.kind = "array"
        /\ todo' = new \o Tail(todo) /\ UNCHANGED <<document, output, outcome>>
    BY <1>4 DEF OpenArray, Visiting
  <2>2. Current.value \in Document /\ Current.depth + 1 \in Nat
    BY <2>1, VisitCurrent
  <2>3. Unfolds(new, Current.value, Current.depth + 1)
    BY <2>1, <2>2, ArrayUnfolds
  <2> HIDE DEF new
  <2> QED BY <2>1, <2>3, VisitOpens
<1>5. CASE OpenObject
  <2> DEFINE new == Opened(Current.value.members, Current.depth + 1)
  <2>1. /\ outcome = "running" /\ todo # << >> /\ Current.task = "visit" /\ Admitted
        /\ Current.value.kind = "object"
        /\ todo' = new \o Tail(todo) /\ UNCHANGED <<document, output, outcome>>
    BY <1>5 DEF OpenObject, Visiting
  <2>2. Current.value \in Document /\ Current.depth + 1 \in Nat
    BY <2>1, VisitCurrent
  <2>3. Unfolds(new, Current.value, Current.depth + 1)
    BY <2>1, <2>2, ObjectUnfolds
  <2> HIDE DEF new
  <2> QED BY <2>1, <2>3, VisitOpens
<1>6. CASE PushKey
  <2>1. /\ outcome = "running" /\ todo # << >> /\ Current.task = "key"
        /\ output' = Append(output, Current.text)
        /\ todo' = Tail(todo) /\ UNCHANGED <<document, outcome>>
    BY <1>6 DEF PushKey
  <2>2. Current \in Task
    BY <2>1 DEF WalkInv, Current
  <2>3. PICK said \in Token : said = Current.text
    BY <2>1, <2>2 DEF Task
  <2>4. Said(Current) = <<said>> /\ output' = Append(output, said)
    BY <2>1, <2>3, Zenon DEF Said
  <2> QED BY <2>1, <2>4, TaskPushes
<1>7. CASE Finish
  <2>1. /\ todo = << >> /\ outcome' = "ok"
        /\ document' = document /\ todo' = todo /\ output' = output
    BY <1>7 DEF Finish
  <2> QED BY <2>1 DEF WalkInv
<1> QED BY <1>1, <1>2, <1>3, <1>4, <1>5, <1>6, <1>7 DEF Walk

-----------------------------------------------------------------------------
(* What the walk comes to last *)

\* Tasks end like the value that left them.
EndsLike(tasks, value) ==
  tasks # << >> =>
    Last(tasks).task = "visit" /\ EndsInText[Last(tasks).value] = EndsInText[value]

\* An array's tasks end with the visit of its last item.
LEMMA ArrayEnds ==
  ASSUME NEW value \in Document, value.kind = "array", NEW depth \in Nat
  PROVE  EndsLike([i \in DOMAIN value.items |-> Visit(value.items[i], depth)], value)
<1> DEFINE items == value.items
           tasks == [i \in DOMAIN items |-> Visit(items[i], depth)]
<1>1. items \in Seq(Document)
  BY DocumentAssumption DEF String, Scalar, Object
<1>2. EndsInText[value] = (items # << >> /\ EndsInText[Last(items)])
  BY RecursionAssumption
<1> HIDE DEF items
<1>3. \A i \in 1 .. Len(items) : Visit(items[i], depth) \in Task
  BY <1>1, VisitTask
<1>4. Len(tasks) = Len(items) /\ \A i \in 1 .. Len(items) : tasks[i] = Visit(items[i], depth)
  BY <1>1
<1>5. ASSUME tasks # << >>
      PROVE  Last(tasks).task = "visit" /\ EndsInText[Last(tasks).value] = EndsInText[value]
  <2>1. items # << >> /\ Len(items) \in 1 .. Len(items)
    BY <1>1, <1>5
  <2>2. Last(tasks) = Visit(Last(items), depth) /\ Last(items) \in Document
    BY <1>1, <1>4, <2>1 DEF Last
  <2>3. Last(tasks).task = "visit" /\ Last(tasks).value = Last(items)
    BY <2>2, VisitTask
  <2>4. EndsInText[value] = EndsInText[Last(items)]
    <3>1. EndsInText[Last(items)] \in BOOLEAN
      BY <2>2, RecursionAssumption
    <3> QED BY <1>2, <2>1, <3>1, Zenon
  <2> QED BY <2>3, <2>4, Zenon
<1> QED BY <1>5 DEF EndsLike, items

\* An object's with the visit of its last value.
LEMMA ObjectEnds ==
  ASSUME NEW value \in Document, value.kind = "object", NEW depth \in Nat
  PROVE  EndsLike(Opened(value.members, depth), value)
<1> DEFINE members == value.members
           Part(i) == <<Key(members[i][1]), Visit(members[i][2], depth)>>
           parts == [i \in DOMAIN members |-> Part(i)]
           tasks == FlattenSeq(parts)
           N == Len(members)
<1>1. members \in Seq(Token \X Document)
  BY DocumentAssumption DEF String, Scalar, Array
<1>2. EndsInText[value] = (members # << >> /\ EndsInText[Last(members)[2]])
  BY RecursionAssumption
<1>3. Opened(value.members, depth) = tasks
  BY DEF Opened
<1> HIDE DEF members
<1>4. /\ DOMAIN members = 1 .. N /\ N \in Nat
      /\ \A i \in 1 .. N : members[i][1] \in Token /\ members[i][2] \in Document
  BY <1>1
<1>5. \A i \in 1 .. N : Part(i) \in Seq(Task) /\ Part(i) = <<Key(members[i][1]), Visit(members[i][2], depth)>>
  <2> SUFFICES ASSUME NEW i \in 1 .. N PROVE Part(i) \in Seq(Task)
    OBVIOUS
  <2>1. Key(members[i][1]) \in Task /\ Visit(members[i][2], depth) \in Task
    BY <1>4, KeyTask, VisitTask
  <2> QED BY <2>1
<1> HIDE DEF Part
<1>6. /\ parts \in Seq(Seq(Task)) /\ Len(parts) = N
      /\ \A i \in 1 .. N : parts[i] = Part(i)
  <2>1. parts = [i \in 1 .. N |-> Part(i)]
    BY <1>4, Zenon
  <2> HIDE DEF N, parts
  <2>2. parts \in [1 .. N -> Seq(Task)]
    BY <1>5, <2>1, Zenon
  <2> QED BY <1>4, <2>1, <2>2
<1> HIDE DEF parts
<1>7. ASSUME tasks # << >>
      PROVE  Last(tasks).task = "visit" /\ EndsInText[Last(tasks).value] = EndsInText[value]
  <2>1. N # 0
    <3>1. N = 0 => parts = << >>
      BY <1>6
    <3>2. FlattenSeq(<< >>) = << >>
      BY DEF FlattenSeq
    <3> QED BY <1>7, <3>1, <3>2
  <2>2. N \in 1 .. N /\ members # << >> /\ Last(members) = members[N]
        /\ N - 1 \in 0 .. N
    BY <1>1, <1>4, <2>1 DEF Last
  <2>3. PICK front : front = Flat(parts, N - 1)
    OBVIOUS
  <2>4. front \in Seq(Task) /\ tasks = front \o Part(N)
    <3>1. /\ Flat(parts, N) = FlattenSeq(parts) /\ Flat(parts, N - 1) \in Seq(Task)
          /\ Flat(parts, N) = Flat(parts, N - 1) \o parts[N]
      BY <1>6, <2>2, FlatSteps, Zenon
    <3> QED BY <1>6, <2>2, <2>3, <3>1, Zenon
  <2>5. PICK k, v : k = Key(members[N][1]) /\ v = Visit(members[N][2], depth)
    OBVIOUS
  <2>6. Part(N) = <<k, v>> /\ k \in Task /\ v \in Task
    <3>1. k \in Task /\ v \in Task
      BY <1>4, <2>2, <2>5, KeyTask, VisitTask
    <3> QED BY <1>5, <2>2, <2>5, <3>1, Zenon
  <2>7. Last(tasks) = v
    <3>1. Len(front \o <<k, v>>) = Len(front) + 2 /\ Len(front) \in Nat
          /\ (front \o <<k, v>>)[Len(front) + 2] = v
      BY <2>4, <2>6
    <3> QED BY <2>4, <2>6, <3>1 DEF Last
  <2>8. v.task = "visit" /\ v.value = members[N][2] /\ members[N][2] \in Document
    BY <1>4, <2>2, <2>5, VisitTask
  <2>9. EndsInText[value] = EndsInText[members[N][2]]
    <3>1. EndsInText[members[N][2]] \in BOOLEAN
      BY <2>8, RecursionAssumption
    <3> QED BY <1>2, <2>2, <3>1, Zenon
  <2> QED BY <2>7, <2>8, <2>9, Zenon
<1> HIDE DEF tasks
<1> QED BY <1>3, <1>7 DEF EndsLike

\* Where a list of tasks ends once its first is done and has left others.
LEMMA LastLeft ==
  ASSUME NEW tasks \in Seq(Task), tasks # << >>, NEW new \in Seq(Task)
  PROVE  /\ Tail(tasks) # << >> =>
              new \o Tail(tasks) # << >> /\ Last(new \o Tail(tasks)) = Last(tasks)
         /\ Tail(tasks) = << >> => new \o Tail(tasks) = new /\ Last(tasks) = Head(tasks)
<1>1. /\ Len(Tail(tasks)) = Len(tasks) - 1 /\ Len(tasks) \in Nat /\ Len(tasks) >= 1
      /\ Tail(tasks) \in Seq(Task)
      /\ \A i \in 1 .. Len(tasks) - 1 : Tail(tasks)[i] = tasks[i + 1]
      /\ Head(tasks) = tasks[1]
  OBVIOUS
<1>2. PICK rest \in Seq(Task) : rest = Tail(tasks)
  BY <1>1
<1>3. /\ Len(new \o rest) = Len(new) + Len(rest) /\ Len(new) \in Nat /\ Len(rest) \in Nat
      /\ \A i \in 1 .. Len(rest) : (new \o rest)[Len(new) + i] = rest[i]
      /\ rest = << >> => new \o rest = new
  OBVIOUS
<1>4. ASSUME rest # << >> PROVE new \o rest # << >> /\ Last(new \o rest) = Last(tasks)
  <2>1. Len(rest) \in 1 .. Len(rest)
    BY <1>4
  <2>2. (new \o rest)[Len(new) + Len(rest)] = tasks[Len(tasks)]
    <3>1. (new \o rest)[Len(new) + Len(rest)] = rest[Len(rest)]
      BY <1>3, <2>1
    <3>2. Len(rest) = Len(tasks) - 1 /\ rest[Len(rest)] = tasks[Len(rest) + 1]
      BY <1>1, <1>2, <2>1
    <3>3. Len(rest) + 1 = Len(tasks)
      BY <1>1, <3>2
    <3> QED BY <3>1, <3>2, <3>3
  <2>3. Len(new \o rest) # 0
    BY <1>3, <2>1
  <2> QED BY <1>3, <2>2, <2>3 DEF Last
<1>5. rest = << >> => Last(tasks) = Head(tasks)
  <2>1. Len(rest) = Len(tasks) - 1 /\ Len(tasks) \in Nat
    BY <1>1, <1>2, Zenon
  <2>2. rest = << >> => Len(tasks) = 1
    BY <2>1
  <2> QED BY <1>1, <2>2 DEF Last
<1> QED BY <1>2, <1>3, <1>4, <1>5

\* One task done, with what is left of the others and of its own.
LEMMA EndTask ==
  ASSUME WalkInv, EndInv, outcome = "running", todo # << >>,
         NEW new \in Seq(Task), EndsLike(new, Current.value),
         todo' = new \o Tail(todo), UNCHANGED <<document, outcome>>,
         Tail(todo) = << >> /\ new = << >> =>
           Len(output') < MaxFragments \/ EndsInText[Current.value],
         Tail(todo) = << >> => Current.task = "visit"
  PROVE  EndInv'
<1>1. todo \in Seq(Task)
  BY DEF WalkInv
<1>2. CASE Tail(todo) # << >>
  <2>1. todo' # << >> /\ Last(todo') = Last(todo)
    <3>1. new \o Tail(todo) # << >> /\ Last(new \o Tail(todo)) = Last(todo)
      BY <1>1, <1>2, LastLeft, Zenon
    <3> QED BY <3>1, Zenon
  <2> QED BY <2>1 DEF EndInv
<1>3. CASE Tail(todo) = << >>
  <2>1. new \o Tail(todo) = new /\ Last(todo) = Current
    BY <1>1, <1>3, LastLeft, Zenon DEF Current
  <2>2. EndsInText[Current.value] = EndsInText[document]
    BY <2>1, Zenon DEF EndInv
  <2>3. CASE new # << >>
    <3>1. Last(new).task = "visit" /\ EndsInText[Last(new).value] = EndsInText[document]
      BY <2>2, <2>3, Zenon DEF EndsLike
    <3> QED BY <2>1, <2>3, <3>1 DEF EndInv
  <2>4. CASE new = << >>
    <3>1. Len(output') < MaxFragments \/ EndsInText[document]
      BY <1>3, <2>2, <2>4, Zenon
    <3> QED BY <2>1, <2>4, <3>1 DEF EndInv
  <2> QED BY <2>3, <2>4
<1> QED BY <1>2, <1>3

\* Every step of the walk keeps sight of its end.
LEMMA EndSteps ==
  ASSUME WalkInv, EndInv, Walk
  PROVE  EndInv'
<1>0. todo \in Seq(Task) /\ output \in Seq(Token) /\ KeysLead(todo)
  BY DEF WalkInv
<1>1. CASE Refuse
  BY <1>1 DEF Refuse, Visiting, EndInv
<1>2. CASE Finish
  BY <1>2 DEF Finish, EndInv
<1>3. << >> \in Seq(Task) /\ \A value : EndsLike(<< >>, value)
  BY DEF EndsLike
<1>4. todo # << >> => << >> \o Tail(todo) = Tail(todo)
  BY <1>0
<1>5. Admitted => Len(output) < MaxFragments
  <2>1. Len(output) \in Nat /\ MaxFragments \in Nat
    BY <1>0, DocumentAssumption
  <2> QED BY <2>1 DEF Admitted, Full
<1>6. CASE Skip
  <2>1. /\ outcome = "running" /\ todo # << >> /\ Current.task = "visit" /\ Admitted
        /\ todo' = Tail(todo) /\ document' = document /\ output' = output /\ outcome' = outcome
    BY <1>6 DEF Skip, Visiting
  <2> QED BY <1>3, <1>4, <1>5, <2>1, EndTask
<1>7. CASE PushString
  <2>1. /\ outcome = "running" /\ todo # << >> /\ Current.task = "visit"
        /\ Current.value.kind = "string"
        /\ todo' = Tail(todo) /\ document' = document /\ outcome' = outcome
    BY <1>7 DEF PushString, Visiting
  <2>2. EndsInText[Current.value]
    <3>1. Current.value \in Document
      BY <2>1, VisitCurrent
    <3> QED BY <2>1, <3>1, RecursionAssumption
  <2> QED BY <1>3, <1>4, <2>1, <2>2, EndTask
<1>8. CASE OpenArray
  <2> DEFINE new == [i \in DOMAIN Current.value.items |->
                       Visit(Current.value.items[i], Current.depth + 1)]
  <2>1. /\ outcome = "running" /\ todo # << >> /\ Current.task = "visit" /\ Admitted
        /\ Current.value.kind = "array"
        /\ todo' = new \o Tail(todo)
        /\ document' = document /\ output' = output /\ outcome' = outcome
    BY <1>8 DEF OpenArray, Visiting
  <2>2. Current.value \in Document /\ Current.depth + 1 \in Nat
    BY <2>1, VisitCurrent
  <2>3. Unfolds(new, Current.value, Current.depth + 1)
    BY <2>1, <2>2, ArrayUnfolds
  <2>4. EndsLike(new, Current.value)
    BY <2>1, <2>2, ArrayEnds
  <2> HIDE DEF new
  <2>5. new \in Seq(Task)
    BY <2>3 DEF Unfolds
  <2> QED BY <1>5, <2>1, <2>4, <2>5, EndTask
<1>9. CASE OpenObject
  <2> DEFINE new == Opened(Current.value.members, Current.depth + 1)
  <2>1. /\ outcome = "running" /\ todo # << >> /\ Current.task = "visit" /\ Admitted
        /\ Current.value.kind = "object"
        /\ todo' = new \o Tail(todo)
        /\ document' = document /\ output' = output /\ outcome' = outcome
    BY <1>9 DEF OpenObject, Visiting
  <2>2. Current.value \in Document /\ Current.depth + 1 \in Nat
    BY <2>1, VisitCurrent
  <2>3. Unfolds(new, Current.value, Current.depth + 1)
    BY <2>1, <2>2, ObjectUnfolds
  <2>4. EndsLike(new, Current.value)
    BY <2>1, <2>2, ObjectEnds
  <2> HIDE DEF new
  <2>5. new \in Seq(Task)
    BY <2>3 DEF Unfolds
  <2> QED BY <1>5, <2>1, <2>4, <2>5, EndTask
<1>10. CASE PushKey
  <2>1. /\ outcome = "running" /\ todo # << >> /\ Current.task = "key"
        /\ todo' = Tail(todo) /\ document' = document /\ outcome' = outcome
    BY <1>10 DEF PushKey
  <2>2. Tail(todo) # << >>
    <3>1. document \in Document /\ todo[1].task = "key"
      BY <1>0, <2>1 DEF WalkInv, Current
    <3> QED BY <1>0, <2>1, <3>1, TasksLeft, Zenon
  <2> QED BY <1>3, <1>4, <2>1, <2>2, EndTask
<1> QED BY <1>1, <1>2, <1>6, <1>7, <1>8, <1>9, <1>10 DEF Walk

\* What ends in text has a text: the one it ends in.  The proof is by the value
\* nested least of those that had none.
LEMMA EndingHasText ==
  ASSUME NEW v \in Document, EndsInText[v]
  PROVE  Fragments[v] # << >>
<1> DEFINE Bare(value) == EndsInText[value] /\ Fragments[value] = << >>
           T == {Nesting[value] : value \in {w \in Document : Bare(w)}}
<1> SUFFICES ASSUME Fragments[v] = << >> PROVE FALSE
  OBVIOUS
<1>1. Nesting \in [Document -> Nat] /\ Fragments \in [Document -> Seq(Token)]
  BY RecursionAssumption
<1>2. T \in SUBSET Nat /\ T # {}
  BY <1>1
<1>3. PICK m \in T : \A k \in T : m <= k
  <2> HIDE DEF T
  <2> QED BY <1>2, LeastNumber
<1>4. PICK value \in Document : Bare(value) /\ m = Nesting[value]
  OBVIOUS
<1>5. \A child \in Children(value) : child \in Document => ~Bare(child)
  <2> SUFFICES ASSUME NEW child \in Children(value), child \in Document, Bare(child)
               PROVE  FALSE
    OBVIOUS
  <2>1. Nesting[child] < Nesting[value]
    BY RecursionAssumption
  <2>2. Nesting[child] \in T /\ Nesting[child] \in Nat /\ Nesting[value] \in Nat
    BY <1>1
  <2>3. PICK n \in Nat : n = Nesting[child]
    BY <2>2
  <2>4. PICK k \in Nat : k = Nesting[value]
    BY <2>2
  <2> HIDE DEF T
  <2>5. k <= n
    BY <1>3, <1>4, <2>2, <2>3, <2>4, Zenon
  <2>6. n < k
    BY <2>1, <2>3, <2>4, Zenon
  <2> QED BY <2>5, <2>6
<1> HIDE DEF T
<1>6. CASE value.kind = "string"
  <2>1. Fragments[value] = <<value.text>>
    BY <1>6, RecursionAssumption
  <2>2. <<value.text>> # << >>
    OBVIOUS
  <2> QED BY <1>4, <2>1, <2>2, Zenon
<1>7. CASE value.kind = "array"
  <2> DEFINE items == value.items
             said == [i \in DOMAIN items |-> Fragments[items[i]]]
             N == Len(items)
  <2>1. items \in Seq(Document)
    BY <1>7, DocumentAssumption DEF String, Scalar, Object
  <2>2. Fragments[value] = FlattenSeq(said) /\ items # << >> /\ EndsInText[Last(items)]
    BY <1>4, <1>7, RecursionAssumption
  <2>3. Children(value) = {items[i] : i \in DOMAIN items}
    BY <1>7 DEF Children
  <2> HIDE DEF items
  <2>4. N \in 1 .. N /\ items[N] \in Document /\ Last(items) = items[N] /\ N \in Nat
        /\ DOMAIN items = 1 .. N /\ \A i \in 1 .. N : items[i] \in Document
    BY <2>1, <2>2 DEF Last
  <2>5. said \in Seq(Seq(Token)) /\ Len(said) = N /\ said[N] = Fragments[items[N]]
    <3>1. said = [i \in 1 .. N |-> Fragments[items[i]]]
      BY <2>4, Zenon
    <3> HIDE DEF N, said
    <3>2. said \in [1 .. N -> Seq(Token)]
      BY <1>1, <2>4, <3>1
    <3> QED BY <2>4, <3>1, <3>2
  <2>6. ~Bare(items[N])
    BY <1>5, <2>3, <2>4
  <2>7. Fragments[items[N]] # << >>
    BY <2>2, <2>4, <2>6
  <2> HIDE DEF said, N
  <2>8. PICK front : front = Flat(said, N - 1)
    OBVIOUS
  <2>9. front \in Seq(Token) /\ FlattenSeq(said) = front \o Fragments[items[N]]
    <3>1. N - 1 \in 0 .. Len(said) /\ N \in 1 .. Len(said)
      BY <2>4, <2>5
    <3> QED BY <2>5, <2>8, <3>1, FlatSteps
  <2>10. front \o Fragments[items[N]] # << >>
    <3>1. PICK last \in Seq(Token) : last = Fragments[items[N]]
      BY <1>1, <2>4
    <3>2. last # << >>
      BY <2>7, <3>1
    <3>3. Len(front \o last) = Len(front) + Len(last) /\ Len(front) \in Nat /\ Len(last) \in Nat
          /\ Len(last) # 0
      BY <2>9, <3>2
    <3>4. front \o last # << >>
      BY <3>3
    <3> QED BY <3>1, <3>4
  <2> QED BY <1>4, <2>2, <2>9, <2>10
<1>8. CASE value.kind = "object"
  <2> DEFINE members == value.members
             N == Len(members)
             Part(i) == <<members[i][1]>> \o Fragments[members[i][2]]
             said == [i \in DOMAIN members |-> Part(i)]
  <2>1. members \in Seq(Token \X Document)
    BY <1>8, DocumentAssumption DEF String, Scalar, Array
  <2>2. Fragments[value] = FlattenSeq(said) /\ members # << >>
    BY <1>4, <1>8, RecursionAssumption
  <2> HIDE DEF members
  <2>3. N \in 1 .. N /\ N \in Nat /\ DOMAIN members = 1 .. N
        /\ \A i \in 1 .. N : members[i][1] \in Token /\ members[i][2] \in Document
    BY <2>1, <2>2
  <2>4. \A i \in 1 .. N : Part(i) \in Seq(Token) /\ Part(i) # << >>
    <3> SUFFICES ASSUME NEW i \in 1 .. N PROVE Part(i) \in Seq(Token) /\ Part(i) # << >>
      OBVIOUS
    <3>1. PICK rest \in Seq(Token) : rest = Fragments[members[i][2]]
      BY <1>1, <2>3
    <3>2. PICK key \in Token : key = members[i][1]
      BY <2>3
    <3>3. <<key>> \o rest \in Seq(Token) /\ Len(<<key>> \o rest) = 1 + Len(rest)
          /\ Len(rest) \in Nat
      OBVIOUS
    <3>4. <<key>> \o rest # << >>
      BY <3>3
    <3> QED BY <3>1, <3>2, <3>3, <3>4
  <2> HIDE DEF Part
  <2>5. said \in Seq(Seq(Token)) /\ Len(said) = N /\ said[N] = Part(N)
    <3>1. said = [i \in 1 .. N |-> Part(i)]
      BY <2>3, Zenon
    <3> HIDE DEF N, said
    <3>2. said \in [1 .. N -> Seq(Token)]
      BY <2>4, <3>1, Zenon
    <3> QED BY <2>3, <3>1, <3>2
  <2> HIDE DEF said, N
  <2>6. PICK front : front = Flat(said, N - 1)
    OBVIOUS
  <2>7. front \in Seq(Token) /\ FlattenSeq(said) = front \o Part(N)
    <3>1. N - 1 \in 0 .. Len(said) /\ N \in 1 .. Len(said)
      BY <2>3, <2>5
    <3> QED BY <2>5, <2>6, <3>1, FlatSteps
  <2>8. front \o Part(N) # << >>
    <3>1. PICK last \in Seq(Token) : last = Part(N) /\ last # << >>
      BY <2>3, <2>4
    <3>2. Len(front \o last) = Len(front) + Len(last) /\ Len(front) \in Nat /\ Len(last) \in Nat
          /\ Len(last) # 0
      BY <2>7, <3>1
    <3>3. front \o last # << >>
      BY <3>2
    <3> QED BY <3>1, <3>3
  <2> QED BY <1>4, <2>2, <2>7, <2>8
<1>9. value.kind \in {"string", "array", "object"}
  BY <1>4, RecursionAssumption
<1> QED BY <1>6, <1>7, <1>8, <1>9

\* When nothing remains to put out, the last task has nothing to say.
LEMMA NothingRemains ==
  ASSUME NEW tasks \in Seq(Task), tasks # << >>, Remaining(tasks) = << >>
  PROVE  Said(Last(tasks)) = << >>
<1> DEFINE front == SubSeq(tasks, 1, Len(tasks) - 1)
           last == Last(tasks)
<1>1. front \in Seq(Task) /\ last \in Task /\ <<last>> \in Seq(Task)
      /\ tasks = front \o <<last>>
  BY DEF Last
<1> HIDE DEF front, last
<1>2. [i \in DOMAIN <<last>> |-> Said(<<last>>[i])] = <<Said(last)>>
  OBVIOUS
<1>3. Remaining(<<last>>) = Said(last)
  <2>1. FlattenSeq(<<Said(last)>>) = Said(last)
    BY <1>1, SaidType, FlattenFew
  <2> QED BY <1>2, <2>1 DEF Remaining
<1>4. Remaining(front) \o Said(last) = << >>
  BY <1>1, <1>3, RemainingConcat
<1>5. PICK f, s \in Seq(Token) : f = Remaining(front) /\ s = Said(last)
  BY <1>1, RemainingType, SaidType
<1>6. Len(f \o s) = Len(f) + Len(s) /\ Len(f) \in Nat /\ Len(s) \in Nat
  OBVIOUS
<1>7. Len(s) = 0
  BY <1>4, <1>5, <1>6
<1>8. s = << >>
  BY <1>7
<1> QED BY <1>5, <1>8 DEF last

\* The invariants say what the walk owes.
LEMMA WalkCollects ==
  ASSUME WalkInv, EndInv
  PROVE  CollectedExactly
<1>1. /\ document \in Document /\ todo \in Seq(Task) /\ output \in Seq(Token)
      /\ output \o Remaining(todo) = Fragments[document]
      /\ Len(output) <= MaxFragments + 1
      /\ Len(output) = MaxFragments + 1 => todo # << >>
      /\ Nesting[document] > MaxDepth => TooDeep(todo)
      /\ outcome = "ok" => todo = << >>
      /\ outcome = "too_deep" => Nesting[document] > MaxDepth
      /\ outcome = "too_many" => Len(output) >= MaxFragments
  BY DEF WalkInv
<1>2. /\ MaxDepth \in Nat /\ MaxFragments \in Nat /\ Nesting[document] \in Nat
      /\ Len(output) \in Nat
  BY <1>1, DocumentAssumption, RecursionAssumption
<1>3. PICK rest \in Seq(Token) : rest = Remaining(todo)
  BY <1>1, RemainingType
<1>4. PICK all \in Seq(Token) : all = output \o rest /\ all = Fragments[document]
  <2>1. output \o rest \in Seq(Token)
    BY <1>1
  <2>2. output \o rest = Fragments[document]
    BY <1>1, <1>3, Zenon
  <2> QED BY <2>1, <2>2
<1>5. Len(output) <= Len(all) /\ SubSeq(output, 1, Len(output)) = SubSeq(all, 1, Len(output))
  BY <1>1, <1>4
<1>6. IsPrefix(output, Fragments[document])
  BY <1>4, <1>5 DEF IsPrefix
<1>7. ASSUME outcome = "ok"
      PROVE  /\ output = Fragments[document] /\ Nesting[document] <= MaxDepth
             /\ \/ Len(Fragments[document]) < MaxFragments
                \/ Len(Fragments[document]) = MaxFragments /\ EndsInText[document]
  <2>1. todo = << >>
    BY <1>1, <1>7
  <2>2. [i \in DOMAIN << >> |-> Said(<< >>[i])] = << >>
    OBVIOUS
  <2>3. rest = << >>
    BY <1>3, <2>1, <2>2 DEF Remaining, FlattenSeq
  <2>4. output = Fragments[document]
    <3>1. output \o << >> = output
      BY <1>1, ConcatEmptySeq
    <3> QED BY <1>4, <2>3, <3>1, Zenon
  <2>5. ~TooDeep(todo)
    BY <2>1 DEF TooDeep
  <2>6. Len(output) # MaxFragments + 1
    BY <1>1, <2>1
  <2>7. Len(output) < MaxFragments \/ EndsInText[document]
    BY <2>1 DEF EndInv
  <2>8. Len(output) < MaxFragments \/ (Len(output) = MaxFragments /\ EndsInText[document])
    <3>1. Len(output) <= MaxFragments
      BY <1>1, <1>2, <2>6
    <3> QED BY <1>2, <2>7, <3>1
  <2> QED BY <1>1, <1>2, <2>4, <2>5, <2>8
<1>8. ASSUME outcome = "too_many"
      PROVE  \/ Len(Fragments[document]) > MaxFragments
             \/ Len(Fragments[document]) = MaxFragments /\ ~EndsInText[document]
  <2>1. Len(all) = Len(output) + Len(rest) /\ Len(rest) \in Nat
    <3>1. Len(output \o rest) = Len(output) + Len(rest) /\ Len(rest) \in Nat
      BY <1>1, ConcatProperties, LenProperties
    <3> QED BY <1>4, <3>1
  <2>2. CASE rest # << >>
    <3>1. Len(rest) # 0
      BY <2>2
    <3> QED BY <1>1, <1>2, <1>4, <1>8, <2>1, <3>1
  <2>3. CASE rest = << >>
    <3>1. todo # << >> /\ Last(todo).task = "visit"
          /\ EndsInText[Last(todo).value] = EndsInText[document]
      BY <1>8 DEF EndInv
    <3>2. Last(todo) \in Task
      BY <1>1, <3>1 DEF Last
    <3>3. PICK value \in Document : value = Last(todo).value
      BY <3>1, <3>2 DEF Task
    <3>4. Said(Last(todo)) = << >>
      BY <1>1, <1>3, <2>3, <3>1, NothingRemains, Zenon
    <3>5. Said(Last(todo)) = Fragments[value]
      <4>1. Last(todo).task # "key"
        BY <3>1
      <4> QED BY <3>3, <4>1, Zenon DEF Said
    <3>6. ~EndsInText[value]
      BY <3>4, <3>5, EndingHasText, Zenon
    <3>7. ~EndsInText[document]
      BY <3>1, <3>3, <3>6, Zenon
    <3>8. Len(all) >= MaxFragments
      BY <1>1, <1>2, <1>8, <2>1
    <3>9. Len(all) > MaxFragments \/ Len(all) = MaxFragments
      BY <1>2, <2>1, <3>8
    <3> QED BY <1>4, <3>7, <3>9
  <2> QED BY <2>2, <2>3
<1>9. ASSUME outcome = "too_many"
      PROVE  ~(\/ Len(Fragments[document]) < MaxFragments
               \/ Len(Fragments[document]) = MaxFragments /\ EndsInText[document])
  <2>1. Len(Fragments[document]) \in Nat
    BY <1>4
  <2> QED BY <1>2, <1>8, <1>9, <2>1
<1> QED BY <1>1, <1>6, <1>7, <1>9 DEF CollectedExactly
-----------------------------------------------------------------------------
(* Rewritings of tokens give tokens *)

\* A function from positions to sequences of tokens flattens to one.
LEMMA PartsFlatten ==
  ASSUME NEW n \in Nat, NEW parts \in [1 .. n -> Seq(Token)]
  PROVE  /\ parts \in Seq(Seq(Token)) /\ Len(parts) = n
         /\ FlattenSeq(parts) \in Seq(Token)
<1>1. parts \in Seq(Seq(Token)) /\ Len(parts) = n
  OBVIOUS
<1> QED BY <1>1, FlattenType

\* The tokens that the model names are tokens.
LEMMA TokenFacts ==
  /\ Space \in Token /\ Amp \in Token /\ Lt \in Token /\ Gt \in Token
  /\ \A name \in STRING :
       Word(name) \in Token /\ Opening(name) \in Token /\ Closing(name) \in Token
  /\ Word("er") \in Token /\ Word("class") \in Token
<1>1. \A kind \in {"word", "opening", "closing", "space", "mark"}, name \in STRING :
        <<kind, name>> \in Token
  BY DEF Token
<1>2. /\ " " \in STRING /\ "&" \in STRING /\ "<" \in STRING /\ ">" \in STRING
      /\ "er" \in STRING /\ "class" \in STRING
  BY PageAssumption
<1>3. /\ <<"space", " ">> \in Token /\ <<"word", "&">> \in Token
      /\ <<"mark", "<">> \in Token /\ <<"mark", ">">> \in Token
  BY <1>1, <1>2, Zenon
<1>4. \A name \in STRING :
        <<"word", name>> \in Token /\ <<"opening", name>> \in Token /\ <<"closing", name>> \in Token
  BY <1>1, Zenon
<1> QED BY <1>2, <1>3, <1>4, Zenon DEF Space, Amp, Lt, Gt, Word, Opening, Closing

\* A piece of a page.
PieceType == [kind : STRING, tag : STRING, inside : Seq(Token)]

\* A piece is written as tokens.
LEMMA WrittenType ==
  ASSUME NEW piece \in PieceType
  PROVE  Written(piece) \in Seq(Token)
<1>1. /\ piece.inside \in Seq(Token)
      /\ Opening(piece.tag) \in Token /\ Closing(piece.tag) \in Token
      /\ Word("er") \in Token /\ Word("class") \in Token
      /\ Space \in Token /\ Lt \in Token /\ Gt \in Token
  <2>1. piece.inside \in Seq(Token) /\ piece.tag \in STRING
    BY DEF PieceType
  <2> QED BY <2>1, TokenFacts, Zenon
<1>2. /\ <<Lt>> \o piece.inside \o <<Gt>> \in Seq(Token)
      /\ <<Opening(piece.tag), Word("er"), Gt>> \o piece.inside \in Seq(Token)
      /\ <<Opening(piece.tag), Space, Word("class"), Gt>> \o piece.inside
           \o <<Closing(piece.tag)>> \in Seq(Token)
  <2>1. /\ <<Lt>> \in Seq(Token) /\ <<Gt>> \in Seq(Token)
        /\ <<Opening(piece.tag), Word("er"), Gt>> \in Seq(Token)
        /\ <<Opening(piece.tag), Space, Word("class"), Gt>> \in Seq(Token)
        /\ <<Closing(piece.tag)>> \in Seq(Token)
    BY <1>1
  <2>2. \A x, y \in Seq(Token) : x \o y \in Seq(Token)
    BY ConcatProperties
  <2> QED BY <1>1, <2>1, <2>2, Zenon
<1> QED BY <1>1, <1>2, Zenon DEF Written

\* The markup of a page consists of tokens.
LEMMA MarkupType ==
  ASSUME NEW pieces \in Seq(PieceType)
  PROVE  Markup(pieces) \in Seq(Token)
<1> DEFINE parts == [i \in 1 .. Len(pieces) |-> Written(pieces[i])]
<1>1. parts \in [1 .. Len(pieces) -> Seq(Token)]
  BY WrittenType
<1>2. Markup(pieces) = FlattenSeq(parts)
  <2>1. DOMAIN pieces = 1 .. Len(pieces)
    OBVIOUS
  <2> QED BY <2>1, Zenon DEF Markup
<1>3. Len(pieces) \in Nat
  OBVIOUS
<1> HIDE DEF parts
<1> QED BY <1>1, <1>2, <1>3, PartsFlatten

\* Stripped markup too.
LEMMA StrippedType ==
  ASSUME NEW tokens \in Seq(Token)
  PROVE  Stripped(tokens) \in Seq(Token)
<1> DEFINE Part(i) ==
             CASE tokens[i][1] = "closing" -> <<Space, Space>>
               [] tokens[i][1] = "opening" \/ tokens[i] \in {Lt, Gt} -> <<Space>>
               [] OTHER -> IF Hidden(tokens, i) THEN << >> ELSE <<tokens[i]>>
           parts == [i \in 1 .. Len(tokens) |-> Part(i)]
<1>1. ASSUME NEW i \in 1 .. Len(tokens) PROVE Part(i) \in Seq(Token)
  <2>1. /\ <<Space, Space>> \in Seq(Token) /\ <<Space>> \in Seq(Token)
        /\ << >> \in Seq(Token) /\ <<tokens[i]>> \in Seq(Token)
    BY TokenFacts
  <2> QED BY <2>1, Zenon
<1>2. parts \in [1 .. Len(tokens) -> Seq(Token)]
  <2> HIDE DEF Part
  <2> QED BY <1>1
<1>3. Stripped(tokens) = FlattenSeq(parts)
  <2>1. DOMAIN tokens = 1 .. Len(tokens)
    OBVIOUS
  <2> QED BY <2>1, Zenon DEF Stripped
<1>4. Len(tokens) \in Nat
  OBVIOUS
<1> HIDE DEF parts
<1> QED BY <1>2, <1>3, <1>4, PartsFlatten

\* And text with an entity replaced.
LEMMA ReplacedType ==
  ASSUME NEW tokens \in Seq(Token), NEW name, NEW by \in Token
  PROVE  Replaced(tokens, name, by) \in Seq(Token)
<1> DEFINE Entity(i) == i \in 1 .. Len(tokens) - 1 /\ tokens[i] = Amp
                        /\ tokens[i + 1] = Word(name)
           Part(i) == IF Entity(i) THEN <<by>>
                      ELSE IF Entity(i - 1) THEN << >> ELSE <<tokens[i]>>
           parts == [i \in 1 .. Len(tokens) |-> Part(i)]
<1>1. ASSUME NEW i \in 1 .. Len(tokens) PROVE Part(i) \in Seq(Token)
  <2>1. <<by>> \in Seq(Token) /\ << >> \in Seq(Token) /\ <<tokens[i]>> \in Seq(Token)
    OBVIOUS
  <2> QED BY <2>1, Zenon
<1>2. parts \in [1 .. Len(tokens) -> Seq(Token)]
  <2> HIDE DEF Part
  <2> QED BY <1>1
<1>3. Replaced(tokens, name, by) = FlattenSeq(parts)
  <2>1. DOMAIN tokens = 1 .. Len(tokens)
    OBVIOUS
  <2> QED BY <2>1, Zenon DEF Replaced
<1>4. Len(tokens) \in Nat
  OBVIOUS
<1> HIDE DEF parts
<1> QED BY <1>2, <1>3, <1>4, PartsFlatten
-----------------------------------------------------------------------------
(* Collapsing gives a normal text *)

\* No space at either end and no two in a row.
Normal(tokens) ==
  \/ tokens = << >>
  \/ /\ tokens[1] # Space /\ tokens[Len(tokens)] # Space
     /\ \A i \in 1 .. Len(tokens) - 1 : tokens[i] = Space => tokens[i + 1] # Space

\* A word, or a space and a word behind something, keeps a text normal.
LEMMA NormalGrows ==
  ASSUME NEW s \in Seq(Token), NEW t \in Token, Normal(s), t # Space
  PROVE  /\ Normal(s \o <<t>>) /\ s \o <<t>> # << >>
         /\ s # << >> => Normal(s \o <<Space, t>>) /\ s \o <<Space, t>> # << >>
<1>0. Space \in Token
  BY TokenFacts
<1>1. PICK n \in Nat : n = Len(s)
  BY LenProperties
<1>2. Normal(s \o <<t>>) /\ s \o <<t>> # << >>
  <2> DEFINE r == s \o <<t>>
  <2>1. /\ r \in Seq(Token) /\ Len(r) = n + 1 /\ r[n + 1] = t
        /\ \A i \in 1 .. n : r[i] = s[i]
    BY <1>1
  <2> HIDE DEF r
  <2>2. r[1] # Space /\ r # << >>
    BY <1>1, <2>1 DEF Normal
  <2>3. \A i \in 1 .. n : r[i] = Space => r[i + 1] # Space
    <3> SUFFICES ASSUME NEW i \in 1 .. n, r[i] = Space PROVE r[i + 1] # Space
      OBVIOUS
    <3>1. CASE i = n
      BY <2>1, <3>1
    <3>2. CASE i < n
      <4>1. i \in 1 .. Len(s) - 1 /\ i + 1 \in 1 .. n /\ s[i] = Space
        BY <1>1, <2>1, <3>2
      <4>2. s[i + 1] # Space
        BY <4>1 DEF Normal
      <4> QED BY <2>1, <4>1, <4>2
    <3> QED BY <3>1, <3>2
  <2> QED BY <2>1, <2>2, <2>3 DEF Normal, r
<1>3. ASSUME s # << >> PROVE Normal(s \o <<Space, t>>) /\ s \o <<Space, t>> # << >>
  <2> DEFINE r == s \o <<Space, t>>
  <2>1. /\ r \in Seq(Token) /\ Len(r) = n + 2 /\ r[n + 1] = Space /\ r[n + 2] = t
        /\ \A i \in 1 .. n : r[i] = s[i]
    BY <1>0, <1>1
  <2>2. n >= 1 /\ s[1] # Space /\ s[n] # Space
    BY <1>1, <1>3 DEF Normal
  <2> HIDE DEF r
  <2>3. r[1] # Space /\ r # << >>
    BY <2>1, <2>2
  <2>4. \A i \in 1 .. n + 1 : r[i] = Space => r[i + 1] # Space
    <3> SUFFICES ASSUME NEW i \in 1 .. n + 1, r[i] = Space PROVE r[i + 1] # Space
      OBVIOUS
    <3>1. CASE i = n + 1
      BY <2>1, <3>1
    <3>2. CASE i = n
      BY <2>1, <2>2, <3>2
    <3>3. CASE i < n
      <4>1. i \in 1 .. Len(s) - 1 /\ i + 1 \in 1 .. n /\ s[i] = Space
        BY <1>1, <2>1, <3>3
      <4>2. s[i + 1] # Space
        BY <4>1 DEF Normal
      <4> QED BY <2>1, <4>1, <4>2
    <3> QED BY <3>1, <3>2, <3>3
  <2> QED BY <2>1, <2>3, <2>4 DEF Normal, r
<1> QED BY <1>2, <1>3

\* collapse_whitespace() gives a normal text.
LEMMA CollapsedIsNormal ==
  ASSUME NEW tokens \in Seq(Token)
  PROVE  Collapsed(tokens) \in Seq(Token) /\ Normal(Collapsed(tokens))
<1> DEFINE N == Len(tokens)
           Started(i) == \E k \in 1 .. i - 1 : tokens[k] # Space
           Part(i) ==
             CASE tokens[i] = Space -> << >>
               [] tokens[i] # Space /\ Started(i) /\ tokens[i - 1] = Space -> <<Space, tokens[i]>>
               [] OTHER -> <<tokens[i]>>
           parts == [i \in 1 .. N |-> Part(i)]
<1>1. ASSUME NEW i \in 1 .. N
      PROVE  /\ tokens[i] \in Token /\ Part(i) \in Seq(Token)
             /\ \/ tokens[i] = Space /\ Part(i) = << >>
                \/ tokens[i] # Space /\ Part(i) = <<tokens[i]>>
                \/ tokens[i] # Space /\ Part(i) = <<Space, tokens[i]>> /\ Started(i)
  <2>1. /\ tokens[i] \in Token
        /\ <<Space, tokens[i]>> \in Seq(Token) /\ << >> \in Seq(Token) /\ <<tokens[i]>> \in Seq(Token)
    BY TokenFacts
  <2> QED BY <2>1, Zenon
<1> HIDE DEF Part
<1>2. parts \in [1 .. N -> Seq(Token)]
  BY <1>1
<1>3. Collapsed(tokens) = FlattenSeq(parts)
  <2>1. DOMAIN tokens = 1 .. N
    OBVIOUS
  <2> QED BY <2>1, Zenon DEF Collapsed, Part
<1>4. N \in Nat
  OBVIOUS
<1>5. \A i \in 1 .. N : parts[i] = Part(i)
  OBVIOUS
<1> HIDE DEF parts, N
<1>6. parts \in Seq(Seq(Token)) /\ Len(parts) = N /\ Collapsed(tokens) \in Seq(Token)
  BY <1>2, <1>3, <1>4, PartsFlatten
<1>7. /\ Flat(parts, 0) = << >> /\ Flat(parts, N) = FlattenSeq(parts)
      /\ \A n \in 0 .. N : Flat(parts, n) \in Seq(Token)
      /\ \A n \in 1 .. N : Flat(parts, n) = Flat(parts, n - 1) \o parts[n]
  BY <1>6, FlatSteps
<1> DEFINE Good(n) == /\ Normal(Flat(parts, n))
                      /\ (\E k \in 1 .. n : tokens[k] # Space) => Flat(parts, n) # << >>
           T == {n \in 0 .. N : Good(n)}
<1>8. 0 \in T
  BY <1>4, <1>7 DEF Normal
<1>9. ASSUME NEW n \in 1 .. N, n - 1 \in T PROVE n \in T
  <2>1. PICK s \in Seq(Token) : s = Flat(parts, n - 1)
    BY <1>4, <1>7
  <2>2. /\ Normal(s)
        /\ Started(n) => s # << >>
        /\ Flat(parts, n) = s \o Part(n)
        /\ n \in 0 .. N
    <3>1. n \in 0 .. N
      BY <1>4
    <3>2. Good(n - 1)
      BY <1>9
    <3>3. Flat(parts, n) = s \o Part(n)
      BY <1>5, <1>7, <2>1
    <3> QED BY <2>1, <3>1, <3>2, <3>3
  <2>3. CASE tokens[n] = Space /\ Part(n) = << >>
    <3>1. Flat(parts, n) = s
      BY <2>2, <2>3, ConcatEmptySeq
    <3>2. (\E k \in 1 .. n : tokens[k] # Space) => Started(n)
      BY <1>4, <2>3
    <3> QED BY <2>2, <3>1, <3>2
  <2>4. CASE tokens[n] # Space /\ Part(n) = <<tokens[n]>>
    <3>1. Normal(Flat(parts, n)) /\ Flat(parts, n) # << >>
      BY <1>1, <2>2, <2>4, NormalGrows
    <3> QED BY <2>2, <3>1
  <2>5. CASE tokens[n] # Space /\ Part(n) = <<Space, tokens[n]>> /\ Started(n)
    <3>1. Normal(Flat(parts, n)) /\ Flat(parts, n) # << >>
      BY <1>1, <2>2, <2>5, NormalGrows
    <3> QED BY <2>2, <3>1
  <2> QED BY <1>1, <2>3, <2>4, <2>5
<1>10. N \in T
  <2> HIDE DEF T
  <2>1. \A n \in 0 .. N : n \in T
    BY <1>4, <1>8, <1>9, AllNumbers
  <2> QED BY <1>4, <2>1
<1>11. Good(N)
  BY <1>10
<1> QED BY <1>3, <1>6, <1>7, <1>11
-----------------------------------------------------------------------------
(* Positions *)

\* A block ends somewhere in the text, and taking it out leaves tokens.
LEMMA WithoutBlockType ==
  ASSUME text \in Seq(Token), NEW start \in DOMAIN text
  PROVE  WithoutBlock(start) \in Seq(Token)
<1> DEFINE Ends == {i \in Positions(Closing(Ignored[at])) : i > start} \cup {Len(text)}
           end == BlockEnd(start)
<1>1. end \in 1 .. Len(text)
  <2>1. Ends \subseteq 1 .. Len(text) /\ Ends # {}
    BY DEF Positions
  <2>2. PICK m \in Ends : \A k \in Ends : m <= k
    <3>1. Ends \in SUBSET Nat
      BY <2>1
    <3> HIDE DEF Ends
    <3> QED BY <2>1, <3>1, LeastNumber
  <2>3. end = Min(Ends)
    BY DEF BlockEnd
  <2> HIDE DEF Ends, end
  <2>4. end \in Ends
    BY <2>2, <2>3 DEF Min
  <2> QED BY <2>1, <2>4
<1> HIDE DEF end
<1>2. /\ SubSeq(text, 1, start - 1) \in Seq(Token)
      /\ SubSeq(text, end + 1, Len(text)) \in Seq(Token)
  BY <1>1
<1>3. <<Space>> \in Seq(Token)
  BY TokenFacts
<1>4. \A x, y \in Seq(Token) : x \o y \in Seq(Token)
  BY ConcatProperties
<1> QED BY <1>2, <1>3, <1>4, Zenon DEF WithoutBlock, end

\* Joined fragments are tokens.
LEMMA JoinedType ==
  ASSUME NEW fragments \in Seq(Token)
  PROVE  FlattenSeq([i \in DOMAIN fragments |->
           IF i = 1 THEN <<fragments[i]>> ELSE <<Space, fragments[i]>>]) \in Seq(Token)
<1> DEFINE Part(i) == IF i = 1 THEN <<fragments[i]>> ELSE <<Space, fragments[i]>>
           parts == [i \in 1 .. Len(fragments) |-> Part(i)]
<1>1. ASSUME NEW i \in 1 .. Len(fragments) PROVE Part(i) \in Seq(Token)
  <2>1. <<fragments[i]>> \in Seq(Token) /\ <<Space, fragments[i]>> \in Seq(Token)
    BY TokenFacts
  <2> QED BY <2>1, Zenon
<1>2. parts \in [1 .. Len(fragments) -> Seq(Token)]
  <2> HIDE DEF Part
  <2> QED BY <1>1
<1>3. FlattenSeq(parts) \in Seq(Token)
  <2>1. Len(fragments) \in Nat
    OBVIOUS
  <2> HIDE DEF parts
  <2> QED BY <1>2, <2>1, PartsFlatten
<1>4. DOMAIN fragments = 1 .. Len(fragments)
  OBVIOUS
<1> QED BY <1>3, <1>4, Zenon

\* The tags looked for, each with its limit.
LEMMA ElementFacts ==
  /\ DOMAIN Elements = 1 .. 2 /\ Len(Elements) = 2
  /\ Elements[1][1] # Elements[2][1]
  /\ \A n \in 1 .. 2 : Elements[n][2] \in Nat
<1>1. DOMAIN Elements = 1 .. 2 /\ Len(Elements) = 2
  BY DEF Elements
<1>2. Elements[1] = <<"title", TitleLimit>> /\ Elements[2] = <<"h1", HeadingLimit>>
  BY DEF Elements
<1>3. Elements[1][1] = "title" /\ Elements[2][1] = "h1"
  BY <1>2
<1>4. Elements[1][2] = TitleLimit /\ Elements[2][2] = HeadingLimit
  BY <1>2
<1>5. \A n \in 1 .. 2 : n = 1 \/ n = 2
  OBVIOUS
<1>6. "title" # "h1"
  OBVIOUS
<1> QED BY <1>1, <1>3, <1>4, <1>5, <1>6, PageAssumption, Zenon
-----------------------------------------------------------------------------
(* The extraction keeps its invariant *)

TokensOK == /\ page \in Seq(PieceType) /\ text \in Seq(Token) /\ content \in Seq(Token)
            /\ Normal(content)

StageOK ==
  /\ stage \in {"parse", "remove", "strip", "decode", "collapse", "elements", "done", "failed"}
  /\ at \in 1 .. 5
  /\ stage = "decode" => at \in 1 .. 4
  /\ stage \in {"parse", "remove"} => content = << >>

ScanOK == /\ sought \in 1 .. 2
          /\ cursor \in 1 .. Len(Markup(page)) + 1
          /\ found \in [ElementTags -> Seq(Seq(Token))]
          /\ \A n \in 1 .. 2 : Len(found[Elements[n][1]]) <= Elements[n][2]

\* An element is cleaned only while there is room for it.
RoomLeft == stage \in {"strip", "decode", "collapse"} /\ content # << >> => Len(found[Tag]) < Limit

TextInv == TokensOK /\ StageOK /\ ScanOK /\ RoomLeft

\* Both invariants hold at first.
LEMMA TextStart ==
  ASSUME Init
  PROVE  WalkInv /\ TextInv
<1>1. /\ content = << >> /\ at = 1 /\ sought = 1 /\ cursor = 1 /\ found = Nothing
  BY DEF Init
<1>2. WalkInv /\ page \in Seq(PieceType) /\ text \in Seq(Token)
      /\ stage \in {"parse", "remove", "strip", "decode"}
  <2>1. CASE /\ type = "json" /\ WalkInit /\ page = << >> /\ text = << >> /\ stage = "parse"
    BY <2>1, WalkStart
  <2>2. CASE /\ page \in Page /\ text = Markup(page)
             /\ document = Scalar /\ todo = << >> /\ output = << >> /\ outcome = "ok"
             /\ stage = CASE type = "html" -> "remove" [] type = "plain" -> "decode"
                          [] OTHER -> "strip"
    <3>1. page \in Seq(PieceType) /\ text \in Seq(Token)
      BY <2>2, PageAssumption, MarkupType DEF PieceType
    <3>2. /\ Scalar \in Document /\ Fragments[Scalar] = << >> /\ Nesting[Scalar] = 0
          /\ MaxDepth \in Nat /\ MaxFragments \in Nat
      <4>1. Scalar \in Document /\ MaxDepth \in Nat /\ MaxFragments \in Nat
        BY DocumentAssumption
      <4>2. Scalar.kind = "scalar"
        BY DEF Scalar
      <4>3. Children(Scalar) = {}
        BY <4>2 DEF Children
      <4> QED BY <4>1, <4>2, <4>3, RecursionAssumption
    <3>3. Unfolds(<< >>, Scalar, 1)
      <4>1. Scalar.kind = "scalar"
        BY DEF Scalar
      <4> QED BY <3>2, <4>1, ScalarUnfolds
    <3>4. << >> \in Seq(Task) /\ Remaining(<< >>) = << >> /\ KeysLead(<< >>)
          /\ << >> \in Seq(Token) /\ << >> \o << >> = << >> /\ Len(<< >>) = 0
      BY <3>2, <3>3 DEF Unfolds
    <3>5. Within(<< >>, Scalar)
      BY <3>4 DEF Within
    <3>6. WalkInv
      BY <2>2, <3>2, <3>4, <3>5 DEF WalkInv
    <3>7. stage \in {"remove", "strip", "decode"}
      BY <2>2
    <3> QED BY <3>1, <3>6, <3>7
  <2> QED BY <2>1, <2>2 DEF Init
<1>3. TokensOK
  BY <1>1, <1>2 DEF TokensOK, Normal
<1>4. StageOK
  BY <1>1, <1>2 DEF StageOK
<1>5. ScanOK
  <2>1. Markup(page) \in Seq(Token)
    BY <1>2, MarkupType
  <2>2. cursor \in 1 .. Len(Markup(page)) + 1 /\ sought \in 1 .. 2
    BY <1>1, <2>1
  <2>3. found = [tag \in ElementTags |-> << >>]
    BY <1>1, Zenon DEF Nothing
  <2>4. found \in [ElementTags -> Seq(Seq(Token))]
    BY <2>3
  <2>5. \A n \in 1 .. 2 : Elements[n][1] \in ElementTags
    BY ElementFacts DEF ElementTags
  <2>6. \A n \in 1 .. 2 : Len(found[Elements[n][1]]) <= Elements[n][2]
    <3>1. \A n \in 1 .. 2 : found[Elements[n][1]] = << >>
      BY <2>3, <2>5, Zenon
    <3>2. Len(<< >>) = 0
      OBVIOUS
    <3>3. \A n \in 1 .. 2 : Elements[n][2] >= 0
      BY ElementFacts
    <3> QED BY <3>1, <3>2, <3>3
  <2> QED BY <2>2, <2>4, <2>6 DEF ScanOK
<1>6. RoomLeft
  BY <1>1 DEF RoomLeft
<1> QED BY <1>2, <1>3, <1>4, <1>5, <1>6 DEF TextInv

\* The ignored tags, the entities and the characters they stand for.
LEMMA EntityFacts ==
  /\ Len(Ignored) = 5 /\ Len(Entities) = 4
  /\ \A n \in 1 .. 4 : Entities[n][2] \in Token /\ Entities[n][2] \in {Space, Amp, Lt, Gt}
<1>1. Len(Ignored) = 5 /\ Len(Entities) = 4
  BY DEF Ignored, Entities
<1>2. /\ Entities[1] = <<"nbsp;", Space>> /\ Entities[2] = <<"amp;", Amp>>
      /\ Entities[3] = <<"lt;", Lt>> /\ Entities[4] = <<"gt;", Gt>>
  BY DEF Entities
<1>3. /\ Entities[1][2] = Space /\ Entities[2][2] = Amp
      /\ Entities[3][2] = Lt /\ Entities[4][2] = Gt
  <2>1. \A a, b : <<a, b>>[2] = b
    OBVIOUS
  <2>2. Entities[1][2] = Space
    BY <1>2, <2>1, Zenon
  <2>3. Entities[2][2] = Amp
    BY <1>2, <2>1, Zenon
  <2>4. Entities[3][2] = Lt
    BY <1>2, <2>1, Zenon
  <2>5. Entities[4][2] = Gt
    BY <1>2, <2>1, Zenon
  <2> QED BY <2>2, <2>3, <2>4, <2>5, Zenon
<1>4. \A n \in 1 .. 4 : n = 1 \/ n = 2 \/ n = 3 \/ n = 4
  OBVIOUS
<1> QED BY <1>1, <1>3, <1>4, TokenFacts, Zenon

\* Every step but those of the walk leaves it alone; every step keeps what the
\* pipeline and the scan need.
LEMMA TextSteps ==
  ASSUME WalkInv, TextInv, Extract
  PROVE  WalkInv' /\ TextInv'
<1> USE DEF TextInv
<1>0. ASSUME UNCHANGED walkVars PROVE WalkInv'
  BY <1>0 DEF walkVars, WalkInv
<1>1. CASE ParseFails
  <2>1. WalkInv'
    BY <1>0, <1>1 DEF ParseFails
  <2>2. /\ stage' = "failed" /\ at' = 1 /\ UNCHANGED <<page, text, content>>
        /\ sought' = sought /\ cursor' = cursor /\ found' = found
    BY <1>1 DEF ParseFails, Goto, scanVars
  <2>3. TokensOK' /\ ScanOK'
    BY <2>2 DEF TokensOK, ScanOK
  <2>4. StageOK' /\ RoomLeft'
    BY <2>2 DEF StageOK, RoomLeft
  <2> QED BY <2>1, <2>3, <2>4
<1>2. CASE CollectText
  <2>1. WalkInv'
    BY <1>2, WalkSteps DEF CollectText
  <2>2. UNCHANGED <<page, text, content, stage, at, sought, cursor, found>>
    BY <1>2 DEF CollectText, textVars, scanVars
  <2>3. TokensOK' /\ ScanOK' /\ StageOK' /\ RoomLeft'
    BY <2>2 DEF TokensOK, ScanOK, StageOK, RoomLeft, Tag, Limit
  <2> QED BY <2>1, <2>3
<1>3. CASE WalkFails
  <2>1. WalkInv'
    BY <1>0, <1>3 DEF WalkFails
  <2>2. /\ stage' = "failed" /\ at' = 1 /\ UNCHANGED <<page, text, content>>
        /\ sought' = sought /\ cursor' = cursor /\ found' = found
    BY <1>3 DEF WalkFails, Goto, scanVars
  <2>3. TokensOK' /\ ScanOK'
    BY <2>2 DEF TokensOK, ScanOK
  <2>4. StageOK' /\ RoomLeft'
    BY <2>2 DEF StageOK, RoomLeft
  <2> QED BY <2>1, <2>3, <2>4
<1>4. CASE JoinFragments
  <2>1. WalkInv'
    BY <1>0, <1>4 DEF JoinFragments
  <2>2. /\ stage = "parse" /\ stage' = "decode" /\ at' = 1 /\ UNCHANGED <<page, content>>
        /\ sought' = sought /\ cursor' = cursor /\ found' = found
    BY <1>4 DEF JoinFragments, Goto, scanVars
  <2>3. text' \in Seq(Token)
    <3>1. output \in Seq(Token)
      BY DEF WalkInv
    <3> QED BY <1>4, <3>1, JoinedType DEF JoinFragments
  <2>4. TokensOK' /\ ScanOK'
    BY <2>2, <2>3 DEF TokensOK, ScanOK
  <2>5. StageOK' /\ RoomLeft'
    BY <2>2 DEF StageOK, RoomLeft
  <2> QED BY <2>1, <2>4, <2>5
<1>5. CASE RemoveBlock
  <2>1. WalkInv'
    BY <1>0, <1>5 DEF RemoveBlock
  <2>2. /\ stage = "remove" /\ UNCHANGED <<page, content, stage, at>>
        /\ sought' = sought /\ cursor' = cursor /\ found' = found
    BY <1>5 DEF RemoveBlock, scanVars
  <2>3. text' \in Seq(Token)
    <3>1. PICK start \in DOMAIN text : text' = WithoutBlock(start)
      BY <1>5 DEF RemoveBlock, Positions
    <3> QED BY <3>1, WithoutBlockType DEF TokensOK
  <2>4. TokensOK' /\ ScanOK'
    BY <2>2, <2>3 DEF TokensOK, ScanOK
  <2>5. StageOK' /\ RoomLeft'
    BY <2>2 DEF StageOK, RoomLeft
  <2> QED BY <2>1, <2>4, <2>5
<1>6. CASE NextIgnored
  <2>1. WalkInv'
    BY <1>0, <1>6 DEF NextIgnored
  <2>2. /\ stage = "remove" /\ UNCHANGED <<page, text, content>>
        /\ sought' = sought /\ cursor' = cursor /\ found' = found
        /\ \/ at < 5 /\ at' = at + 1 /\ stage' = stage
           \/ at' = 1 /\ stage' = "strip"
    BY <1>6, EntityFacts DEF NextIgnored, Goto, scanVars
  <2>3. TokensOK' /\ ScanOK'
    BY <2>2 DEF TokensOK, ScanOK
  <2>4. StageOK' /\ RoomLeft'
    BY <2>2 DEF StageOK, RoomLeft
  <2> QED BY <2>1, <2>3, <2>4
<1>7. CASE Strip
  <2>1. WalkInv'
    BY <1>0, <1>7 DEF Strip
  <2>2. /\ stage = "strip" /\ stage' = "decode" /\ at' = 1 /\ UNCHANGED <<page, content>>
        /\ sought' = sought /\ cursor' = cursor /\ found' = found
    BY <1>7 DEF Strip, Goto, scanVars
  <2>3. text' \in Seq(Token)
    BY <1>7, StrippedType DEF Strip, TokensOK
  <2>4. TokensOK' /\ ScanOK'
    BY <2>2, <2>3 DEF TokensOK, ScanOK
  <2>5. StageOK' /\ RoomLeft'
    BY <2>2 DEF StageOK, RoomLeft, Tag, Limit
  <2> QED BY <2>1, <2>4, <2>5
<1>8. CASE DecodeEntity
  <2>1. WalkInv'
    BY <1>0, <1>8 DEF DecodeEntity
  <2>2. /\ stage = "decode" /\ UNCHANGED <<page, content>>
        /\ sought' = sought /\ cursor' = cursor /\ found' = found
        /\ \/ at < 4 /\ at' = at + 1 /\ stage' = stage
           \/ at' = 1 /\ stage' = "collapse"
    BY <1>8, EntityFacts DEF DecodeEntity, Goto, scanVars
  <2>3. text' \in Seq(Token)
    <3>1. at \in 1 .. 4
      BY <2>2 DEF StageOK
    <3>2. Entities[at][2] \in Token
      BY <3>1, EntityFacts
    <3>3. text' = Replaced(text, Entities[at][1], Entities[at][2])
      BY <1>8 DEF DecodeEntity
    <3> QED BY <3>2, <3>3, ReplacedType DEF TokensOK
  <2>4. TokensOK' /\ ScanOK'
    BY <2>2, <2>3 DEF TokensOK, ScanOK
  <2>5. StageOK' /\ RoomLeft'
    BY <2>2 DEF StageOK, RoomLeft, Tag, Limit
  <2> QED BY <2>1, <2>4, <2>5
<1>9. CASE CollapseContent
  <2>1. WalkInv'
    BY <1>0, <1>9 DEF CollapseContent
  <2>2. /\ stage' \in {"failed", "elements", "done"} /\ at' = 1 /\ UNCHANGED <<page, text>>
        /\ sought' = sought /\ cursor' = cursor /\ found' = found
        /\ content' = Collapsed(text)
    BY <1>9 DEF CollapseContent, Goto, scanVars
  <2>3. content' \in Seq(Token) /\ Normal(content')
    BY <2>2, CollapsedIsNormal DEF TokensOK
  <2>4. TokensOK' /\ ScanOK'
    BY <2>2, <2>3 DEF TokensOK, ScanOK
  <2>5. StageOK' /\ RoomLeft'
    BY <2>2 DEF StageOK, RoomLeft
  <2> QED BY <2>1, <2>4, <2>5
<1>10. CASE LongerName
  <2>1. WalkInv'
    BY <1>0, <1>10 DEF LongerName
  <2>2. /\ stage = "elements" /\ UNCHANGED <<page, text, content, stage, at, sought, found>>
        /\ \E open \in DOMAIN Markup(page) : cursor' = open + 1
    BY <1>10 DEF LongerName
  <2>3. Markup(page) \in Seq(Token)
    BY MarkupType DEF TokensOK
  <2>4. cursor' \in 1 .. Len(Markup(page)) + 1
    BY <2>2, <2>3
  <2>5. TokensOK' /\ ScanOK'
    BY <2>2, <2>4 DEF TokensOK, ScanOK
  <2>6. StageOK' /\ RoomLeft'
    BY <2>2 DEF StageOK, RoomLeft
  <2> QED BY <2>1, <2>5, <2>6
<1>11. CASE TakeElement
  <2>1. WalkInv'
    BY <1>0, <1>11 DEF TakeElement
  <2>2. /\ stage = "elements" /\ stage' = "strip" /\ at' = 1
        /\ UNCHANGED <<page, content, sought, found>>
    BY <1>11 DEF TakeElement, Goto
  <2>3. PICK open, start, end \in DOMAIN Markup(page) :
          /\ ElementAt(Markup(page), open, start, end)
          /\ text' = SubSeq(Markup(page), start, end - 1)
          /\ cursor' = end + 1
    BY <1>11 DEF TakeElement
  <2>4. Markup(page) \in Seq(Token)
    BY MarkupType DEF TokensOK
  <2>5. cursor' \in 1 .. Len(Markup(page)) + 1 /\ text' \in Seq(Token)
    BY <2>3, <2>4
  <2>6. Len(found[Tag]) < Limit
    BY <2>3 DEF ElementAt, OpensAt
  <2>7. TokensOK' /\ ScanOK'
    BY <2>2, <2>5 DEF TokensOK, ScanOK
  <2>8. StageOK' /\ RoomLeft'
    BY <2>2, <2>6 DEF StageOK, RoomLeft, Tag, Limit
  <2> QED BY <2>1, <2>7, <2>8
<1>12. CASE CollapseElement
  <2>1. WalkInv'
    BY <1>0, <1>12 DEF CollapseElement
  <2>2. /\ stage = "collapse" /\ content # << >> /\ stage' = "elements" /\ at' = 1
        /\ UNCHANGED <<page, content, sought, cursor>>
        /\ text' = Collapsed(text)
        /\ found' = [found EXCEPT ![Tag] = IF text' = << >> THEN @ ELSE Append(@, text')]
    BY <1>12 DEF CollapseElement, Goto
  <2>3. text' \in Seq(Token)
    BY <2>2, CollapsedIsNormal DEF TokensOK
  <2>4. Tag \in ElementTags /\ Limit \in Nat /\ sought \in 1 .. 2
    BY ElementFacts DEF ElementTags, Tag, Limit, ScanOK
  <2>5. PICK old \in Seq(Seq(Token)), new \in Seq(Seq(Token)) :
          /\ old = found[Tag] /\ found' = [found EXCEPT ![Tag] = new]
          /\ Len(new) <= Limit
    <3>1. found[Tag] \in Seq(Seq(Token))
      BY <2>4 DEF ScanOK
    <3>2. Append(found[Tag], text') \in Seq(Seq(Token))
          /\ Len(Append(found[Tag], text')) = Len(found[Tag]) + 1
          /\ Len(found[Tag]) \in Nat
      BY <2>3, <3>1
    <3>3. Len(found[Tag]) < Limit
      BY <2>2 DEF RoomLeft
    <3>4. /\ Len(found[Tag]) <= Limit
          /\ Len(Append(found[Tag], text')) <= Limit
      BY <2>4, <3>2, <3>3
    <3> QED BY <2>2, <3>1, <3>2, <3>4
  <2>6. found' \in [ElementTags -> Seq(Seq(Token))]
    BY <2>5 DEF ScanOK
  <2>7. ASSUME NEW n \in 1 .. 2
        PROVE  Len(found'[Elements[n][1]]) <= Elements[n][2]
    <3>1. Elements[n][1] \in ElementTags
      BY ElementFacts DEF ElementTags
    <3>2. CASE n = sought
      BY <2>5, <3>1, <3>2 DEF ScanOK, Tag, Limit
    <3>3. CASE n # sought
      <4>1. Elements[n][1] # Tag
        BY <2>4, <3>3, ElementFacts DEF Tag
      <4>2. found'[Elements[n][1]] = found[Elements[n][1]]
        BY <2>5, <3>1, <4>1 DEF ScanOK
      <4> QED BY <4>2 DEF ScanOK
    <3> QED BY <3>2, <3>3
  <2>8. ScanOK'
    BY <2>2, <2>6, <2>7 DEF ScanOK
  <2>9. TokensOK'
    BY <2>2, <2>3 DEF TokensOK
  <2>10. StageOK' /\ RoomLeft'
    BY <2>2 DEF StageOK, RoomLeft
  <2> QED BY <2>1, <2>8, <2>9, <2>10
<1>13. CASE NextElementTag
  <2>1. WalkInv'
    BY <1>0, <1>13 DEF NextElementTag
  <2>2. /\ stage = "elements" /\ UNCHANGED <<page, text, content, found>>
        /\ \/ sought < 2 /\ sought' = sought + 1 /\ cursor' = 1 /\ UNCHANGED <<stage, at>>
           \/ stage' = "done" /\ at' = 1 /\ UNCHANGED <<sought, cursor>>
    BY <1>13, ElementFacts DEF NextElementTag, Goto
  <2>3. Markup(page) \in Seq(Token)
    BY MarkupType DEF TokensOK
  <2>4. cursor' \in 1 .. Len(Markup(page)) + 1 /\ sought' \in 1 .. 2
    BY <2>2, <2>3 DEF ScanOK
  <2>5. TokensOK' /\ ScanOK'
    BY <2>2, <2>4 DEF TokensOK, ScanOK
  <2>6. StageOK' /\ RoomLeft'
    BY <2>2 DEF StageOK, RoomLeft
  <2> QED BY <2>1, <2>5, <2>6
<1> QED
  BY <1>1, <1>2, <1>3, <1>4, <1>5, <1>6, <1>7, <1>8, <1>9, <1>10, <1>11, <1>12, <1>13
     DEF Extract
-----------------------------------------------------------------------------
(* Rewritings of one text behind another *)

\* What strip_markup() makes of a token, what one replace() does, and what it
\* becomes when every entity is read once.
StripPart(tokens, i) ==
  CASE tokens[i][1] = "closing" -> <<Space, Space>>
    [] tokens[i][1] = "opening" \/ tokens[i] \in {Lt, Gt} -> <<Space>>
    [] OTHER -> IF Hidden(tokens, i) THEN << >> ELSE <<tokens[i]>>
EntityAt(tokens, name, i) ==
  i \in 1 .. Len(tokens) - 1 /\ tokens[i] = Amp /\ tokens[i + 1] = Word(name)
EntityPart(tokens, name, by, i) ==
  IF EntityAt(tokens, name, i) THEN <<by>>
  ELSE IF EntityAt(tokens, name, i - 1) THEN << >> ELSE <<tokens[i]>>
ReadPart(tokens, i) ==
  CASE tokens[i] # Amp /\ (i = 1 \/ tokens[i - 1] # Amp) -> <<tokens[i]>>
    [] tokens[i] = Amp -> <<Character(tokens[i + 1])>>
    [] OTHER -> << >>

\* Every tag that opens in the text ends in it.
Closed(tokens) ==
  \A k \in 1 .. Len(tokens) :
    tokens[k][1] = "opening" \/ tokens[k] = Lt =>
      \E n \in k + 1 .. Len(tokens) : tokens[n][1] = "closing" \/ tokens[n] = Gt

\* Stripping is done token by token.
LEMMA StrippedInParts ==
  ASSUME NEW tokens \in Seq(Token)
  PROVE  /\ Stripped(tokens) = FlattenSeq([i \in 1 .. Len(tokens) |-> StripPart(tokens, i)])
         /\ [i \in 1 .. Len(tokens) |-> StripPart(tokens, i)] \in Seq(Seq(Token))
<1>1. DOMAIN tokens = 1 .. Len(tokens)
  OBVIOUS
<1>2. Stripped(tokens) = FlattenSeq([i \in 1 .. Len(tokens) |-> StripPart(tokens, i)])
  BY <1>1, Zenon DEF Stripped, StripPart
<1>3. ASSUME NEW i \in 1 .. Len(tokens) PROVE StripPart(tokens, i) \in Seq(Token)
  <2>1. /\ <<Space, Space>> \in Seq(Token) /\ <<Space>> \in Seq(Token)
        /\ << >> \in Seq(Token) /\ <<tokens[i]>> \in Seq(Token)
    BY TokenFacts
  <2> QED BY <2>1, Zenon DEF StripPart
<1> QED BY <1>2, <1>3

\* So is the replacement of an entity.
LEMMA ReplacedInParts ==
  ASSUME NEW tokens \in Seq(Token), NEW name, NEW by \in Token
  PROVE  /\ Replaced(tokens, name, by)
              = FlattenSeq([i \in 1 .. Len(tokens) |-> EntityPart(tokens, name, by, i)])
         /\ [i \in 1 .. Len(tokens) |-> EntityPart(tokens, name, by, i)] \in Seq(Seq(Token))
<1>1. DOMAIN tokens = 1 .. Len(tokens)
  OBVIOUS
<1>2. Replaced(tokens, name, by)
        = FlattenSeq([i \in 1 .. Len(tokens) |-> EntityPart(tokens, name, by, i)])
  BY <1>1, Zenon DEF Replaced, EntityPart, EntityAt
<1>3. ASSUME NEW i \in 1 .. Len(tokens) PROVE EntityPart(tokens, name, by, i) \in Seq(Token)
  <2>1. <<by>> \in Seq(Token) /\ << >> \in Seq(Token) /\ <<tokens[i]>> \in Seq(Token)
    OBVIOUS
  <2> QED BY <2>1, Zenon DEF EntityPart
<1> QED BY <1>2, <1>3

\* The text of a tag that ends is of no concern to what follows.
LEMMA StrippedConcat ==
  ASSUME NEW s \in Seq(Token), NEW u \in Seq(Token), Closed(s)
  PROVE  Stripped(s \o u) = Stripped(s) \o Stripped(u)
<1> DEFINE f == [i \in 1 .. Len(s) |-> StripPart(s, i)]
           g == [i \in 1 .. Len(u) |-> StripPart(u, i)]
<1>0. Len(s) \in Nat /\ Len(u) \in Nat
  OBVIOUS
<1>0a. PICK m \in Nat, n \in Nat : m = Len(s) /\ n = Len(u)
  BY <1>0
<1>0b. PICK su : su = s \o u
  OBVIOUS
<1>1. su = s \o u /\ m = Len(s) /\ n = Len(u)
  BY <1>0a, <1>0b
<1>2. /\ su \in Seq(Token) /\ Len(su) = m + n
      /\ \A i \in 1 .. m : su[i] = s[i] /\ i \in 1 .. Len(su)
      /\ \A i \in 1 .. n : su[m + i] = u[i] /\ m + i \in 1 .. Len(su)
  BY <1>1
<1> DEFINE h == [i \in 1 .. Len(su) |-> StripPart(su, i)]
<1>3. ASSUME NEW i \in 1 .. m PROVE StripPart(su, i) = StripPart(s, i)
  <2>1. /\ \A k \in 1 .. i - 1 : su[k] = s[k]
        /\ \A k \in 1 .. i - 1 : \A l \in k + 1 .. i - 1 : su[l] = s[l]
    <3>1. \A k \in 1 .. i - 1 : k \in 1 .. m
      BY <1>1
    <3>2. \A k \in 1 .. i - 1 : \A l \in k + 1 .. i - 1 : l \in 1 .. m
      BY <1>1
    <3> QED BY <1>2, <3>1, <3>2, Zenon
  <2>2. Hidden(su, i) <=> Hidden(s, i)
    <3>1. ASSUME Hidden(su, i) PROVE Hidden(s, i)
      <4>1. PICK k \in 1 .. i - 1 :
              /\ su[k][1] = "opening" \/ su[k] = Lt
              /\ \A l \in k + 1 .. i - 1 : su[l][1] # "closing" /\ su[l] # Gt
        BY <3>1, Zenon DEF Hidden
      <4>2. /\ s[k][1] = "opening" \/ s[k] = Lt
            /\ \A l \in k + 1 .. i - 1 : s[l][1] # "closing" /\ s[l] # Gt
        BY <2>1, <4>1, Zenon
      <4> QED BY <4>2, Zenon DEF Hidden
    <3>2. ASSUME Hidden(s, i) PROVE Hidden(su, i)
      <4>1. PICK k \in 1 .. i - 1 :
              /\ s[k][1] = "opening" \/ s[k] = Lt
              /\ \A l \in k + 1 .. i - 1 : s[l][1] # "closing" /\ s[l] # Gt
        BY <3>2, Zenon DEF Hidden
      <4>2. /\ su[k][1] = "opening" \/ su[k] = Lt
            /\ \A l \in k + 1 .. i - 1 : su[l][1] # "closing" /\ su[l] # Gt
        BY <2>1, <4>1, Zenon
      <4> QED BY <4>2, Zenon DEF Hidden
    <3> QED BY <3>1, <3>2
  <2> QED BY <1>2, <2>2, Zenon DEF StripPart
<1>4. ASSUME NEW i \in 1 .. n PROVE StripPart(su, m + i) = StripPart(u, i)
  <2>1. ASSUME Hidden(su, m + i) PROVE Hidden(u, i)
    <3>1. PICK k \in 1 .. (m + i) - 1 :
            /\ su[k][1] = "opening" \/ su[k] = Lt
            /\ \A l \in k + 1 .. (m + i) - 1 : su[l][1] # "closing" /\ su[l] # Gt
      BY <2>1, Zenon DEF Hidden
    <3>2. CASE k \in 1 .. m
      <4>1. s[k][1] = "opening" \/ s[k] = Lt
        BY <1>2, <3>1, <3>2, Zenon
      <4>2. PICK l \in k + 1 .. m : s[l][1] = "closing" \/ s[l] = Gt
        BY <1>1, <3>2, <4>1, Zenon DEF Closed
      <4>3. l \in 1 .. m /\ l \in k + 1 .. (m + i) - 1
        BY <1>1, <3>2
      <4> QED BY <1>2, <3>1, <4>2, <4>3, Zenon
    <3>3. CASE k \notin 1 .. m
      <4>1. PICK j \in 1 .. i - 1 : k = m + j
        <5>1. k - m \in 1 .. i - 1 /\ k = m + (k - m)
          BY <3>1, <3>3
        <5> QED BY <5>1
      <4>2. \A l \in j + 1 .. i - 1 : m + l \in k + 1 .. (m + i) - 1 /\ l \in 1 .. n
        BY <4>1
      <4>3. j \in 1 .. n
        BY <4>1
      <4>4. u[j][1] = "opening" \/ u[j] = Lt
        BY <1>2, <3>1, <4>1, <4>3, Zenon
      <4>5. ASSUME NEW l \in j + 1 .. i - 1 PROVE u[l][1] # "closing" /\ u[l] # Gt
        <5>1. su[m + l] = u[l]
          BY <1>2, <4>2, Zenon
        <5>2. su[m + l][1] # "closing" /\ su[m + l] # Gt
          BY <3>1, <4>2, Zenon
        <5> QED BY <5>1, <5>2, Zenon
      <4> QED BY <4>1, <4>4, <4>5, Zenon DEF Hidden
    <3> QED BY <3>2, <3>3
  <2>2. ASSUME Hidden(u, i) PROVE Hidden(su, m + i)
    <3>1. PICK j \in 1 .. i - 1 :
            /\ u[j][1] = "opening" \/ u[j] = Lt
            /\ \A l \in j + 1 .. i - 1 : u[l][1] # "closing" /\ u[l] # Gt
      BY <2>2, Zenon DEF Hidden
    <3>2. m + j \in 1 .. (m + i) - 1 /\ j \in 1 .. n
      BY <3>1
    <3>3. su[m + j][1] = "opening" \/ su[m + j] = Lt
      BY <1>2, <3>1, <3>2, Zenon
    <3>4. ASSUME NEW l \in (m + j) + 1 .. (m + i) - 1 PROVE su[l][1] # "closing" /\ su[l] # Gt
      <4>1. PICK x \in Nat : x \in j + 1 .. i - 1 /\ x \in 1 .. n /\ l = m + x
        <5>1. l - m \in j + 1 .. i - 1 /\ l - m \in 1 .. n /\ l = m + (l - m) /\ l - m \in Nat
          BY <3>1
        <5> QED BY <5>1, Zenon
      <4> QED BY <1>2, <3>1, <4>1, ZenonT(40)
    <3> QED BY <3>2, <3>3, <3>4, Zenon DEF Hidden
  <2>3. su[m + i] = u[i] /\ (Hidden(su, m + i) <=> Hidden(u, i))
    BY <1>2, <2>1, <2>2
  <2> QED BY <2>3, Zenon DEF StripPart
<1>5. /\ f \in Seq(Seq(Token)) /\ g \in Seq(Seq(Token)) /\ h \in Seq(Seq(Token))
      /\ Len(f) = m /\ Len(g) = n /\ Len(h) = m + n
      /\ Stripped(s) = FlattenSeq(f) /\ Stripped(u) = FlattenSeq(g) /\ Stripped(su) = FlattenSeq(h)
  <2>1. Len(f) = m /\ Len(g) = n /\ Len(h) = m + n
    BY <1>1, <1>2
  <2>2. f \in Seq(Seq(Token)) /\ Stripped(s) = FlattenSeq(f)
    BY StrippedInParts
  <2>3. g \in Seq(Seq(Token)) /\ Stripped(u) = FlattenSeq(g)
    BY StrippedInParts
  <2>4. h \in Seq(Seq(Token)) /\ Stripped(su) = FlattenSeq(h)
    BY <1>2, StrippedInParts
  <2> QED BY <2>1, <2>2, <2>3, <2>4, Zenon
<1>6. /\ \A i \in 1 .. m : h[i] = f[i]
      /\ \A i \in 1 .. n : h[m + i] = g[i]
  BY <1>1, <1>2, <1>3, <1>4
<1> HIDE DEF f, g, h
<1>7. FlattenSeq(h) = FlattenSeq(f) \o FlattenSeq(g)
  <2>1. /\ Len(h) = Len(f) + Len(g)
        /\ \A i \in 1 .. Len(f) : h[i] = f[i]
        /\ \A i \in 1 .. Len(g) : h[Len(f) + i] = g[i]
    BY <1>5, <1>6, Zenon
  <2> QED BY <1>5, <2>1, PartsJoin, Zenon
<1> QED BY <1>1, <1>5, <1>7, Zenon

\* Closed texts one behind the other are closed.
LEMMA ClosedConcat ==
  ASSUME NEW s \in Seq(Token), NEW u \in Seq(Token), Closed(s), Closed(u)
  PROVE  Closed(s \o u)
<1>0. Len(s) \in Nat /\ Len(u) \in Nat
  OBVIOUS
<1>0a. PICK m \in Nat, n \in Nat : m = Len(s) /\ n = Len(u)
  BY <1>0
<1>0b. PICK su : su = s \o u
  OBVIOUS
<1>1. su = s \o u /\ m = Len(s) /\ n = Len(u)
  BY <1>0a, <1>0b
<1>2. /\ su \in Seq(Token) /\ Len(su) = m + n
      /\ \A i \in 1 .. m : su[i] = s[i]
      /\ \A i \in 1 .. n : su[m + i] = u[i]
  BY <1>1
<1>3. ASSUME NEW k \in 1 .. Len(su), su[k][1] = "opening" \/ su[k] = Lt
      PROVE  \E l \in k + 1 .. Len(su) : su[l][1] = "closing" \/ su[l] = Gt
  <2>1. CASE k \in 1 .. m
    <3>1. PICK l \in k + 1 .. m : s[l][1] = "closing" \/ s[l] = Gt
      BY <1>1, <1>2, <1>3, <2>1, Zenon DEF Closed
    <3>2. l \in 1 .. m /\ l \in k + 1 .. Len(su)
      BY <1>1, <1>2, <2>1
    <3> QED BY <1>2, <3>1, <3>2, Zenon
  <2>2. CASE k \notin 1 .. m
    <3>1. PICK x \in 1 .. n : k = m + x
      <4>1. k - m \in 1 .. n /\ k = m + (k - m)
        BY <1>1, <1>2, <2>2
      <4> QED BY <4>1, Zenon
    <3>2. PICK l \in x + 1 .. n : u[l][1] = "closing" \/ u[l] = Gt
      BY <1>1, <1>2, <1>3, <3>1, Zenon DEF Closed
    <3>3. l \in 1 .. n /\ m + l \in k + 1 .. Len(su)
      BY <1>1, <1>2, <3>1
    <3> QED BY <1>2, <3>2, <3>3, Zenon
  <2> QED BY <2>1, <2>2
<1> QED BY <1>1, <1>3, Zenon DEF Closed

\* An entity that does not stand across the two parts is replaced in one of them.
LEMMA ReplacedConcat ==
  ASSUME NEW s \in Seq(Token), NEW u \in Seq(Token), NEW name, NEW by \in Token,
         u = << >> \/ u[1] # Word(name)
  PROVE  Replaced(s \o u, name, by) = Replaced(s, name, by) \o Replaced(u, name, by)
<1> DEFINE f == [i \in 1 .. Len(s) |-> EntityPart(s, name, by, i)]
           g == [i \in 1 .. Len(u) |-> EntityPart(u, name, by, i)]
<1>0. Len(s) \in Nat /\ Len(u) \in Nat
  OBVIOUS
<1>0a. PICK m \in Nat, n \in Nat : m = Len(s) /\ n = Len(u)
  BY <1>0
<1>0b. PICK su : su = s \o u
  OBVIOUS
<1>1. su = s \o u /\ m = Len(s) /\ n = Len(u)
  BY <1>0a, <1>0b
<1>2. /\ su \in Seq(Token) /\ Len(su) = m + n
      /\ \A i \in 1 .. m : su[i] = s[i] /\ i \in 1 .. Len(su)
      /\ \A i \in 1 .. n : su[m + i] = u[i] /\ m + i \in 1 .. Len(su)
  BY <1>1
<1> DEFINE h == [i \in 1 .. Len(su) |-> EntityPart(su, name, by, i)]
<1>3. \A i \in 0 .. m : EntityAt(su, name, i) <=> EntityAt(s, name, i)
  <2> SUFFICES ASSUME NEW i \in 0 .. m PROVE EntityAt(su, name, i) <=> EntityAt(s, name, i)
    OBVIOUS
  <2>1. CASE i \in 1 .. m - 1
    <3>1. i \in 1 .. m /\ i + 1 \in 1 .. m /\ i \in 1 .. (m + n) - 1
      BY <2>1
    <3>2. su[i] = s[i] /\ su[i + 1] = s[i + 1]
      BY <1>2, <3>1, Zenon
    <3> QED BY <1>1, <1>2, <2>1, <3>1, <3>2, Zenon DEF EntityAt
  <2>2. CASE i \notin 1 .. m - 1
    <3>1. ~EntityAt(s, name, i)
      BY <1>1, <2>2, Zenon DEF EntityAt
    <3>2. ASSUME EntityAt(su, name, i) PROVE FALSE
      <4>1. i \in 1 .. (m + n) - 1 /\ su[i + 1] = Word(name)
        BY <1>2, <3>2, Zenon DEF EntityAt
      <4>2. i = m /\ 1 \in 1 .. n
        BY <2>2, <4>1
      <4>3. su[m + 1] = u[1] /\ u # << >>
        BY <1>1, <1>2, <4>2
      <4> QED BY <4>1, <4>2, <4>3, Zenon
    <3> QED BY <3>1, <3>2
  <2> QED BY <2>1, <2>2
<1>4. \A i \in 1 .. n : EntityAt(su, name, m + i) <=> EntityAt(u, name, i)
  <2> SUFFICES ASSUME NEW i \in 1 .. n PROVE EntityAt(su, name, m + i) <=> EntityAt(u, name, i)
    OBVIOUS
  <2>1. CASE i \in 1 .. n - 1
    <3>1. i + 1 \in 1 .. n /\ m + i \in 1 .. (m + n) - 1 /\ m + (i + 1) = (m + i) + 1
      BY <2>1
    <3>2. su[m + i] = u[i] /\ su[(m + i) + 1] = u[i + 1]
      BY <1>2, <3>1, Zenon
    <3> QED BY <1>1, <1>2, <2>1, <3>1, <3>2, Zenon DEF EntityAt
  <2>2. CASE i \notin 1 .. n - 1
    <3>1. m + i \notin 1 .. (m + n) - 1
      BY <2>2
    <3> QED BY <1>1, <1>2, <2>2, <3>1, Zenon DEF EntityAt
  <2> QED BY <2>1, <2>2
<1>5. ASSUME NEW i \in 1 .. m PROVE EntityPart(su, name, by, i) = EntityPart(s, name, by, i)
  <2>1. i \in 0 .. m /\ i - 1 \in 0 .. m
    OBVIOUS
  <2> QED BY <1>2, <1>3, <2>1, Zenon DEF EntityPart
<1>6. ASSUME NEW i \in 1 .. n PROVE EntityPart(su, name, by, m + i) = EntityPart(u, name, by, i)
  <2>1. EntityAt(su, name, (m + i) - 1) <=> EntityAt(u, name, i - 1)
    <3>1. CASE i = 1
      <4>1. (m + i) - 1 = m /\ m \in 0 .. m /\ i - 1 = 0 /\ m \notin 1 .. m - 1 /\ 0 \notin 1 .. n - 1
        BY <3>1
      <4>2. ~EntityAt(s, name, m)
        BY <1>1, <4>1, Zenon DEF EntityAt
      <4>3. ~EntityAt(u, name, 0)
        BY <1>1, <4>1, Zenon DEF EntityAt
      <4> QED BY <1>3, <4>1, <4>2, <4>3, Zenon
    <3>2. CASE i # 1
      <4>1. i - 1 \in 1 .. n /\ m + (i - 1) = (m + i) - 1
        BY <3>2
      <4> QED BY <1>4, <4>1, Zenon
    <3> QED BY <3>1, <3>2
  <2>2. EntityAt(su, name, m + i) <=> EntityAt(u, name, i)
    BY <1>4
  <2>3. su[m + i] = u[i]
    BY <1>2
  <2> QED BY <2>1, <2>2, <2>3, Zenon DEF EntityPart
<1>7. /\ f \in Seq(Seq(Token)) /\ g \in Seq(Seq(Token)) /\ h \in Seq(Seq(Token))
      /\ Len(f) = m /\ Len(g) = n /\ Len(h) = m + n
      /\ Replaced(s, name, by) = FlattenSeq(f) /\ Replaced(u, name, by) = FlattenSeq(g)
      /\ Replaced(su, name, by) = FlattenSeq(h)
  <2>1. Len(f) = m /\ Len(g) = n /\ Len(h) = m + n
    BY <1>1, <1>2
  <2>2. f \in Seq(Seq(Token)) /\ Replaced(s, name, by) = FlattenSeq(f)
    BY ReplacedInParts
  <2>3. g \in Seq(Seq(Token)) /\ Replaced(u, name, by) = FlattenSeq(g)
    BY ReplacedInParts
  <2>4. h \in Seq(Seq(Token)) /\ Replaced(su, name, by) = FlattenSeq(h)
    BY <1>2, ReplacedInParts
  <2> QED BY <2>1, <2>2, <2>3, <2>4, Zenon
<1>8. /\ \A i \in 1 .. m : h[i] = f[i]
      /\ \A i \in 1 .. n : h[m + i] = g[i]
  BY <1>1, <1>2, <1>5, <1>6
<1> HIDE DEF f, g, h
<1>9. FlattenSeq(h) = FlattenSeq(f) \o FlattenSeq(g)
  <2>1. /\ Len(h) = Len(f) + Len(g)
        /\ \A i \in 1 .. Len(f) : h[i] = f[i]
        /\ \A i \in 1 .. Len(g) : h[Len(f) + i] = g[i]
    BY <1>7, <1>8, Zenon
  <2> QED BY <1>7, <2>1, PartsJoin, Zenon
<1> QED BY <1>1, <1>7, <1>9, Zenon

\* The names of the entities and the characters they stand for.
LEMMA NameFacts ==
  /\ DOMAIN Entities = 1 .. 4
  /\ \A n \in 1 .. 4 : Word(Entities[n][1]) \in EntityNames
  /\ \A name \in EntityNames : \E n \in 1 .. 4 : name = Word(Entities[n][1])
  /\ \A n \in 1 .. 4 : Character(Word(Entities[n][1])) = Entities[n][2]
  /\ \A m, n \in 1 .. 4 : m # n => Word(Entities[m][1]) # Word(Entities[n][1])
  /\ \A name \in EntityNames : name # Amp /\ name # Space /\ name # Lt /\ name # Gt
<1>1. DOMAIN Entities = 1 .. 4
  BY DEF Entities
<1>2. /\ Entities[1] = <<"nbsp;", Space>> /\ Entities[2] = <<"amp;", Amp>>
      /\ Entities[3] = <<"lt;", Lt>> /\ Entities[4] = <<"gt;", Gt>>
  BY DEF Entities
<1>3. /\ Entities[1][1] = "nbsp;" /\ Entities[2][1] = "amp;"
      /\ Entities[3][1] = "lt;" /\ Entities[4][1] = "gt;"
  <2>1. \A a, b : <<a, b>>[1] = a
    OBVIOUS
  <2>2. Entities[1][1] = "nbsp;"
    BY <1>2, <2>1, Zenon
  <2>3. Entities[2][1] = "amp;"
    BY <1>2, <2>1, Zenon
  <2>4. Entities[3][1] = "lt;"
    BY <1>2, <2>1, Zenon
  <2>5. Entities[4][1] = "gt;"
    BY <1>2, <2>1, Zenon
  <2> QED BY <2>2, <2>3, <2>4, <2>5, Zenon
<1>4. \A n \in 1 .. 4 : n = 1 \/ n = 2 \/ n = 3 \/ n = 4
  OBVIOUS
<1>5. \A v, w : Word(v) = Word(w) <=> v = w
  <2>1. \A a, b, c, d : <<a, b>> = <<c, d>> <=> a = c /\ b = d
    OBVIOUS
  <2> QED BY <2>1, Zenon DEF Word
<1>6. \A m, n \in 1 .. 4 : m # n => Word(Entities[m][1]) # Word(Entities[n][1])
  <2>1. /\ "nbsp;" # "amp;" /\ "nbsp;" # "lt;" /\ "nbsp;" # "gt;"
        /\ "amp;" # "lt;" /\ "amp;" # "gt;" /\ "lt;" # "gt;"
    OBVIOUS
  <2>2. \A n \in 1 .. 4 : n # 1 => Entities[n][1] # Entities[1][1]
    BY <1>3, <1>4, <2>1, Zenon
  <2>3. \A n \in 1 .. 4 : n # 2 => Entities[n][1] # Entities[2][1]
    BY <1>3, <1>4, <2>1, Zenon
  <2>4. \A n \in 1 .. 4 : n # 3 => Entities[n][1] # Entities[3][1]
    BY <1>3, <1>4, <2>1, Zenon
  <2>5. \A n \in 1 .. 4 : n # 4 => Entities[n][1] # Entities[4][1]
    BY <1>3, <1>4, <2>1, Zenon
  <2>6. \A m, n \in 1 .. 4 : m # n => Entities[m][1] # Entities[n][1]
    BY <1>4, <2>2, <2>3, <2>4, <2>5, Zenon
  <2> QED BY <1>5, <2>6, Zenon
<1>7. \A n \in 1 .. 4 : Word(Entities[n][1]) \in EntityNames
  BY <1>1, Zenon DEF EntityNames
<1>8. \A name \in EntityNames : \E n \in 1 .. 4 : name = Word(Entities[n][1])
  BY <1>1, Zenon DEF EntityNames
<1>9. ASSUME NEW n \in 1 .. 4 PROVE Character(Word(Entities[n][1])) = Entities[n][2]
  <2> DEFINE m == CHOOSE k \in DOMAIN Entities : Word(Entities[k][1]) = Word(Entities[n][1])
  <2>1. m \in 1 .. 4 /\ Word(Entities[m][1]) = Word(Entities[n][1])
    BY <1>1, Zenon
  <2> HIDE DEF m
  <2>2. m = n
    BY <1>6, <2>1, Zenon
  <2>3. Character(Word(Entities[n][1])) = Entities[m][2]
    BY Zenon DEF Character, m
  <2> QED BY <2>2, <2>3, Zenon
<1>10. ASSUME NEW n \in 1 .. 4
       PROVE  LET name == Word(Entities[n][1])
              IN  name # Amp /\ name # Space /\ name # Lt /\ name # Gt
  <2>1. /\ "nbsp;" # "&" /\ "amp;" # "&" /\ "lt;" # "&" /\ "gt;" # "&"
        /\ "word" # "space" /\ "word" # "mark"
    OBVIOUS
  <2>2. \A a, b, c, d : <<a, b>> = <<c, d>> <=> a = c /\ b = d
    OBVIOUS
  <2>3. Entities[n][1] # "&"
    BY <1>3, <1>4, <2>1, Zenon
  <2> QED BY <2>1, <2>2, <2>3, Zenon DEF Word, Amp, Space, Lt, Gt
<1>11. \A name \in EntityNames : name # Amp /\ name # Space /\ name # Lt /\ name # Gt
  BY <1>8, <1>10, Zenon
<1> QED BY <1>1, <1>6, <1>7, <1>8, <1>9, <1>11, Zenon

\* Reading is done token by token.
LEMMA ReadInParts ==
  ASSUME NEW tokens \in Seq(Token), WholeEntities(tokens)
  PROVE  /\ Read(tokens) = FlattenSeq([i \in 1 .. Len(tokens) |-> ReadPart(tokens, i)])
         /\ [i \in 1 .. Len(tokens) |-> ReadPart(tokens, i)] \in Seq(Seq(Token))
<1>1. DOMAIN tokens = 1 .. Len(tokens)
  OBVIOUS
<1>2. Read(tokens) = FlattenSeq([i \in 1 .. Len(tokens) |-> ReadPart(tokens, i)])
  BY <1>1, Zenon DEF Read, ReadPart
<1>3. ASSUME NEW i \in 1 .. Len(tokens) PROVE ReadPart(tokens, i) \in Seq(Token)
  <2>1. << >> \in Seq(Token) /\ <<tokens[i]>> \in Seq(Token)
    OBVIOUS
  <2>2. CASE tokens[i] = Amp
    <3>1. tokens[i + 1] \in EntityNames
      BY <2>2, Zenon DEF WholeEntities
    <3>2. PICK n \in 1 .. 4 : tokens[i + 1] = Word(Entities[n][1])
      BY <3>1, NameFacts, Zenon
    <3>3. Character(tokens[i + 1]) \in Token
      BY <3>2, NameFacts, EntityFacts, Zenon
    <3>4. <<Character(tokens[i + 1])>> \in Seq(Token)
      BY <3>3
    <3> QED BY <2>2, <3>4, Zenon DEF ReadPart
  <2>3. CASE tokens[i] # Amp
    BY <2>1, <2>3, Zenon DEF ReadPart
  <2> QED BY <2>2, <2>3
<1> QED BY <1>2, <1>3

\* What is read is a text.
LEMMA ReadType ==
  ASSUME NEW tokens \in Seq(Token), WholeEntities(tokens)
  PROVE  Read(tokens) \in Seq(Token)
BY ReadInParts, FlattenType

\* Entities that are whole in two texts are whole in the two together.
LEMMA WholeConcat ==
  ASSUME NEW s \in Seq(Token), NEW u \in Seq(Token), WholeEntities(s), WholeEntities(u)
  PROVE  WholeEntities(s \o u)
<1>0. Len(s) \in Nat /\ Len(u) \in Nat
  OBVIOUS
<1>0a. PICK m \in Nat, n \in Nat : m = Len(s) /\ n = Len(u)
  BY <1>0
<1>0b. PICK su : su = s \o u
  OBVIOUS
<1>1. su = s \o u /\ m = Len(s) /\ n = Len(u)
  BY <1>0a, <1>0b
<1>2. /\ su \in Seq(Token) /\ Len(su) = m + n
      /\ \A i \in 1 .. m : su[i] = s[i]
      /\ \A i \in 1 .. n : su[m + i] = u[i]
  BY <1>1
<1>3. ASSUME NEW k \in 1 .. m + n
      PROVE  k \in 1 .. m \/ \E i \in 1 .. n : k = m + i
  <2>1. k \notin 1 .. m => k - m \in 1 .. n /\ k = m + (k - m)
    OBVIOUS
  <2> QED BY <2>1, Zenon
<1>4. ASSUME NEW k \in 1 .. m + n, su[k] = Amp PROVE k < m + n /\ su[k + 1] \in EntityNames
  <2>1. CASE k \in 1 .. m
    <3>1. k < m /\ s[k + 1] \in EntityNames
      BY <1>1, <1>2, <1>4, <2>1, Zenon DEF WholeEntities
    <3>2. k < m + n /\ k + 1 \in 1 .. m
      BY <3>1
    <3> QED BY <1>2, <3>1, <3>2, Zenon
  <2>2. ASSUME NEW i \in 1 .. n, k = m + i PROVE k < m + n /\ su[k + 1] \in EntityNames
    <3>1. i < n /\ u[i + 1] \in EntityNames
      BY <1>1, <1>2, <1>4, <2>2, Zenon DEF WholeEntities
    <3>2. k < m + n /\ i + 1 \in 1 .. n /\ k + 1 = m + (i + 1)
      BY <2>2, <3>1
    <3>3. su[m + (i + 1)] = u[i + 1]
      BY <1>2, <3>2, Zenon
    <3> QED BY <3>1, <3>2, <3>3, Zenon
  <2> QED BY <1>3, <2>1, <2>2
<1>5. ASSUME NEW k \in 1 .. m + n, su[k] \in EntityNames PROVE k > 1 /\ su[k - 1] = Amp
  <2>1. CASE k \in 1 .. m
    <3>1. k > 1 /\ s[k - 1] = Amp
      BY <1>1, <1>2, <1>5, <2>1, Zenon DEF WholeEntities
    <3>2. k - 1 \in 1 .. m
      BY <2>1, <3>1
    <3> QED BY <1>2, <3>1, <3>2, Zenon
  <2>2. ASSUME NEW i \in 1 .. n, k = m + i PROVE k > 1 /\ su[k - 1] = Amp
    <3>1. i > 1 /\ u[i - 1] = Amp
      BY <1>1, <1>2, <1>5, <2>2, Zenon DEF WholeEntities
    <3>2. k > 1 /\ i - 1 \in 1 .. n /\ k - 1 = m + (i - 1)
      BY <2>2, <3>1
    <3> QED BY <1>2, <3>1, <3>2, Zenon
  <2> QED BY <1>3, <2>1, <2>2
<1> QED BY <1>1, <1>2, <1>4, <1>5, Zenon DEF WholeEntities

\* No entity stands across two such texts, so each is read for itself.
LEMMA ReadConcat ==
  ASSUME NEW s \in Seq(Token), NEW u \in Seq(Token), WholeEntities(s), WholeEntities(u)
  PROVE  Read(s \o u) = Read(s) \o Read(u)
<1> DEFINE f == [i \in 1 .. Len(s) |-> ReadPart(s, i)]
           g == [i \in 1 .. Len(u) |-> ReadPart(u, i)]
<1>0. Len(s) \in Nat /\ Len(u) \in Nat
  OBVIOUS
<1>0a. PICK m \in Nat, n \in Nat : m = Len(s) /\ n = Len(u)
  BY <1>0
<1>0b. PICK su : su = s \o u
  OBVIOUS
<1>1. su = s \o u /\ m = Len(s) /\ n = Len(u)
  BY <1>0a, <1>0b
<1>2. /\ su \in Seq(Token) /\ Len(su) = m + n
      /\ \A i \in 1 .. m : su[i] = s[i]
      /\ \A i \in 1 .. n : su[m + i] = u[i]
  BY <1>1
<1> DEFINE h == [i \in 1 .. Len(su) |-> ReadPart(su, i)]
<1>3. ASSUME NEW i \in 1 .. m PROVE ReadPart(su, i) = ReadPart(s, i)
  <2>1. su[i] = s[i]
    BY <1>2
  <2>2. i # 1 => su[i - 1] = s[i - 1]
    <3>1. i # 1 => i - 1 \in 1 .. m
      OBVIOUS
    <3> QED BY <1>2, <3>1, Zenon
  <2>3. s[i] = Amp => su[i + 1] = s[i + 1]
    <3>1. s[i] = Amp => i < m
      BY <1>1, Zenon DEF WholeEntities
    <3>2. i < m => i + 1 \in 1 .. m
      OBVIOUS
    <3> QED BY <1>2, <3>1, <3>2, Zenon
  <2> QED BY <2>1, <2>2, <2>3, Zenon DEF ReadPart
<1>4. ASSUME NEW i \in 1 .. n PROVE ReadPart(su, m + i) = ReadPart(u, i)
  <2>1. su[m + i] = u[i]
    BY <1>2
  <2>2. (m + i = 1 \/ su[(m + i) - 1] # Amp) <=> (i = 1 \/ u[i - 1] # Amp)
    <3>1. CASE i = 1
      <4>1. CASE m = 0
        BY <3>1, <4>1
      <4>2. CASE m # 0
        <5>1. m \in 1 .. m /\ ~(m < m) /\ (m + i) - 1 = m
          BY <3>1, <4>2
        <5>2. s[m] # Amp
          BY <1>1, <5>1, Zenon DEF WholeEntities
        <5> QED BY <1>2, <3>1, <5>1, <5>2, Zenon
      <4> QED BY <4>1, <4>2
    <3>2. CASE i # 1
      <4>1. i - 1 \in 1 .. n /\ m + (i - 1) = (m + i) - 1 /\ m + i # 1
        BY <3>2
      <4> QED BY <1>2, <3>2, <4>1, Zenon
    <3> QED BY <3>1, <3>2
  <2>3. u[i] = Amp => su[(m + i) + 1] = u[i + 1]
    <3>1. u[i] = Amp => i < n
      BY <1>1, Zenon DEF WholeEntities
    <3>2. i < n => i + 1 \in 1 .. n /\ m + (i + 1) = (m + i) + 1
      OBVIOUS
    <3>3. i < n => su[m + (i + 1)] = u[i + 1]
      BY <1>2, <3>2, Zenon
    <3> QED BY <3>1, <3>2, <3>3, Zenon
  <2> QED BY <2>1, <2>2, <2>3, Zenon DEF ReadPart
<1>5. /\ f \in Seq(Seq(Token)) /\ g \in Seq(Seq(Token)) /\ h \in Seq(Seq(Token))
      /\ Len(f) = m /\ Len(g) = n /\ Len(h) = m + n
      /\ Read(s) = FlattenSeq(f) /\ Read(u) = FlattenSeq(g) /\ Read(su) = FlattenSeq(h)
  <2>1. Len(f) = m /\ Len(g) = n /\ Len(h) = m + n
    BY <1>1, <1>2
  <2>2. f \in Seq(Seq(Token)) /\ Read(s) = FlattenSeq(f)
    BY ReadInParts
  <2>3. g \in Seq(Seq(Token)) /\ Read(u) = FlattenSeq(g)
    BY ReadInParts
  <2>4. h \in Seq(Seq(Token)) /\ Read(su) = FlattenSeq(h)
    <3>1. WholeEntities(su)
      BY <1>1, WholeConcat
    <3> QED BY <1>2, <3>1, ReadInParts
  <2> QED BY <2>1, <2>2, <2>3, <2>4, Zenon
<1>6. /\ \A i \in 1 .. m : h[i] = f[i]
      /\ \A i \in 1 .. n : h[m + i] = g[i]
  <2>1. \A i \in 1 .. m : i \in 1 .. Len(su)
    BY <1>2
  <2>2. \A i \in 1 .. n : m + i \in 1 .. Len(su)
    BY <1>2
  <2> QED BY <1>1, <1>3, <1>4, <2>1, <2>2
<1> HIDE DEF f, g, h
<1>7. FlattenSeq(h) = FlattenSeq(f) \o FlattenSeq(g)
  <2>1. /\ Len(h) = Len(f) + Len(g)
        /\ \A i \in 1 .. Len(f) : h[i] = f[i]
        /\ \A i \in 1 .. Len(g) : h[Len(f) + i] = g[i]
    BY <1>5, <1>6, Zenon
  <2> QED BY <1>5, <2>1, PartsJoin, Zenon
<1> QED BY <1>1, <1>5, <1>7, Zenon

-----------------------------------------------------------------------------
(* Entities decoded one after the other, and read once *)

\* The first k entities replaced, one after the other.
Once(n, tokens) == Replaced(tokens, Entities[n][1], Entities[n][2])
Decoded(k, tokens) ==
  CASE k = 0 -> tokens
    [] k = 1 -> Once(1, tokens)
    [] k = 2 -> Once(2, Once(1, tokens))
    [] k = 3 -> Once(3, Once(2, Once(1, tokens)))
    [] OTHER -> Once(4, Once(3, Once(2, Once(1, tokens))))

\* Each is replaced where the one before left the text.
LEMMA DecodedSteps ==
  ASSUME NEW tokens
  PROVE  /\ Decoded(0, tokens) = tokens
         /\ \A k \in 1 .. 4 : Decoded(k, tokens) = Once(k, Decoded(k - 1, tokens))
<1>1. /\ Decoded(0, tokens) = tokens /\ Decoded(1, tokens) = Once(1, tokens)
      /\ Decoded(2, tokens) = Once(2, Once(1, tokens))
      /\ Decoded(3, tokens) = Once(3, Once(2, Once(1, tokens)))
      /\ Decoded(4, tokens) = Once(4, Once(3, Once(2, Once(1, tokens))))
  BY DEF Decoded
<1>2. \A k \in 1 .. 4 : \/ k = 1 /\ k - 1 = 0
                        \/ k = 2 /\ k - 1 = 1
                        \/ k = 3 /\ k - 1 = 2
                        \/ k = 4 /\ k - 1 = 3
  OBVIOUS
<1> QED BY <1>1, <1>2, Zenon

\* One replacement in a text of tokens.
LEMMA OnceType ==
  ASSUME NEW tokens \in Seq(Token), NEW n \in 1 .. 4
  PROVE  Once(n, tokens) \in Seq(Token)
BY EntityFacts, ReplacedType DEF Once

\* And several.
LEMMA DecodedType ==
  ASSUME NEW tokens \in Seq(Token), NEW k \in 0 .. 4
  PROVE  Decoded(k, tokens) \in Seq(Token)
<1> DEFINE T == {i \in 0 .. 4 : Decoded(i, tokens) \in Seq(Token)}
<1>1. 0 \in T
  BY DecodedSteps
<1>2. ASSUME NEW i \in 1 .. 4, i - 1 \in T PROVE i \in T
  <2>1. Decoded(i, tokens) = Once(i, Decoded(i - 1, tokens))
    BY DecodedSteps
  <2>2. Decoded(i - 1, tokens) \in Seq(Token)
    BY <1>2
  <2>3. Decoded(i, tokens) \in Seq(Token)
    BY <2>1, <2>2, OnceType
  <2> QED BY <2>3
<1> HIDE DEF T
<1>3. \A i \in 0 .. 4 : i \in T
  BY <1>1, <1>2, AllNumbers
<1> QED BY <1>3 DEF T

\* One replacement in nothing, in a token and in two.
LEMMA OnceInFew ==
  ASSUME NEW n \in 1 .. 4, NEW x \in Token, NEW y \in Token
  PROVE  /\ Once(n, << >>) = << >>
         /\ Once(n, <<x>>) = <<x>>
         /\ x = Amp /\ y = Word(Entities[n][1]) => Once(n, <<x, y>>) = <<Entities[n][2]>>
         /\ ~(x = Amp /\ y = Word(Entities[n][1])) => Once(n, <<x, y>>) = <<x, y>>
<1>1. PICK name, by : name = Entities[n][1] /\ by = Entities[n][2] /\ by \in Token
  BY EntityFacts
<1>2. << >> \in Seq(Token) /\ <<x>> \in Seq(Token) /\ <<x, y>> \in Seq(Token) /\ <<by>> \in Seq(Token)
      /\ <<y>> \in Seq(Token) /\ Len(<<x>>) = 1 /\ Len(<<x, y>>) = 2 /\ Len(<< >>) = 0
      /\ <<x>>[1] = x /\ <<x, y>>[1] = x /\ <<x, y>>[2] = y
  BY <1>1
<1>3. \A t : Once(n, t) = Replaced(t, name, by)
  BY <1>1, Zenon DEF Once
<1>4. Replaced(<< >>, name, by) = << >>
  <2>1. Replaced(<< >>, name, by)
          = FlattenSeq([i \in 1 .. 0 |-> EntityPart(<< >>, name, by, i)])
    <3>1. PICK t : t = << >>
      OBVIOUS
    <3>2. t \in Seq(Token) /\ Len(t) = 0
      BY <1>2, <3>1
    <3>3. Replaced(t, name, by) = FlattenSeq([i \in 1 .. Len(t) |-> EntityPart(t, name, by, i)])
      BY <1>1, <3>2, ReplacedInParts
    <3> QED BY <3>1, <3>2, <3>3, Zenon
  <2>2. [i \in 1 .. 0 |-> EntityPart(<< >>, name, by, i)] = << >>
    OBVIOUS
  <2>3. FlattenSeq(<< >>) = << >>
    BY DEF FlattenSeq
  <2> QED BY <2>1, <2>2, <2>3
<1>5. Replaced(<<x>>, name, by) = <<x>>
  <2>1. Replaced(<<x>>, name, by) = FlattenSeq([i \in 1 .. 1 |-> EntityPart(<<x>>, name, by, i)])
    <3>1. PICK t : t = <<x>>
      OBVIOUS
    <3>2. t \in Seq(Token) /\ Len(t) = 1
      BY <1>2, <3>1
    <3>3. Replaced(t, name, by) = FlattenSeq([i \in 1 .. Len(t) |-> EntityPart(t, name, by, i)])
      BY <1>1, <3>2, ReplacedInParts
    <3> QED BY <3>1, <3>2, <3>3, Zenon
  <2>2. 1 \notin 1 .. 1 - 1 /\ 1 - 1 \notin 1 .. 1 - 1
    OBVIOUS
  <2>3. EntityPart(<<x>>, name, by, 1) = <<x>>
    BY <1>2, <2>2, Zenon DEF EntityPart, EntityAt
  <2>4. [i \in 1 .. 1 |-> EntityPart(<<x>>, name, by, i)] = <<EntityPart(<<x>>, name, by, 1)>>
    OBVIOUS
  <2>5. FlattenSeq(<<<<x>>>>) = <<x>>
    BY <1>2, FlattenFew
  <2> QED BY <2>1, <2>3, <2>4, <2>5, Zenon
<1>6. /\ x = Amp /\ y = Word(name) => Replaced(<<x, y>>, name, by) = <<by>>
      /\ ~(x = Amp /\ y = Word(name)) => Replaced(<<x, y>>, name, by) = <<x, y>>
  <2>1. Replaced(<<x, y>>, name, by)
          = FlattenSeq([i \in 1 .. 2 |-> EntityPart(<<x, y>>, name, by, i)])
    <3>1. PICK t : t = <<x, y>>
      OBVIOUS
    <3>2. t \in Seq(Token) /\ Len(t) = 2
      BY <1>2, <3>1
    <3>3. Replaced(t, name, by) = FlattenSeq([i \in 1 .. Len(t) |-> EntityPart(t, name, by, i)])
      BY <1>1, <3>2, ReplacedInParts
    <3> QED BY <3>1, <3>2, <3>3, Zenon
  <2>2. 1 \in 1 .. 2 - 1 /\ 2 \notin 1 .. 2 - 1 /\ 1 - 1 \notin 1 .. 2 - 1 /\ 2 - 1 = 1 /\ 1 + 1 = 2
    OBVIOUS
  <2>3. [i \in 1 .. 2 |-> EntityPart(<<x, y>>, name, by, i)]
          = <<EntityPart(<<x, y>>, name, by, 1), EntityPart(<<x, y>>, name, by, 2)>>
    OBVIOUS
  <2>4. EntityAt(<<x, y>>, name, 1) <=> x = Amp /\ y = Word(name)
    BY <1>2, <2>2, Zenon DEF EntityAt
  <2>5. ~EntityAt(<<x, y>>, name, 2) /\ ~EntityAt(<<x, y>>, name, 1 - 1)
    BY <1>2, <2>2, Zenon DEF EntityAt
  <2>6. CASE x = Amp /\ y = Word(name)
    <3>1. EntityPart(<<x, y>>, name, by, 1) = <<by>> /\ EntityPart(<<x, y>>, name, by, 2) = << >>
      BY <1>2, <2>2, <2>4, <2>5, <2>6, Zenon DEF EntityPart
    <3>2. FlattenSeq(<<<<by>>, << >>>>) = <<by>> \o << >>
      BY <1>2, FlattenFew
    <3>3. <<by>> \o << >> = <<by>>
      BY <1>2, ConcatEmptySeq
    <3> QED BY <2>1, <2>3, <2>6, <3>1, <3>2, <3>3, Zenon
  <2>7. CASE ~(x = Amp /\ y = Word(name))
    <3>1. EntityPart(<<x, y>>, name, by, 1) = <<x>> /\ EntityPart(<<x, y>>, name, by, 2) = <<y>>
      BY <1>2, <2>2, <2>4, <2>5, <2>7, Zenon DEF EntityPart
    <3>2. FlattenSeq(<<<<x>>, <<y>>>>) = <<x>> \o <<y>>
      BY <1>2, FlattenFew
    <3>3. <<x>> \o <<y>> = <<x, y>>
      BY PairJoined
    <3> QED BY <2>1, <2>3, <2>7, <3>1, <3>2, <3>3, Zenon
  <2> QED BY <2>6, <2>7
<1> QED BY <1>1, <1>3, <1>4, <1>5, <1>6, Zenon

\* An entity stays until its turn comes, and then is what it stands for.
LEMMA DecodedEntity ==
  ASSUME NEW j \in 1 .. 4, NEW k \in 0 .. 4, Word(Entities[j][1]) \in Token
  PROVE  LET entity == <<Amp, Word(Entities[j][1])>>
         IN  Decoded(k, entity) = IF k < j THEN entity ELSE <<Entities[j][2]>>
<1>1. PICK w, by : w = Word(Entities[j][1]) /\ by = Entities[j][2]
  OBVIOUS
<1>2. by \in Token /\ w \in Token /\ Amp \in Token
  BY <1>1, EntityFacts, TokenFacts
<1> DEFINE entity == <<Amp, w>>
           D(i) == IF i < j THEN entity ELSE <<by>>
           T == {i \in 0 .. 4 : Decoded(i, entity) = D(i)}
<1>3. 0 \in T
  <2>1. D(0) = entity
    OBVIOUS
  <2> QED BY <2>1, DecodedSteps
<1>4. ASSUME NEW i \in 1 .. 4, i - 1 \in T PROVE i \in T
  <2>1. Decoded(i, entity) = Once(i, D(i - 1))
    <3>1. Decoded(i - 1, entity) = D(i - 1)
      BY <1>4
    <3> QED BY <3>1, DecodedSteps, Zenon
  <2>2. CASE i < j
    <3>1. D(i - 1) = entity /\ D(i) = entity /\ i # j
      BY <2>2
    <3>2. w # Word(Entities[i][1])
      BY <1>1, <3>1, NameFacts, Zenon
    <3>3. Once(i, entity) = entity
      BY <1>2, <3>2, OnceInFew
    <3> QED BY <2>1, <3>1, <3>3
  <2>3. CASE i = j
    <3>1. D(i - 1) = entity /\ D(i) = <<by>>
      BY <2>3
    <3>2. Once(i, entity) = <<by>>
      BY <1>1, <1>2, <2>3, OnceInFew
    <3> QED BY <2>1, <3>1, <3>2
  <2>4. CASE i > j
    <3>1. D(i - 1) = <<by>> /\ D(i) = <<by>>
      BY <2>4
    <3>2. Once(i, <<by>>) = <<by>>
      BY <1>2, OnceInFew
    <3> QED BY <2>1, <3>1, <3>2
  <2> QED BY <2>2, <2>3, <2>4
<1> HIDE DEF T
<1>5. \A i \in 0 .. 4 : i \in T
  BY <1>3, <1>4, AllNumbers
<1>6. Decoded(k, entity) = D(k)
  BY <1>5 DEF T
<1> QED BY <1>1, <1>6, Zenon

\* Nothing stays nothing, and a token what it is.
LEMMA DecodedFew ==
  ASSUME NEW x \in Token, NEW k \in 0 .. 4
  PROVE  Decoded(k, <<x>>) = <<x>> /\ Decoded(k, << >>) = << >>
<1> DEFINE T == {i \in 0 .. 4 : Decoded(i, <<x>>) = <<x>> /\ Decoded(i, << >>) = << >>}
<1>1. 0 \in T
  BY DecodedSteps
<1>2. ASSUME NEW i \in 1 .. 4, i - 1 \in T PROVE i \in T
  <2>1. Decoded(i - 1, <<x>>) = <<x>> /\ Decoded(i - 1, << >>) = << >>
    BY <1>2
  <2>2. Decoded(i, <<x>>) = Once(i, <<x>>) /\ Decoded(i, << >>) = Once(i, << >>)
    BY <2>1, DecodedSteps, Zenon
  <2>3. Once(i, <<x>>) = <<x>> /\ Once(i, << >>) = << >>
    BY OnceInFew
  <2> QED BY <2>2, <2>3
<1> HIDE DEF T
<1>3. \A i \in 0 .. 4 : i \in T
  BY <1>1, <1>2, AllNumbers
<1> QED BY <1>3 DEF T

\* One replacement goes part by part where the second does not begin with its name.
LEMMA OnceConcat ==
  ASSUME NEW n \in 1 .. 4, NEW a \in Seq(Token), NEW b \in Seq(Token),
         b = << >> \/ b[1] # Word(Entities[n][1])
  PROVE  Once(n, a \o b) = Once(n, a) \o Once(n, b)
<1>1. Entities[n][2] \in Token
  BY EntityFacts
<1>2. \A by \in Token : Replaced(a \o b, Entities[n][1], by)
        = Replaced(a, Entities[n][1], by) \o Replaced(b, Entities[n][1], by)
  BY ReplacedConcat
<1> QED BY <1>1, <1>2, Zenon DEF Once

\* Decoding goes part by part where the second never begins with a name.
LEMMA DecodedConcat ==
  ASSUME NEW s \in Seq(Token), NEW u \in Seq(Token),
         \A k \in 0 .. 3 : Decoded(k, u) # << >> => Decoded(k, u)[1] \notin EntityNames
  PROVE  Decoded(4, s \o u) = Decoded(4, s) \o Decoded(4, u)
<1> DEFINE T == {i \in 0 .. 4 : Decoded(i, s \o u) = Decoded(i, s) \o Decoded(i, u)}
<1>1. 0 \in T
  <2>1. 0 \in 0 .. 4
    OBVIOUS
  <2> QED BY <2>1, DecodedSteps, Zenon
<1>2. ASSUME NEW i \in 1 .. 4, i - 1 \in T PROVE i \in T
  <2>1. PICK a, b : a = Decoded(i - 1, s) /\ b = Decoded(i - 1, u)
    OBVIOUS
  <2>2. a \in Seq(Token) /\ b \in Seq(Token)
    <3>1. i - 1 \in 0 .. 4
      OBVIOUS
    <3> QED BY <2>1, <3>1, DecodedType
  <2>3. b = << >> \/ b[1] # Word(Entities[i][1])
    <3>1. i - 1 \in 0 .. 3
      OBVIOUS
    <3> QED BY <2>1, <3>1, NameFacts, Zenon
  <2>4. Once(i, a \o b) = Once(i, a) \o Once(i, b)
    BY <2>2, <2>3, OnceConcat
  <2>5. Decoded(i - 1, s \o u) = a \o b
    BY <1>2, <2>1
  <2>6. /\ Decoded(i, s \o u) = Once(i, a \o b)
        /\ Decoded(i, s) = Once(i, a) /\ Decoded(i, u) = Once(i, b)
    <3>1. \A tokens : Decoded(i, tokens) = Once(i, Decoded(i - 1, tokens))
      BY DecodedSteps, Zenon
    <3> QED BY <2>1, <2>5, <3>1, Zenon
  <2>7. Decoded(i, s \o u) = Decoded(i, s) \o Decoded(i, u)
    BY <2>4, <2>6, Zenon
  <2> QED BY <2>7
<1> HIDE DEF T
<1>3. \A i \in 0 .. 4 : i \in T
  BY <1>1, <1>2, AllNumbers
<1> QED BY <1>3 DEF T

\* The start of a text whose entities are whole, if it does not end in "&".
LEMMA WholePrefix ==
  ASSUME NEW t \in Seq(Token), WholeEntities(t), NEW n \in 0 .. Len(t),
         n = 0 \/ t[n] # Amp
  PROVE  SubSeq(t, 1, n) \in Seq(Token) /\ WholeEntities(SubSeq(t, 1, n))
<1>1. PICK p : p = SubSeq(t, 1, n)
  OBVIOUS
<1>2. p \in Seq(Token) /\ Len(p) = n /\ \A i \in 1 .. n : p[i] = t[i]
  BY <1>1
<1>3. n \in Nat /\ \A i \in 1 .. n : i \in 1 .. Len(t)
  OBVIOUS
<1>4. ASSUME NEW i \in 1 .. n, p[i] = Amp PROVE i < n /\ p[i + 1] \in EntityNames
  <2>1. t[i] = Amp /\ i # n
    BY <1>2, <1>4
  <2>2. i < n /\ i + 1 \in 1 .. n
    BY <1>3, <2>1
  <2>3. t[i + 1] \in EntityNames
    BY <1>3, <2>1, Zenon DEF WholeEntities
  <2> QED BY <1>2, <2>2, <2>3, Zenon
<1>5. ASSUME NEW i \in 1 .. n, p[i] \in EntityNames PROVE i > 1 /\ p[i - 1] = Amp
  <2>1. i > 1 /\ t[i - 1] = Amp
    BY <1>2, <1>3, <1>5, Zenon DEF WholeEntities
  <2>2. i - 1 \in 1 .. n
    BY <2>1
  <2> QED BY <1>2, <2>1, <2>2, Zenon
<1> QED BY <1>1, <1>2, <1>4, <1>5, Zenon DEF WholeEntities

\* What is read of nothing and of a token that is no part of an entity.
LEMMA ReadOne ==
  ASSUME NEW x \in Token, x # Amp, x \notin EntityNames
  PROVE  /\ WholeEntities(<< >>) /\ Read(<< >>) = << >>
         /\ WholeEntities(<<x>>) /\ Read(<<x>>) = <<x>>
<1>1. WholeEntities(<< >>)
  <2>1. 1 .. Len(<< >>) = {}
    OBVIOUS
  <2> QED BY <2>1, Zenon DEF WholeEntities
<1>2. Read(<< >>) = << >>
  <2>1. [i \in DOMAIN << >> |-> ReadPart(<< >>, i)] = << >>
    OBVIOUS
  <2>2. Read(<< >>) = FlattenSeq([i \in DOMAIN << >> |-> ReadPart(<< >>, i)])
    BY Zenon DEF Read, ReadPart
  <2>3. FlattenSeq(<< >>) = << >>
    BY DEF FlattenSeq
  <2> QED BY <2>1, <2>2, <2>3, Zenon
<1>3. PICK t : t = <<x>>
  OBVIOUS
<1>4. t \in Seq(Token) /\ Len(t) = 1 /\ t[1] = x
  BY <1>3
<1>5. WholeEntities(t)
  <2>1. \A i \in 1 .. Len(t) : i = 1
    BY <1>4
  <2>2. \A i \in 1 .. Len(t) : t[i] # Amp /\ t[i] \notin EntityNames
    BY <1>4, <2>1, Zenon
  <2> QED BY <2>2, Zenon DEF WholeEntities
<1>6. Read(t) = <<x>>
  <2>1. Read(t) = FlattenSeq([i \in 1 .. Len(t) |-> ReadPart(t, i)])
    BY <1>4, <1>5, ReadInParts
  <2>2. ReadPart(t, 1) = <<x>>
    BY <1>4, Zenon DEF ReadPart
  <2>3. [i \in 1 .. 1 |-> ReadPart(t, i)] = <<ReadPart(t, 1)>>
    OBVIOUS
  <2>4. FlattenSeq(<<<<x>>>>) = <<x>>
    <3>1. <<x>> \in Seq(Token)
      OBVIOUS
    <3> QED BY <3>1, FlattenFew
  <2> QED BY <1>4, <2>1, <2>2, <2>3, <2>4, Zenon
<1> QED BY <1>1, <1>2, <1>3, <1>5, <1>6, Zenon

\* An entity is read as the character it stands for.
LEMMA ReadEntity ==
  ASSUME NEW j \in 1 .. 4, Word(Entities[j][1]) \in Token
  PROVE  LET entity == <<Amp, Word(Entities[j][1])>>
         IN  WholeEntities(entity) /\ Read(entity) = <<Entities[j][2]>>
<1>1. PICK w, by : w = Word(Entities[j][1]) /\ by = Entities[j][2]
  OBVIOUS
<1>2. /\ w \in Token /\ w \in EntityNames /\ w # Amp /\ Character(w) = by
      /\ by \in Token /\ Amp \in Token /\ Amp \notin EntityNames
  BY <1>1, NameFacts, EntityFacts, TokenFacts, Zenon
<1>3. PICK t : t = <<Amp, w>>
  OBVIOUS
<1>4. t \in Seq(Token) /\ Len(t) = 2 /\ t[1] = Amp /\ t[2] = w
  BY <1>2, <1>3
<1>5. WholeEntities(t)
  <2>1. /\ \A i \in 1 .. Len(t) : i = 1 \/ i = 2
        /\ 1 < 2 /\ 2 > 1 /\ 1 + 1 = 2 /\ 2 - 1 = 1
    BY <1>4
  <2> QED BY <1>2, <1>4, <2>1, Zenon DEF WholeEntities
<1>6. Read(t) = <<by>>
  <2>1. Read(t) = FlattenSeq([i \in 1 .. Len(t) |-> ReadPart(t, i)])
    BY <1>4, <1>5, ReadInParts
  <2>2. 1 + 1 = 2 /\ 2 - 1 = 1 /\ 2 # 1
    OBVIOUS
  <2>3. ReadPart(t, 1) = <<by>>
    BY <1>2, <1>4, <2>2, Zenon DEF ReadPart
  <2>4. ReadPart(t, 2) = << >>
    BY <1>2, <1>4, <2>2, Zenon DEF ReadPart
  <2>5. [i \in 1 .. 2 |-> ReadPart(t, i)] = <<ReadPart(t, 1), ReadPart(t, 2)>>
    OBVIOUS
  <2>6. FlattenSeq(<<<<by>>, << >>>>) = <<by>>
    <3>1. <<by>> \in Seq(Token) /\ << >> \in Seq(Token)
      BY <1>2
    <3>2. FlattenSeq(<<<<by>>, << >>>>) = <<by>> \o << >>
      BY <3>1, FlattenFew
    <3>3. <<by>> \o << >> = <<by>>
      BY <3>1, ConcatEmptySeq
    <3> QED BY <3>2, <3>3
  <2> QED BY <1>4, <2>1, <2>3, <2>4, <2>5, <2>6, Zenon
<1> QED BY <1>1, <1>3, <1>5, <1>6, Zenon

\* What is decoded never begins with a name unless the text did.
LEMMA DecodedHeads ==
  ASSUME NEW k \in 0 .. 3, NEW x \in Token, x \notin EntityNames,
         NEW j \in 1 .. 4, Word(Entities[j][1]) \in Token
  PROVE  /\ Decoded(k, <<x>>)[1] \notin EntityNames
         /\ Decoded(k, <<Amp, Word(Entities[j][1])>>)[1] \notin EntityNames
<1>1. k \in 0 .. 4
  OBVIOUS
<1>2. Decoded(k, <<x>>)[1] \notin EntityNames
  <2>1. Decoded(k, <<x>>) = <<x>>
    BY <1>1, DecodedFew
  <2> QED BY <2>1
<1>3. Decoded(k, <<Amp, Word(Entities[j][1])>>)[1] \notin EntityNames
  <2>1. PICK w, by : w = Word(Entities[j][1]) /\ by = Entities[j][2]
    OBVIOUS
  <2>2. Decoded(k, <<Amp, w>>) \in {<<Amp, w>>, <<by>>}
    BY <1>1, <2>1, DecodedEntity
  <2>3. Amp \notin EntityNames /\ by \notin EntityNames
    BY <2>1, NameFacts, EntityFacts, Zenon
  <2>4. <<Amp, w>>[1] = Amp /\ <<by>>[1] = by
    OBVIOUS
  <2> QED BY <2>1, <2>2, <2>3, <2>4, Zenon
<1> QED BY <1>2, <1>3

\* Where entities are whole, replacing one kind after the other reads each once: none
\* is made of what another stood for (decode_common_entities()).
LEMMA DecodedRead ==
  ASSUME NEW t \in Seq(Token), WholeEntities(t)
  PROVE  Decoded(4, t) = Read(t)
<1> DEFINE N == Len(t)
           Upto(m) == Decoded(4, SubSeq(t, 1, m)) = Read(SubSeq(t, 1, m))
           T == {n \in 0 .. N : IF n > 0 /\ t[n] = Amp THEN Upto(n - 1) ELSE Upto(n)}
<1>1. N \in Nat /\ SubSeq(t, 1, N) = t /\ SubSeq(t, 1, 0) = << >>
      /\ \A n \in 1 .. N : t[n] \in Token
  OBVIOUS
<1> HIDE DEF N
<1>2. 0 \in T
  <2>1. Decoded(4, << >>) = << >>
    <3>1. 4 \in 0 .. 4 /\ Space \in Token
      BY TokenFacts
    <3> QED BY <3>1, DecodedFew
  <2>2. Read(<< >>) = << >>
    <3>1. Space \in Token /\ Space # Amp /\ Space \notin EntityNames
      <4>1. "space" # "word"
        OBVIOUS
      <4>2. \A a, b, c, d : <<a, b>> = <<c, d>> => a = c
        OBVIOUS
      <4>3. Space # Amp
        BY <4>1, <4>2, Zenon DEF Space, Amp
      <4> QED BY <4>3, TokenFacts, NameFacts, Zenon
    <3> QED BY <3>1, ReadOne
  <2>3. 0 \in 0 .. N /\ ~(0 > 0)
    BY <1>1
  <2> QED BY <1>1, <2>1, <2>2, <2>3, Zenon
<1>3. ASSUME NEW n \in 1 .. N, n - 1 \in T PROVE n \in T
  <2>0. n \in 0 .. N /\ n > 0 /\ n \in 1 .. Len(t) /\ n - 1 \in 0 .. N
    BY <1>1 DEF N
  <2>1. CASE t[n] = Amp
    <3>1. ASSUME n - 1 > 0 PROVE t[n - 1] # Amp
      <4>1. n - 1 \in 1 .. Len(t) /\ (n - 1) + 1 = n
        BY <2>0, <3>1
      <4>2. t[n - 1] = Amp => t[n] \in EntityNames
        BY <4>1, Zenon DEF WholeEntities
      <4> QED BY <2>1, <4>2, NameFacts, Zenon
    <3>2. Upto(n - 1)
      BY <1>3, <3>1
    <3> QED BY <2>0, <2>1, <3>2
  <2>2. CASE t[n] # Amp
    <3> DEFINE All == SubSeq(t, 1, n)
    <3>1. ASSUME NEW m \in 0 .. n, NEW unit \in Seq(Token), SubSeq(t, 1, n) = SubSeq(t, 1, m) \o unit,
                 m = 0 \/ t[m] # Amp, Upto(m),
                 WholeEntities(unit), Decoded(4, unit) = Read(unit),
                 \A k \in 0 .. 3 : Decoded(k, unit) # << >> => Decoded(k, unit)[1] \notin EntityNames
          PROVE  n \in T
      <4>1. m \in 0 .. Len(t)
        BY <2>0
      <4>2. PICK s : s = SubSeq(t, 1, m)
        OBVIOUS
      <4>3. s \in Seq(Token) /\ WholeEntities(s)
        BY <3>1, <4>1, <4>2, WholePrefix
      <4>4. Decoded(4, s \o unit) = Decoded(4, s) \o Decoded(4, unit)
        BY <3>1, <4>3, DecodedConcat
      <4>5. Read(s \o unit) = Read(s) \o Read(unit)
        BY <3>1, <4>3, ReadConcat
      <4>6. Decoded(4, s) = Read(s)
        BY <3>1, <4>2
      <4>7. Upto(n)
        BY <3>1, <4>2, <4>4, <4>5, <4>6, Zenon
      <4> QED BY <2>0, <2>2, <4>7
    <3>2. CASE n - 1 > 0 /\ t[n - 1] = Amp
      <4>1. n - 1 \in 1 .. Len(t) /\ (n - 1) + 1 = n /\ n - 2 \in 0 .. n
        BY <2>0, <3>2
      <4>2. t[n] \in EntityNames
        BY <3>2, <4>1, Zenon DEF WholeEntities
      <4>3. PICK j \in 1 .. 4 : t[n] = Word(Entities[j][1])
        BY <4>2, NameFacts, Zenon
      <4>4. PICK unit : unit = <<Amp, t[n]>>
        OBVIOUS
      <4>5. Word(Entities[j][1]) \in Token /\ unit \in Seq(Token)
        BY <1>1, <4>3, <4>4, TokenFacts
      <4>6. SubSeq(t, 1, n) = SubSeq(t, 1, n - 2) \o unit
        BY <2>0, <3>2, <4>1, <4>4
      <4>7. n - 2 = 0 \/ t[n - 2] # Amp
        <5>1. ASSUME n - 2 # 0, t[n - 2] = Amp PROVE FALSE
          <6>1. n - 2 \in 1 .. Len(t) /\ (n - 2) + 1 = n - 1
            BY <2>0, <3>2, <5>1
          <6>2. t[n - 1] \in EntityNames
            BY <5>1, <6>1, Zenon DEF WholeEntities
          <6> QED BY <3>2, <6>2, NameFacts, Zenon
        <5> QED BY <5>1
      <4>8. Upto(n - 2)
        <5>1. Upto((n - 1) - 1)
          BY <1>3, <3>2
        <5>2. (n - 1) - 1 = n - 2
          BY <2>0
        <5> QED BY <5>1, <5>2, Zenon
      <4>9. WholeEntities(unit) /\ Read(unit) = <<Entities[j][2]>>
        BY <4>3, <4>4, <4>5, ReadEntity, Zenon
      <4>10. Decoded(4, unit) = <<Entities[j][2]>>
        <5>1. 4 \in 0 .. 4 /\ ~(4 < j)
          OBVIOUS
        <5> QED BY <4>3, <4>4, <4>5, <5>1, DecodedEntity, Zenon
      <4>11. \A k \in 0 .. 3 : Decoded(k, unit)[1] \notin EntityNames
        <5>1. Space \in Token /\ Space \notin EntityNames
          BY TokenFacts, NameFacts
        <5> QED BY <4>3, <4>4, <4>5, <5>1, DecodedHeads, Zenon
      <4> QED BY <3>1, <4>1, <4>5, <4>6, <4>7, <4>8, <4>9, <4>10, <4>11, Zenon
    <3>3. CASE ~(n - 1 > 0 /\ t[n - 1] = Amp)
      <4>1. t[n] \notin EntityNames
        <5>1. ASSUME t[n] \in EntityNames PROVE FALSE
          <6>1. n > 1 /\ t[n - 1] = Amp
            BY <2>0, <5>1, Zenon DEF WholeEntities
          <6> QED BY <2>0, <3>3, <6>1
        <5> QED BY <5>1
      <4>2. PICK unit : unit = <<t[n]>>
        OBVIOUS
      <4>3. unit \in Seq(Token)
        BY <1>1, <4>2
      <4>4. SubSeq(t, 1, n) = SubSeq(t, 1, n - 1) \o unit
        BY <2>0, <4>2
      <4>5. Upto(n - 1)
        BY <1>3, <3>3
      <4>6. WholeEntities(unit) /\ Read(unit) = <<t[n]>>
        BY <1>1, <2>2, <4>1, <4>2, ReadOne
      <4>7. \A k \in 0 .. 4 : Decoded(k, unit) = <<t[n]>>
        BY <1>1, <4>2, DecodedFew
      <4>8. 4 \in 0 .. 4 /\ \A k \in 0 .. 3 : k \in 0 .. 4
        OBVIOUS
      <4>9. <<t[n]>>[1] = t[n]
        OBVIOUS
      <4>10. n - 1 \in 0 .. n /\ (n - 1 = 0 \/ t[n - 1] # Amp)
        BY <2>0, <3>3
      <4> QED BY <3>1, <4>1, <4>3, <4>4, <4>5, <4>6, <4>7, <4>8, <4>9, <4>10, Zenon
    <3> QED BY <3>2, <3>3
  <2> QED BY <2>1, <2>2
<1>4. N \in T
  <2> HIDE DEF T
  <2>1. \A n \in 0 .. N : n \in T
    BY <1>1, <1>2, <1>3, AllNumbers
  <2> QED BY <1>1, <2>1
<1>5. Upto(N)
  <2>1. N > 0 => t[N] # Amp
    <3>1. N > 0 => N \in 1 .. Len(t) /\ ~(N < Len(t))
      BY <1>1 DEF N
    <3> QED BY <3>1, Zenon DEF WholeEntities
  <2> QED BY <1>4, <2>1
<1> QED BY <1>1, <1>5

-----------------------------------------------------------------------------
(* Texts that look the same *)

\* There is something in it; it ends in a space that shows once something follows.
Words(s) == \E k \in 1 .. Len(s) : s[k] # Space
Pending(s) == Words(s) /\ s[Len(s)] = Space

CollapsePart(tokens, i) ==
  CASE tokens[i] = Space -> << >>
    [] tokens[i] # Space /\ (\E k \in 1 .. i - 1 : tokens[k] # Space) /\ tokens[i - 1] = Space ->
         <<Space, tokens[i]>>
    [] OTHER -> <<tokens[i]>>

\* Collapsing is done token by token.
LEMMA CollapsedInParts ==
  ASSUME NEW tokens \in Seq(Token)
  PROVE  /\ Collapsed(tokens) = FlattenSeq([i \in 1 .. Len(tokens) |-> CollapsePart(tokens, i)])
         /\ [i \in 1 .. Len(tokens) |-> CollapsePart(tokens, i)] \in Seq(Seq(Token))
<1>1. DOMAIN tokens = 1 .. Len(tokens)
  OBVIOUS
<1>2. Collapsed(tokens) = FlattenSeq([i \in 1 .. Len(tokens) |-> CollapsePart(tokens, i)])
  BY <1>1, Zenon DEF Collapsed, CollapsePart
<1>3. ASSUME NEW i \in 1 .. Len(tokens) PROVE CollapsePart(tokens, i) \in Seq(Token)
  <2>1. /\ <<Space, tokens[i]>> \in Seq(Token) /\ << >> \in Seq(Token) /\ <<tokens[i]>> \in Seq(Token)
    BY TokenFacts
  <2> QED BY <2>1, Zenon DEF CollapsePart
<1> QED BY <1>2, <1>3

\* What one more token does to a collapsed text.
LEMMA CollapsedAppend ==
  ASSUME NEW s \in Seq(Token), NEW x \in Token
  PROVE  /\ x = Space => Collapsed(s \o <<x>>) = Collapsed(s)
         /\ x # Space /\ Pending(s) => Collapsed(s \o <<x>>) = Collapsed(s) \o <<Space, x>>
         /\ x # Space /\ ~Pending(s) => Collapsed(s \o <<x>>) = Collapsed(s) \o <<x>>
         /\ Words(s \o <<x>>) <=> Words(s) \/ x # Space
         /\ Pending(s \o <<x>>) <=> x = Space /\ Words(s)
<1>0. Len(s) \in Nat /\ <<x>> \in Seq(Token) /\ Space \in Token
  BY TokenFacts
<1>0a. PICK m \in Nat : m = Len(s)
  BY <1>0
<1>0b. PICK sx : sx = s \o <<x>>
  OBVIOUS
<1>1. /\ sx \in Seq(Token) /\ Len(sx) = m + 1 /\ sx[m + 1] = x
      /\ \A i \in 1 .. m : sx[i] = s[i]
  BY <1>0, <1>0a, <1>0b
<1> DEFINE Part == CollapsePart(sx, m + 1)
           f == [i \in 1 .. m |-> CollapsePart(s, i)]
           g == <<Part>>
           h == [i \in 1 .. m + 1 |-> CollapsePart(sx, i)]
<1>2. ASSUME NEW i \in 1 .. m PROVE CollapsePart(sx, i) = CollapsePart(s, i)
  <2>1. sx[i] = s[i]
    BY <1>1
  <2>2. \A k \in 1 .. i - 1 : k \in 1 .. m
    OBVIOUS
  <2>3. (\E k \in 1 .. i - 1 : sx[k] # Space) /\ sx[i - 1] = Space
          <=> (\E k \in 1 .. i - 1 : s[k] # Space) /\ s[i - 1] = Space
    <3>1. CASE i = 1
      <4>1. 1 .. i - 1 = {}
        BY <3>1
      <4> QED BY <4>1, Zenon
    <3>2. CASE i # 1
      <4>1. i - 1 \in 1 .. m
        BY <3>2
      <4> QED BY <1>1, <2>2, <4>1, Zenon
    <3> QED BY <3>1, <3>2
  <2> QED BY <2>1, <2>3, Zenon DEF CollapsePart
<1>3. /\ f \in Seq(Seq(Token)) /\ h \in Seq(Seq(Token)) /\ g \in Seq(Seq(Token))
      /\ Part \in Seq(Token)
      /\ Len(f) = m /\ Len(h) = m + 1 /\ Len(g) = 1
      /\ Collapsed(s) = FlattenSeq(f) /\ Collapsed(sx) = FlattenSeq(h)
  <2>1. Len(f) = m /\ Len(h) = m + 1 /\ Len(g) = 1
    BY <1>1
  <2>2. f \in Seq(Seq(Token)) /\ Collapsed(s) = FlattenSeq(f)
    BY <1>0a, CollapsedInParts
  <2>3. h \in Seq(Seq(Token)) /\ Collapsed(sx) = FlattenSeq(h)
    BY <1>1, CollapsedInParts
  <2>4. Part \in Seq(Token)
    <3>1. h[m + 1] = Part
      OBVIOUS
    <3> HIDE DEF h, Part
    <3> QED BY <2>1, <2>3, <3>1
  <2>5. g \in Seq(Seq(Token))
    <3> HIDE DEF Part
    <3> QED BY <2>4
  <2> QED BY <2>1, <2>2, <2>3, <2>4, <2>5, Zenon
<1>4. /\ \A i \in 1 .. m : h[i] = f[i]
      /\ \A i \in 1 .. 1 : h[m + i] = g[i]
  <2>1. \A i \in 1 .. m : i \in 1 .. m + 1
    OBVIOUS
  <2>2. \A i \in 1 .. 1 : i = 1
    OBVIOUS
  <2>3. h[m + 1] = g[1]
    OBVIOUS
  <2>4. \A i \in 1 .. m : h[i] = f[i]
    BY <1>2, <2>1
  <2> QED BY <2>2, <2>3, <2>4, Zenon
<1>5. FlattenSeq(g) = Part
  BY <1>3, FlattenFew
<1> HIDE DEF f, g, h, Part
<1>6. Collapsed(sx) = Collapsed(s) \o Part
  <2>1. /\ Len(h) = Len(f) + Len(g)
        /\ \A i \in 1 .. Len(f) : h[i] = f[i]
        /\ \A i \in 1 .. Len(g) : h[Len(f) + i] = g[i]
    BY <1>3, <1>4, Zenon
  <2>2. FlattenSeq(h) = FlattenSeq(f) \o FlattenSeq(g)
    BY <1>3, <2>1, PartsJoin, Zenon
  <2> QED BY <1>3, <1>5, <2>2, Zenon
<1>7. (m + 1) - 1 = m
  OBVIOUS
<1>8. Words(s) <=> \E k \in 1 .. m : sx[k] # Space
  BY <1>0a, <1>1, Zenon DEF Words
<1>9. Pending(s) <=> Words(s) /\ sx[m] = Space
  <2>1. Words(s) => m \in 1 .. m
    BY <1>0a DEF Words
  <2> QED BY <1>0a, <1>1, <2>1, Zenon DEF Pending
<1>10. x = Space => Collapsed(sx) = Collapsed(s)
  <2>1. x = Space => Part = << >>
    BY <1>1, Zenon DEF Part, CollapsePart
  <2>2. Collapsed(s) \o << >> = Collapsed(s)
    BY CollapsedIsNormal, ConcatEmptySeq
  <2> QED BY <1>6, <2>1, <2>2, Zenon
<1>11. x # Space /\ Pending(s) => Part = <<Space, x>>
  BY <1>1, <1>7, <1>8, <1>9, Zenon DEF Part, CollapsePart
<1>12. x # Space /\ ~Pending(s) => Part = <<x>>
  BY <1>1, <1>7, <1>8, <1>9, Zenon DEF Part, CollapsePart
<1>13. Words(sx) <=> Words(s) \/ x # Space
  <2>1. \A k \in 1 .. m + 1 : k = m + 1 \/ k \in 1 .. m
    OBVIOUS
  <2>2. m + 1 \in 1 .. m + 1 /\ \A k \in 1 .. m : k \in 1 .. m + 1
    OBVIOUS
  <2>3. Words(sx) <=> \E k \in 1 .. m + 1 : sx[k] # Space
    BY <1>1, Zenon DEF Words
  <2> QED BY <1>1, <1>8, <2>1, <2>2, <2>3, Zenon
<1>14. Pending(sx) <=> x = Space /\ Words(s)
  BY <1>1, <1>13, Zenon DEF Pending
<1> QED BY <1>0b, <1>6, <1>10, <1>11, <1>12, <1>13, <1>14, Zenon

\* They collapse to the same, and so does what follows them.
Same(s, t) ==
  Collapsed(s) = Collapsed(t) /\ (Words(s) <=> Words(t)) /\ (Pending(s) <=> Pending(t))

\* One token behind texts that look the same.
LEMMA SameAppend ==
  ASSUME NEW s \in Seq(Token), NEW t \in Seq(Token), Same(s, t), NEW x \in Token
  PROVE  Same(s \o <<x>>, t \o <<x>>)
<1>1. PICK sx, tx : sx = s \o <<x>> /\ tx = t \o <<x>>
  OBVIOUS
<1>2. /\ x = Space => Collapsed(sx) = Collapsed(s)
      /\ x # Space /\ Pending(s) => Collapsed(sx) = Collapsed(s) \o <<Space, x>>
      /\ x # Space /\ ~Pending(s) => Collapsed(sx) = Collapsed(s) \o <<x>>
      /\ Words(sx) <=> Words(s) \/ x # Space
      /\ Pending(sx) <=> x = Space /\ Words(s)
  BY <1>1, CollapsedAppend, Zenon
<1>3. /\ x = Space => Collapsed(tx) = Collapsed(t)
      /\ x # Space /\ Pending(t) => Collapsed(tx) = Collapsed(t) \o <<Space, x>>
      /\ x # Space /\ ~Pending(t) => Collapsed(tx) = Collapsed(t) \o <<x>>
      /\ Words(tx) <=> Words(t) \/ x # Space
      /\ Pending(tx) <=> x = Space /\ Words(t)
  BY <1>1, CollapsedAppend, Zenon
<1>4. Collapsed(s) = Collapsed(t) /\ (Words(s) <=> Words(t)) /\ (Pending(s) <=> Pending(t))
  BY DEF Same
<1>5. Collapsed(sx) = Collapsed(tx)
  <2>1. CASE x = Space
    BY <1>2, <1>3, <1>4, <2>1, Zenon
  <2>2. CASE x # Space /\ Pending(s)
    BY <1>2, <1>3, <1>4, <2>2, Zenon
  <2>3. CASE x # Space /\ ~Pending(s)
    BY <1>2, <1>3, <1>4, <2>3, Zenon
  <2> QED BY <2>1, <2>2, <2>3
<1>6. (Words(sx) <=> Words(tx)) /\ (Pending(sx) <=> Pending(tx))
  BY <1>2, <1>3, <1>4, Zenon
<1> QED BY <1>1, <1>5, <1>6, Zenon DEF Same

\* The same text behind texts that look the same.
LEMMA SameConcat ==
  ASSUME NEW s \in Seq(Token), NEW t \in Seq(Token), Same(s, t), NEW u \in Seq(Token)
  PROVE  Same(s \o u, t \o u)
<1> DEFINE N == Len(u)
           Pre(n) == SubSeq(u, 1, n)
           T == {n \in 0 .. N : Same(s \o Pre(n), t \o Pre(n))}
<1>1. /\ N \in Nat /\ Pre(0) = << >> /\ Pre(N) = u
      /\ \A n \in 0 .. N : Pre(n) \in Seq(Token)
      /\ \A n \in 1 .. N : u[n] \in Token /\ Pre(n) = Pre(n - 1) \o <<u[n]>>
  OBVIOUS
<1> HIDE DEF N, Pre
<1>2. 0 \in T
  <2>1. 0 \in 0 .. N /\ s \o << >> = s /\ t \o << >> = t
    BY <1>1, ConcatEmptySeq
  <2> QED BY <1>1, <2>1, Zenon
<1>3. ASSUME NEW n \in 1 .. N, n - 1 \in T PROVE n \in T
  <2>1. n \in 0 .. N /\ n - 1 \in 0 .. N
    BY <1>1
  <2>2. PICK p, x : p = Pre(n - 1) /\ x = u[n]
    OBVIOUS
  <2>3. p \in Seq(Token) /\ x \in Token /\ <<x>> \in Seq(Token) /\ Pre(n) = p \o <<x>>
    <3>1. Pre(n - 1) \in Seq(Token) /\ u[n] \in Token /\ Pre(n) = Pre(n - 1) \o <<u[n]>>
      BY <1>1, <2>1
    <3>2. p \in Seq(Token) /\ x \in Token /\ Pre(n) = p \o <<x>>
      BY <2>2, <3>1, Zenon
    <3>3. <<x>> \in Seq(Token)
      BY <3>2
    <3> QED BY <3>2, <3>3
  <2>4. /\ s \o p \in Seq(Token) /\ t \o p \in Seq(Token)
        /\ s \o (p \o <<x>>) = (s \o p) \o <<x>>
        /\ t \o (p \o <<x>>) = (t \o p) \o <<x>>
    <3>1. s \o p \in Seq(Token) /\ t \o p \in Seq(Token)
      BY <2>3, ConcatProperties
    <3>2. s \o (p \o <<x>>) = (s \o p) \o <<x>>
      BY <2>3, TokensMove, Zenon
    <3>3. t \o (p \o <<x>>) = (t \o p) \o <<x>>
      BY <2>3, TokensMove, Zenon
    <3> QED BY <3>1, <3>2, <3>3, Zenon
  <2>5. Same(s \o p, t \o p)
    BY <1>3, <2>2
  <2>6. Same((s \o p) \o <<x>>, (t \o p) \o <<x>>)
    BY <2>3, <2>4, <2>5, SameAppend
  <2> QED BY <2>1, <2>3, <2>4, <2>6, Zenon
<1>4. N \in T
  <2> HIDE DEF T
  <2>1. \A n \in 0 .. N : n \in T
    BY <1>1, <1>2, <1>3, AllNumbers
  <2> QED BY <1>1, <2>1
<1> QED BY <1>1, <1>4

\* The kinds of the tokens that the model names.
LEMMA TokenKinds ==
  /\ Space[1] = "space" /\ Amp[1] = "word" /\ Lt[1] = "mark" /\ Gt[1] = "mark"
  /\ \A w : Word(w)[1] = "word" /\ Opening(w)[1] = "opening" /\ Closing(w)[1] = "closing"
  /\ \A v, w : (Opening(v) = Opening(w) <=> v = w) /\ (Closing(v) = Closing(w) <=> v = w)
  /\ \A v, w : Closing(v) # Opening(w)
  /\ Lt # Gt
  /\ "word" # "opening" /\ "word" # "closing" /\ "word" # "mark" /\ "word" # "space"
  /\ "space" # "opening" /\ "space" # "closing" /\ "space" # "mark"
  /\ "mark" # "opening" /\ "mark" # "closing" /\ "opening" # "closing"
<1>1. \A a, b : <<a, b>>[1] = a
  OBVIOUS
<1>2. \A a, b, c, d : <<a, b>> = <<c, d>> <=> a = c /\ b = d
  OBVIOUS
<1>3. /\ "word" # "opening" /\ "word" # "closing" /\ "word" # "mark" /\ "word" # "space"
      /\ "space" # "opening" /\ "space" # "closing" /\ "space" # "mark"
      /\ "mark" # "opening" /\ "mark" # "closing" /\ "opening" # "closing"
      /\ "<" # ">"
  OBVIOUS
<1>4. Space[1] = "space" /\ Amp[1] = "word" /\ Lt[1] = "mark" /\ Gt[1] = "mark"
  BY <1>1, Zenon DEF Space, Amp, Lt, Gt
<1>5. \A w : Word(w)[1] = "word" /\ Opening(w)[1] = "opening" /\ Closing(w)[1] = "closing"
  BY <1>1, Zenon DEF Word, Opening, Closing
<1>6. \A v, w : (Opening(v) = Opening(w) <=> v = w) /\ (Closing(v) = Closing(w) <=> v = w)
  BY <1>2, Zenon DEF Opening, Closing
<1>7. Lt # Gt
  BY <1>2, <1>3, Zenon DEF Lt, Gt
<1>8. \A v, w : Closing(v) # Opening(w)
  BY <1>2, <1>3, Zenon DEF Opening, Closing
<1> QED BY <1>3, <1>4, <1>5, <1>6, <1>7, <1>8, Zenon

\* One space or more and nothing else.
Spaces(sp) == sp \in Seq(Token) /\ sp # << >> /\ \A i \in 1 .. Len(sp) : sp[i] = Space

\* Spaces behind a text only set apart what follows.
LEMMA SpacesAppend ==
  ASSUME NEW s \in Seq(Token), NEW sp, Spaces(sp)
  PROVE  /\ Collapsed(s \o sp) = Collapsed(s)
         /\ Words(s \o sp) <=> Words(s)
         /\ Pending(s \o sp) <=> Words(s)
<1> DEFINE N == Len(sp)
           Pre(n) == SubSeq(sp, 1, n)
           Good(n) == Collapsed(s \o Pre(n)) = Collapsed(s) /\ (Words(s \o Pre(n)) <=> Words(s))
           T == {n \in 0 .. N : Good(n)}
<1>0. sp \in Seq(Token) /\ sp # << >> /\ \A i \in 1 .. Len(sp) : sp[i] = Space
  BY DEF Spaces
<1>1. /\ N \in Nat /\ N \in 1 .. N /\ Pre(0) = << >> /\ Pre(N) = sp
      /\ \A n \in 0 .. N : Pre(n) \in Seq(Token)
      /\ \A n \in 1 .. N : Pre(n) = Pre(n - 1) \o <<Space>>
  BY <1>0
<1>1a. Space \in Token /\ <<Space>> \in Seq(Token)
  BY TokenFacts
<1> HIDE DEF N, Pre
<1>2. 0 \in T
  <2>1. 0 \in 0 .. N /\ s \o << >> = s
    BY <1>1, ConcatEmptySeq
  <2> QED BY <1>1, <2>1, Zenon
<1>3. ASSUME NEW n \in 1 .. N, Good(n - 1)
      PROVE  Good(n) /\ (Pending(s \o Pre(n)) <=> Words(s))
  <2>1. n - 1 \in 0 .. N
    BY <1>1
  <2>2. PICK p : p = Pre(n - 1)
    OBVIOUS
  <2>3. p \in Seq(Token) /\ Pre(n) = p \o <<Space>>
    BY <1>1, <2>1, <2>2, Zenon
  <2>4. s \o p \in Seq(Token)
    BY <2>3, ConcatProperties
  <2>5. s \o (p \o <<Space>>) = (s \o p) \o <<Space>>
    BY <1>1a, <2>3, TokensMove, Zenon
  <2>6. PICK q \in Seq(Token) : q = s \o p
    BY <2>4
  <2>7. /\ Collapsed(q \o <<Space>>) = Collapsed(q)
        /\ Words(q \o <<Space>>) <=> Words(q)
        /\ Pending(q \o <<Space>>) <=> Words(q)
    BY <1>1a, CollapsedAppend, Zenon
  <2>8. Collapsed(q) = Collapsed(s) /\ (Words(q) <=> Words(s))
    BY <1>3, <2>2, <2>6, Zenon
  <2> QED BY <2>3, <2>5, <2>6, <2>7, <2>8, Zenon
<1>4. ASSUME NEW n \in 1 .. N, n - 1 \in T PROVE n \in T
  <2>1. n \in 0 .. N /\ Good(n - 1)
    BY <1>1, <1>4
  <2> QED BY <1>3, <2>1
<1>5. N - 1 \in T
  <2> HIDE DEF T
  <2>1. \A n \in 0 .. N : n \in T
    BY <1>1, <1>2, <1>4, AllNumbers
  <2>2. N - 1 \in 0 .. N
    BY <1>1
  <2> QED BY <2>1, <2>2
<1>6. Good(N) /\ (Pending(s \o Pre(N)) <=> Words(s))
  <2>1. Good(N - 1)
    BY <1>5
  <2> HIDE DEF Good
  <2> QED BY <1>1, <1>3, <2>1
<1> QED BY <1>1, <1>6

\* Spaces, however many, behind texts that look the same.
LEMMA SameSpaces ==
  ASSUME NEW s \in Seq(Token), NEW t \in Seq(Token), Same(s, t),
         NEW a, Spaces(a), NEW b, Spaces(b)
  PROVE  Same(s \o a, t \o b)
<1>1. /\ Collapsed(s \o a) = Collapsed(s)
      /\ Words(s \o a) <=> Words(s)
      /\ Pending(s \o a) <=> Words(s)
  BY SpacesAppend
<1>2. /\ Collapsed(t \o b) = Collapsed(t)
      /\ Words(t \o b) <=> Words(t)
      /\ Pending(t \o b) <=> Words(t)
  BY SpacesAppend
<1> QED BY <1>1, <1>2, Zenon DEF Same

\* Spaces are read as they are.
LEMMA SpacesRead ==
  ASSUME NEW sp, Spaces(sp)
  PROVE  WholeEntities(sp) /\ Read(sp) = sp
<1>1. sp \in Seq(Token) /\ \A i \in 1 .. Len(sp) : sp[i] = Space
  BY DEF Spaces
<1>2. Space # Amp /\ Space \notin EntityNames
  <2>1. Space # Amp
    BY TokenKinds, Zenon
  <2> QED BY <2>1, NameFacts, Zenon
<1>3. WholeEntities(sp)
  BY <1>1, <1>2, Zenon DEF WholeEntities
<1>4. ASSUME NEW i \in 1 .. Len(sp) PROVE ReadPart(sp, i) = <<sp[i]>>
  <2>1. i = 1 \/ i - 1 \in 1 .. Len(sp)
    BY <1>1
  <2>2. sp[i] # Amp
    BY <1>1, <1>2, Zenon
  <2>3. i = 1 \/ sp[i - 1] # Amp
    <3>1. CASE i = 1
      BY <3>1
    <3>2. CASE i - 1 \in 1 .. Len(sp)
      <4>1. sp[i - 1] = Space
        BY <1>1, <3>2, Zenon
      <4> QED BY <1>2, <4>1, Zenon
    <3> QED BY <2>1, <3>1, <3>2, Zenon
  <2> QED BY <2>2, <2>3, Zenon DEF ReadPart
<1>5. [i \in 1 .. Len(sp) |-> ReadPart(sp, i)] = [i \in 1 .. Len(sp) |-> <<sp[i]>>]
  BY <1>4, Zenon
<1>6. Read(sp) = FlattenSeq([i \in 1 .. Len(sp) |-> <<sp[i]>>])
  BY <1>1, <1>3, <1>5, ReadInParts, Zenon
<1>7. FlattenSeq([i \in 1 .. Len(sp) |-> <<sp[i]>>]) = sp
  BY <1>1, FlattenSingletons
<1> QED BY <1>3, <1>6, <1>7
-----------------------------------------------------------------------------
(* What stripping leaves of a piece *)

\* Text without markup stays what it is.
LEMMA PlainStripped ==
  ASSUME NEW x \in Seq(Token), NoMarkup(x)
  PROVE  Stripped(x) = x /\ Closed(x)
<1>1. ASSUME NEW i \in 1 .. Len(x)
      PROVE  x[i][1] # "opening" /\ x[i][1] # "closing" /\ x[i] # Lt /\ x[i] # Gt
  <2>1. x[i][1] = "word" \/ x[i][1] = "space"
    BY Zenon DEF NoMarkup
  <2> QED BY <2>1, TokenKinds, Zenon
<1>2. ASSUME NEW i \in 1 .. Len(x) PROVE StripPart(x, i) = <<x[i]>>
  <2>1. \A k \in 1 .. i - 1 : k \in 1 .. Len(x)
    OBVIOUS
  <2>2. ~Hidden(x, i)
    BY <1>1, <2>1, Zenon DEF Hidden
  <2> QED BY <1>1, <2>2, Zenon DEF StripPart
<1>3. [i \in 1 .. Len(x) |-> StripPart(x, i)] = [i \in 1 .. Len(x) |-> <<x[i]>>]
  BY <1>2, Zenon
<1>4. Stripped(x) = FlattenSeq([i \in 1 .. Len(x) |-> <<x[i]>>])
  BY <1>3, StrippedInParts, Zenon
<1>5. FlattenSeq([i \in 1 .. Len(x) |-> <<x[i]>>]) = x
  BY FlattenSingletons
<1>6. Closed(x)
  BY <1>1, Zenon DEF Closed
<1> QED BY <1>4, <1>5, <1>6, Zenon

\* What reaches from a "<" to the first ">" becomes spaces.
LEMMA MarkStripped ==
  ASSUME NEW x \in Seq(Token), NEW n \in Nat, n = Len(x), n > 1,
         x[1][1] = "opening" \/ x[1] = Lt, x[n] = Gt,
         \A i \in 2 .. n - 1 : x[i][1] # "closing" /\ x[i] # Gt
  PROVE  Spaces(Stripped(x)) /\ Closed(x)
<1> DEFINE f == [i \in 1 .. Len(x) |-> StripPart(x, i)]
<1>0. /\ \A i \in 1 .. n : i = 1 \/ i = n \/ i \in 2 .. n - 1
      /\ 1 \in 1 .. n /\ n \in 1 .. n /\ 1 # n
  OBVIOUS
<1>1. Gt # Lt /\ Gt[1] # "opening" /\ Gt[1] # "closing" /\ Lt[1] # "closing"
      /\ "opening" # "closing"
  BY TokenKinds, Zenon
<1>2. StripPart(x, 1) = <<Space>>
  BY <1>1, Zenon DEF StripPart
<1>3. StripPart(x, n) = <<Space>>
  BY <1>1, Zenon DEF StripPart
<1>4. ASSUME NEW i \in 2 .. n - 1 PROVE StripPart(x, i) = <<Space>> \/ StripPart(x, i) = << >>
  <2>1. 1 \in 1 .. i - 1 /\ \A k \in 1 + 1 .. i - 1 : k \in 2 .. n - 1
    OBVIOUS
  <2>2. Hidden(x, i)
    BY <2>1, Zenon DEF Hidden
  <2> QED BY <2>2, Zenon DEF StripPart
<1>5. f \in Seq(Seq(Token)) /\ Stripped(x) = FlattenSeq(f) /\ Len(f) = n
      /\ \A i \in 1 .. n : f[i] = StripPart(x, i)
  <2>1. f \in Seq(Seq(Token)) /\ Stripped(x) = FlattenSeq(f)
    BY StrippedInParts
  <2> QED BY <2>1
<1> HIDE DEF f
<1>6. PICK w : w = FlattenSeq(f)
  OBVIOUS
<1>7. w \in Seq(Token)
  BY <1>5, <1>6, FlattenType
<1>8. ASSUME NEW i \in 1 .. n, NEW d \in 1 .. Len(f[i]) PROVE f[i][d] = Space
  <2>1. f[i] = <<Space>> \/ f[i] = << >>
    BY <1>0, <1>2, <1>3, <1>4, <1>5, Zenon
  <2>2. CASE f[i] = <<Space>>
    BY <2>2
  <2>3. CASE f[i] = << >>
    BY <2>3
  <2> QED BY <2>1, <2>2, <2>3
<1>9. ASSUME NEW h \in 1 .. Len(w) PROVE w[h] = Space
  <2>1. PICK i \in 1 .. Len(f) : h > Len(Flat(f, i - 1)) /\ h <= Len(Flat(f, i))
    BY <1>5, <1>6, PartAtFlat
  <2>2. PICK p : p = Len(Flat(f, i - 1))
    OBVIOUS
  <2>3. p \in Nat /\ Len(Flat(f, i)) = p + Len(f[i])
    <3>1. i - 1 \in 0 .. Len(f) /\ i \in 1 .. Len(f)
      BY <1>5
    <3> QED BY <1>5, <2>2, <3>1, FlatLengths
  <2>4. PICK d : d = h - p
    OBVIOUS
  <2>5. d \in 1 .. Len(f[i]) /\ h = p + d
    <3>1. f[i] \in Seq(Token)
      BY <1>5
    <3>2. PICK m, q : m = Len(f[i]) /\ q = Len(Flat(f, i))
      OBVIOUS
    <3>3. m \in Nat /\ h \in Nat
      <4>1. m \in Nat
        BY <3>1, <3>2
      <4>2. h \in Nat
        BY <1>7
      <4> QED BY <4>1, <4>2
    <3>4. h > p /\ h <= p + m
      BY <2>1, <2>2, <2>3, <3>2, Zenon
    <3>5. d \in 1 .. m /\ h = p + d
      BY <2>3, <2>4, <3>3, <3>4
    <3> QED BY <3>2, <3>5, Zenon
  <2>6. w[p + d] = f[i][d]
    <3>1. FlattenSeq(f)[Len(Flat(f, i - 1)) + d] = f[i][d]
      <4>1. f \in Seq(Seq(Token)) /\ i \in 1 .. Len(f) /\ d \in 1 .. Len(f[i])
        BY <1>5, <2>5, Zenon
      <4> QED BY <4>1, PartOfFlat
    <3> QED BY <1>6, <2>2, <3>1, Zenon
  <2>7. i \in 1 .. n
    BY <1>5
  <2> QED BY <1>8, <2>5, <2>6, <2>7, Zenon
<1>10. w # << >>
  <2>1. 1 \in 1 .. Len(f) /\ f[1] = <<Space>>
    BY <1>0, <1>2, <1>5
  <2>2. 1 \in 1 .. Len(f[1])
    BY <2>1
  <2>3. Len(Flat(f, 1 - 1)) + 1 \in 1 .. Len(FlattenSeq(f))
    BY <1>5, <2>1, <2>2, PartOfFlat, Zenon
  <2> QED BY <1>6, <1>7, <2>3
<1>11. Closed(x)
  <2> SUFFICES ASSUME NEW k \in 1 .. Len(x), x[k][1] = "opening" \/ x[k] = Lt
               PROVE  \E l \in k + 1 .. Len(x) : x[l][1] = "closing" \/ x[l] = Gt
    BY DEF Closed
  <2>1. k # n
    BY <1>1
  <2>2. n \in k + 1 .. Len(x)
    BY <2>1
  <2> QED BY <2>2
<1> QED BY <1>5, <1>6, <1>7, <1>9, <1>10, <1>11 DEF Spaces

\* So does a closing tag.
LEMMA ClosingStripped ==
  ASSUME NEW tag \in STRING
  PROVE  /\ <<Closing(tag)>> \in Seq(Token) /\ Spaces(Stripped(<<Closing(tag)>>))
         /\ Closed(<<Closing(tag)>>)
<1>1. PICK c : c = Closing(tag)
  OBVIOUS
<1>1a. PICK x : x = <<c>>
  OBVIOUS
<1>2. c \in Token /\ Space \in Token
  BY <1>1, TokenFacts
<1>3. x \in Seq(Token) /\ Len(x) = 1 /\ x[1] = c
  BY <1>1a, <1>2
<1>4. c[1] = "closing" /\ c[1] # "opening" /\ c # Lt /\ c # Gt
  BY <1>1, TokenKinds, Zenon
<1>5. Stripped(x) = <<Space, Space>>
  <2>1. Stripped(x) = FlattenSeq([i \in 1 .. Len(x) |-> StripPart(x, i)])
    BY <1>3, StrippedInParts
  <2>2. StripPart(x, 1) = <<Space, Space>>
    <3>1. x[1][1] = "closing" /\ x[1][1] # "opening" /\ x[1] # Lt /\ x[1] # Gt
      BY <1>3, <1>4, Zenon
    <3> QED BY <3>1, Zenon DEF StripPart
  <2>3. [i \in 1 .. 1 |-> StripPart(x, i)] = <<StripPart(x, 1)>>
    OBVIOUS
  <2>4. FlattenSeq(<<<<Space, Space>>>>) = <<Space, Space>>
    <3>1. <<Space, Space>> \in Seq(Token)
      BY <1>2
    <3> QED BY <3>1, FlattenFew
  <2> QED BY <1>3, <2>1, <2>2, <2>3, <2>4, Zenon
<1>6. Spaces(<<Space, Space>>)
  BY <1>2 DEF Spaces
<1>7. Closed(x)
  <2>1. \A k \in 1 .. Len(x) : x[k] = c
    BY <1>3
  <2> QED BY <1>4, <2>1, Zenon DEF Closed
<1> QED BY <1>1, <1>1a, <1>3, <1>5, <1>6, <1>7, Zenon

-----------------------------------------------------------------------------
(* What a piece becomes, and what it shows *)

\* Markup that, stripped and read, looks like the given text wherever it stands.
Fits(markup, shown) ==
  /\ markup \in Seq(Token) /\ shown \in Seq(Token) /\ Stripped(markup) \in Seq(Token)
  /\ Closed(markup) /\ WholeEntities(Stripped(markup)) /\ WholeEntities(shown)
  /\ \A s, t \in Seq(Token) :
       Same(s, t) => Same(s \o Read(Stripped(markup)), t \o Read(shown))

\* One such markup after another fits what both show.
LEMMA FitsConcat ==
  ASSUME NEW c, NEW v, NEW d, NEW w, Fits(c, v), Fits(d, w)
  PROVE  Fits(c \o d, v \o w)
<1>1. /\ c \in Seq(Token) /\ v \in Seq(Token) /\ Stripped(c) \in Seq(Token)
      /\ Closed(c) /\ WholeEntities(Stripped(c)) /\ WholeEntities(v)
  BY Zenon DEF Fits
<1>2. /\ d \in Seq(Token) /\ w \in Seq(Token) /\ Stripped(d) \in Seq(Token)
      /\ Closed(d) /\ WholeEntities(Stripped(d)) /\ WholeEntities(w)
  BY Zenon DEF Fits
<1>3. PICK x, y : x = Stripped(c) /\ y = Stripped(d)
  OBVIOUS
<1>4. x \in Seq(Token) /\ y \in Seq(Token) /\ WholeEntities(x) /\ WholeEntities(y)
  BY <1>1, <1>2, <1>3, Zenon
<1>5. c \o d \in Seq(Token) /\ v \o w \in Seq(Token) /\ x \o y \in Seq(Token)
  BY <1>1, <1>2, <1>4, ConcatProperties
<1>6. Stripped(c \o d) = x \o y
  BY <1>1, <1>2, <1>3, StrippedConcat, Zenon
<1>7. Closed(c \o d)
  BY <1>1, <1>2, ClosedConcat, Zenon
<1>8. WholeEntities(x \o y) /\ Read(x \o y) = Read(x) \o Read(y)
  BY <1>4, WholeConcat, ReadConcat, Zenon
<1>9. WholeEntities(v \o w) /\ Read(v \o w) = Read(v) \o Read(w)
  BY <1>1, <1>2, WholeConcat, ReadConcat, Zenon
<1>10. Read(x) \in Seq(Token) /\ Read(y) \in Seq(Token)
  BY <1>4, ReadType
<1>11. Read(v) \in Seq(Token) /\ Read(w) \in Seq(Token)
  BY <1>1, <1>2, ReadType
<1>12. ASSUME NEW s \in Seq(Token), NEW t \in Seq(Token), Same(s, t)
       PROVE  Same(s \o Read(x \o y), t \o Read(v \o w))
  <2>1. s \o Read(x) \in Seq(Token) /\ t \o Read(v) \in Seq(Token)
    BY <1>10, <1>11, ConcatProperties
  <2>2. Same(s \o Read(x), t \o Read(v))
    BY <1>3, <1>12, Zenon DEF Fits
  <2>3. Same((s \o Read(x)) \o Read(y), (t \o Read(v)) \o Read(w))
    BY <1>3, <2>1, <2>2, Zenon DEF Fits
  <2>4. (s \o Read(x)) \o Read(y) = s \o (Read(x) \o Read(y))
    BY <1>10, TokensMove, Zenon
  <2>5. (t \o Read(v)) \o Read(w) = t \o (Read(v) \o Read(w))
    BY <1>11, TokensMove, Zenon
  <2> QED BY <1>8, <1>9, <2>3, <2>4, <2>5, Zenon
<1> QED BY <1>5, <1>6, <1>7, <1>8, <1>9, <1>12, Zenon DEF Fits

\* Plain text fits itself.
LEMMA PlainFits ==
  ASSUME NEW x \in Seq(Token), NoMarkup(x), WholeEntities(x)
  PROVE  Fits(x, x)
<1>1. Stripped(x) = x /\ Closed(x)
  BY PlainStripped, Zenon
<1>2. Read(x) \in Seq(Token)
  BY ReadType
<1>3. \A s, t \in Seq(Token) : Same(s, t) => Same(s \o Read(x), t \o Read(x))
  BY <1>2, SameConcat, Zenon
<1> QED BY <1>1, <1>3, Zenon DEF Fits

\* Nothing fits nothing, and a space itself.
LEMMA FitsFew ==
  Fits(<< >>, << >>) /\ Fits(<<Space>>, <<Space>>) /\ Spaces(<<Space>>)
<1>1. Space \in Token /\ Space[1] = "space"
  BY TokenFacts, TokenKinds, Zenon
<1>2. PICK x : x = <<Space>>
  OBVIOUS
<1>3. x \in Seq(Token) /\ x # << >> /\ \A i \in 1 .. Len(x) : x[i] = Space
  BY <1>1, <1>2
<1>4. Spaces(x)
  BY <1>3 DEF Spaces
<1>5. NoMarkup(x)
  BY <1>1, <1>3, Zenon DEF NoMarkup
<1>6. WholeEntities(x)
  BY <1>4, SpacesRead, Zenon
<1>7. PICK y : y = << >>
  OBVIOUS
<1>8. y \in Seq(Token) /\ ~ \E i \in 1 .. Len(y) : TRUE
  BY <1>7
<1>9. NoMarkup(y) /\ WholeEntities(y)
  BY <1>8, Zenon DEF NoMarkup, WholeEntities
<1> QED BY <1>2, <1>3, <1>4, <1>5, <1>6, <1>7, <1>8, <1>9, PlainFits, Zenon

\* Markup of which spaces are left fits a space.
LEMMA SpacesFit ==
  ASSUME NEW x \in Seq(Token), Closed(x), Spaces(Stripped(x))
  PROVE  Fits(x, <<Space>>)
<1>1. PICK a, b : a = Stripped(x) /\ b = <<Space>>
  OBVIOUS
<1>2. Spaces(a) /\ Spaces(b)
  BY <1>1, FitsFew, Zenon
<1>3. WholeEntities(a) /\ Read(a) = a /\ WholeEntities(b) /\ Read(b) = b
  BY <1>2, SpacesRead, Zenon
<1>4. a \in Seq(Token) /\ b \in Seq(Token)
  BY <1>2, Zenon DEF Spaces
<1>5. \A s, t \in Seq(Token) : Same(s, t) => Same(s \o Read(a), t \o Read(b))
  BY <1>2, <1>3, SameSpaces, Zenon
<1> QED BY <1>1, <1>3, <1>4, <1>5, Zenon DEF Fits

\* The tokens of a tag fit a space.
LEMMA TagsFit ==
  ASSUME NEW tag \in STRING
  PROVE  /\ Fits(<<Opening(tag), Word("er"), Gt>>, <<Space>>)
         /\ Fits(<<Opening(tag), Space, Word("class"), Gt>>, <<Space>>)
         /\ Fits(<<Closing(tag)>>, <<Space>>)
<1>1. PICK o, e, c : o = Opening(tag) /\ e = Word("er") /\ c = Word("class")
  OBVIOUS
<1>2. o \in Token /\ e \in Token /\ c \in Token /\ Space \in Token /\ Gt \in Token
  BY <1>1, TokenFacts, Zenon
<1>3. /\ o[1] = "opening" /\ e[1] # "closing" /\ c[1] # "closing" /\ Space[1] # "closing"
      /\ e # Gt /\ c # Gt /\ Space # Gt
  BY <1>1, TokenKinds, Zenon
<1>4. PICK x : x = <<o, e, Gt>>
  OBVIOUS
<1>5. x \in Seq(Token) /\ Len(x) = 3 /\ x[1] = o /\ x[2] = e /\ x[3] = Gt
  BY <1>2, <1>4
<1>6. Fits(x, <<Space>>)
  <2>1. \A i \in 2 .. 3 - 1 : x[i][1] # "closing" /\ x[i] # Gt
    <3>1. \A i \in 2 .. 3 - 1 : i = 2
      OBVIOUS
    <3> QED BY <1>3, <1>5, <3>1, Zenon
  <2>2. x[1][1] = "opening" /\ x[3] = Gt
    BY <1>3, <1>5, Zenon
  <2>3. 3 \in Nat /\ 3 = Len(x) /\ 3 > 1
    BY <1>5
  <2>4. Spaces(Stripped(x)) /\ Closed(x)
    BY <1>5, <2>1, <2>2, <2>3, MarkStripped
  <2> QED BY <1>5, <2>4, SpacesFit, Zenon
<1>7. PICK y : y = <<o, Space, c, Gt>>
  OBVIOUS
<1>8. y \in Seq(Token) /\ Len(y) = 4 /\ y[1] = o /\ y[2] = Space /\ y[3] = c /\ y[4] = Gt
  BY <1>2, <1>7
<1>9. Fits(y, <<Space>>)
  <2>1. \A i \in 2 .. 4 - 1 : y[i][1] # "closing" /\ y[i] # Gt
    <3>1. \A i \in 2 .. 4 - 1 : i = 2 \/ i = 3
      OBVIOUS
    <3> QED BY <1>3, <1>8, <3>1, Zenon
  <2>2. y[1][1] = "opening" /\ y[4] = Gt
    BY <1>3, <1>8, Zenon
  <2>3. 4 \in Nat /\ 4 = Len(y) /\ 4 > 1
    BY <1>8
  <2>4. Spaces(Stripped(y)) /\ Closed(y)
    BY <1>8, <2>1, <2>2, <2>3, MarkStripped
  <2> QED BY <1>8, <2>4, SpacesFit, Zenon
<1>10. Fits(<<Closing(tag)>>, <<Space>>)
  BY ClosingStripped, SpacesFit, Zenon
<1> QED BY <1>1, <1>4, <1>6, <1>7, <1>9, <1>10, Zenon

\* So does a comment.
LEMMA CommentFits ==
  ASSUME NEW x \in Seq(Token),
         \A i \in 1 .. Len(x) : x[i][1] # "closing" /\ x[i] # Gt
  PROVE  Fits(<<Lt>> \o x \o <<Gt>>, <<Space>>)
<1>1. Lt \in Token /\ Gt \in Token
  BY TokenFacts
<1>2. PICK w, n : w = <<Lt>> \o x \o <<Gt>> /\ n = Len(x) + 2
  OBVIOUS
<1>3. /\ w \in Seq(Token) /\ n \in Nat /\ n = Len(w) /\ n > 1 /\ w[1] = Lt /\ w[n] = Gt
      /\ \A i \in 2 .. n - 1 : w[i] = x[i - 1] /\ i - 1 \in 1 .. Len(x)
  BY <1>1, <1>2
<1>4. \A i \in 2 .. n - 1 : w[i][1] # "closing" /\ w[i] # Gt
  BY <1>3, Zenon
<1>5. Spaces(Stripped(w)) /\ Closed(w)
  BY <1>3, <1>4, MarkStripped
<1> QED BY <1>2, <1>3, <1>5, SpacesFit, Zenon

\* A piece without its block.
Kept(piece) == IF piece.kind = "block" THEN <<Space>> ELSE Written(piece)

\* Every piece fits what it shows.
LEMMA PieceFits ==
  ASSUME NEW piece \in PieceType, WellWritten(piece)
  PROVE  Fits(Kept(piece), Shown(piece))
<1>1. PICK x, tag, kind : x = piece.inside /\ tag = piece.tag /\ kind = piece.kind
  OBVIOUS
<1>2. x \in Seq(Token) /\ tag \in STRING
  BY <1>1 DEF PieceType
<1>3. /\ "text" # "block" /\ "text" # "comment" /\ "text" # "named" /\ "text" # "element"
      /\ "block" # "comment" /\ "block" # "named" /\ "block" # "element"
      /\ "comment" # "named" /\ "comment" # "element" /\ "named" # "element"
  OBVIOUS
<1>4. Fits(<<Space>>, <<Space>>)
  BY FitsFew
<1>5. CASE kind = "text"
  <2>1. NoMarkup(x) /\ WholeEntities(x)
    BY <1>1, <1>3, <1>5, Zenon DEF WellWritten
  <2>2. Kept(piece) = x /\ Shown(piece) = x
    <3>1. Kept(piece) = Written(piece)
      BY <1>1, <1>3, <1>5, Zenon DEF Kept
    <3>2. Written(piece) = x
      BY <1>1, <1>3, <1>5, Zenon DEF Written
    <3>3. Shown(piece) = x
      BY <1>1, <1>3, <1>5, Zenon DEF Shown
    <3> QED BY <3>1, <3>2, <3>3, Zenon
  <2> QED BY <1>2, <2>1, <2>2, PlainFits, Zenon
<1>6. CASE kind = "block"
  <2>1. Kept(piece) = <<Space>>
    BY <1>1, <1>6, Zenon DEF Kept
  <2>2. Shown(piece) = <<Space>>
    BY <1>1, <1>3, <1>6, Zenon DEF Shown
  <2> QED BY <1>4, <2>1, <2>2, Zenon
<1>7. CASE kind = "comment"
  <2>1. \A i \in 1 .. Len(x) : x[i][1] # "closing" /\ x[i] # Gt
    BY <1>1, <1>3, <1>7, Zenon DEF WellWritten
  <2>2. Kept(piece) = <<Lt>> \o x \o <<Gt>>
    <3>1. Kept(piece) = Written(piece)
      BY <1>1, <1>3, <1>7, Zenon DEF Kept
    <3>2. Written(piece) = <<Lt>> \o x \o <<Gt>>
      BY <1>1, <1>3, <1>7, Zenon DEF Written
    <3> QED BY <3>1, <3>2, Zenon
  <2>3. Shown(piece) = <<Space>>
    BY <1>1, <1>3, <1>7, Zenon DEF Shown
  <2> QED BY <1>2, <2>1, <2>2, <2>3, CommentFits, Zenon
<1>8. CASE kind = "named"
  <2>1. Fits(x, x)
    <3>1. NoMarkup(x) /\ WholeEntities(x)
      BY <1>1, <1>3, <1>8, Zenon DEF WellWritten
    <3> QED BY <1>2, <3>1, PlainFits, Zenon
  <2>2. Kept(piece) = <<Opening(tag), Word("er"), Gt>> \o x
    <3>1. Kept(piece) = Written(piece)
      BY <1>1, <1>3, <1>8, Zenon DEF Kept
    <3>2. Written(piece) = <<Opening(tag), Word("er"), Gt>> \o x
      BY <1>1, <1>3, <1>8, Zenon DEF Written
    <3> QED BY <3>1, <3>2, Zenon
  <2>3. Shown(piece) = <<Space>> \o x
    BY <1>1, <1>3, <1>8, Zenon DEF Shown
  <2> QED BY <1>2, <2>1, <2>2, <2>3, TagsFit, FitsConcat, Zenon
<1>9. CASE kind = "element"
  <2>1. Fits(x, x)
    <3>1. NoMarkup(x) /\ WholeEntities(x)
      BY <1>1, <1>3, <1>9, Zenon DEF WellWritten
    <3> QED BY <1>2, <3>1, PlainFits, Zenon
  <2>2. Kept(piece) = <<Opening(tag), Space, Word("class"), Gt>> \o x \o <<Closing(tag)>>
    <3>1. Kept(piece) = Written(piece)
      BY <1>1, <1>3, <1>9, Zenon DEF Kept
    <3>2. Written(piece) = <<Opening(tag), Space, Word("class"), Gt>> \o x \o <<Closing(tag)>>
      BY <1>1, <1>3, <1>9, Zenon DEF Written
    <3> QED BY <3>1, <3>2, Zenon
  <2>3. Shown(piece) = <<Space>> \o x \o <<Space>>
    BY <1>1, <1>3, <1>9, Zenon DEF Shown
  <2>4. Fits(<<Opening(tag), Space, Word("class"), Gt>> \o x, <<Space>> \o x)
    BY <1>2, <2>1, TagsFit, FitsConcat, Zenon
  <2> QED BY <1>2, <2>2, <2>3, <2>4, TagsFit, FitsConcat, Zenon
<1>10. kind \in {"text", "named", "element", "comment", "block"}
  BY <1>1, Zenon DEF WellWritten
<1> QED BY <1>5, <1>6, <1>7, <1>8, <1>9, <1>10, Zenon

\* Text that fits is shown when it is stripped, decoded and collapsed.
LEMMA FitsShows ==
  ASSUME NEW c, NEW v, Fits(c, v)
  PROVE  Collapsed(Decoded(4, Stripped(c))) = Collapsed(Read(v))
<1>1. /\ Stripped(c) \in Seq(Token) /\ WholeEntities(Stripped(c))
      /\ v \in Seq(Token) /\ WholeEntities(v)
  BY Zenon DEF Fits
<1>2. Decoded(4, Stripped(c)) = Read(Stripped(c))
  BY <1>1, DecodedRead, Zenon
<1>3. Read(Stripped(c)) \in Seq(Token) /\ Read(v) \in Seq(Token)
  BY <1>1, ReadType
<1>4. << >> \in Seq(Token) /\ Same(<< >>, << >>)
  <2>1. << >> \in Seq(Token)
    OBVIOUS
  <2> QED BY <2>1, Zenon DEF Same
<1>5. Same(<< >> \o Read(Stripped(c)), << >> \o Read(v))
  BY <1>4, Zenon DEF Fits
<1>6. << >> \o Read(Stripped(c)) = Read(Stripped(c)) /\ << >> \o Read(v) = Read(v)
  BY <1>3, ConcatEmptySeq
<1> QED BY <1>2, <1>5, <1>6, Zenon DEF Same

-----------------------------------------------------------------------------
(* Where the tags of a page are *)

\* Ignored tags, and those of elements, are told apart by their names.
LEMMA TagFacts ==
  /\ DOMAIN Ignored = 1 .. 5
  /\ \A k \in 1 .. 5 : Ignored[k] \in IgnoredTags
  /\ \A n \in 1 .. 2 : Elements[n][1] \in ElementTags
  /\ \A tag \in ElementTags : tag \notin IgnoredTags
<1>1. DOMAIN Ignored = 1 .. 5
  BY DEF Ignored
<1>2. \A k \in 1 .. 5 : Ignored[k] \in IgnoredTags
  BY <1>1, Zenon DEF IgnoredTags
<1>3. \A n \in 1 .. 2 : Elements[n][1] \in ElementTags
  BY ElementFacts, Zenon DEF ElementTags
<1>4. ASSUME NEW tag \in ElementTags PROVE tag \notin IgnoredTags
  <2>1. tag = "title" \/ tag = "h1"
    <3>1. \A n \in 1 .. 2 : n = 1 \/ n = 2
      OBVIOUS
    <3>2. Elements[1] = <<"title", TitleLimit>> /\ Elements[2] = <<"h1", HeadingLimit>>
      BY DEF Elements
    <3>3. \A a, b : <<a, b>>[1] = a
      OBVIOUS
    <3>4. Elements[1][1] = "title" /\ Elements[2][1] = "h1"
      BY <3>2, <3>3, Zenon
    <3> QED BY <3>1, <3>4, ElementFacts, Zenon DEF ElementTags
  <2>2. \A k \in 1 .. 5 : Ignored[k] # "title" /\ Ignored[k] # "h1"
    BY DEF Ignored
  <2> QED BY <1>1, <2>1, <2>2, Zenon DEF IgnoredTags
<1> QED BY <1>1, <1>2, <1>3, <1>4, Zenon

\* A text between two others, of which the last is one token.
Framed(w, h, x, t) ==
  /\ Len(w) = Len(x) + Len(h) + 1
  /\ \A i \in 1 .. Len(h) : w[i] = h[i]
  /\ \A i \in 1 .. Len(x) : w[Len(h) + i] = x[i]
  /\ w[Len(x) + Len(h) + 1] = t

\* What is put together so is found there.
LEMMA FramedTokens ==
  ASSUME NEW h \in Seq(Token), NEW x \in Seq(Token), NEW t \in Token
  PROVE  Framed(h \o x \o <<t>>, h, x, t)
<1>1. PICK k : k = <<t>>
  OBVIOUS
<1>2. k \in Seq(Token) /\ Len(k) = 1 /\ k[1] = t
  BY <1>1
<1>3. PICK w : w = h \o x \o k
  OBVIOUS
<1>4. /\ w \in Seq(Token) /\ Len(w) = Len(h) + Len(x) + Len(k)
      /\ \A i \in 1 .. Len(h) : w[i] = h[i]
      /\ \A i \in 1 .. Len(x) : w[Len(h) + i] = x[i]
      /\ \A i \in 1 .. Len(k) : w[Len(h) + Len(x) + i] = k[i]
  <2>1. k \in Seq(Token)
    BY <1>2
  <2> QED BY <1>3, <2>1
<1>5. Len(x) \in Nat /\ Len(h) \in Nat
  OBVIOUS
<1>6. Len(w) = Len(x) + Len(h) + 1
  BY <1>2, <1>4, <1>5
<1>7. w[Len(x) + Len(h) + 1] = t
  <2>1. Len(h) + Len(x) + 1 = Len(x) + Len(h) + 1 /\ 1 \in 1 .. Len(k)
    BY <1>2, <1>5
  <2> QED BY <1>2, <1>4, <2>1, Zenon
<1>8. Framed(w, h, x, t)
  BY <1>4, <1>6, <1>7, Zenon DEF Framed
<1> QED BY <1>1, <1>3, <1>8, Zenon

\* How an element or a block is written.
LEMMA ElementShape ==
  ASSUME NEW piece \in PieceType, piece.kind \in {"element", "block"}
  PROVE  LET x == piece.inside
             w == Written(piece)
         IN  /\ Len(w) = Len(x) + 4 + 1
             /\ w[1] = Opening(piece.tag) /\ w[2] = Space /\ w[3] = Word("class") /\ w[4] = Gt
             /\ \A i \in 1 .. Len(x) : w[4 + i] = x[i]
             /\ w[Len(x) + 4 + 1] = Closing(piece.tag)
<1>1. PICK x, o, c, e : x = piece.inside /\ o = Opening(piece.tag) /\ c = Word("class")
                        /\ e = Closing(piece.tag)
  OBVIOUS
<1>2. x \in Seq(Token) /\ piece.tag \in STRING
  BY <1>1 DEF PieceType
<1>3. o \in Token /\ c \in Token /\ e \in Token /\ Space \in Token /\ Gt \in Token
  BY <1>1, <1>2, TokenFacts, Zenon
<1>4. Written(piece) = <<o, Space, c, Gt>> \o x \o <<e>>
  <2>1. /\ "text" # "element" /\ "text" # "block" /\ "comment" # "element"
        /\ "comment" # "block" /\ "named" # "element" /\ "named" # "block"
    OBVIOUS
  <2>2. piece.kind # "text" /\ piece.kind # "comment" /\ piece.kind # "named"
    BY <2>1, Zenon
  <2> QED BY <1>1, <2>2, Zenon DEF Written
<1>5. PICK h : h = <<o, Space, c, Gt>>
  OBVIOUS
<1>6. h \in Seq(Token) /\ Len(h) = 4 /\ h[1] = o /\ h[2] = Space /\ h[3] = c /\ h[4] = Gt
  BY <1>3, <1>5
<1>7. PICK w : w = (h \o x) \o <<e>>
  OBVIOUS
<1>8. /\ Len(w) = Len(x) + 4 + 1
      /\ \A i \in 1 .. 4 : w[i] = h[i]
      /\ \A i \in 1 .. Len(x) : w[4 + i] = x[i]
      /\ w[Len(x) + 4 + 1] = e
  <2>1. h \in Seq(Token) /\ x \in Seq(Token) /\ e \in Token
    BY <1>2, <1>3, <1>6, Zenon
  <2>2. /\ Len(w) = Len(x) + Len(h) + 1
        /\ \A i \in 1 .. Len(h) : w[i] = h[i]
        /\ \A i \in 1 .. Len(x) : w[Len(h) + i] = x[i]
        /\ w[Len(x) + Len(h) + 1] = e
    <3>1. Framed(w, h, x, e)
      BY <1>7, <2>1, FramedTokens, Zenon
    <3> QED BY <3>1, Zenon DEF Framed
  <2>3. Len(h) = 4
    BY <1>6
  <2> QED BY <2>2, <2>3, Zenon
<1>9. 1 \in 1 .. 4 /\ 2 \in 1 .. 4 /\ 3 \in 1 .. 4 /\ 4 \in 1 .. 4
  OBVIOUS
<1>10. w[1] = o /\ w[2] = Space /\ w[3] = c /\ w[4] = Gt
  BY <1>6, <1>8, <1>9, Zenon
<1>11. w = Written(piece)
  BY <1>4, <1>5, <1>7, Zenon
<1> QED BY <1>1, <1>8, <1>10, <1>11, Zenon

\* How the start of a longer name is.
LEMMA NamedShape ==
  ASSUME NEW piece \in PieceType, piece.kind = "named"
  PROVE  LET x == piece.inside
             w == Written(piece)
         IN  /\ Len(w) = Len(x) + 3
             /\ w[1] = Opening(piece.tag) /\ w[2] = Word("er") /\ w[3] = Gt
             /\ \A i \in 1 .. Len(x) : w[3 + i] = x[i]
<1>1. PICK x, w, o, c : x = piece.inside /\ w = Written(piece)
                        /\ o = Opening(piece.tag) /\ c = Word("er")
  OBVIOUS
<1>2. x \in Seq(Token) /\ piece.tag \in STRING
  BY <1>1 DEF PieceType
<1>3. o \in Token /\ c \in Token /\ Gt \in Token
  BY <1>1, <1>2, TokenFacts, Zenon
<1>4. w = <<o, c, Gt>> \o x
  <2>1. "text" # "named" /\ "comment" # "named"
    OBVIOUS
  <2> QED BY <1>1, <2>1, Zenon DEF Written
<1>5. /\ w \in Seq(Token) /\ Len(w) = Len(x) + 3 /\ w[1] = o /\ w[2] = c /\ w[3] = Gt
      /\ \A i \in 1 .. Len(x) : w[3 + i] = x[i]
  BY <1>2, <1>3, <1>4
<1> QED BY <1>1, <1>2, <1>5, Zenon

\* How a comment is.
LEMMA CommentShape ==
  ASSUME NEW piece \in PieceType, piece.kind = "comment"
  PROVE  LET x == piece.inside
             w == Written(piece)
         IN  /\ Len(w) = Len(x) + 1 + 1 /\ w[1] = Lt
             /\ \A i \in 1 .. Len(x) : w[1 + i] = x[i]
             /\ w[Len(x) + 1 + 1] = Gt
<1>1. PICK x : x = piece.inside
  OBVIOUS
<1>2. x \in Seq(Token) /\ Lt \in Token /\ Gt \in Token
  <2>1. x \in Seq(Token)
    BY <1>1 DEF PieceType
  <2> QED BY <2>1, TokenFacts, Zenon
<1>3. Written(piece) = <<Lt>> \o x \o <<Gt>>
  <2>1. "text" # "comment" /\ "named" # "comment"
    OBVIOUS
  <2> QED BY <1>1, <2>1, Zenon DEF Written
<1>4. PICK h : h = <<Lt>>
  OBVIOUS
<1>5. h \in Seq(Token) /\ Len(h) = 1 /\ h[1] = Lt
  BY <1>2, <1>4
<1>6. PICK w : w = h \o x \o <<Gt>>
  OBVIOUS
<1>7. /\ Len(w) = Len(x) + 1 + 1
      /\ \A i \in 1 .. 1 : w[i] = h[i]
      /\ \A i \in 1 .. Len(x) : w[1 + i] = x[i]
      /\ w[Len(x) + 1 + 1] = Gt
  <2>1. h \in Seq(Token) /\ x \in Seq(Token) /\ Gt \in Token
    BY <1>2, <1>5, Zenon
  <2>2. /\ Len(w) = Len(x) + Len(h) + 1
        /\ \A i \in 1 .. Len(h) : w[i] = h[i]
        /\ \A i \in 1 .. Len(x) : w[Len(h) + i] = x[i]
        /\ w[Len(x) + Len(h) + 1] = Gt
    <3>1. Framed(w, h, x, Gt)
      BY <1>6, <2>1, FramedTokens, Zenon
    <3> QED BY <3>1, Zenon DEF Framed
  <2>3. Len(h) = 1
    BY <1>5
  <2> QED BY <2>2, <2>3, Zenon
<1>8. 1 \in 1 .. 1
  OBVIOUS
<1> QED BY <1>1, <1>3, <1>4, <1>5, <1>6, <1>7, <1>8, Zenon

Tagged(piece) == piece.kind \in {"named", "element", "block"}
Closes(piece) == piece.kind \in {"element", "block"}

\* A token of a piece is its opening, its closing, one of its inside or one that
\* opens and closes nothing.
LEMMA WrittenTokens ==
  ASSUME NEW piece \in PieceType, WellWritten(piece),
         NEW i \in 1 .. Len(Written(piece))
  PROVE  \/ i = 1 /\ Tagged(piece) /\ Written(piece)[i] = Opening(piece.tag)
         \/ i = Len(Written(piece)) /\ Closes(piece) /\ Written(piece)[i] = Closing(piece.tag)
         \/ \E d \in 1 .. Len(piece.inside) : Written(piece)[i] = piece.inside[d]
         \/ Written(piece)[i] \in {Space, Word("class"), Word("er"), Lt, Gt}
<1>1. PICK x, w : x = piece.inside /\ w = Written(piece)
  OBVIOUS
<1>2. x \in Seq(Token) /\ w \in Seq(Token) /\ i \in 1 .. Len(w)
  BY <1>1, WrittenType DEF PieceType
<1>3. CASE piece.kind = "text"
  <2>1. w = x
    <3>1. "text" # "comment" /\ "text" # "named"
      OBVIOUS
    <3> QED BY <1>1, <1>3, <3>1, Zenon DEF Written
  <2> QED BY <1>1, <1>2, <2>1, Zenon
<1>4. CASE piece.kind = "comment"
  <2>1. /\ Len(w) = Len(x) + 2 /\ w[1] = Lt /\ w[Len(x) + 2] = Gt
        /\ \A d \in 1 .. Len(x) : w[1 + d] = x[d]
    <3>1. /\ Len(w) = Len(x) + 1 + 1 /\ w[1] = Lt /\ w[Len(x) + 1 + 1] = Gt
          /\ \A d \in 1 .. Len(x) : w[1 + d] = x[d]
      BY <1>1, <1>4, CommentShape, Zenon
    <3>2. Len(x) + 1 + 1 = Len(x) + 2
      BY <1>2
    <3> QED BY <3>1, <3>2, Zenon
  <2>2. i = 1 \/ i = Len(x) + 2 \/ \E d \in 1 .. Len(x) : i = 1 + d
    <3>1. PICK d : d = i - 1
      OBVIOUS
    <3>2. Len(x) \in Nat /\ i \in 1 .. Len(x) + 2
      BY <1>2, <2>1
    <3>3. i = 1 \/ i = Len(x) + 2 \/ (d \in 1 .. Len(x) /\ i = 1 + d)
      BY <3>1, <3>2
    <3> QED BY <3>3
  <2> QED BY <1>1, <2>1, <2>2, Zenon
<1>5. CASE piece.kind = "named"
  <2>1. /\ Len(w) = Len(x) + 3 /\ w[1] = Opening(piece.tag) /\ w[2] = Word("er") /\ w[3] = Gt
        /\ \A d \in 1 .. Len(x) : w[3 + d] = x[d]
    BY <1>1, <1>5, NamedShape, Zenon
  <2>2. i = 1 \/ i = 2 \/ i = 3 \/ \E d \in 1 .. Len(x) : i = 3 + d
    <3>1. PICK d : d = i - 3
      OBVIOUS
    <3>2. Len(x) \in Nat /\ i \in 1 .. Len(x) + 3
      BY <1>2, <2>1
    <3>3. i = 1 \/ i = 2 \/ i = 3 \/ (d \in 1 .. Len(x) /\ i = 3 + d)
      BY <3>1, <3>2
    <3> QED BY <3>3
  <2>3. Tagged(piece)
    BY <1>5, Zenon DEF Tagged
  <2> QED BY <1>1, <2>1, <2>2, <2>3, Zenon
<1>6. CASE piece.kind \in {"element", "block"}
  <2>1. /\ Len(w) = Len(x) + 5
        /\ w[1] = Opening(piece.tag) /\ w[2] = Space /\ w[3] = Word("class") /\ w[4] = Gt
        /\ w[Len(x) + 5] = Closing(piece.tag)
        /\ \A d \in 1 .. Len(x) : w[4 + d] = x[d]
    <3>1. /\ Len(w) = Len(x) + 4 + 1
          /\ w[1] = Opening(piece.tag) /\ w[2] = Space /\ w[3] = Word("class") /\ w[4] = Gt
          /\ w[Len(x) + 4 + 1] = Closing(piece.tag)
          /\ \A d \in 1 .. Len(x) : w[4 + d] = x[d]
      BY <1>1, <1>6, ElementShape, Zenon
    <3>2. Len(x) + 4 + 1 = Len(x) + 5
      BY <1>2
    <3> QED BY <3>1, <3>2, Zenon
  <2>2. \/ i = 1 \/ i = 2 \/ i = 3 \/ i = 4 \/ i = Len(x) + 5
        \/ \E d \in 1 .. Len(x) : i = 4 + d
    <3>1. PICK d : d = i - 4
      OBVIOUS
    <3>2. Len(x) \in Nat /\ i \in 1 .. Len(x) + 5
      BY <1>2, <2>1
    <3>3. \/ i = 1 \/ i = 2 \/ i = 3 \/ i = 4 \/ i = Len(x) + 5
          \/ (d \in 1 .. Len(x) /\ i = 4 + d)
      BY <3>1, <3>2
    <3> QED BY <3>3
  <2>3. Tagged(piece) /\ Closes(piece)
    BY <1>6, Zenon DEF Tagged, Closes
  <2> QED BY <1>1, <2>1, <2>2, <2>3, Zenon
<1>7. piece.kind \in {"text", "named", "element", "comment", "block"}
  BY Zenon DEF WellWritten
<1> QED BY <1>3, <1>4, <1>5, <1>6, <1>7, Zenon

\* Tokens of text open and close nothing.
LEMMA PlainTokens ==
  /\ \A x : NoMarkup(x) => \A d \in 1 .. Len(x) : \A tag :
       x[d] # Opening(tag) /\ x[d] # Closing(tag) /\ x[d] # Gt
  /\ \A u \in {Space, Word("class"), Word("er"), Lt, Gt} : \A tag :
       u # Opening(tag) /\ u # Closing(tag)
<1>1. ASSUME NEW x, NoMarkup(x), NEW d \in 1 .. Len(x), NEW tag
      PROVE  x[d] # Opening(tag) /\ x[d] # Closing(tag) /\ x[d] # Gt
  <2>1. x[d][1] = "word" \/ x[d][1] = "space"
    BY <1>1, Zenon DEF NoMarkup
  <2> QED BY <2>1, TokenKinds, Zenon
<1>2. ASSUME NEW u \in {Space, Word("class"), Word("er"), Lt, Gt}, NEW tag
      PROVE  u # Opening(tag) /\ u # Closing(tag)
  <2>1. u[1] = "word" \/ u[1] = "space" \/ u[1] = "mark"
    <3>1. PICK e, c : e = Word("er") /\ c = Word("class")
      OBVIOUS
    <3>2. e[1] = "word" /\ c[1] = "word"
      BY <3>1, TokenKinds, Zenon
    <3>3. u = Space \/ u = c \/ u = e \/ u = Lt \/ u = Gt
      BY <3>1, Zenon
    <3> QED BY <3>2, <3>3, TokenKinds, Zenon
  <2> QED BY <2>1, TokenKinds, Zenon
<1> QED BY <1>1, <1>2, Zenon

\* Only an element, or a longer name, holds the opening of an element, at its start.
LEMMA ElementOpens ==
  ASSUME NEW piece \in PieceType, WellWritten(piece), NEW tag \in ElementTags,
         NEW i \in 1 .. Len(Written(piece)), Written(piece)[i] = Opening(tag)
  PROVE  i = 1 /\ piece.kind \in {"named", "element"} /\ piece.tag = tag
<1>1. tag \notin IgnoredTags
  BY TagFacts
<1>2. ASSUME NEW d \in 1 .. Len(piece.inside) PROVE piece.inside[d] # Opening(tag)
  BY PlainTokens, Zenon DEF WellWritten
<1>3. ASSUME NEW u PROVE Closing(u) # Opening(tag)
  BY TokenKinds
<1>4. i = 1 /\ Tagged(piece) /\ Opening(piece.tag) = Opening(tag)
  BY <1>2, <1>3, WrittenTokens, PlainTokens, Zenon
<1>5. piece.tag = tag
  BY <1>4, TokenKinds, Zenon
<1>6. piece.kind # "block"
  <2>1. "block" # "text" /\ "block" # "named" /\ "block" # "element" /\ "block" # "comment"
    OBVIOUS
  <2> QED BY <1>1, <1>5, <2>1, TagFacts, Zenon DEF WellWritten
<1> QED BY <1>4, <1>5, <1>6, Zenon DEF Tagged

\* Only a block holds the opening of an ignored tag, and that of one before its own
\* nowhere.
LEMMA BlockOpens ==
  ASSUME NEW piece \in PieceType, WellWritten(piece), NEW k \in 1 .. 5,
         NEW i \in 1 .. Len(Written(piece)), Written(piece)[i] = Opening(Ignored[k])
  PROVE  piece.kind = "block" /\ \E j \in 1 .. k : piece.tag = Ignored[j]
<1>1. Ignored[k] \in IgnoredTags
  BY TagFacts
<1>2. CASE /\ piece.kind \in {"text", "named", "element"}
           /\ NoMarkup(piece.inside)
           /\ piece.kind # "text" => piece.tag \notin IgnoredTags
  <2>1. \A d \in 1 .. Len(piece.inside) : piece.inside[d] # Opening(Ignored[k])
    BY <1>2, PlainTokens, Zenon
  <2>2. \A u : Closing(u) # Opening(Ignored[k])
    BY TokenKinds
  <2>3. Tagged(piece) /\ Opening(piece.tag) = Opening(Ignored[k])
    BY <2>1, <2>2, WrittenTokens, PlainTokens, Zenon
  <2>4. piece.tag = Ignored[k]
    BY <2>3, TokenKinds, Zenon
  <2>5. piece.kind # "text"
    <3>1. "text" # "named" /\ "text" # "element" /\ "text" # "block"
      OBVIOUS
    <3> QED BY <2>3, <3>1, Zenon DEF Tagged
  <2> QED BY <1>1, <1>2, <2>4, <2>5, Zenon
<1>3. CASE /\ piece.kind = "comment"
           /\ \A d \in 1 .. Len(piece.inside) :
                \A tag \in IgnoredTags \cup ElementTags : piece.inside[d] # Opening(tag)
  <2>1. \A d \in 1 .. Len(piece.inside) : piece.inside[d] # Opening(Ignored[k])
    BY <1>1, <1>3, Zenon
  <2>2. \A u : Closing(u) # Opening(Ignored[k])
    BY TokenKinds
  <2>3. Tagged(piece)
    BY <2>1, <2>2, WrittenTokens, PlainTokens, Zenon
  <2>4. "comment" # "named" /\ "comment" # "element" /\ "comment" # "block"
    OBVIOUS
  <2> QED BY <1>3, <2>3, <2>4, Zenon DEF Tagged
<1>4. CASE piece.kind = "block" /\ ~ \E j \in 1 .. k : piece.tag = Ignored[j]
  <2>1. "block" # "text" /\ "block" # "named" /\ "block" # "element" /\ "block" # "comment"
    OBVIOUS
  <2>2. PICK m \in 1 .. 5 :
          /\ piece.tag = Ignored[m]
          /\ \A d \in 1 .. Len(piece.inside) : \A j \in 1 .. m - 1 :
               piece.inside[d] # Opening(Ignored[j])
    BY <1>4, <2>1, TagFacts, Zenon DEF WellWritten
  <2>3. k \in 1 .. m - 1 /\ k \in 1 .. k
    <3>1. m \notin 1 .. k
      BY <1>4, <2>2, Zenon
    <3> QED BY <3>1
  <2>4. \A d \in 1 .. Len(piece.inside) : piece.inside[d] # Opening(Ignored[k])
    BY <2>2, <2>3, Zenon
  <2>5. \A u : Closing(u) # Opening(Ignored[k])
    BY TokenKinds
  <2>6. Opening(piece.tag) = Opening(Ignored[k])
    BY <2>4, <2>5, WrittenTokens, PlainTokens, Zenon
  <2>7. piece.tag = Ignored[k]
    BY <2>6, TokenKinds, Zenon
  <2> QED BY <1>4, <2>3, <2>7, Zenon
<1> QED BY <1>2, <1>3, <1>4, Zenon DEF WellWritten

-----------------------------------------------------------------------------
(* What the text is at each stage *)

\* The pieces of a page as they are written, those of R taken out.
Cleared(R) == [i \in 1 .. Len(page) |-> IF i \in R THEN <<Space>> ELSE Written(page[i])]
Blocks == {i \in 1 .. Len(page) : page[i].kind = "block"}

PageOK == page \in Seq(PieceType) /\ \A i \in 1 .. Len(page) : WellWritten(page[i])

\* The pages of the model are such.
LEMMA PagesAreOK == page \in Page => PageOK
<1>1. PieceType = [kind : STRING, tag : STRING, inside : Seq(Token)]
  BY DEF PieceType
<1>2. page \in Page => page \in Seq(PieceType)
  BY <1>1, PageAssumption
<1> QED BY <1>2, PieceAssumption, Zenon DEF PageOK

\* The parts of a page, whichever are taken out.
LEMMA ClearedParts ==
  ASSUME PageOK, NEW R
  PROVE  /\ Cleared(R) \in Seq(Seq(Token)) /\ Len(Cleared(R)) = Len(page)
         /\ Cleared(R) \in [1 .. Len(page) -> Seq(Token)] /\ Len(page) \in Nat
         /\ \A i \in 1 .. Len(page) : /\ i \in R => Cleared(R)[i] = <<Space>>
                                      /\ i \notin R => Cleared(R)[i] = Written(page[i])
<1>1. page \in Seq(PieceType) /\ Len(page) \in Nat
  BY DEF PageOK
<1>2. <<Space>> \in Seq(Token)
  BY FitsFew DEF Spaces
<1>3. ASSUME NEW i \in 1 .. Len(page)
      PROVE  (IF i \in R THEN <<Space>> ELSE Written(page[i])) \in Seq(Token)
  <2>1. page[i] \in PieceType
    BY <1>1
  <2> QED BY <1>2, <2>1, WrittenType, Zenon
<1>4. Cleared(R) \in [1 .. Len(page) -> Seq(Token)]
  BY <1>3 DEF Cleared
<1>5. Cleared(R) \in Seq(Seq(Token)) /\ Len(Cleared(R)) = Len(page)
  BY <1>1, <1>4, PartsFlatten, Zenon
<1>6. \A i \in 1 .. Len(page) : /\ i \in R => Cleared(R)[i] = <<Space>>
                                /\ i \notin R => Cleared(R)[i] = Written(page[i])
  BY Zenon DEF Cleared
<1> QED BY <1>1, <1>4, <1>5, <1>6, Zenon

\* Parts that fit, one by one, fit in a row.
LEMMA PartsFit ==
  ASSUME NEW c \in Seq(Seq(Token)), NEW v \in Seq(Seq(Token)), Len(c) = Len(v),
         \A i \in 1 .. Len(c) : Fits(c[i], v[i])
  PROVE  Fits(FlattenSeq(c), FlattenSeq(v))
<1> DEFINE N == Len(c)
           T == {n \in 0 .. N : Fits(Flat(c, n), Flat(v, n))}
<1>1. N \in Nat /\ N \in 0 .. N /\ 0 \in 0 .. N /\ \A n \in 1 .. N : n \in 0 .. N
  OBVIOUS
<1>2. /\ Flat(c, 0) = << >> /\ Flat(c, N) = FlattenSeq(c)
      /\ \A n \in 1 .. N : Flat(c, n) = Flat(c, n - 1) \o c[n]
  BY FlatSteps, Zenon
<1>3. /\ Flat(v, 0) = << >> /\ Flat(v, N) = FlattenSeq(v)
      /\ \A n \in 1 .. N : Flat(v, n) = Flat(v, n - 1) \o v[n]
  BY FlatSteps, Zenon
<1> HIDE DEF N
<1>4. 0 \in T
  BY <1>1, <1>2, <1>3, FitsFew, Zenon
<1>5. ASSUME NEW n \in 1 .. N, n - 1 \in T PROVE n \in T
  <2>1. Fits(c[n], v[n])
    BY DEF N
  <2>2. Fits(Flat(c, n - 1), Flat(v, n - 1))
    BY <1>5, Zenon
  <2>3. Fits(Flat(c, n - 1) \o c[n], Flat(v, n - 1) \o v[n])
    BY <2>1, <2>2, FitsConcat, Zenon
  <2> QED BY <1>1, <1>2, <1>3, <2>3, Zenon
<1>6. N \in T
  <2> HIDE DEF T
  <2>1. \A n \in 0 .. N : n \in T
    BY <1>1, <1>4, <1>5, AllNumbers
  <2> QED BY <1>1, <2>1
<1> QED BY <1>2, <1>3, <1>6, Zenon

\* A page without its blocks shows what it shows.
LEMMA PageShown ==
  ASSUME PageOK
  PROVE  /\ FlattenSeq(Cleared(Blocks)) \in Seq(Token)
         /\ Collapsed(Decoded(4, Stripped(FlattenSeq(Cleared(Blocks))))) = Visible(page)
<1> DEFINE v == [i \in 1 .. Len(page) |-> Shown(page[i])]
<1>1. /\ Cleared(Blocks) \in Seq(Seq(Token)) /\ Len(Cleared(Blocks)) = Len(page)
      /\ Len(page) \in Nat /\ DOMAIN page = 1 .. Len(page)
  BY ClearedParts DEF PageOK
<1>2. ASSUME NEW i \in 1 .. Len(page) PROVE Fits(Cleared(Blocks)[i], Shown(page[i]))
  <2>1. page[i] \in PieceType /\ WellWritten(page[i])
    BY DEF PageOK
  <2>2. Cleared(Blocks)[i] = Kept(page[i])
    <3>1. i \in Blocks <=> page[i].kind = "block"
      BY Zenon DEF Blocks
    <3>2. /\ i \in Blocks => Cleared(Blocks)[i] = <<Space>>
          /\ i \notin Blocks => Cleared(Blocks)[i] = Written(page[i])
      BY ClearedParts, Zenon
    <3> QED BY <3>1, <3>2, Zenon DEF Kept
  <2> QED BY <2>1, <2>2, PieceFits, Zenon
<1>3. v \in [1 .. Len(page) -> Seq(Token)]
  <2>1. \A i \in 1 .. Len(page) : Shown(page[i]) \in Seq(Token)
    BY <1>2, Zenon DEF Fits
  <2> QED BY <2>1
<1>4. \A i \in 1 .. Len(page) : v[i] = Shown(page[i])
  OBVIOUS
<1>5. Visible(page) = Collapsed(Read(FlattenSeq(v)))
  BY <1>1, Zenon DEF Visible
<1> HIDE DEF v
<1>6. v \in Seq(Seq(Token)) /\ Len(v) = Len(page)
  BY <1>1, <1>3, PartsFlatten, Zenon
<1>7. Fits(FlattenSeq(Cleared(Blocks)), FlattenSeq(v))
  <2>1. PICK c : c = Cleared(Blocks)
    OBVIOUS
  <2>2. c \in Seq(Seq(Token)) /\ Len(c) = Len(v) /\ \A i \in 1 .. Len(c) : Fits(c[i], v[i])
    BY <1>1, <1>2, <1>4, <1>6, <2>1, Zenon
  <2> QED BY <1>6, <2>1, <2>2, PartsFit
<1>8. FlattenSeq(Cleared(Blocks)) \in Seq(Token)
  BY <1>1, FlattenType
<1> QED BY <1>5, <1>7, <1>8, FitsShows, Zenon

-----------------------------------------------------------------------------
(* Removal of a block *)

\* An element or a block closes at its end and nowhere before.
LEMMA ClosesAtEnd ==
  ASSUME NEW piece \in PieceType, WellWritten(piece), Closes(piece),
         NEW e \in 1 .. Len(Written(piece)), Written(piece)[e] = Closing(piece.tag)
  PROVE  e = Len(Written(piece))
<1>1. \A d \in 1 .. Len(piece.inside) : piece.inside[d] # Closing(piece.tag)
  <2>1. /\ "element" # "comment" /\ "element" # "block"
        /\ "block" # "text" /\ "block" # "named" /\ "block" # "element" /\ "block" # "comment"
    OBVIOUS
  <2>2. CASE piece.kind = "element"
    BY <2>1, <2>2, PlainTokens, Zenon DEF WellWritten
  <2>3. CASE piece.kind = "block"
    BY <2>1, <2>3, Zenon DEF WellWritten
  <2> QED BY <2>2, <2>3, Zenon DEF Closes
<1>2. Opening(piece.tag) # Closing(piece.tag)
  <2>1. \A v, w : Closing(v) # Opening(w)
    BY TokenKinds
  <2> QED BY <2>1, Zenon
<1> QED BY <1>1, <1>2, WrittenTokens, PlainTokens, Zenon

\* A block or an element starts with its opening and ends with its closing.
LEMMA ClosesShape ==
  ASSUME NEW piece \in PieceType, Closes(piece)
  PROVE  /\ Len(Written(piece)) \in Nat /\ Len(Written(piece)) > 4
         /\ Written(piece)[1] = Opening(piece.tag)
         /\ Written(piece)[Len(Written(piece))] = Closing(piece.tag)
<1>1. /\ Len(Written(piece)) = Len(piece.inside) + 4 + 1
      /\ Written(piece)[1] = Opening(piece.tag)
      /\ Written(piece)[Len(piece.inside) + 4 + 1] = Closing(piece.tag)
  BY ElementShape, Zenon DEF Closes
<1>2. Len(piece.inside) \in Nat
  BY DEF PieceType
<1> QED BY <1>1, <1>2

\* What is gone when blocks are looked for with the k-th tag.
Gone(R, k) ==
  /\ R \in SUBSET Blocks
  /\ \A i \in Blocks, j \in 1 .. k - 1 : page[i].tag = Ignored[j] => i \in R

\* A token stands there and nowhere before.
FirstAt(tokens, token, start) ==
  /\ start \in 1 .. Len(tokens) /\ tokens[start] = token
  /\ \A i \in 1 .. Len(tokens) : tokens[i] = token => start <= i

\* One of the blocks left with the k-th tag starts there.
BlockStarts(R, k, start) ==
  \E i \in Blocks :
    /\ i \notin R /\ page[i].tag = Ignored[k]
    /\ start = Len(Flat(Cleared(R), i - 1)) + 1

\* The first opening of the tag that is left is that of a block.
LEMMA BlockFound ==
  ASSUME PageOK, NEW k \in 1 .. 5, NEW R, Gone(R, k),
         NEW start, FirstAt(FlattenSeq(Cleared(R)), Opening(Ignored[k]), start)
  PROVE  BlockStarts(R, k, start)
<1>1. PICK c, t : c = Cleared(R) /\ t = FlattenSeq(Cleared(R))
  OBVIOUS
<1>1a. /\ start \in 1 .. Len(t) /\ t[start] = Opening(Ignored[k])
       /\ \A i \in 1 .. Len(t) : t[i] = Opening(Ignored[k]) => start <= i
  BY <1>1, Zenon DEF FirstAt
<1>2. c \in Seq(Seq(Token)) /\ Len(c) = Len(page) /\ t = FlattenSeq(c)
  BY <1>1, ClearedParts, Zenon
<1>3. PICK i \in 1 .. Len(c) : start > Len(Flat(c, i - 1)) /\ start <= Len(Flat(c, i))
  BY <1>1a, <1>2, PartAtFlat
<1>4. PICK o : o = Len(Flat(c, i - 1))
  OBVIOUS
<1>5. PICK m : m = Len(c[i])
  OBVIOUS
<1>6. o \in Nat /\ m \in Nat /\ Len(Flat(c, i)) = o + m /\ c[i] \in Seq(Token)
  <2>1. c[i] \in Seq(Token)
    BY <1>2
  <2>2. i - 1 \in 0 .. Len(c) /\ i \in 1 .. Len(c)
    BY <1>2
  <2>3. Len(Flat(c, i)) = o + m /\ o \in Nat
    BY <1>2, <1>4, <1>5, <2>2, FlatLengths, Zenon
  <2> QED BY <1>5, <2>1, <2>3
<1>7. PICK d : d = start - o
  OBVIOUS
<1>8. d \in 1 .. m /\ start = o + d
  <2>1. start \in Nat
    <3>1. t \in Seq(Token)
      BY <1>2, FlattenType
    <3> QED BY <1>1a, <3>1
  <2>2. start > o /\ start <= o + m
    BY <1>3, <1>4, <1>6, Zenon
  <2> QED BY <1>6, <1>7, <2>1, <2>2
<1>9. \A e \in 1 .. m : o + e \in 1 .. Len(t) /\ t[o + e] = c[i][e]
  BY <1>2, <1>4, <1>5, PartOfFlat, ZenonT(40)
<1>10. c[i][d] = Opening(Ignored[k])
  BY <1>1a, <1>8, <1>9, Zenon
<1>11. page[i] \in PieceType /\ WellWritten(page[i])
  BY <1>2 DEF PageOK
<1>12. i \notin R /\ c[i] = Written(page[i])
  <2>1. /\ i \in R => c[i] = <<Space>>
        /\ i \notin R => c[i] = Written(page[i])
    BY <1>1, <1>2, ClearedParts, Zenon
  <2>2. ASSUME i \in R PROVE FALSE
    <3>1. PICK s : s = <<Space>>
      OBVIOUS
    <3>2. Len(s) = 1 /\ s[1] = Space
      BY <3>1
    <3>3. d = 1
      <4>1. m = 1
        BY <1>5, <2>1, <2>2, <3>1, <3>2, Zenon
      <4> QED BY <1>8, <4>1
    <3>4. Space = Opening(Ignored[k])
      BY <1>10, <2>1, <2>2, <3>1, <3>2, <3>3, Zenon
    <3>5. Space # Opening(Ignored[k])
      BY PlainTokens, Zenon
    <3> QED BY <3>4, <3>5
  <2> QED BY <2>1, <2>2, Zenon
<1>13. PICK j \in 1 .. k : page[i].kind = "block" /\ page[i].tag = Ignored[j]
  <2>1. d \in 1 .. Len(Written(page[i])) /\ Written(page[i])[d] = Opening(Ignored[k])
    BY <1>5, <1>8, <1>10, <1>12, Zenon
  <2> QED BY <1>11, <2>1, BlockOpens, Zenon
<1>14. i \in Blocks
  BY <1>2, <1>13, Zenon DEF Blocks
<1>15. j = k
  <2>1. j \notin 1 .. k - 1
    BY <1>12, <1>13, <1>14, Zenon DEF Gone
  <2> QED BY <2>1
<1>16. start = o + 1
  <2>1. Closes(page[i])
    BY <1>13, Zenon DEF Closes
  <2>2. Written(page[i])[1] = Opening(Ignored[k])
    BY <1>11, <1>13, <1>15, <2>1, ClosesShape, Zenon
  <2>3. 1 \in 1 .. m
    BY <1>6, <1>8
  <2>4. start <= o + 1
    BY <1>1a, <1>9, <1>12, <2>2, <2>3, Zenon
  <2> QED BY <1>6, <1>8, <2>4
<1> QED BY <1>1, <1>4, <1>12, <1>13, <1>14, <1>15, <1>16, Zenon DEF BlockStarts

\* Nothing is left of the k-th tag when it opens nowhere.
LEMMA NoBlockLeft ==
  ASSUME PageOK, NEW k \in 1 .. 5, NEW R, Gone(R, k),
         NEW t, t = FlattenSeq(Cleared(R)),
         \A i \in 1 .. Len(t) : t[i] # Opening(Ignored[k])
  PROVE  \A i \in Blocks : page[i].tag = Ignored[k] => i \in R
<1> SUFFICES ASSUME NEW i \in Blocks, page[i].tag = Ignored[k], i \notin R PROVE FALSE
  BY Zenon
<1>1. PICK c : c = Cleared(R)
  OBVIOUS
<1>2. c \in Seq(Seq(Token)) /\ Len(c) = Len(page) /\ t = FlattenSeq(c)
  BY <1>1, ClearedParts, Zenon
<1>3. i \in 1 .. Len(page) /\ page[i].kind = "block"
  BY Zenon DEF Blocks
<1>4. page[i] \in PieceType /\ Closes(page[i])
  <2>1. page[i] \in PieceType
    BY <1>3 DEF PageOK
  <2> QED BY <1>3, <2>1, Zenon DEF Closes
<1>5. c[i] = Written(page[i])
  BY <1>1, <1>3, ClearedParts, Zenon
<1>6. 1 \in 1 .. Len(c[i]) /\ c[i][1] = Opening(Ignored[k])
  <2>1. /\ Len(Written(page[i])) \in Nat /\ Len(Written(page[i])) > 4
        /\ Written(page[i])[1] = Opening(page[i].tag)
    BY <1>4, ClosesShape, Zenon
  <2>2. PICK m : m = Len(c[i])
    OBVIOUS
  <2>3. m \in Nat /\ m > 4
    BY <1>5, <2>1, <2>2, Zenon
  <2>4. 1 \in 1 .. m
    BY <2>3
  <2> QED BY <1>5, <2>1, <2>2, <2>4, Zenon
<1>7. PICK h : h = Len(Flat(c, i - 1)) + 1
  OBVIOUS
<1>8. h \in 1 .. Len(t) /\ t[h] = c[i][1]
  BY <1>2, <1>3, <1>6, <1>7, PartOfFlat
<1> QED BY <1>6, <1>8, Zenon

\* A block is taken out as a whole.
LEMMA BlockTaken ==
  ASSUME PageOK, NEW k \in 1 .. 5, at = k, NEW R, Gone(R, k),
         text = FlattenSeq(Cleared(R)),
         NEW i \in Blocks, i \notin R, page[i].tag = Ignored[k],
         NEW start, start = Len(Flat(Cleared(R), i - 1)) + 1
  PROVE  WithoutBlock(start) = FlattenSeq(Cleared(R \cup {i}))
<1>1. PICK c, new : c = Cleared(R) /\ new = Cleared(R \cup {i})
  OBVIOUS
<1>2. c \in Seq(Seq(Token)) /\ Len(c) = Len(page) /\ text = FlattenSeq(c)
  BY <1>1, ClearedParts, Zenon
<1>3. i \in 1 .. Len(page) /\ page[i].kind = "block"
  BY Zenon DEF Blocks
<1>4. page[i] \in PieceType /\ WellWritten(page[i]) /\ Closes(page[i])
  <2>1. page[i] \in PieceType /\ WellWritten(page[i])
    BY <1>3 DEF PageOK
  <2> QED BY <1>3, <2>1, Zenon DEF Closes
<1>5. c[i] = Written(page[i])
  BY <1>1, <1>3, ClearedParts, Zenon
<1>6. PICK o, m : o = Len(Flat(c, i - 1)) /\ m = Len(c[i])
  OBVIOUS
<1>7. m \in Nat /\ m > 4 /\ c[i][1] = Opening(Ignored[k]) /\ c[i][m] = Closing(Ignored[k])
  BY <1>4, <1>5, <1>6, ClosesShape, Zenon
<1>8. /\ o \in Nat /\ start = o + 1 /\ text \in Seq(Token) /\ Len(text) \in Nat
      /\ o + m <= Len(text)
  <2>1. i - 1 \in 0 .. Len(c) /\ i \in 1 .. Len(c) /\ i \in 0 .. Len(c) /\ Len(c) \in i .. Len(c)
    BY <1>2, <1>3
  <2>2. Len(Flat(c, i)) = o + m /\ o \in Nat
    BY <1>2, <1>6, <2>1, FlatLengths, Zenon
  <2>3. Len(Flat(c, i)) <= Len(Flat(c, Len(c))) /\ Len(Flat(c, Len(c))) = Len(FlattenSeq(c))
    BY <1>2, <2>1, FlatLengths, Zenon
  <2>4. text \in Seq(Token)
    BY <1>2, FlattenType
  <2>5. Len(text) \in Nat
    BY <2>4
  <2>6. o + m <= Len(text)
    BY <1>2, <2>2, <2>3, Zenon
  <2> QED BY <1>1, <1>6, <2>2, <2>4, <2>5, <2>6, Zenon
<1>9. \A e \in 1 .. m : o + e \in 1 .. Len(text) /\ text[o + e] = c[i][e]
  <2> SUFFICES ASSUME NEW e \in 1 .. m
               PROVE  o + e \in 1 .. Len(text) /\ text[o + e] = c[i][e]
    OBVIOUS
  <2>1. c \in Seq(Seq(Token)) /\ i \in 1 .. Len(c) /\ e \in 1 .. Len(c[i])
    BY <1>2, <1>3, <1>6
  <2>2. /\ Len(Flat(c, i - 1)) + e \in 1 .. Len(FlattenSeq(c))
        /\ FlattenSeq(c)[Len(Flat(c, i - 1)) + e] = c[i][e]
    BY <2>1, PartOfFlat, ZenonT(40)
  <2> QED BY <1>2, <1>6, <2>2, Zenon
<1>10. BlockEnd(start) = o + m
  <2> DEFINE Ends == {j \in Positions(Closing(Ignored[at])) : j > start} \cup {Len(text)}
  <2>1. o + m \in Ends
    <3>1. m \in 1 .. m /\ o + m > start
      BY <1>7, <1>8
    <3>2. o + m \in DOMAIN text /\ text[o + m] = Closing(Ignored[at])
      <4>1. DOMAIN text = 1 .. Len(text)
        BY <1>8
      <4> QED BY <1>7, <1>9, <3>1, <4>1, Zenon
    <3> QED BY <3>1, <3>2, Zenon DEF Positions
  <2>2. ASSUME NEW y \in Ends PROVE o + m <= y
    <3>1. CASE y = Len(text)
      BY <1>8, <3>1
    <3>2. CASE y \in DOMAIN text /\ text[y] = Closing(Ignored[at]) /\ y > start
      <4>1. y \in Nat /\ y > o + 1
        BY <1>8, <3>2
      <4>2. SUFFICES ASSUME y < o + m PROVE FALSE
        BY <1>7, <1>8, <4>1
      <4>3. PICK e : e = y - o
        OBVIOUS
      <4>4. e \in 1 .. m /\ y = o + e /\ e # m
        BY <1>7, <1>8, <4>1, <4>2, <4>3
      <4>5. c[i][e] = Closing(Ignored[k])
        BY <1>9, <3>2, <4>4, Zenon
      <4>6. e = Len(Written(page[i]))
        BY <1>4, <1>5, <1>6, <4>4, <4>5, ClosesAtEnd, Zenon
      <4> QED BY <1>5, <1>6, <4>4, <4>6, Zenon
    <3> QED BY <3>1, <3>2, Zenon DEF Positions
  <2>3. BlockEnd(start) = Min(Ends)
    BY DEF BlockEnd
  <2>4. Ends \subseteq Nat
    <3>1. DOMAIN text \subseteq Nat
      BY <1>8
    <3> QED BY <1>8, <3>1 DEF Positions
  <2> HIDE DEF Ends
  <2>5. \A y \in Ends : (\A z \in Ends : y <= z) => y = o + m
    BY <1>7, <1>8, <2>1, <2>2, <2>4
  <2> QED BY <2>1, <2>2, <2>3, <2>5 DEF Min
<1>11. <<Space>> \in Seq(Token) /\ i \in R \cup {i}
  BY FitsFew DEF Spaces
<1>12. new \in [1 .. Len(c) -> Seq(Token)] /\ new[i] = <<Space>>
  BY <1>1, <1>2, <1>3, <1>11, ClearedParts, Zenon
<1>13. ASSUME NEW j \in 1 .. Len(c), j # i PROVE new[j] = c[j]
  <2>1. j \in R \cup {i} <=> j \in R
    BY <1>13, Zenon
  <2>2. /\ j \in R => c[j] = <<Space>>
        /\ j \notin R => c[j] = Written(page[j])
    BY <1>1, <1>2, ClearedParts, Zenon
  <2>3. /\ j \in R \cup {i} => new[j] = <<Space>>
        /\ j \notin R \cup {i} => new[j] = Written(page[j])
    BY <1>1, <1>2, ClearedParts, Zenon
  <2> QED BY <2>1, <2>2, <2>3, Zenon
<1>14. FlattenSeq(new)
         = (SubSeq(text, 1, o) \o <<Space>>) \o SubSeq(text, o + m + 1, Len(text))
  <2>1. c \in Seq(Seq(Token)) /\ new \in Seq(Seq(Token)) /\ Len(new) = Len(c)
    BY <1>1, <1>2, ClearedParts, Zenon
  <2>2. ChangedAt(new, c, i) /\ i \in 1 .. Len(c)
    BY <1>2, <1>3, <1>13, <2>1, Zenon DEF ChangedAt
  <2>3. FlattenSeq(new)
          = InPlace(FlattenSeq(c), Len(Flat(c, i - 1)), Len(c[i]), new[i])
    BY <2>1, <2>2, ReplacePart
  <2> QED BY <1>2, <1>6, <1>12, <2>3, Zenon DEF InPlace
<1>15. WithoutBlock(start)
         = (SubSeq(text, 1, o) \o <<Space>>) \o SubSeq(text, o + m + 1, Len(text))
  <2>1. start - 1 = o
    BY <1>8
  <2> QED BY <1>10, <2>1, Zenon DEF WithoutBlock
<1> QED BY <1>1, <1>14, <1>15, Zenon

-----------------------------------------------------------------------------
(* The text of a page *)

\* The text is on its way from the markup to what is shown of it.
OnItsWay(markup) ==
  /\ stage = "strip" => text = markup
  /\ stage = "decode" => text = Decoded(at - 1, Stripped(markup))
  /\ stage = "collapse" => text = Decoded(4, Stripped(markup))

\* While blocks are removed, those of the tags that are done with are gone.
Removing == \E R \in SUBSET Blocks : Gone(R, at) /\ text = FlattenSeq(Cleared(R))

\* The page's text is made of the page without its blocks, and is what it shows.
ContentInv ==
  type = "html" =>
    /\ PageOK /\ stage # "parse"
    /\ stage = "remove" => Removing
    /\ content = << >> =>
         stage \notin {"elements", "done"} /\ OnItsWay(FlattenSeq(Cleared(Blocks)))
    /\ content # << >> =>
         /\ content = Visible(page)
         /\ stage \in {"elements", "strip", "decode", "collapse", "done"}

\* Stripping and each entity bring the text on.
LEMMA CleaningSteps ==
  ASSUME StageOK, NEW m, OnItsWay(m), Strip \/ DecodeEntity
  PROVE  OnItsWay(m)' /\ stage' \in {"decode", "collapse"}
<1>0. "strip" # "decode" /\ "strip" # "collapse" /\ "decode" # "collapse"
  OBVIOUS
<1>1. CASE Strip
  <2>1. stage = "strip" /\ stage' = "decode" /\ at' = 1 /\ text' = Stripped(text)
    BY <1>1, Zenon DEF Strip, Goto
  <2>2. text' = Decoded(0, Stripped(m))
    BY <2>1, DecodedSteps, Zenon DEF OnItsWay
  <2>3. at' - 1 = 0
    BY <2>1
  <2> QED BY <1>0, <2>1, <2>2, <2>3, Zenon DEF OnItsWay
<1>2. CASE DecodeEntity
  <2>1. /\ stage = "decode" /\ text' = Once(at, text)
        /\ \/ at < 4 /\ at' = at + 1 /\ stage' = stage
           \/ ~(at < 4) /\ at' = 1 /\ stage' = "collapse"
    BY <1>2, EntityFacts DEF DecodeEntity, Goto, Once
  <2>2. at \in 1 .. 4
    BY <2>1 DEF StageOK
  <2>3. text' = Decoded(at, Stripped(m))
    BY <2>1, <2>2, DecodedSteps, Zenon DEF OnItsWay
  <2>4. CASE at < 4 /\ at' = at + 1 /\ stage' = stage
    <3>1. at' - 1 = at
      BY <2>2, <2>4
    <3> QED BY <1>0, <2>1, <2>3, <2>4, <3>1, Zenon DEF OnItsWay
  <2>5. CASE ~(at < 4) /\ at' = 1 /\ stage' = "collapse"
    <3>1. at = 4
      BY <2>2, <2>5
    <3> QED BY <1>0, <2>3, <2>5, <3>1, Zenon DEF OnItsWay
  <2> QED BY <2>1, <2>4, <2>5
<1> QED BY <1>1, <1>2

\* No step writes the page.
LEMMA PageStays ==
  ASSUME page' = page
  PROVE  /\ PageOK' <=> PageOK
         /\ Blocks' = Blocks
         /\ FlattenSeq(Cleared(Blocks))' = FlattenSeq(Cleared(Blocks))
         /\ \A R : Cleared(R)' = Cleared(R)
         /\ \A R, k : Gone(R, k)' <=> Gone(R, k)
BY DEF PageOK, Blocks, Cleared, Gone

\* A round takes one block out of the text.
LEMMA RemoveBlockStep ==
  ASSUME PageOK, StageOK, Removing, RemoveBlock
  PROVE  Removing'
<1>1. PICK R \in SUBSET Blocks : Gone(R, at) /\ text = FlattenSeq(Cleared(R))
  BY Zenon DEF Removing
<1>2. PICK k \in 1 .. 5 : at = k
  BY DEF StageOK
<1>3. text \in Seq(Token) /\ DOMAIN text = 1 .. Len(text)
  <2>1. Cleared(R) \in Seq(Seq(Token))
    BY ClearedParts
  <2>2. text \in Seq(Token)
    BY <1>1, <2>1, FlattenType
  <2> QED BY <2>2
<1>4. PICK start \in 1 .. Len(text) :
        /\ text[start] = Opening(Ignored[k])
        /\ \A i \in 1 .. Len(text) : text[i] = Opening(Ignored[k]) => start <= i
        /\ text' = WithoutBlock(start)
  BY <1>2, <1>3, Zenon DEF RemoveBlock, Positions
<1>6. PICK i \in Blocks :
        /\ i \notin R /\ page[i].tag = Ignored[k]
        /\ start = Len(Flat(Cleared(R), i - 1)) + 1
  <2>1. Gone(R, k) /\ FirstAt(FlattenSeq(Cleared(R)), Opening(Ignored[k]), start)
    BY <1>1, <1>2, <1>4, Zenon DEF FirstAt
  <2>2. BlockStarts(R, k, start)
    BY <2>1, BlockFound
  <2> QED BY <2>2, Zenon DEF BlockStarts
<1>7. text' = FlattenSeq(Cleared(R \cup {i}))
  BY <1>1, <1>2, <1>4, <1>6, BlockTaken, Zenon
<1>8. page' = page /\ at' = at
  BY Zenon DEF RemoveBlock
<1>9. R \cup {i} \in SUBSET Blocks /\ Gone(R \cup {i}, at)
  BY <1>1, Zenon DEF Gone
<1>10. PICK Q : Q = R \cup {i}
  OBVIOUS
<1>11. Q \in SUBSET Blocks' /\ Gone(Q, at)' /\ text' = FlattenSeq(Cleared(Q))'
  <2>1. Q \in SUBSET Blocks' /\ Cleared(Q)' = Cleared(Q)
    BY <1>8, <1>9, <1>10, PageStays, Zenon
  <2>2. Gone(Q, at)'
    BY <1>8, <1>9, <1>10 DEF Gone, Blocks
  <2> QED BY <1>7, <1>10, <2>1, <2>2, Zenon
<1> QED BY <1>11, Zenon DEF Removing

\* When a tag opens nowhere, its blocks are gone, and after the last tag all are.
LEMMA NextIgnoredStep ==
  ASSUME PageOK, StageOK, Removing, NextIgnored
  PROVE  /\ stage' = "remove" => Removing'
         /\ stage' = "strip" => text' = FlattenSeq(Cleared(Blocks))'
         /\ stage' \in {"remove", "strip"}
<1>1. PICK R \in SUBSET Blocks : Gone(R, at) /\ text = FlattenSeq(Cleared(R))
  BY Zenon DEF Removing
<1>2. PICK k \in 1 .. 5 : at = k
  BY DEF StageOK
<1>3. text \in Seq(Token) /\ DOMAIN text = 1 .. Len(text)
  <2>1. Cleared(R) \in Seq(Seq(Token))
    BY ClearedParts
  <2>2. text \in Seq(Token)
    BY <1>1, <2>1, FlattenType
  <2> QED BY <2>2
<1>4. \A i \in 1 .. Len(text) : text[i] # Opening(Ignored[k])
  BY <1>2, <1>3, Zenon DEF NextIgnored, Positions
<1>5. \A i \in Blocks : page[i].tag = Ignored[k] => i \in R
  <2>1. PICK t : t = text
    OBVIOUS
  <2>2. /\ Gone(R, k) /\ t = FlattenSeq(Cleared(R))
        /\ \A i \in 1 .. Len(t) : t[i] # Opening(Ignored[k])
    BY <1>1, <1>2, <1>4, <2>1, Zenon
  <2> QED BY <2>2, NoBlockLeft
<1>6. /\ stage = "remove" /\ page' = page /\ text' = text
      /\ \/ k < 5 /\ at' = k + 1 /\ stage' = stage
         \/ ~(k < 5) /\ at' = 1 /\ stage' = "strip"
  BY <1>2, EntityFacts DEF NextIgnored, Goto
<1>7. CASE k < 5 /\ at' = k + 1 /\ stage' = stage
  <2>1. Gone(R, k + 1)
    <3>1. \A j \in 1 .. (k + 1) - 1 : j = k \/ j \in 1 .. k - 1
      OBVIOUS
    <3> QED BY <1>1, <1>2, <1>5, <3>1, Zenon DEF Gone
  <2>2. PICK n : n = k + 1
    OBVIOUS
  <2>3. Gone(R, n)' /\ Cleared(R)' = Cleared(R) /\ R \in SUBSET Blocks'
    BY <1>6, <2>1, <2>2, PageStays, Zenon
  <2>4. Gone(R, at)'
    BY <1>7, <2>2, <2>3 DEF Gone
  <2>5. Removing'
    BY <1>1, <1>6, <2>3, <2>4, Zenon DEF Removing
  <2>6. "remove" # "strip"
    OBVIOUS
  <2> QED BY <1>6, <1>7, <2>5, <2>6, Zenon
<1>8. CASE ~(k < 5) /\ at' = 1 /\ stage' = "strip"
  <2>1. k = 5
    BY <1>8
  <2>2. ASSUME NEW i \in Blocks PROVE i \in R
    <3>1. i \in 1 .. Len(page) /\ page[i].kind = "block"
      BY Zenon DEF Blocks
    <3>2. WellWritten(page[i])
      BY <3>1, Zenon DEF PageOK
    <3>3. "block" # "text" /\ "block" # "named" /\ "block" # "element" /\ "block" # "comment"
      OBVIOUS
    <3>4. PICK j \in 1 .. 5 : page[i].tag = Ignored[j]
      BY <3>1, <3>2, <3>3, TagFacts, Zenon DEF WellWritten
    <3>5. j = 5 \/ j \in 1 .. 5 - 1
      OBVIOUS
    <3> QED BY <1>1, <1>2, <1>5, <2>1, <3>4, <3>5, Zenon DEF Gone
  <2>3. R = Blocks
    BY <2>2
  <2>4. text' = FlattenSeq(Cleared(Blocks))'
    BY <1>1, <1>6, <2>3, PageStays, Zenon
  <2>5. "remove" # "strip"
    OBVIOUS
  <2> QED BY <1>8, <2>4, <2>5, Zenon
<1> QED BY <1>6, <1>7, <1>8

\* The text of a page is as it should be at first.
LEMMA ContentStart ==
  ASSUME Init
  PROVE  ContentInv
<1> SUFFICES ASSUME type = "html" PROVE ContentInv
  BY Zenon DEF ContentInv
<1>1. /\ content = << >> /\ at = 1
      /\ page \in Page /\ text = Markup(page) /\ stage = "remove"
  BY DEF Init
<1>2. PageOK
  BY <1>1, PagesAreOK
<1>3. Gone({}, at)
  <2>1. ~ \E j : j \in 1 .. at - 1
    BY <1>1
  <2> QED BY <2>1, Zenon DEF Gone
<1>4. text = FlattenSeq(Cleared({}))
  <2>1. DOMAIN page = 1 .. Len(page)
    BY <1>2 DEF PageOK
  <2>2. [i \in DOMAIN page |-> Written(page[i])] = Cleared({})
    BY <2>1, Zenon DEF Cleared
  <2> QED BY <1>1, <2>2, Zenon DEF Markup
<1>5. Removing
  BY <1>3, <1>4, Zenon DEF Removing
<1>6. /\ "remove" # "parse" /\ "remove" # "elements" /\ "remove" # "done"
      /\ "remove" # "strip" /\ "remove" # "decode" /\ "remove" # "collapse"
  OBVIOUS
<1> QED BY <1>1, <1>2, <1>5, <1>6, Zenon DEF ContentInv, OnItsWay

\* Every step leaves the type and the page, and those of an HTML page do not parse.
LEMMA PageSteps ==
  ASSUME Extract
  PROVE  /\ type' = type /\ page' = page
         /\ \/ stage = "parse"
            \/ RemoveBlock \/ NextIgnored \/ Strip \/ DecodeEntity \/ CollapseContent
            \/ LongerName \/ TakeElement \/ CollapseElement \/ NextElementTag
<1>1. CASE ParseFails
  BY <1>1, Zenon DEF ParseFails
<1>2. CASE CollectText
  <2>1. UNCHANGED textVars /\ stage = "parse"
    BY <1>2, Zenon DEF CollectText
  <2> QED BY <2>1 DEF textVars
<1>3. CASE WalkFails
  BY <1>3, Zenon DEF WalkFails
<1>4. CASE JoinFragments
  BY <1>4, Zenon DEF JoinFragments
<1>5. CASE RemoveBlock
  BY <1>5, Zenon DEF RemoveBlock
<1>6. CASE NextIgnored
  BY <1>6, Zenon DEF NextIgnored
<1>7. CASE Strip
  BY <1>7, Zenon DEF Strip
<1>8. CASE DecodeEntity
  BY <1>8, Zenon DEF DecodeEntity
<1>9. CASE CollapseContent
  BY <1>9, Zenon DEF CollapseContent
<1>10. CASE LongerName
  BY <1>10, Zenon DEF LongerName
<1>11. CASE TakeElement
  BY <1>11, Zenon DEF TakeElement
<1>12. CASE CollapseElement
  BY <1>12, Zenon DEF CollapseElement
<1>13. CASE NextElementTag
  BY <1>13, Zenon DEF NextElementTag
<1> QED
  BY <1>1, <1>2, <1>3, <1>4, <1>5, <1>6, <1>7, <1>8, <1>9, <1>10, <1>11, <1>12, <1>13, Zenon
     DEF Extract

\* Every step keeps the text of an HTML page as it should be.
LEMMA ContentSteps ==
  ASSUME TextInv, ContentInv, Extract
  PROVE  ContentInv'
<1> SUFFICES ASSUME type' = "html" PROVE ContentInv'
  BY Zenon DEF ContentInv
<1>1. /\ type = "html" /\ page' = page
      /\ \/ stage = "parse"
         \/ RemoveBlock \/ NextIgnored \/ Strip \/ DecodeEntity \/ CollapseContent
         \/ LongerName \/ TakeElement \/ CollapseElement \/ NextElementTag
  BY PageSteps, Zenon
<1>2. /\ PageOK /\ stage # "parse"
      /\ stage = "remove" => Removing
      /\ content = << >> =>
           stage \notin {"elements", "done"} /\ OnItsWay(FlattenSeq(Cleared(Blocks)))
      /\ content # << >> =>
           /\ content = Visible(page)
           /\ stage \in {"elements", "strip", "decode", "collapse", "done"}
  BY <1>1, Zenon DEF ContentInv
<1>3. StageOK
  BY DEF TextInv
<1>4. /\ PageOK' /\ Visible(page)' = Visible(page)
      /\ FlattenSeq(Cleared(Blocks))' = FlattenSeq(Cleared(Blocks))
  <2>1. Visible(page)' = Visible(page)
    BY <1>1, Zenon
  <2> QED BY <1>1, <1>2, <2>1, PageStays, Zenon
<1>5. PICK m : m = FlattenSeq(Cleared(Blocks))
  OBVIOUS
<1>6. /\ \A s, t \in {"parse", "remove", "strip", "decode", "collapse", "elements", "done", "failed"} :
           s = t \/ s # t
      /\ "parse" \notin {"remove", "strip", "decode", "collapse", "elements", "done", "failed"}
      /\ "remove" \notin {"strip", "decode", "collapse", "elements", "done", "failed"}
      /\ "strip" \notin {"decode", "collapse", "elements", "done", "failed"}
      /\ "decode" \notin {"collapse", "elements", "done", "failed"}
      /\ "collapse" \notin {"elements", "done", "failed"}
      /\ "failed" \notin {"elements", "done"}
  OBVIOUS
<1>7. CASE RemoveBlock
  <2>1. stage = "remove" /\ stage' = stage /\ content' = content
    BY <1>7, Zenon DEF RemoveBlock
  <2>2. content = << >>
    BY <1>3, <2>1, Zenon DEF StageOK
  <2>3. Removing'
    BY <1>2, <1>3, <1>7, <2>1, RemoveBlockStep
  <2> QED BY <1>4, <1>6, <2>1, <2>2, <2>3, Zenon DEF ContentInv, OnItsWay
<1>8. CASE NextIgnored
  <2>1. stage = "remove" /\ content' = content
    BY <1>8, Zenon DEF NextIgnored
  <2>2. content = << >>
    BY <1>3, <2>1, Zenon DEF StageOK
  <2>3. /\ stage' = "remove" => Removing'
        /\ stage' = "strip" => text' = FlattenSeq(Cleared(Blocks))'
        /\ stage' \in {"remove", "strip"}
    BY <1>2, <1>3, <1>8, <2>1, NextIgnoredStep
  <2> QED BY <1>4, <1>6, <2>1, <2>2, <2>3, Zenon DEF ContentInv, OnItsWay
<1>9. CASE Strip \/ DecodeEntity
  <2>1. content' = content
    BY <1>9, Zenon DEF Strip, DecodeEntity
  <2>2. stage \in {"strip", "decode"}
    BY <1>9, Zenon DEF Strip, DecodeEntity
  <2>3. CASE content = << >>
    <3>1. OnItsWay(m)
      BY <1>2, <1>5, <2>3, Zenon
    <3>2. OnItsWay(m)' /\ stage' \in {"decode", "collapse"}
      BY <1>3, <1>9, <3>1, CleaningSteps
    <3>3. m = FlattenSeq(Cleared(Blocks))'
      BY <1>4, <1>5, Zenon
    <3>4. OnItsWay(FlattenSeq(Cleared(Blocks)))'
      BY <3>2, <3>3, Zenon DEF OnItsWay
    <3> QED BY <1>4, <1>6, <2>1, <2>3, <3>2, <3>4, Zenon DEF ContentInv
  <2>4. CASE content # << >>
    <3>1. stage' \in {"decode", "collapse"}
      BY <1>9, Zenon DEF Strip, DecodeEntity, Goto
    <3> QED BY <1>2, <1>4, <1>6, <2>1, <2>4, <3>1, Zenon DEF ContentInv
  <2> QED BY <2>3, <2>4
<1>10. CASE CollapseContent
  <2>1. /\ stage = "collapse" /\ content = << >> /\ content' = Collapsed(text)
        /\ content' = << >> => stage' = "failed"
        /\ content' # << >> => stage' = "elements"
    BY <1>1, <1>10, Zenon DEF CollapseContent, Goto
  <2>2. content' = Visible(page)
    <3>1. text = Decoded(4, Stripped(FlattenSeq(Cleared(Blocks))))
      BY <1>2, <2>1, Zenon DEF OnItsWay
    <3>2. Collapsed(Decoded(4, Stripped(FlattenSeq(Cleared(Blocks))))) = Visible(page)
      BY <1>2, PageShown, Zenon
    <3> QED BY <2>1, <3>1, <3>2, Zenon
  <2> QED BY <1>4, <1>6, <2>1, <2>2, Zenon DEF ContentInv, OnItsWay
<1>11. CASE LongerName \/ NextElementTag
  <2>1. /\ stage = "elements" /\ content' = content
        /\ stage' = stage \/ stage' = "done"
    BY <1>11, Zenon DEF LongerName, NextElementTag, Goto
  <2>2. content # << >>
    BY <1>2, <2>1, Zenon
  <2> QED BY <1>2, <1>4, <1>6, <2>1, <2>2, Zenon DEF ContentInv
<1>12. CASE TakeElement
  <2>1. stage = "elements" /\ content' = content /\ stage' = "strip"
    BY <1>12, Zenon DEF TakeElement, Goto
  <2>2. content # << >>
    BY <1>2, <2>1, Zenon
  <2> QED BY <1>2, <1>4, <1>6, <2>1, <2>2, Zenon DEF ContentInv
<1>13. CASE CollapseElement
  <2>1. content # << >> /\ content' = content /\ stage' = "elements"
    BY <1>13, Zenon DEF CollapseElement, Goto
  <2> QED BY <1>2, <1>4, <1>6, <2>1, Zenon DEF ContentInv
<1> QED BY <1>1, <1>2, <1>7, <1>8, <1>9, <1>10, <1>11, <1>12, <1>13, Zenon

-----------------------------------------------------------------------------
(* Where the pieces of a page are *)

Parts == Cleared({})

\* The n-th piece ends there.
Offset(n) == Len(Flat(Parts, n))

\* A token of the page is one of a piece.
InPiece(h) ==
  \E m \in 1 .. Len(page) : \E d \in 1 .. Len(Written(page[m])) : h = Offset(m - 1) + d

\* The markup of a page are its pieces in a row.
LEMMA MarkupParts ==
  ASSUME PageOK
  PROVE  /\ Parts \in Seq(Seq(Token)) /\ Len(Parts) = Len(page) /\ Len(page) \in Nat
         /\ \A i \in 1 .. Len(page) : Parts[i] = Written(page[i])
         /\ Markup(page) = FlattenSeq(Parts) /\ Markup(page) \in Seq(Token)
         /\ Len(Markup(page)) \in Nat
<1>1. /\ Parts \in Seq(Seq(Token)) /\ Len(Parts) = Len(page) /\ Len(page) \in Nat
  BY ClearedParts, Zenon DEF Parts
<1>2. \A i \in 1 .. Len(page) : Parts[i] = Written(page[i])
  BY DEF Parts, Cleared
<1>3. Markup(page) = FlattenSeq(Parts)
  <2>1. DOMAIN page = 1 .. Len(page)
    BY DEF PageOK
  <2>2. [i \in DOMAIN page |-> Written(page[i])] = Parts
    BY <2>1, Zenon DEF Parts, Cleared
  <2> QED BY <2>2, Zenon DEF Markup
<1>4. Markup(page) \in Seq(Token)
  BY MarkupType, Zenon DEF PageOK
<1>5. Len(Markup(page)) \in Nat
  BY <1>4
<1> QED BY <1>1, <1>2, <1>3, <1>4, <1>5, Zenon

\* Where the i-th piece stands.
LEMMA PiecePlace ==
  ASSUME PageOK, NEW i \in 1 .. Len(page)
  PROVE  /\ Offset(i - 1) \in Nat /\ Len(Written(page[i])) \in Nat
         /\ Offset(i) = Offset(i - 1) + Len(Written(page[i]))
         /\ \A d \in 1 .. Len(Written(page[i])) :
              /\ Offset(i - 1) + d \in 1 .. Len(Markup(page))
              /\ Markup(page)[Offset(i - 1) + d] = Written(page[i])[d]
<1>1. PICK p : p = Parts
  OBVIOUS
<1>2. /\ p \in Seq(Seq(Token)) /\ i \in 1 .. Len(p) /\ i - 1 \in 0 .. Len(p)
      /\ p[i] = Written(page[i]) /\ Markup(page) = FlattenSeq(p)
  <2>1. /\ p \in Seq(Seq(Token)) /\ i \in 1 .. Len(p)
        /\ p[i] = Written(page[i]) /\ Markup(page) = FlattenSeq(p)
    BY <1>1, MarkupParts, Zenon
  <2>2. i - 1 \in 0 .. Len(p)
    BY <2>1
  <2> QED BY <2>1, <2>2
<1>3. Len(Flat(p, i - 1)) \in Nat /\ Len(Flat(p, i)) = Len(Flat(p, i - 1)) + Len(p[i])
  BY <1>2, FlatLengths, Zenon
<1>4. \A d \in 1 .. Len(p[i]) :
        /\ Len(Flat(p, i - 1)) + d \in 1 .. Len(FlattenSeq(p))
        /\ FlattenSeq(p)[Len(Flat(p, i - 1)) + d] = p[i][d]
  BY <1>2, PartOfFlat
<1>5. Len(p[i]) \in Nat
  BY <1>2
<1> QED BY <1>1, <1>2, <1>3, <1>4, <1>5, Zenon DEF Offset

\* Pieces stand one behind the other, from the start to the end.
LEMMA PieceOrder ==
  ASSUME PageOK
  PROVE  /\ Offset(0) = 0 /\ Offset(Len(page)) = Len(Markup(page))
         /\ \A n \in 0 .. Len(page) : Offset(n) \in Nat
         /\ \A m \in 0 .. Len(page) : \A n \in m .. Len(page) : Offset(m) <= Offset(n)
<1>1. PICK p : p = Parts
  OBVIOUS
<1>2. p \in Seq(Seq(Token)) /\ Len(p) = Len(page) /\ Markup(page) = FlattenSeq(p)
  BY <1>1, MarkupParts, Zenon
<1>3. /\ Len(Flat(p, 0)) = 0 /\ Len(Flat(p, Len(p))) = Len(FlattenSeq(p))
      /\ \A n \in 0 .. Len(p) : Len(Flat(p, n)) \in Nat
      /\ \A m \in 0 .. Len(p) : \A n \in m .. Len(p) : Len(Flat(p, m)) <= Len(Flat(p, n))
  BY <1>2, FlatLengths, Zenon
<1> QED BY <1>1, <1>2, <1>3, Zenon DEF Offset

\* Every token of the markup stands in a piece.
LEMMA PieceFound ==
  ASSUME PageOK, NEW h \in 1 .. Len(Markup(page))
  PROVE  InPiece(h)
<1>1. PICK p : p = Parts
  OBVIOUS
<1>2. p \in Seq(Seq(Token)) /\ Len(p) = Len(page) /\ Markup(page) = FlattenSeq(p)
  BY <1>1, MarkupParts, Zenon
<1>3. PICK i \in 1 .. Len(p) : h > Len(Flat(p, i - 1)) /\ h <= Len(Flat(p, i))
  BY <1>2, PartAtFlat
<1>4. i \in 1 .. Len(page) /\ h > Offset(i - 1) /\ h <= Offset(i)
  BY <1>1, <1>2, <1>3, Zenon DEF Offset
<1>5. PICK o, l : o = Offset(i - 1) /\ l = Len(Written(page[i]))
  OBVIOUS
<1>6. o \in Nat /\ l \in Nat /\ Offset(i) = o + l
  BY <1>4, <1>5, PiecePlace, Zenon
<1>7. h \in Nat
  <2>1. Len(Markup(page)) \in Nat
    BY MarkupParts
  <2> QED BY <2>1
<1>8. PICK d : d = h - o
  OBVIOUS
<1>9. d \in 1 .. l /\ h = o + d
  <2>1. h > o /\ h <= o + l
    BY <1>4, <1>5, <1>6, Zenon
  <2> QED BY <1>6, <1>7, <1>8, <2>1
<1> QED BY <1>4, <1>5, <1>9, Zenon DEF InPiece

\* An element, or a longer name, of that tag starts there.
Opener(m, tag) ==
  /\ m \in 1 .. Len(page) /\ page[m].kind \in {"named", "element"} /\ page[m].tag = tag

\* Only there is such an opening.
LEMMA OpeningPlace ==
  ASSUME PageOK, NEW tag \in ElementTags, NEW m \in 1 .. Len(page),
         NEW d \in 1 .. Len(Written(page[m])),
         Markup(page)[Offset(m - 1) + d] = Opening(tag)
  PROVE  d = 1 /\ Opener(m, tag)
<1>1. page[m] \in PieceType /\ WellWritten(page[m])
  BY DEF PageOK
<1>2. Written(page[m])[d] = Opening(tag)
  BY PiecePlace, Zenon
<1>3. PICK p : p = page[m]
  OBVIOUS
<1>4. d = 1 /\ p.kind \in {"named", "element"} /\ p.tag = tag
  <2>1. /\ p \in PieceType /\ WellWritten(p) /\ d \in 1 .. Len(Written(p))
        /\ Written(p)[d] = Opening(tag)
    BY <1>1, <1>2, <1>3, Zenon
  <2> QED BY <2>1, ElementOpens
<1> QED BY <1>3, <1>4, Zenon DEF Opener

\* And there is one.
LEMMA OpenerPlace ==
  ASSUME PageOK, NEW tag, NEW m, Opener(m, tag)
  PROVE  /\ m \in 1 .. Len(page) /\ 1 \in 1 .. Len(Written(page[m]))
         /\ 2 \in 1 .. Len(Written(page[m]))
         /\ Markup(page)[Offset(m - 1) + 1] = Opening(tag)
<1>1. m \in 1 .. Len(page) /\ page[m].kind \in {"named", "element"} /\ page[m].tag = tag
  BY Zenon DEF Opener
<1>2. page[m] \in PieceType
  BY <1>1 DEF PageOK
<1>3. PICK w, l : w = Written(page[m]) /\ l = Len(page[m].inside)
  OBVIOUS
<1>4. l \in Nat
  <2>1. page[m].inside \in Seq(Token)
    BY <1>2 DEF PieceType
  <2> QED BY <1>3, <2>1
<1>5. (Len(w) = l + 3 \/ Len(w) = l + 4 + 1) /\ w[1] = Opening(tag)
  <2>1. CASE page[m].kind = "named"
    BY <1>1, <1>2, <1>3, <2>1, NamedShape, Zenon
  <2>2. CASE page[m].kind = "element"
    BY <1>1, <1>2, <1>3, <2>2, ElementShape, Zenon
  <2> QED BY <1>1, <2>1, <2>2, Zenon
<1>6. PICK n : n = Len(w)
  OBVIOUS
<1>7. 1 \in 1 .. n /\ 2 \in 1 .. n
  BY <1>4, <1>5, <1>6
<1> QED BY <1>1, <1>3, <1>5, <1>6, <1>7, PiecePlace, Zenon

-----------------------------------------------------------------------------
(* What the elements of a page show *)

\* What an element shows is its inside, cleaned as the page is.
LEMMA ElementShown ==
  ASSUME NEW piece \in PieceType, WellWritten(piece), piece.kind = "element"
  PROVE  /\ Visible(<<piece>>) \in Seq(Token)
         /\ Visible(<<piece>>) = Collapsed(Decoded(4, Stripped(piece.inside)))
<1>1. PICK x, y : x = piece.inside /\ y = <<Space>>
  OBVIOUS
<1>2. x \in Seq(Token) /\ y \in Seq(Token)
  BY <1>1, FitsFew DEF PieceType, Spaces
<1>3. /\ "element" # "text" /\ "element" # "block" /\ "element" # "comment"
      /\ "element" # "named"
  OBVIOUS
<1>4. NoMarkup(x) /\ WholeEntities(x)
  BY <1>1, <1>3, Zenon DEF WellWritten
<1>5. Collapsed(Decoded(4, Stripped(x))) = Collapsed(Read(x))
  BY <1>2, <1>4, PlainFits, FitsShows, Zenon
<1>6. Shown(piece) = (y \o x) \o y
  BY <1>1, <1>3, Zenon DEF Shown
<1>7. Visible(<<piece>>) = Collapsed(Read((y \o x) \o y))
  <2>1. (y \o x) \o y \in Seq(Token)
    BY <1>2, ConcatProperties
  <2>2. [i \in DOMAIN <<piece>> |-> Shown(<<piece>>[i])] = <<Shown(piece)>>
    OBVIOUS
  <2>3. PICK s \in Seq(Token) : s = Shown(piece)
    BY <1>6, <2>1, Zenon
  <2>4. FlattenSeq(<<s>>) = s
    BY FlattenFew, Zenon
  <2> QED BY <1>6, <2>2, <2>3, <2>4, Zenon DEF Visible
<1>8. PICK r : r = Read(x)
  OBVIOUS
<1>9. WholeEntities(y) /\ Read(y) = y /\ r \in Seq(Token)
  BY <1>1, <1>2, <1>4, <1>8, FitsFew, SpacesRead, ReadType, Zenon
<1>10. Read((y \o x) \o y) = (y \o r) \o y
  <2>1. y \o x \in Seq(Token)
    BY <1>2, ConcatProperties
  <2>2. WholeEntities(y \o x) /\ Read(y \o x) = y \o r
    BY <1>2, <1>4, <1>8, <1>9, WholeConcat, ReadConcat, Zenon
  <2> QED BY <1>2, <1>9, <2>1, <2>2, ReadConcat, Zenon
<1>11. PICK e : e = << >>
  OBVIOUS
<1>12. e \in Seq(Token) /\ ~Words(e) /\ e \o y = y /\ e \o r = r
  <2>1. e \in Seq(Token) /\ e \o y = y /\ e \o r = r
    BY <1>2, <1>9, <1>11, ConcatEmptySeq
  <2>2. ~ \E k : k \in 1 .. Len(e)
    BY <1>11
  <2> QED BY <2>1, <2>2, Zenon DEF Words
<1>13. Space \in Token
  BY TokenFacts
<1>14. Same(y, e)
  <2>1. /\ Collapsed(e \o y) = Collapsed(e)
        /\ Words(e \o y) <=> Words(e)
        /\ Pending(e \o y) <=> Words(e)
    BY <1>1, <1>12, FitsFew, SpacesAppend, Zenon
  <2>2. ~Pending(e)
    BY <1>12, Zenon DEF Pending
  <2> QED BY <1>12, <2>1, <2>2, Zenon DEF Same
<1>15. Collapsed(y \o r) = Collapsed(r)
  <2>1. Same(y \o r, e \o r)
    BY <1>2, <1>9, <1>12, <1>14, SameConcat, Zenon
  <2> QED BY <1>12, <2>1, Zenon DEF Same
<1>16. Collapsed((y \o r) \o y) = Collapsed(y \o r)
  <2>1. y \o r \in Seq(Token)
    BY <1>2, <1>9, ConcatProperties
  <2> QED BY <1>1, <2>1, FitsFew, SpacesAppend, Zenon
<1>17. Collapsed(r) \in Seq(Token)
  BY <1>9, CollapsedIsNormal, Zenon
<1> QED BY <1>1, <1>5, <1>7, <1>8, <1>10, <1>15, <1>16, <1>17, Zenon

\* What is to be found of a tag, piece by piece.
Shows(tag) == [i \in 1 .. Len(page) |-> Headings(page[i], tag)]

\* It is a list of texts for every piece.
LEMMA ShowsType ==
  ASSUME PageOK, NEW tag
  PROVE  /\ Shows(tag) \in Seq(Seq(Seq(Token))) /\ Len(Shows(tag)) = Len(page)
         /\ \A i \in 1 .. Len(page) : Shows(tag)[i] = Headings(page[i], tag)
         /\ ElementsOf(tag) = FlattenSeq(Shows(tag)) /\ ElementsOf(tag) \in Seq(Seq(Token))
<1>1. ASSUME NEW i \in 1 .. Len(page) PROVE Headings(page[i], tag) \in Seq(Seq(Token))
  <2>1. PICK p : p = page[i]
    OBVIOUS
  <2>2. p \in PieceType /\ WellWritten(p)
    BY <2>1 DEF PageOK
  <2>3. CASE p.kind = "element"
    <3>1. PICK v \in Seq(Token) : v = Visible(<<p>>)
      BY <2>2, <2>3, ElementShown, Zenon
    <3>2. <<v>> \in Seq(Seq(Token)) /\ << >> \in Seq(Seq(Token))
      OBVIOUS
    <3> QED BY <2>1, <3>1, <3>2, Zenon DEF Headings
  <2>4. CASE p.kind # "element"
    <3>1. << >> \in Seq(Seq(Token))
      OBVIOUS
    <3> QED BY <2>1, <2>4, <3>1, Zenon DEF Headings
  <2> QED BY <2>3, <2>4
<1>2. Len(page) \in Nat /\ DOMAIN page = 1 .. Len(page)
  BY DEF PageOK
<1>3. Shows(tag) \in [1 .. Len(page) -> Seq(Seq(Token))]
  BY <1>1, Zenon DEF Shows
<1>4. Shows(tag) \in Seq(Seq(Seq(Token))) /\ Len(Shows(tag)) = Len(page)
  BY <1>2, <1>3
<1>5. \A i \in 1 .. Len(page) : Shows(tag)[i] = Headings(page[i], tag)
  BY Zenon DEF Shows
<1>6. ElementsOf(tag) = FlattenSeq(Shows(tag))
  BY <1>2, Zenon DEF ElementsOf, Shows
<1>7. FlattenSeq(Shows(tag)) \in Seq(Seq(Token))
  BY <1>4, FlattenType
<1> QED BY <1>4, <1>5, <1>6, <1>7, Zenon

\* Pieces in which the tag does not open show nothing of it.
LEMMA NothingShown ==
  ASSUME PageOK, NEW tag, NEW m \in 0 .. Len(page), NEW n \in m .. Len(page),
         \A i \in m + 1 .. n : ~Opener(i, tag)
  PROVE  Flat(Shows(tag), n) = Flat(Shows(tag), m)
<1>1. PICK s : s = Shows(tag)
  OBVIOUS
<1>2. s \in Seq(Seq(Seq(Token))) /\ Len(s) = Len(page)
  BY <1>1, ShowsType, Zenon
<1>3. ASSUME NEW i \in m + 1 .. n PROVE s[i] = << >>
  <2>1. i \in 1 .. Len(page)
    <3>1. Len(page) \in Nat
      BY MarkupParts
    <3> QED BY <3>1
  <2>2. s[i] = Headings(page[i], tag)
    BY <1>1, <2>1, ShowsType, Zenon
  <2>3. ~(page[i].kind = "element" /\ page[i].tag = tag)
    BY <2>1, Zenon DEF Opener
  <2> QED BY <2>2, <2>3, Zenon DEF Headings
<1> QED BY <1>1, <1>2, <1>3, FlatSkips

-----------------------------------------------------------------------------
(* The next opening of a tag *)

\* A scan that is at c has passed the first n pieces.
Scanned(tag, n, c) ==
  /\ c <= Offset(n) + 1
  /\ \A i \in c .. Offset(n) : Markup(page)[i] # Opening(tag)

\* The first opening that it comes upon.
NextFrom(c, tag, open) ==
  /\ open \in 1 .. Len(Markup(page)) /\ open >= c /\ Markup(page)[open] = Opening(tag)
  /\ \A i \in c .. open - 1 : Markup(page)[i] # Opening(tag)

\* It starts a later piece, and those that it passes show nothing of the tag.
Opens(tag, n, open) ==
  \E m \in n + 1 .. Len(page) :
    /\ Opener(m, tag) /\ open = Offset(m - 1) + 1
    /\ Flat(Shows(tag), m - 1) = Flat(Shows(tag), n)

\* The piece that the next opening starts.
LEMMA NextOpening ==
  ASSUME PageOK, NEW tag \in ElementTags, NEW n \in 0 .. Len(page), NEW c \in Nat,
         Scanned(tag, n, c), NEW open, NextFrom(c, tag, open)
  PROVE  Opens(tag, n, open)
<1>1. /\ open \in 1 .. Len(Markup(page)) /\ open >= c /\ Markup(page)[open] = Opening(tag)
      /\ \A i \in c .. open - 1 : Markup(page)[i] # Opening(tag)
  BY Zenon DEF NextFrom
<1>2. c <= Offset(n) + 1 /\ \A i \in c .. Offset(n) : Markup(page)[i] # Opening(tag)
  BY Zenon DEF Scanned
<1>3. InPiece(open)
  BY <1>1, PieceFound
<1>4. PICK m \in 1 .. Len(page) : \E d \in 1 .. Len(Written(page[m])) : open = Offset(m - 1) + d
  BY <1>3, Zenon DEF InPiece
<1>5. PICK d \in 1 .. Len(Written(page[m])) : open = Offset(m - 1) + d
  BY <1>4, Zenon
<1>6. d = 1 /\ Opener(m, tag)
  <2>1. Markup(page)[Offset(m - 1) + d] = Opening(tag)
    BY <1>1, <1>5, Zenon
  <2> QED BY <2>1, OpeningPlace
<1>7. open = Offset(m - 1) + 1
  BY <1>5, <1>6, Zenon
<1>8. /\ Len(page) \in Nat /\ open \in Nat
      /\ \A i \in 0 .. Len(page) : Offset(i) \in Nat
      /\ \A i \in 0 .. Len(page) : \A j \in i .. Len(page) : Offset(i) <= Offset(j)
  <2>1. Len(page) \in Nat /\ Len(Markup(page)) \in Nat
    BY MarkupParts
  <2>2. open \in Nat
    BY <1>1, <2>1
  <2> QED BY <2>1, <2>2, PieceOrder, Zenon
<1>9. m \in n + 1 .. Len(page)
  <2> SUFFICES ASSUME m <= n PROVE FALSE
    BY <1>8
  <2>1. m \in 0 .. Len(page) /\ n \in m .. Len(page)
    BY <1>8
  <2>2. PICK o, l, q, r : o = Offset(m - 1) /\ l = Len(Written(page[m])) /\ q = Offset(m)
                          /\ r = Offset(n)
    OBVIOUS
  <2>3. o \in Nat /\ l \in Nat /\ q = o + l /\ q <= r /\ r \in Nat /\ 1 \in 1 .. l
    BY <1>6, <1>8, <2>1, <2>2, PiecePlace, Zenon
  <2>4. open <= r
    <3>1. open = o + 1
      BY <1>7, <2>2, Zenon
    <3> QED BY <2>3, <3>1
  <2>5. open \in c .. r
    BY <1>1, <1>8, <2>3, <2>4
  <2> QED BY <1>1, <1>2, <2>2, <2>5, Zenon
<1>10. ASSUME NEW i \in n + 1 .. m - 1, Opener(i, tag) PROVE FALSE
  <2>1. i \in 1 .. Len(page) /\ n \in 0 .. Len(page) /\ m - 1 \in 0 .. Len(page)
        /\ i \in 0 .. Len(page) /\ i - 1 \in n .. Len(page) /\ m - 1 \in i .. Len(page)
    BY <1>8
  <2>2. PICK h : h = Offset(i - 1) + 1
    OBVIOUS
  <2>3. 1 \in 1 .. Len(Written(page[i])) /\ Markup(page)[h] = Opening(tag)
    BY <1>10, <2>2, OpenerPlace, Zenon
  <2>4. PICK o, l, q, r, s : o = Offset(i - 1) /\ l = Len(Written(page[i])) /\ q = Offset(i)
                          /\ r = Offset(n) /\ s = Offset(m - 1)
    OBVIOUS
  <2>5. o \in Nat /\ l \in Nat /\ q = o + l /\ r <= o /\ q <= s /\ s \in Nat /\ r \in Nat
        /\ 1 \in 1 .. l
    BY <1>8, <2>1, <2>3, <2>4, PiecePlace, Zenon
  <2>6. h = o + 1 /\ c <= r + 1 /\ open = s + 1
    BY <1>2, <1>7, <2>2, <2>4, Zenon
  <2>7. h \in c .. open - 1
    BY <2>5, <2>6
  <2> QED BY <1>1, <2>3, <2>7, Zenon
<1>11. Flat(Shows(tag), m - 1) = Flat(Shows(tag), n)
  <2>1. m - 1 \in n .. Len(page)
    BY <1>8, <1>9
  <2>2. \A i \in n + 1 .. m - 1 : ~Opener(i, tag)
    BY <1>10, Zenon
  <2> QED BY <2>1, <2>2, NothingShown
<1> QED BY <1>6, <1>7, <1>9, <1>11, Zenon DEF Opens

\* A scan that comes upon none has found all.
LEMMA NoOpening ==
  ASSUME PageOK, NEW tag \in ElementTags, NEW n \in 0 .. Len(page), NEW c \in Nat,
         Scanned(tag, n, c),
         \A i \in 1 .. Len(Markup(page)) : i >= c => Markup(page)[i] # Opening(tag)
  PROVE  Flat(Shows(tag), n) = ElementsOf(tag)
<1>1. c <= Offset(n) + 1
  BY Zenon DEF Scanned
<1>2. /\ Len(page) \in Nat
      /\ \A i \in 0 .. Len(page) : Offset(i) \in Nat
      /\ \A i \in 0 .. Len(page) : \A j \in i .. Len(page) : Offset(i) <= Offset(j)
  BY MarkupParts, PieceOrder, Zenon
<1>3. ASSUME NEW i \in n + 1 .. Len(page), Opener(i, tag) PROVE FALSE
  <2>1. i \in 1 .. Len(page) /\ n \in 0 .. Len(page) /\ i - 1 \in n .. Len(page)
        /\ i - 1 \in 0 .. Len(page)
    BY <1>2
  <2>2. PICK h : h = Offset(i - 1) + 1
    OBVIOUS
  <2>3. h \in 1 .. Len(Markup(page)) /\ Markup(page)[h] = Opening(tag)
    <3>1. 1 \in 1 .. Len(Written(page[i])) /\ Markup(page)[h] = Opening(tag)
      BY <1>3, <2>2, OpenerPlace, Zenon
    <3> QED BY <2>1, <2>2, <3>1, PiecePlace, Zenon
  <2>4. PICK o, r : o = Offset(i - 1) /\ r = Offset(n)
    OBVIOUS
  <2>5. o \in Nat /\ r \in Nat /\ r <= o /\ h = o + 1 /\ c <= r + 1
    BY <1>1, <1>2, <2>1, <2>2, <2>4, Zenon
  <2>6. h >= c
    BY <2>5
  <2> QED BY <2>3, <2>6, Zenon
<1>4. Flat(Shows(tag), Len(page)) = Flat(Shows(tag), n)
  <2>1. Len(page) \in n .. Len(page) /\ \A i \in n + 1 .. Len(page) : ~Opener(i, tag)
    <3>1. Len(page) \in n .. Len(page)
      BY <1>2
    <3> QED BY <1>3, <3>1, Zenon
  <2> QED BY <2>1, NothingShown
<1>5. Flat(Shows(tag), Len(page)) = ElementsOf(tag)
  <2>1. PICK s : s = Shows(tag)
    OBVIOUS
  <2>2. s \in Seq(Seq(Seq(Token))) /\ Len(s) = Len(page) /\ ElementsOf(tag) = FlattenSeq(s)
    BY <2>1, ShowsType, Zenon
  <2>3. Flat(s, Len(s)) = FlattenSeq(s)
    BY <2>2, FlatSteps, Zenon
  <2> QED BY <2>1, <2>2, <2>3, Zenon
<1> QED BY <1>4, <1>5, Zenon

-----------------------------------------------------------------------------
(* What stands where an element opens *)

\* An element of that tag stands after o, and x is its inside.
Stands(o, x, tag) ==
  /\ o \in Nat /\ x \in Seq(Token) /\ NoMarkup(x) /\ o + Len(x) + 5 <= Len(Markup(page))
  /\ Markup(page)[o + 1] = Opening(tag) /\ Markup(page)[o + 2] = Space
  /\ Markup(page)[o + 3] = Word("class") /\ Markup(page)[o + 4] = Gt
  /\ \A i \in 1 .. Len(x) : Markup(page)[o + 4 + i] = x[i]
  /\ Markup(page)[o + Len(x) + 5] = Closing(tag)

\* Elements of a page stand so.
LEMMA ElementStands ==
  ASSUME PageOK, NEW m \in 1 .. Len(page), page[m].kind = "element"
  PROVE  /\ Stands(Offset(m - 1), page[m].inside, page[m].tag)
         /\ Offset(m) = Offset(m - 1) + Len(page[m].inside) + 5
<1>1. page[m] \in PieceType /\ WellWritten(page[m])
  BY DEF PageOK
<1>2. PICK p, w, x, t, o, r, M : /\ p = page[m] /\ w = Written(p) /\ x = p.inside /\ t = p.tag
                                 /\ o = Offset(m - 1) /\ r = Offset(m) /\ M = Markup(page)
  OBVIOUS
<1>3. x \in Seq(Token) /\ NoMarkup(x)
  <2>1. x \in Seq(Token)
    BY <1>1, <1>2 DEF PieceType
  <2>2. "element" # "comment" /\ "element" # "block"
    OBVIOUS
  <2> QED BY <1>1, <1>2, <2>1, <2>2, Zenon DEF WellWritten
<1>4. /\ Len(w) = Len(x) + 4 + 1
      /\ w[1] = Opening(t) /\ w[2] = Space /\ w[3] = Word("class") /\ w[4] = Gt
      /\ \A i \in 1 .. Len(x) : w[4 + i] = x[i]
      /\ w[Len(x) + 4 + 1] = Closing(t)
  <2>1. p \in PieceType /\ p.kind \in {"element", "block"}
    BY <1>1, <1>2, Zenon
  <2> QED BY <1>2, <2>1, ElementShape, Zenon
<1>5. /\ o \in Nat /\ Len(w) \in Nat /\ r = o + Len(w)
      /\ \A d \in 1 .. Len(w) : o + d \in 1 .. Len(M) /\ M[o + d] = w[d]
  BY <1>2, PiecePlace, Zenon
<1>6. PICK n, l : n = Len(w) /\ l = Len(x)
  OBVIOUS
<1>7. l \in Nat /\ n = l + 5 /\ l + 4 + 1 = n
  BY <1>3, <1>4, <1>6
<1>8. 1 \in 1 .. n /\ 2 \in 1 .. n /\ 3 \in 1 .. n /\ 4 \in 1 .. n /\ n \in 1 .. n
  BY <1>7
<1>9. M[o + 1] = Opening(t) /\ M[o + 2] = Space /\ M[o + 3] = Word("class") /\ M[o + 4] = Gt
  BY <1>4, <1>5, <1>6, <1>8, Zenon
<1>10. \A i \in 1 .. l : M[o + 4 + i] = x[i]
  <2> SUFFICES ASSUME NEW i \in 1 .. l PROVE M[o + 4 + i] = x[i]
    OBVIOUS
  <2>1. 4 + i \in 1 .. n /\ o + (4 + i) = o + 4 + i
    BY <1>5, <1>7
  <2>2. M[o + (4 + i)] = w[4 + i]
    BY <1>5, <1>6, <2>1, Zenon
  <2> QED BY <1>4, <1>6, <2>1, <2>2, Zenon
<1>11. M[o + l + 5] = Closing(t) /\ o + l + 5 <= Len(M) /\ r = o + l + 5
  <2>1. o + n = o + l + 5 /\ o + n \in 1 .. Len(M)
    <3>1. o + n \in 1 .. Len(M)
      BY <1>5, <1>6, <1>8, Zenon
    <3>2. o \in Nat
      BY <1>5, Zenon
    <3> QED BY <1>7, <3>1, <3>2
  <2>2. o + l + 5 <= Len(M)
    <3>1. PICK k : k = Len(M)
      OBVIOUS
    <3>2. k \in Nat
      BY <1>2, <3>1, MarkupParts, Zenon
    <3> QED BY <2>1, <3>1, <3>2
  <2>3. M[o + n] = w[n]
    BY <1>5, <1>6, <1>8, Zenon
  <2> QED BY <1>4, <1>5, <1>6, <1>7, <2>1, <2>2, <2>3, Zenon
<1> QED BY <1>2, <1>3, <1>5, <1>6, <1>9, <1>10, <1>11, Zenon DEF Stands

\* Longer names go on.
LEMMA NamedOpens ==
  ASSUME PageOK, NEW m \in 1 .. Len(page), page[m].kind = "named"
  PROVE  ~Bounded(Markup(page), Offset(m - 1) + 1)
<1>1. page[m] \in PieceType
  BY DEF PageOK
<1>2. PICK w, l, o, M : /\ w = Written(page[m]) /\ l = Len(page[m].inside)
                        /\ o = Offset(m - 1) /\ M = Markup(page)
  OBVIOUS
<1>3. Len(w) = l + 3 /\ w[2] = Word("er")
  BY <1>1, <1>2, NamedShape, Zenon
<1>4. l \in Nat
  <2>1. page[m].inside \in Seq(Token)
    BY <1>1 DEF PieceType
  <2> QED BY <1>2, <2>1
<1>5. o \in Nat /\ \A d \in 1 .. Len(w) : M[o + d] = w[d]
  BY <1>2, PiecePlace, Zenon
<1>6. M[o + 2] = Word("er")
  <2>1. PICK n : n = Len(w)
    OBVIOUS
  <2>2. 2 \in 1 .. n
    BY <1>3, <1>4, <2>1
  <2> QED BY <1>3, <1>5, <2>1, <2>2, Zenon
<1>7. (o + 1) + 1 = o + 2
  BY <1>5
<1>8. Word("er") # Gt /\ Word("er") # Space
  BY TokenKinds, Zenon
<1> QED BY <1>2, <1>6, <1>7, <1>8, Zenon DEF Bounded

\* The scan cuts the inside out of an element, whatever it looks at.
LEMMA ElementParsed ==
  ASSUME PageOK, NEW o, NEW x, Stands(o, x, Tag)
  PROVE  /\ Bounded(Markup(page), o + 1)
         /\ \A start \in Nat : InsideFrom(Markup(page), o + 1, start) <=> start = o + 5
         /\ \A end \in Nat : ClosesAt(Markup(page), o + 5, end) <=> end = o + Len(x) + 5
         /\ SubSeq(Markup(page), o + 5, o + Len(x) + 4) = x
<1>1. PICK M, l, k : M = Markup(page) /\ l = Len(x) /\ k = Len(M)
  OBVIOUS
<1>2. /\ o \in Nat /\ x \in Seq(Token) /\ NoMarkup(x) /\ o + l + 5 <= k
      /\ M[o + 2] = Space
      /\ M[o + 3] = Word("class") /\ M[o + 4] = Gt
      /\ \A i \in 1 .. l : M[o + 4 + i] = x[i]
      /\ M[o + l + 5] = Closing(Tag)
  BY <1>1, Zenon DEF Stands
<1>3. M \in Seq(Token) /\ k \in Nat /\ l \in Nat
  <2>1. l \in Nat
    BY <1>1, <1>2
  <2> QED BY <1>1, <2>1, MarkupParts, Zenon
<1>4. o \in Nat /\ o + l + 5 <= k
  BY <1>2, Zenon
<1>5. Bounded(M, o + 1)
  <2>1. o + 1 < k /\ (o + 1) + 1 = o + 2
    BY <1>2, <1>3
  <2> QED BY <1>1, <1>2, <2>1, Zenon DEF Bounded
<1> DEFINE Ends(i) == M[i] = Gt \/ M[i][1] = "closing"
<1>6. ~Ends(o + 2) /\ ~Ends(o + 3) /\ Ends(o + 4)
  <2>1. Space # Gt /\ Space[1] # "closing"
    BY TokenKinds, Zenon
  <2>2. Word("class") # Gt /\ Word("class")[1] # "closing"
    BY TokenKinds, Zenon
  <2>3. ~Ends(o + 2) /\ ~Ends(o + 3)
    BY <1>2, <2>1, <2>2, Zenon
  <2>4. Ends(o + 4)
    BY <1>2, Zenon
  <2> QED BY <2>3, <2>4
<1>7. ASSUME NEW start \in Nat
      PROVE  InsideFrom(M, o + 1, start) <=> start = o + 5
  <2>1. InsideFrom(M, o + 1, start)
          <=> /\ start > (o + 1) + 1 /\ Ends(start - 1)
              /\ \A i \in (o + 1) + 1 .. start - 2 : ~Ends(i)
    BY Zenon DEF InsideFrom
  <2> HIDE DEF Ends
  <2> QED BY <1>4, <1>6, <2>1
<1>8. \A i \in o + 5 .. o + l + 4 : M[i] # Closing(Tag)
  <2> SUFFICES ASSUME NEW i \in o + 5 .. o + l + 4 PROVE M[i] # Closing(Tag)
    OBVIOUS
  <2>1. PICK d : d = i - (o + 4)
    OBVIOUS
  <2>2. d \in 1 .. l /\ i = o + 4 + d
    BY <1>3, <1>4, <2>1
  <2>3. x[d] # Closing(Tag)
    BY <1>1, <1>2, <2>2, PlainTokens, Zenon
  <2> QED BY <1>2, <2>2, <2>3, Zenon
<1>9. ASSUME NEW end \in Nat
      PROVE  ClosesAt(M, o + 5, end) <=> end = o + l + 5
  <2> DEFINE Ending(i) == M[i] = Closing(Tag)
  <2>1. ClosesAt(M, o + 5, end)
          <=> end >= o + 5 /\ Ending(end) /\ \A i \in o + 5 .. end - 1 : ~Ending(i)
    BY Zenon DEF ClosesAt
  <2>2. Ending(o + l + 5) /\ \A i \in o + 5 .. o + l + 4 : ~Ending(i)
    BY <1>2, <1>8, Zenon
  <2> HIDE DEF Ending
  <2>3. (o + l + 5) - 1 = o + l + 4 /\ o + l + 5 >= o + 5
    BY <1>3, <1>4
  <2> QED BY <1>3, <1>4, <2>1, <2>2, <2>3
<1>10. SubSeq(M, o + 5, o + l + 4) = x
  <2> DEFINE s == SubSeq(M, o + 5, o + l + 4)
  <2>1. s \in Seq(Token) /\ Len(s) = l /\ \A i \in 1 .. l : s[i] = M[o + 4 + i]
    BY <1>1, <1>3, <1>4
  <2>2. \A i \in 1 .. l : s[i] = x[i]
    BY <1>2, <2>1, Zenon
  <2> HIDE DEF s
  <2>3. x \in Seq(Token) /\ Len(x) = l
    BY <1>1, <1>2, Zenon
  <2>4. s = x
    BY <2>1, <2>2, <2>3
  <2> QED BY <2>4 DEF s
<1> QED BY <1>1, <1>5, <1>7, <1>9, <1>10, Zenon

-----------------------------------------------------------------------------
(* What the scan has found *)

\* The first n pieces are scanned.
Reached(n) == found[Tag] = Flat(Shows(Tag), n) /\ Scanned(Tag, n, cursor)

\* The inside of the m-th is being cleaned.
Taking(m) ==
  /\ page[m].kind = "element" /\ page[m].tag = Tag
  /\ found[Tag] = Flat(Shows(Tag), m - 1)
  /\ cursor = Offset(m) + 1
  /\ OnItsWay(page[m].inside)

\* A scan comes past a longer name.
LEMMA NamePassed ==
  ASSUME PageOK, NEW tag \in ElementTags, NEW m, Opener(m, tag), page[m].kind = "named"
  PROVE  /\ m \in 0 .. Len(page)
         /\ Flat(Shows(tag), m) = Flat(Shows(tag), m - 1)
         /\ Scanned(tag, m, Offset(m - 1) + 2)
<1>1. m \in 1 .. Len(page) /\ Len(page) \in Nat
  BY MarkupParts, Zenon DEF Opener
<1>2. m \in 0 .. Len(page)
  BY <1>1
<1>3. Flat(Shows(tag), m) = Flat(Shows(tag), m - 1)
  <2>1. PICK s : s = Shows(tag)
    OBVIOUS
  <2>2. s \in Seq(Seq(Seq(Token))) /\ Len(s) = Len(page) /\ s[m] = Headings(page[m], tag)
    BY <1>1, <2>1, ShowsType, Zenon
  <2>3. s[m] = << >>
    <3>1. "named" # "element"
      OBVIOUS
    <3> QED BY <2>2, <3>1, Zenon DEF Headings
  <2>4. m - 1 \in 0 .. Len(s) /\ m \in m - 1 .. Len(s) /\ \A i \in (m - 1) + 1 .. m : i = m
    BY <1>1, <2>2
  <2>5. \A i \in (m - 1) + 1 .. m : s[i] = << >>
    BY <2>3, <2>4, Zenon
  <2> QED BY <2>1, <2>2, <2>4, <2>5, FlatSkips
<1>4. PICK o, l, q : o = Offset(m - 1) /\ l = Len(Written(page[m])) /\ q = Offset(m)
  OBVIOUS
<1>5. o \in Nat /\ l \in Nat /\ q = o + l /\ 2 \in 1 .. l
  BY <1>1, <1>4, PiecePlace, OpenerPlace, Zenon
<1>6. ASSUME NEW i \in o + 2 .. q, Markup(page)[i] = Opening(tag) PROVE FALSE
  <2>1. PICK d : d = i - o
    OBVIOUS
  <2>2. d \in 1 .. l /\ i = o + d /\ d # 1
    BY <1>5, <2>1
  <2> QED BY <1>1, <1>4, <1>6, <2>2, OpeningPlace, Zenon
<1>7. o + 2 <= q + 1
  BY <1>5
<1> QED BY <1>2, <1>3, <1>4, <1>6, <1>7, Zenon DEF Scanned

\* Where the tag opens next.
LEMMA OpensThere ==
  ASSUME PageOK, ScanOK, NEW n \in 0 .. Len(page), Reached(n),
         NEW open \in DOMAIN Markup(page), OpensAt(Markup(page), open)
  PROVE  \E m \in 1 .. Len(page) :
           /\ Opener(m, Tag) /\ open = Offset(m - 1) + 1 /\ Offset(m - 1) \in Nat
           /\ found[Tag] = Flat(Shows(Tag), m - 1)
<1>1. Tag \in ElementTags /\ cursor \in Nat
  <2>1. Tag \in ElementTags
    BY TagFacts, Zenon DEF Tag, ScanOK
  <2>2. Len(Markup(page)) \in Nat
    BY MarkupParts
  <2>3. cursor \in Nat
    BY <2>2 DEF ScanOK
  <2> QED BY <2>1, <2>3
<1>2. NextFrom(cursor, Tag, open)
  <2>1. DOMAIN Markup(page) = 1 .. Len(Markup(page))
    <3>1. Markup(page) \in Seq(Token)
      BY MarkupParts
    <3> QED BY <3>1
  <2> QED BY <2>1, Zenon DEF OpensAt, NextFrom
<1>3. PICK m \in n + 1 .. Len(page) :
        /\ Opener(m, Tag) /\ open = Offset(m - 1) + 1
        /\ Flat(Shows(Tag), m - 1) = Flat(Shows(Tag), n)
  <2>1. Opens(Tag, n, open)
    BY <1>1, <1>2, NextOpening, Zenon DEF Reached
  <2> QED BY <2>1, Zenon DEF Opens
<1>4. m \in 1 .. Len(page)
  BY <1>3, Zenon DEF Opener
<1>5. Offset(m - 1) \in Nat
  BY <1>4, PiecePlace, Zenon
<1> QED BY <1>3, <1>4, <1>5, Zenon DEF Reached

\* A longer name brings the scan to the end of its piece.
LEMMA NameSkipped ==
  ASSUME PageOK, ScanOK, NEW n \in 0 .. Len(page), Reached(n),
         NEW open \in DOMAIN Markup(page), OpensAt(Markup(page), open),
         ~Bounded(Markup(page), open)
  PROVE  \E m \in 0 .. Len(page) :
           found[Tag] = Flat(Shows(Tag), m) /\ Scanned(Tag, m, open + 1)
<1>1. PICK m \in 1 .. Len(page) :
        /\ Opener(m, Tag) /\ open = Offset(m - 1) + 1 /\ Offset(m - 1) \in Nat
        /\ found[Tag] = Flat(Shows(Tag), m - 1)
  BY OpensThere
<1>2. Tag \in ElementTags
  BY TagFacts, Zenon DEF Tag, ScanOK
<1>3. page[m].kind = "named"
  <2> SUFFICES ASSUME page[m].kind = "element" PROVE FALSE
    BY <1>1, Zenon DEF Opener
  <2>1. page[m].tag = Tag
    BY <1>1, Zenon DEF Opener
  <2>2. Stands(Offset(m - 1), page[m].inside, Tag)
    BY <2>1, ElementStands, Zenon
  <2>3. Bounded(Markup(page), Offset(m - 1) + 1)
    BY <2>2, ElementParsed, Zenon
  <2> QED BY <1>1, <2>3, Zenon
<1>4. open + 1 = Offset(m - 1) + 2
  BY <1>1
<1> QED BY <1>1, <1>2, <1>3, <1>4, NamePassed, Zenon

\* An element that is taken is one of the page, and its inside is what is cleaned.
LEMMA ElementTaken ==
  ASSUME PageOK, ScanOK, NEW n \in 0 .. Len(page), Reached(n),
         NEW open \in DOMAIN Markup(page), NEW start \in DOMAIN Markup(page),
         NEW end \in DOMAIN Markup(page), ElementAt(Markup(page), open, start, end)
  PROVE  \E m \in 1 .. Len(page) :
           /\ page[m].kind = "element" /\ page[m].tag = Tag
           /\ found[Tag] = Flat(Shows(Tag), m - 1)
           /\ end + 1 = Offset(m) + 1
           /\ SubSeq(Markup(page), start, end - 1) = page[m].inside
<1>1. /\ OpensAt(Markup(page), open) /\ Bounded(Markup(page), open)
      /\ InsideFrom(Markup(page), open, start) /\ ClosesAt(Markup(page), start, end)
  BY Zenon DEF ElementAt
<1>2. PICK m \in 1 .. Len(page) :
        /\ Opener(m, Tag) /\ open = Offset(m - 1) + 1 /\ Offset(m - 1) \in Nat
        /\ found[Tag] = Flat(Shows(Tag), m - 1)
  BY <1>1, OpensThere
<1>3. page[m].tag = Tag /\ page[m].kind = "element"
  <2>1. page[m].tag = Tag /\ page[m].kind \in {"named", "element"}
    BY <1>2, Zenon DEF Opener
  <2>2. page[m].kind # "named"
    BY <1>1, <1>2, NamedOpens, Zenon
  <2> QED BY <2>1, <2>2, Zenon
<1>4. PICK o, x, l, M : /\ o = Offset(m - 1) /\ x = page[m].inside /\ l = Len(x)
                        /\ M = Markup(page)
  OBVIOUS
<1>5. Stands(o, x, Tag) /\ Offset(m) = o + l + 5
  BY <1>3, <1>4, ElementStands, Zenon
<1>6. o \in Nat /\ l \in Nat /\ start \in Nat /\ end \in Nat
  <2>1. x \in Seq(Token) /\ o \in Nat
    BY <1>5, Zenon DEF Stands
  <2>2. Markup(page) \in Seq(Token)
    BY MarkupParts
  <2> QED BY <1>4, <2>1, <2>2, SMTT(30)
<1>7. start = o + 5
  BY <1>1, <1>2, <1>4, <1>5, <1>6, ElementParsed, Zenon
<1>8. end = o + l + 5
  BY <1>1, <1>4, <1>5, <1>6, <1>7, ElementParsed, Zenon
<1>9. SubSeq(M, start, end - 1) = x
  <2>1. end - 1 = o + l + 4
    BY <1>6, <1>8
  <2>2. SubSeq(M, o + 5, o + Len(x) + 4) = x
    BY <1>4, <1>5, ElementParsed
  <2> QED BY <1>4, <1>7, <2>1, <2>2
<1> QED BY <1>2, <1>3, <1>4, <1>5, <1>8, <1>9, Zenon

-----------------------------------------------------------------------------
(* The end of the scan for a tag *)

\* All that is to be found of a tag is found.
Settled(n) ==
  LET all == ElementsOf(Elements[n][1])
  IN  found[Elements[n][1]] = SubSeq(all, 1, Min({Elements[n][2], Len(all)}))

\* The lesser of two numbers.
LEMMA LesserOfTwo ==
  ASSUME NEW a \in Nat, NEW b \in Nat
  PROVE  Min({a, b}) = IF a <= b THEN a ELSE b
<1>1. PICK c : c = IF a <= b THEN a ELSE b
  OBVIOUS
<1>2. c \in {a, b} /\ \A y \in {a, b} : c <= y
  BY <1>1
<1>3. \A x \in {a, b} : (\A y \in {a, b} : x <= y) => x = c
  BY <1>1
<1>4. Min({a, b}) = c
  BY <1>2, <1>3 DEF Min
<1> QED BY <1>1, <1>4

\* A list cut at a limit, when it is short and when its start fills the limit.
LEMMA CutAtLimit ==
  ASSUME NEW S, NEW all \in Seq(S), NEW limit \in Nat, NEW s \in Seq(S),
         \/ s = all /\ Len(all) <= limit
         \/ IsPrefix(s, all) /\ Len(s) = limit
  PROVE  s = SubSeq(all, 1, Min({limit, Len(all)}))
<1>1. Len(all) \in Nat
  OBVIOUS
<1>2. PICK c : c = Min({limit, Len(all)})
  OBVIOUS
<1>3. c = IF limit <= Len(all) THEN limit ELSE Len(all)
  BY <1>1, <1>2, LesserOfTwo
<1>4. CASE s = all /\ Len(all) <= limit
  <2>1. c = Len(all)
    BY <1>1, <1>3, <1>4
  <2> QED BY <1>2, <1>4, <2>1
<1>5. CASE IsPrefix(s, all) /\ Len(s) = limit
  <2>1. Len(s) <= Len(all) /\ s = SubSeq(all, 1, Len(s))
    BY <1>5 DEF IsPrefix
  <2>2. c = Len(s)
    BY <1>1, <1>3, <1>5, <2>1
  <2> QED BY <1>2, <2>1, <2>2
<1> QED BY <1>4, <1>5

\* Where an element opens next, it can be taken.
LEMMA ElementThere ==
  ASSUME PageOK, NEW m \in 1 .. Len(page), page[m].kind = "element", page[m].tag = Tag,
         NEW open, open = Offset(m - 1) + 1, OpensAt(Markup(page), open)
  PROVE  /\ Bounded(Markup(page), open)
         /\ \E start, end \in DOMAIN Markup(page) : ElementAt(Markup(page), open, start, end)
<1>1. PICK o, x, l, M : /\ o = Offset(m - 1) /\ x = page[m].inside /\ l = Len(x)
                        /\ M = Markup(page)
  OBVIOUS
<1>2. Stands(o, x, Tag)
  BY <1>1, ElementStands, Zenon
<1>3. o \in Nat /\ x \in Seq(Token) /\ o + l + 5 <= Len(M)
  BY <1>1, <1>2, Zenon DEF Stands
<1>4. l \in Nat
  BY <1>1, <1>3
<1>5. M \in Seq(Token)
  BY <1>1, MarkupParts
<1>6. o + 5 \in Nat /\ o + l + 5 \in Nat /\ o + 5 \in DOMAIN M /\ o + l + 5 \in DOMAIN M
  BY <1>3, <1>4, <1>5
<1>7. Bounded(M, o + 1) /\ InsideFrom(M, o + 1, o + 5)
  BY <1>1, <1>2, <1>6, ElementParsed, Zenon
<1>8. ClosesAt(M, o + 5, o + l + 5)
  <2>1. PICK e : e = o + l + 5
    OBVIOUS
  <2>2. e \in Nat /\ e = o + Len(x) + 5
    BY <1>1, <1>6, <2>1
  <2>3. ClosesAt(M, o + 5, e)
    <3>1. \A end \in Nat : ClosesAt(M, o + 5, end) <=> end = o + Len(x) + 5
      BY <1>1, <1>2, ElementParsed
    <3> QED BY <2>2, <3>1, Zenon
  <2> QED BY <2>1, <2>3
<1>9. ElementAt(M, open, o + 5, o + l + 5)
  BY <1>1, <1>7, <1>8, Zenon DEF ElementAt
<1> QED BY <1>1, <1>6, <1>7, <1>9, Zenon

\* When the scan for a tag ends, all of it that may be found is found.
LEMMA AllFound ==
  ASSUME PageOK, ScanOK, NEW n \in 0 .. Len(page), Reached(n), NoElement(Markup(page))
  PROVE  Settled(sought)
<1>1. Tag \in ElementTags /\ sought \in 1 .. 2 /\ Limit \in Nat
  BY TagFacts, ElementFacts, Zenon DEF Tag, Limit, ScanOK
<1>2. PICK f, s, all, M : /\ f = found[Tag] /\ s = Shows(Tag) /\ all = ElementsOf(Tag)
                          /\ M = Markup(page)
  OBVIOUS
<1>3. /\ s \in Seq(Seq(Seq(Token))) /\ Len(s) = Len(page)
      /\ all = FlattenSeq(s) /\ all \in Seq(Seq(Token))
  BY <1>2, ShowsType, Zenon
<1>4. f = Flat(s, n) /\ Scanned(Tag, n, cursor)
  BY <1>2, Zenon DEF Reached
<1>5. f \in Seq(Seq(Token)) /\ IsPrefix(f, all)
  BY <1>3, <1>4, FlatSteps, FlatPrefix, Zenon
<1>6. Len(f) \in Nat /\ Len(f) <= Limit
  <2>1. Len(found[Elements[sought][1]]) <= Elements[sought][2]
    BY <1>1, Zenon DEF ScanOK
  <2>2. Len(f) <= Limit
    BY <1>2, <2>1, Zenon DEF Tag, Limit
  <2> QED BY <1>5, <2>2
<1>7. M \in Seq(Token) /\ Len(M) \in Nat /\ cursor \in Nat
  <2>1. Len(Markup(page)) \in Nat
    BY MarkupParts
  <2>2. cursor \in Nat
    BY <2>1 DEF ScanOK
  <2> QED BY <1>2, <2>2, MarkupParts, Zenon
<1>8. ASSUME Len(f) < Limit
      PROVE  \A i \in 1 .. Len(M) : i >= cursor => M[i] # Opening(Tag)
  <2> SUFFICES ASSUME NEW i \in 1 .. Len(M), i >= cursor, M[i] = Opening(Tag) PROVE FALSE
    OBVIOUS
  <2> DEFINE T == {h \in 1 .. Len(M) : h >= cursor /\ M[h] = Opening(Tag)}
  <2>1. T \in SUBSET Nat /\ T # {}
    <3>1. i \in T
      OBVIOUS
    <3> QED BY <3>1
  <2>2. PICK open \in T : \A k \in T : open <= k
    <3> HIDE DEF T
    <3> QED BY <2>1, LeastNumber
  <2>3. open \in 1 .. Len(M) /\ open >= cursor /\ M[open] = Opening(Tag)
    BY <2>2, Zenon
  <2>4. \A k \in cursor .. open - 1 : M[k] # Opening(Tag)
    <3> SUFFICES ASSUME NEW k \in cursor .. open - 1, M[k] = Opening(Tag) PROVE FALSE
      OBVIOUS
    <3>1. cursor \in 1 .. Len(M) + 1
      BY <1>2, Zenon DEF ScanOK
    <3>2. k \in 1 .. Len(M) /\ k >= cursor /\ k < open
      BY <1>7, <2>3, <3>1
    <3>3. open <= k
      BY <2>2, <3>2, Zenon
    <3> QED BY <2>3, <3>2, <3>3
  <2>5. OpensAt(M, open)
    BY <1>2, <1>8, <2>3, <2>4, Zenon DEF OpensAt
  <2>6. open \in DOMAIN M
    BY <1>7, <2>3
  <2>7. Bounded(M, open) /\ ~ \E start, end \in DOMAIN M : ElementAt(M, open, start, end)
    BY <1>2, <2>5, <2>6, Zenon DEF NoElement
  <2>8. PICK m \in 1 .. Len(page) :
          /\ Opener(m, Tag) /\ open = Offset(m - 1) + 1 /\ Offset(m - 1) \in Nat
          /\ found[Tag] = Flat(Shows(Tag), m - 1)
    BY <1>2, <2>5, <2>6, OpensThere
  <2>9. page[m].tag = Tag /\ page[m].kind \in {"named", "element"}
    BY <2>8, Zenon DEF Opener
  <2>10. page[m].kind # "named"
    BY <1>2, <2>7, <2>8, NamedOpens, Zenon
  <2>11. page[m].kind # "element"
    BY <1>2, <2>5, <2>7, <2>8, <2>9, ElementThere, Zenon
  <2> QED BY <2>9, <2>10, <2>11, Zenon
<1>9. f = SubSeq(all, 1, Min({Limit, Len(all)}))
  <2>1. CASE Len(f) < Limit
    <3>1. Flat(s, n) = all
      BY <1>1, <1>2, <1>4, <1>7, <1>8, <2>1, NoOpening, Zenon
    <3>2. f = all
      BY <1>4, <3>1, Zenon
    <3>3. Len(all) <= Limit
      BY <1>6, <3>2, Zenon
    <3> QED BY <1>1, <1>3, <1>5, <3>2, <3>3, CutAtLimit, Zenon
  <2>2. CASE ~(Len(f) < Limit)
    <3>1. Len(f) = Limit
      BY <1>1, <1>6, <2>2
    <3> QED BY <1>1, <1>3, <1>5, <3>1, CutAtLimit, Zenon
  <2> QED BY <2>1, <2>2
<1> QED BY <1>2, <1>9, Zenon DEF Settled, Tag, Limit

-----------------------------------------------------------------------------
(* The scan keeps its invariant *)

Scanning == \E n \in 0 .. Len(page) : Reached(n)
Cleaning == \E m \in 1 .. Len(page) : Taking(m)

\* The tags that are done with are settled, those to come untouched, and of the
\* one that is looked for the pieces before the cursor have been gone through.
ScanInv ==
  type = "html" =>
    /\ content = << >> => found = Nothing /\ sought = 1 /\ cursor = 1
    /\ content # << >> =>
         /\ \A n \in 1 .. 2 : n < sought \/ stage = "done" => Settled(n)
         /\ \A n \in 1 .. 2 : n > sought => found[Elements[n][1]] = << >>
         /\ stage = "elements" => Scanning
         /\ stage \in {"strip", "decode", "collapse"} => Cleaning

\* The page stays, and with it what is to be found.
LEMMA ScanStays ==
  ASSUME page' = page
  PROVE  /\ \A tag : Shows(tag)' = Shows(tag)
         /\ \A n : Offset(n)' = Offset(n)
         /\ \A tag, n, c : Scanned(tag, n, c)' <=> Scanned(tag, n, c)
         /\ \A n : found'[Elements[n][1]] = found[Elements[n][1]]
                     => (Settled(n)' <=> Settled(n))
<1>1. \A tag : Shows(tag)' = Shows(tag)
  BY Zenon DEF Shows
<1>2. \A n : Offset(n)' = Offset(n)
  BY Zenon DEF Offset, Parts, Cleared
<1>3. \A tag, n, c : Scanned(tag, n, c)' <=> Scanned(tag, n, c)
  BY <1>2, Zenon DEF Scanned
<1>4. \A tag : ElementsOf(tag)' = ElementsOf(tag)
  BY Zenon DEF ElementsOf
<1>5. \A n : found'[Elements[n][1]] = found[Elements[n][1]] => (Settled(n)' <=> Settled(n))
  BY <1>4, Zenon DEF Settled
<1> QED BY <1>1, <1>2, <1>3, <1>5, Zenon

\* So does what of it is found while the same tag is looked for.
LEMMA PlaceStays ==
  ASSUME page' = page, sought' = sought
  PROVE  /\ Tag' = Tag
         /\ \A n : found'[Tag] = Flat(Shows(Tag), n) /\ Scanned(Tag, n, cursor') => Reached(n)'
         /\ \A m : /\ page[m].kind = "element" /\ page[m].tag = Tag
                   /\ found'[Tag] = Flat(Shows(Tag), m - 1)
                   /\ cursor' = Offset(m) + 1
                   /\ OnItsWay(page[m].inside)'
                   => Taking(m)'
<1>1. Tag' = Tag
  BY Zenon DEF Tag
<1>2. \A n : Flat(Shows(Tag), n)' = Flat(Shows(Tag), n) /\ Offset(n)' = Offset(n)
  BY <1>1, ScanStays, Zenon
<1>3. \A n : Scanned(Tag, n, cursor)' <=> Scanned(Tag, n, cursor')
  <2>1. \A n : Offset(n)' = Offset(n)
    BY <1>2, Zenon
  <2> QED BY <1>1, <2>1, Zenon DEF Scanned
<1> QED BY <1>1, <1>2, <1>3, Zenon DEF Reached, Taking

\* A scan starts at the start of the page.
LEMMA ScanStarts ==
  ASSUME PageOK, NEW tag
  PROVE  Flat(Shows(tag), 0) = << >> /\ Scanned(tag, 0, 1) /\ 0 \in 0 .. Len(page)
<1>1. Flat(Shows(tag), 0) = << >>
  <2>1. PICK s : s = Shows(tag)
    OBVIOUS
  <2>2. s \in Seq(Seq(Seq(Token)))
    BY <2>1, ShowsType, Zenon
  <2> QED BY <2>1, <2>2, FlatSteps, Zenon
<1>2. Offset(0) = 0
  BY PieceOrder, Zenon
<1>3. Scanned(tag, 0, 1)
  <2>1. PICK o : o = Offset(0)
    OBVIOUS
  <2>2. o = 0
    BY <1>2, <2>1
  <2>3. 1 <= o + 1 /\ ~ \E i : i \in 1 .. o
    BY <2>2
  <2> QED BY <2>1, <2>3, Zenon DEF Scanned
<1>4. 0 \in 0 .. Len(page)
  BY MarkupParts
<1> QED BY <1>1, <1>3, <1>4

\* The scan for the first tag starts when the text is found.
LEMMA CollapseContentStep ==
  ASSUME PageOK, ScanOK, found = Nothing, sought = 1, cursor = 1, content = << >>,
         type = "html", CollapseContent, type' = type, page' = page
  PROVE  ScanInv'
<1>1. /\ content' = << >> => stage' = "failed"
      /\ content' # << >> => stage' = "elements"
      /\ found' = Nothing /\ sought' = 1 /\ cursor' = 1
  BY Zenon DEF CollapseContent, Goto, scanVars
<1>2. \A n \in 1 .. 2 : Nothing[Elements[n][1]] = << >>
  BY TagFacts, Zenon DEF Nothing
<1>3. Scanning'
  <2>1. Tag \in ElementTags
    BY TagFacts, Zenon DEF Tag, ScanOK
  <2>2. found'[Tag] = << >>
    BY <1>1, <2>1, Zenon DEF Nothing
  <2>3. found'[Tag] = Flat(Shows(Tag), 0) /\ Scanned(Tag, 0, cursor') /\ 0 \in 0 .. Len(page)
    BY <1>1, <2>2, ScanStarts, Zenon
  <2>4. sought' = sought
    BY <1>1
  <2>5. Reached(0)'
    BY <2>3, <2>4, PlaceStays, Zenon
  <2> QED BY <2>3, <2>5, Zenon DEF Scanning
<1>4. \A n \in 1 .. 2 : ~(n < 1)
  OBVIOUS
<1>5. "elements" # "done" /\ "elements" \notin {"strip", "decode", "collapse"}
  OBVIOUS
<1> QED BY <1>1, <1>2, <1>3, <1>4, <1>5, Zenon DEF ScanInv

\* A cleaned inside is what its element shows, and is added to what is found.
LEMMA CollapseElementStep ==
  ASSUME PageOK, ScanOK, NEW m \in 1 .. Len(page), Taking(m), CollapseElement, page' = page
  PROVE  /\ Reached(m)'
         /\ \A n \in 1 .. 2 : n # sought => found'[Elements[n][1]] = found[Elements[n][1]]
<1>1. /\ stage = "collapse" /\ sought' = sought /\ cursor' = cursor
      /\ text' = Collapsed(text)
      /\ found' = [found EXCEPT ![Tag] = IF text' = << >> THEN @ ELSE Append(@, text')]
  BY Zenon DEF CollapseElement
<1>2. /\ page[m].kind = "element" /\ page[m].tag = Tag
      /\ found[Tag] = Flat(Shows(Tag), m - 1)
      /\ cursor = Offset(m) + 1
      /\ text = Decoded(4, Stripped(page[m].inside))
  BY <1>1, Zenon DEF Taking, OnItsWay
<1>3. PICK p, v : p = page[m] /\ v = text'
  OBVIOUS
<1>4. v \in Seq(Token) /\ v = Visible(<<p>>)
  <2>1. p \in PieceType /\ WellWritten(p)
    BY <1>3 DEF PageOK
  <2> QED BY <1>1, <1>2, <1>3, <2>1, ElementShown, Zenon
<1>5. PICK f, s, h : f = found[Tag] /\ s = Shows(Tag) /\ h = Headings(p, Tag)
  OBVIOUS
<1>6. h = IF v = << >> THEN << >> ELSE <<v>>
  BY <1>2, <1>3, <1>4, <1>5, Zenon DEF Headings
<1>7. /\ s \in Seq(Seq(Seq(Token))) /\ Len(s) = Len(page) /\ s[m] = h
  BY <1>3, <1>5, ShowsType, Zenon
<1>8. f \in Seq(Seq(Token)) /\ Flat(s, m) = f \o h
  <2>1. m \in 1 .. Len(s) /\ m - 1 \in 0 .. Len(s)
    BY <1>7
  <2>2. Flat(s, m - 1) \in Seq(Seq(Token)) /\ Flat(s, m) = Flat(s, m - 1) \o s[m]
    BY <1>7, <2>1, FlatSteps, Zenon
  <2> QED BY <1>2, <1>5, <1>7, <2>2, Zenon
<1>9. Tag \in ElementTags /\ sought \in 1 .. 2
  BY TagFacts, Zenon DEF Tag, ScanOK
<1>10. found'[Tag] = IF v = << >> THEN f ELSE Append(f, v)
  BY <1>1, <1>3, <1>5, <1>9, Zenon DEF ScanOK
<1>11. found'[Tag] = Flat(s, m)
  <2>1. CASE v = << >>
    <3>1. f \o << >> = f
      BY <1>8, ConcatEmptySeq
    <3> QED BY <1>6, <1>8, <1>10, <2>1, <3>1, Zenon
  <2>2. CASE v # << >>
    <3>1. f \o <<v>> = Append(f, v)
      BY <1>4, <1>8
    <3> QED BY <1>6, <1>8, <1>10, <2>2, <3>1, Zenon
  <2> QED BY <2>1, <2>2
<1>12. Scanned(Tag, m, cursor')
  <2>1. PICK o : o = Offset(m)
    OBVIOUS
  <2>2. o \in Nat
    <3>1. m \in 0 .. Len(page)
      BY MarkupParts
    <3> QED BY <2>1, <3>1, PieceOrder, Zenon
  <2>3. cursor' = o + 1
    BY <1>1, <1>2, <2>1, Zenon
  <2>4. cursor' <= o + 1 /\ ~ \E i : i \in cursor' .. o
    BY <2>2, <2>3
  <2> QED BY <2>1, <2>4, Zenon DEF Scanned
<1>13. Reached(m)'
  BY <1>1, <1>5, <1>11, <1>12, PlaceStays, Zenon
<1>14. ASSUME NEW n \in 1 .. 2, n # sought
       PROVE  found'[Elements[n][1]] = found[Elements[n][1]]
  <2>1. Elements[n][1] # Tag
    <3>1. \A i, j \in 1 .. 2 : i # j => (i = 1 /\ j = 2) \/ (i = 2 /\ j = 1)
      OBVIOUS
    <3> QED BY <1>9, <1>14, <3>1, ElementFacts, Zenon DEF Tag
  <2> QED BY <1>1, <2>1, TagFacts, Zenon DEF ScanOK
<1> QED BY <1>13, <1>14, Zenon

\* A longer name is passed, an element is cut out.
LEMMA ElementSteps ==
  ASSUME PageOK, ScanOK, Scanning, LongerName \/ TakeElement, page' = page
  PROVE  /\ LongerName => Scanning' /\ stage' = "elements"
         /\ TakeElement => Cleaning' /\ stage' = "strip"
<1>1. PICK n \in 0 .. Len(page) : Reached(n)
  BY Zenon DEF Scanning
<1>2. sought' = sought /\ found' = found
  BY Zenon DEF LongerName, TakeElement
<1>3. ASSUME LongerName PROVE Scanning' /\ stage' = "elements"
  <2>1. PICK open \in DOMAIN Markup(page) :
          /\ OpensAt(Markup(page), open) /\ ~Bounded(Markup(page), open) /\ cursor' = open + 1
    BY <1>3, Zenon DEF LongerName
  <2>2. PICK m \in 0 .. Len(page) :
          found[Tag] = Flat(Shows(Tag), m) /\ Scanned(Tag, m, open + 1)
    BY <1>1, <2>1, NameSkipped
  <2>3. Reached(m)'
    BY <1>2, <2>1, <2>2, PlaceStays, Zenon
  <2>4. stage' = "elements"
    BY <1>3, Zenon DEF LongerName
  <2> QED BY <2>3, <2>4, Zenon DEF Scanning
<1>4. ASSUME TakeElement PROVE Cleaning' /\ stage' = "strip"
  <2>1. PICK open, start, end \in DOMAIN Markup(page) :
          /\ ElementAt(Markup(page), open, start, end)
          /\ text' = SubSeq(Markup(page), start, end - 1)
          /\ cursor' = end + 1
    BY <1>4, Zenon DEF TakeElement
  <2>2. PICK m \in 1 .. Len(page) :
          /\ page[m].kind = "element" /\ page[m].tag = Tag
          /\ found[Tag] = Flat(Shows(Tag), m - 1)
          /\ end + 1 = Offset(m) + 1
          /\ SubSeq(Markup(page), start, end - 1) = page[m].inside
    BY <1>1, <2>1, ElementTaken
  <2>3. stage' = "strip"
    BY <1>4, Zenon DEF TakeElement, Goto
  <2>4. OnItsWay(page[m].inside)'
    <3>1. "strip" # "decode" /\ "strip" # "collapse"
      OBVIOUS
    <3> QED BY <2>1, <2>2, <2>3, <3>1, Zenon DEF OnItsWay
  <2>5. Taking(m)'
    BY <1>2, <2>1, <2>2, <2>4, PlaceStays, Zenon
  <2> QED BY <2>3, <2>5, Zenon DEF Cleaning
<1> QED BY <1>3, <1>4

\* With a tag's scan over, that of the next one starts, or all is done.
LEMMA NextElementTagStep ==
  ASSUME PageOK, ScanOK, Scanning, NextElementTag, page' = page,
         \A n \in 1 .. 2 : n < sought => Settled(n),
         \A n \in 1 .. 2 : n > sought => found[Elements[n][1]] = << >>
  PROVE  /\ \A n \in 1 .. 2 : n < sought' \/ stage' = "done" => Settled(n)'
         /\ \A n \in 1 .. 2 : n > sought' => found'[Elements[n][1]] = << >>
         /\ stage' = "elements" => Scanning'
         /\ stage' \in {"elements", "done"}
<1>1. sought \in {1, 2} /\ Len(Elements) = 2
  <2>1. sought \in 1 .. 2
    BY Zenon DEF ScanOK
  <2> QED BY <2>1, ElementFacts
<1>2. NoElement(Markup(page)) /\ found' = found
  BY Zenon DEF NextElementTag
<1>3. Settled(sought)
  <2>1. PICK n \in 0 .. Len(page) : Reached(n)
    BY Zenon DEF Scanning
  <2> QED BY <1>2, <2>1, AllFound
<1>4. \A n : Settled(n)' <=> Settled(n)
  BY <1>2, ScanStays, Zenon
<1>5. \/ sought = 1 /\ sought' = 2 /\ cursor' = 1 /\ stage' = "elements"
      \/ sought = 2 /\ stage' = "done" /\ sought' = 2
  <2>1. /\ stage = "elements"
        /\ \/ sought < 2 /\ sought' = sought + 1 /\ cursor' = 1 /\ stage' = stage
           \/ ~(sought < 2) /\ stage' = "done" /\ sought' = sought
    BY <1>1, Zenon DEF NextElementTag, Goto
  <2>2. (sought < 2 => sought = 1 /\ sought + 1 = 2) /\ (~(sought < 2) => sought = 2)
    BY <1>1
  <2> QED BY <2>1, <2>2, Zenon
<1>6. \A n \in 1 .. 2 : n = 1 \/ n = 2
  OBVIOUS
<1>7. 1 < 2 /\ ~(1 < 1) /\ ~(2 < 2) /\ ~(1 > 2) /\ ~(2 > 2) /\ 2 > 1 /\ "elements" # "done"
      /\ 1 \in 1 .. 2 /\ 2 \in 1 .. 2
  OBVIOUS
<1>8. CASE sought = 1 /\ sought' = 2 /\ cursor' = 1 /\ stage' = "elements"
  <2>1. Tag' = Elements[2][1]
    BY <1>8, Zenon DEF Tag
  <2>2. found'[Tag'] = << >>
    <3>1. found[Elements[2][1]] = << >>
      BY <1>7, <1>8, Zenon
    <3> QED BY <1>2, <2>1, <3>1, Zenon
  <2>3. /\ Flat(Shows(Tag'), 0) = << >> /\ Scanned(Tag', 0, 1)
        /\ 0 \in 0 .. Len(page)
    BY <2>1, ScanStarts, Zenon
  <2>4. Shows(Tag)' = Shows(Tag') /\ \A n : Offset(n)' = Offset(n)
    <3>1. Shows(Tag)' = Shows(Tag')
      BY Zenon DEF Shows
    <3> QED BY <3>1, ScanStays, Zenon
  <2>5. Scanned(Tag, 0, cursor)' <=> Scanned(Tag', 0, 1)
    BY <1>8, <2>4, Zenon DEF Scanned
  <2>6. Reached(0)'
    BY <2>2, <2>3, <2>4, <2>5, Zenon DEF Reached
  <2>7. Scanning'
    BY <2>3, <2>6, Zenon DEF Scanning
  <2>8. Settled(1)'
    BY <1>3, <1>4, <1>8, Zenon
  <2> QED BY <1>6, <1>7, <1>8, <2>7, <2>8, Zenon
<1>9. CASE sought = 2 /\ stage' = "done" /\ sought' = 2
  <2>1. Settled(1)' /\ Settled(2)'
    <3>1. Settled(1)
      BY <1>7, <1>9, Zenon
    <3> QED BY <1>3, <1>4, <1>9, <3>1, Zenon
  <2> QED BY <1>6, <1>7, <1>9, <2>1, Zenon
<1> QED BY <1>5, <1>8, <1>9

\* It holds at first.
LEMMA ScanStart ==
  ASSUME Init
  PROVE  ScanInv
BY Zenon DEF Init, ScanInv

\* And every step keeps it.
LEMMA ScanSteps ==
  ASSUME TextInv, ContentInv, ScanInv, Extract
  PROVE  ScanInv'
<1> SUFFICES ASSUME type' = "html" PROVE ScanInv'
  BY Zenon DEF ScanInv
<1>1. /\ type = "html" /\ type' = type /\ page' = page
      /\ \/ stage = "parse"
         \/ RemoveBlock \/ NextIgnored \/ Strip \/ DecodeEntity \/ CollapseContent
         \/ LongerName \/ TakeElement \/ CollapseElement \/ NextElementTag
  BY PageSteps, Zenon
<1>2. /\ PageOK /\ stage # "parse"
      /\ content = << >> => stage \notin {"elements", "done"}
  BY <1>1, Zenon DEF ContentInv
<1>3. StageOK /\ ScanOK
  BY DEF TextInv
<1>4. /\ content = << >> => found = Nothing /\ sought = 1 /\ cursor = 1
      /\ content # << >> =>
           /\ \A n \in 1 .. 2 : n < sought \/ stage = "done" => Settled(n)
           /\ \A n \in 1 .. 2 : n > sought => found[Elements[n][1]] = << >>
           /\ stage = "elements" => Scanning
           /\ stage \in {"strip", "decode", "collapse"} => Cleaning
  BY <1>1, Zenon DEF ScanInv
<1>5. /\ \A n \in {"remove", "strip", "decode", "collapse"} : n # "elements" /\ n # "done"
      /\ \A n \in {"strip", "decode", "collapse"} : n # "remove"
      /\ "elements" # "done"
  OBVIOUS
<1>6. ASSUME found' = found PROVE \A n : Settled(n)' <=> Settled(n)
  BY <1>1, <1>6, ScanStays, Zenon
<1>7. CASE RemoveBlock \/ NextIgnored
  <2>1. stage = "remove" /\ content' = content /\ scanVars' = scanVars
    BY <1>7, Zenon DEF RemoveBlock, NextIgnored
  <2>2. content = << >>
    BY <1>3, <2>1, Zenon DEF StageOK
  <2>3. found' = found /\ sought' = sought /\ cursor' = cursor
    BY <2>1 DEF scanVars
  <2> QED BY <1>4, <2>1, <2>2, <2>3, Zenon DEF ScanInv
<1>8. CASE Strip \/ DecodeEntity
  <2>1. stage \in {"strip", "decode"} /\ content' = content /\ scanVars' = scanVars
    BY <1>8, Zenon DEF Strip, DecodeEntity
  <2>2. found' = found /\ sought' = sought /\ cursor' = cursor
    BY <2>1 DEF scanVars
  <2>3. CASE content = << >>
    BY <1>4, <2>1, <2>2, <2>3, Zenon DEF ScanInv
  <2>4. CASE content # << >>
    <3>1. PICK m \in 1 .. Len(page) : Taking(m)
      BY <1>4, <2>1, <2>4, Zenon DEF Cleaning
    <3>2. PICK x : x = page[m].inside
      OBVIOUS
    <3>3. OnItsWay(x)
      BY <3>1, <3>2, Zenon DEF Taking
    <3>4. OnItsWay(x)' /\ stage' \in {"decode", "collapse"}
      BY <1>3, <1>8, <3>3, CleaningSteps
    <3>5. OnItsWay(page[m].inside)'
      BY <1>1, <3>2, <3>4, Zenon DEF OnItsWay
    <3>6. Cleaning'
      <4>1. Taking(m)'
        BY <1>1, <2>2, <3>1, <3>5, PlaceStays, Zenon DEF Taking
      <4> QED BY <1>1, <4>1, Zenon DEF Cleaning
    <3> QED BY <1>4, <1>5, <1>6, <2>1, <2>2, <2>4, <3>4, <3>6, Zenon DEF ScanInv
  <2> QED BY <2>3, <2>4
<1>9. CASE CollapseContent
  <2>1. content = << >>
    BY <1>9, Zenon DEF CollapseContent
  <2> QED BY <1>1, <1>2, <1>3, <1>4, <1>9, <2>1, CollapseContentStep, Zenon
<1>10. CASE LongerName \/ TakeElement
  <2>1. /\ stage = "elements" /\ content' = content /\ sought' = sought /\ found' = found
    BY <1>10, Zenon DEF LongerName, TakeElement
  <2>2. content # << >> /\ Scanning
    BY <1>2, <1>4, <2>1, Zenon
  <2>3. /\ LongerName => Scanning' /\ stage' = "elements"
        /\ TakeElement => Cleaning' /\ stage' = "strip"
    BY <1>1, <1>2, <1>3, <1>10, <2>2, ElementSteps, Zenon
  <2> QED BY <1>4, <1>5, <1>6, <1>10, <2>1, <2>2, <2>3, Zenon DEF ScanInv
<1>11. CASE CollapseElement
  <2>1. /\ stage = "collapse" /\ content # << >> /\ content' = content /\ sought' = sought
        /\ stage' = "elements"
    BY <1>11, Zenon DEF CollapseElement, Goto
  <2>2. PICK m \in 1 .. Len(page) : Taking(m)
    BY <1>4, <2>1, Zenon DEF Cleaning
  <2>3. /\ Reached(m)'
        /\ \A n \in 1 .. 2 : n # sought => found'[Elements[n][1]] = found[Elements[n][1]]
    BY <1>1, <1>2, <1>3, <1>11, <2>2, CollapseElementStep
  <2>4. Scanning'
    <3>1. m \in 0 .. Len(page)
      BY <1>2, MarkupParts
    <3> QED BY <1>1, <2>3, <3>1, Zenon DEF Scanning
  <2>5. ASSUME NEW n \in 1 .. 2, n < sought PROVE Settled(n)'
    <3>1. n # sought
      BY <1>3, <2>5 DEF ScanOK
    <3> QED BY <1>1, <1>4, <2>1, <2>3, <2>5, <3>1, ScanStays, Zenon
  <2>6. ASSUME NEW n \in 1 .. 2, n > sought PROVE found'[Elements[n][1]] = << >>
    <3>1. n # sought
      BY <1>3, <2>6 DEF ScanOK
    <3> QED BY <1>4, <2>1, <2>3, <2>6, <3>1, Zenon
  <2> QED BY <1>5, <2>1, <2>4, <2>5, <2>6, Zenon DEF ScanInv
<1>12. CASE NextElementTag
  <2>1. stage = "elements" /\ content' = content
    BY <1>12, Zenon DEF NextElementTag
  <2>2. content # << >> /\ Scanning
    BY <1>2, <1>4, <2>1, Zenon
  <2>3. /\ \A n \in 1 .. 2 : n < sought => Settled(n)
        /\ \A n \in 1 .. 2 : n > sought => found[Elements[n][1]] = << >>
    BY <1>4, <2>2, Zenon
  <2>4. /\ \A n \in 1 .. 2 : n < sought' \/ stage' = "done" => Settled(n)'
        /\ \A n \in 1 .. 2 : n > sought' => found'[Elements[n][1]] = << >>
        /\ stage' = "elements" => Scanning'
        /\ stage' \in {"elements", "done"}
    BY <1>1, <1>2, <1>3, <1>12, <2>2, <2>3, NextElementTagStep
  <2>5. "elements" \notin {"strip", "decode", "collapse"}
        /\ "done" \notin {"strip", "decode", "collapse"}
    OBVIOUS
  <2> QED BY <2>1, <2>2, <2>4, <2>5, Zenon DEF ScanInv
<1> QED BY <1>1, <1>2, <1>7, <1>8, <1>9, <1>10, <1>11, <1>12, Zenon

\* Nothing is lost while nothing happens.
LEMMA PageRests ==
  ASSUME ContentInv, ScanInv, UNCHANGED <<walkVars, textVars>>
  PROVE  ContentInv' /\ ScanInv'
<1>1. /\ type' = type /\ page' = page /\ text' = text /\ content' = content
      /\ stage' = stage /\ at' = at /\ sought' = sought /\ cursor' = cursor /\ found' = found
  BY DEF textVars, scanVars
<1>2. ContentInv'
  <2>1. \A m : OnItsWay(m)' <=> OnItsWay(m)
    BY <1>1, Zenon DEF OnItsWay
  <2>2. /\ PageOK' <=> PageOK
        /\ FlattenSeq(Cleared(Blocks))' = FlattenSeq(Cleared(Blocks))
        /\ Visible(page)' = Visible(page)
    BY <1>1, PageStays, Zenon
  <2>3. OnItsWay(FlattenSeq(Cleared(Blocks)))' <=> OnItsWay(FlattenSeq(Cleared(Blocks)))
    BY <1>1, <2>2, Zenon DEF OnItsWay
  <2>4. Removing' <=> Removing
    <3>1. /\ Blocks' = Blocks /\ \A R : Cleared(R)' = Cleared(R)
          /\ \A R, k : Gone(R, k)' <=> Gone(R, k)
      BY <1>1, PageStays, Zenon
    <3>2. \A R : Gone(R, at)' <=> Gone(R, at)
      BY <1>1, <3>1, Zenon DEF Gone
    <3> QED BY <1>1, <3>1, <3>2, Zenon DEF Removing
  <2> QED BY <1>1, <2>2, <2>3, <2>4, Zenon DEF ContentInv
<1>3. ScanInv'
  <2>1. \A n : Settled(n)' <=> Settled(n)
    BY <1>1, ScanStays, Zenon
  <2>2. Scanning => Scanning'
    <3>1. \A n : Reached(n) => Reached(n)'
      BY <1>1, PlaceStays, Zenon DEF Reached
    <3> QED BY <1>1, <3>1, Zenon DEF Scanning
  <2>3. Cleaning => Cleaning'
    <3>1. \A m : OnItsWay(page[m].inside)' <=> OnItsWay(page[m].inside)
      BY <1>1, Zenon DEF OnItsWay
    <3>2. \A m : Taking(m) => Taking(m)'
      BY <1>1, <3>1, PlaceStays, Zenon DEF Taking
    <3> QED BY <1>1, <3>2, Zenon DEF Cleaning
  <2> QED BY <1>1, <2>1, <2>2, <2>3, Zenon DEF ScanInv
<1> QED BY <1>2, <1>3
-----------------------------------------------------------------------------
(* Theorems *)

\* The walk and the pipeline keep their invariants, whatever the document or page.
THEOREM ExtractionInvariant == Spec => [](WalkInv /\ TextInv)
<1>1. Init => WalkInv /\ TextInv
  BY TextStart
<1>2. (WalkInv /\ TextInv) /\ [Next]_<<walkVars, textVars>> => (WalkInv /\ TextInv)'
  <2> SUFFICES ASSUME WalkInv, TextInv, [Next]_<<walkVars, textVars>>
               PROVE  WalkInv' /\ TextInv'
    OBVIOUS
  <2>1. CASE Extract
    BY <2>1, TextSteps
  <2>2. CASE UNCHANGED <<walkVars, textVars>>
    BY <2>2 DEF walkVars, textVars, scanVars, WalkInv, TextInv, TokensOK, StageOK, ScanOK,
                RoomLeft, Tag, Limit
  <2> QED BY <2>1, <2>2 DEF Next, Done
<1> QED BY <1>1, <1>2, PTL DEF Spec

\* The walk never collects more than one fragment past the limit, whatever the
\* document, and the pipeline is always at a tag, an entity or a place of the page
\* that exists, with no more elements found than their limits.
THEOREM TextTypeCorrect == Spec => []TextTypeOK
<1>1. WalkInv /\ TextInv => TextTypeOK
  <2> SUFFICES ASSUME WalkInv, TextInv PROVE TextTypeOK
    OBVIOUS
  <2>1. /\ outcome \in {"running", "ok", "too_deep", "too_many"}
        /\ Len(output) <= MaxFragments + 1
    BY DEF WalkInv
  <2>2. /\ stage \in {"parse", "remove", "strip", "decode", "collapse", "elements", "done",
                      "failed"}
        /\ at \in 1 .. Len(Ignored) /\ sought \in DOMAIN Elements
    BY EntityFacts, ElementFacts DEF TextInv, StageOK, ScanOK
  <2>3. /\ cursor \in 1 .. Len(Markup(page)) + 1
        /\ \A n \in DOMAIN Elements : Len(found[Elements[n][1]]) <= Elements[n][2]
    BY ElementFacts, Zenon DEF TextInv, ScanOK
  <2> QED BY <2>1, <2>2, <2>3, Zenon DEF TextTypeOK
<1> QED BY <1>1, ExtractionInvariant, PTL

\* The walk keeps sight of what the document ends in.
THEOREM EndInvariant == Spec => []EndInv
<1>1. Init => EndInv
  <2> SUFFICES ASSUME Init PROVE EndInv
    OBVIOUS
  <2>1. CASE WalkInit
    <3>1. todo = <<Visit(document, 0)>> /\ outcome = "running" /\ document \in Document
      BY <2>1 DEF WalkInit
    <3>2. Last(todo) = Visit(document, 0) /\ todo # << >>
      BY <3>1 DEF Last
    <3> QED BY <3>1, <3>2, VisitTask DEF EndInv
  <2>2. CASE todo = << >> /\ output = << >> /\ outcome = "ok"
    <3>1. Len(output) < MaxFragments
      BY <2>2, DocumentAssumption
    <3> QED BY <2>2, <3>1 DEF EndInv
  <2> QED BY <2>1, <2>2 DEF Init
<1>2. WalkInv /\ EndInv /\ [Next]_<<walkVars, textVars>> => EndInv'
  <2> SUFFICES ASSUME WalkInv, EndInv, [Next]_<<walkVars, textVars>> PROVE EndInv'
    OBVIOUS
  <2>1. CASE Walk
    BY <2>1, EndSteps
  <2>2. CASE UNCHANGED walkVars
    BY <2>2 DEF walkVars, EndInv
  <2>3. Walk \/ UNCHANGED walkVars
    BY DEF Next, Done, Extract, ParseFails, CollectText, WalkFails, JoinFragments, RemoveBlock,
           NextIgnored, Strip, DecodeEntity, CollapseContent, LongerName, TakeElement,
           CollapseElement, NextElementTag
  <2> QED BY <2>1, <2>2, <2>3
<1>3. WalkInv /\ TextInv => WalkInv
  OBVIOUS
<1> QED BY <1>1, <1>2, <1>3, ExtractionInvariant, PTL DEF Spec

\* Whatever the document, its text is what it says, every text and key where it
\* stands; it is refused exactly when it is nested too deep, has more fragments
\* than the limit, or has as many and goes on after the last (collect_json_text()).
THEOREM DocumentsAreCollected == Spec => []CollectedExactly
<1>1. WalkInv /\ TextInv /\ EndInv => CollectedExactly
  BY WalkCollects
<1> QED BY <1>1, ExtractionInvariant, EndInvariant, PTL

\* Whatever the page, its text has no space at either end and no two in a row: the
\* hash of a page does not depend on its spacing (collapse_whitespace()).
THEOREM TextsAreNormal == Spec => []TextIsNormal
<1>1. TextInv => TextIsNormal
  BY DEF TextInv, TokensOK, Normal, TextIsNormal
<1> QED BY <1>1, ExtractionInvariant, PTL

\* What the text is made of and what the scan has found, at every stage.
THEOREM PageInvariant == Spec => [](TextInv /\ ContentInv /\ ScanInv)
<1>1. Init => ContentInv /\ ScanInv
  BY ContentStart, ScanStart
<1>2. TextInv /\ ContentInv /\ ScanInv /\ [Next]_<<walkVars, textVars>>
        => ContentInv' /\ ScanInv'
  <2> SUFFICES ASSUME TextInv, ContentInv, ScanInv, [Next]_<<walkVars, textVars>>
               PROVE  ContentInv' /\ ScanInv'
    OBVIOUS
  <2>1. CASE Extract
    BY <2>1, ContentSteps, ScanSteps
  <2>2. CASE UNCHANGED <<walkVars, textVars>>
    BY <2>2, PageRests
  <2> QED BY <2>1, <2>2 DEF Next, Done
<1>3. Spec => []TextInv
  <2>1. WalkInv /\ TextInv => TextInv
    OBVIOUS
  <2> QED BY <2>1, ExtractionInvariant, PTL
<1> QED BY <1>1, <1>2, <1>3, PTL DEF Spec

\* Whatever the page, its text is what the page shows: nothing of an ignored block,
\* a comment or a tag gets into the hash, no visible word is lost beside one, and
\* every entity is read once (remove_ignored_html_blocks(), strip_markup(),
\* decode_common_entities(), collapse_whitespace()).
THEOREM VisibleTextIsKept == Spec => []VisibleTextKept
<1>1. ContentInv => VisibleTextKept
  BY Zenon DEF ContentInv, VisibleTextKept
<1> QED BY <1>1, PageInvariant, PTL

\* Whatever the page and the limits, title and headings are those of the page: no
\* longer name is taken for a tag, none is passed over, and the first ones up to
\* the limit come in their order (extract_tag_texts()).
THEOREM ElementsAreFound == Spec => []ElementsFound
<1>1. ContentInv /\ ScanInv => ElementsFound
  <2> SUFFICES ASSUME ContentInv, ScanInv, stage = "done", type = "html"
               PROVE  \A n \in DOMAIN Elements : Settled(n)
    BY Zenon DEF ElementsFound, Settled
  <2>1. content # << >>
    BY Zenon DEF ContentInv
  <2> QED BY <2>1, ElementFacts, Zenon DEF ScanInv
<1> QED BY <1>1, PageInvariant, PTL
=============================================================================
