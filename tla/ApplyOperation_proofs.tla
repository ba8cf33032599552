------------------------ MODULE ApplyOperation_proofs ------------------------
(***************************************************************************)
(* What holds of an apply for organizations of any size, any configuration *)
(* and any number of failures.                                             *)
(*                                                                         *)
(* The plan is a sequence that is put together from smaller ones, so the   *)
(* proofs begin with what FlattenSeq makes of the sequences that it is     *)
(* given: what they have in common, what is in them, and in which order.   *)
(***************************************************************************)
EXTENDS ApplyOperation, FiniteSetTheorems, SequenceTheorems, TLAPS

-----------------------------------------------------------------------------
(* Sequences of sequences.                                                 *)

\* Every set of natural numbers that is not empty has a least element: an induction
\* that the library states for sets of finite sets.
LEMMA LeastNumber ==
    ASSUME NEW T \in SUBSET Nat, T # {}
    PROVE  \E m \in T : \A k \in T : m <= k
<1> DEFINE F == {0..k : k \in T}
           R == StrictSubsetOrdering(Nat)
           S == FiniteSubsetsOf(Nat)
<1>1. \A k \in T : 0..k \in S
    <2> TAKE k \in T
    <2>1. IsFiniteSet(0..k)
        BY FS_Interval
    <2>2. 0..k \in SUBSET Nat
        OBVIOUS
    <2> QED
        BY <2>1, <2>2 DEF FiniteSubsetsOf
<1>2. F \subseteq S
    BY <1>1
<1>3. F # {}
    OBVIOUS
<1>4. IsWellFoundedOn(R, S)
    BY FS_StrictSubsetOrderingWellFounded
<1>5. PICK x \in F : \A y \in F : ~ (<<y, x>> \in R)
    <2> HIDE DEF F, R, S
    <2> QED
        BY <1>2, <1>3, <1>4, WFMin
<1>6. PICK m \in T : x = 0..m
    OBVIOUS
<1>7. ASSUME NEW k \in T
      PROVE  m <= k
    <2>1. SUFFICES ASSUME k < m
                   PROVE  FALSE
        OBVIOUS
    <2>2. 0..k \in F
        OBVIOUS
    <2>3. 0..k \subseteq 0..m /\ 0..k # 0..m
        BY <2>1
    <2>4. 0..k \in SUBSET Nat /\ 0..m \in SUBSET Nat
        OBVIOUS
    <2>5. <<0..k, 0..m>> \in R
        BY <2>3, <2>4 DEF StrictSubsetOrdering
    <2> QED
        BY <1>5, <1>6, <2>2, <2>5
<1> QED
    BY <1>7

\* What FlattenSeq makes of the first n of the sequences, for every n.
IsFlattened(ss, n, g) == \A i \in 1..n : g[i] = IF i = 1 THEN ss[i] ELSE g[i - 1] \o ss[i]

\* The recursion in FlattenSeq has a solution.
LEMMA FlattenExists ==
    ASSUME NEW S, NEW ss \in Seq(Seq(S)), NEW n \in 1..Len(ss)
    PROVE  \E g \in [1..n -> Seq(S)] : IsFlattened(ss, n, g)
<1> DEFINE Bad == {k \in 1..Len(ss) : ~ \E g \in [1..k -> Seq(S)] : IsFlattened(ss, k, g)}
<1>1. SUFFICES ASSUME Bad # {}
               PROVE  FALSE
    OBVIOUS
<1>2. Bad \in SUBSET Nat
    OBVIOUS
<1>3. PICK k \in Bad : \A j \in Bad : k <= j
    <2> HIDE DEF Bad
    <2> QED
        BY <1>1, <1>2, LeastNumber
<1>4. k \in 1..Len(ss) /\ ss[k] \in Seq(S)
    BY ElementOfSeq
<1>5. CASE k = 1
    <2> DEFINE g == [i \in 1..1 |-> ss[1]]
    <2>1. g \in [1..1 -> Seq(S)]
        BY <1>4, <1>5
    <2>2. IsFlattened(ss, 1, g)
        BY DEF IsFlattened
    <2> QED
        BY <1>5, <2>1, <2>2
<1>6. CASE k # 1
    <2>1. k - 1 \in 1..Len(ss) /\ k - 1 \notin Bad
        <3>1. Len(ss) \in Nat
            BY LenProperties
        <3>2. k - 1 \in 1..Len(ss) /\ ~(k <= k - 1)
            BY <1>4, <1>6, <3>1
        <3> HIDE DEF Bad
        <3> QED
            BY <1>3, <3>2
    <2>2. PICK g \in [1..k - 1 -> Seq(S)] : IsFlattened(ss, k - 1, g)
        BY <2>1
    <2> DEFINE h == [i \in 1..k |-> IF i = k THEN g[k - 1] \o ss[k] ELSE g[i]]
    <2>3. \A i \in 1..k : i # k => i \in 1..k - 1
        BY <1>4
    <2>4. g[k - 1] \o ss[k] \in Seq(S)
        BY <1>4, <2>1, ConcatProperties
    <2>5. h \in [1..k -> Seq(S)]
        BY <2>3, <2>4
    <2>6. IsFlattened(ss, k, h)
        <3> SUFFICES ASSUME NEW i \in 1..k
                     PROVE  h[i] = IF i = 1 THEN ss[i] ELSE h[i - 1] \o ss[i]
            BY DEF IsFlattened
        <3>1. CASE i = k
            <4>1. h[i] = g[k - 1] \o ss[k]
                BY <3>1
            <4>2. k - 1 \in 1..k /\ k - 1 # k
                BY <1>4, <2>1
            <4>3. h[k - 1] = g[k - 1]
                BY <4>2
            <4> HIDE DEF h
            <4> QED
                BY <1>6, <3>1, <4>1, <4>3
        <3>2. CASE i # k
            <4>1. i \in 1..k - 1 /\ h[i] = g[i]
                BY <2>3, <3>2
            <4>2. i # 1 => i - 1 \in 1..k /\ i - 1 # k /\ h[i - 1] = g[i - 1]
                BY <1>4, <4>1
            <4> QED
                BY <2>2, <4>1, <4>2 DEF IsFlattened
        <3> QED
            BY <3>1, <3>2
    <2> QED
        BY <2>5, <2>6
<1> QED
    BY <1>5, <1>6

\* FlattenSeq is the last value of a solution.
LEMMA FlattenDefined ==
    ASSUME NEW S, NEW ss \in Seq(Seq(S)), Len(ss) # 0
    PROVE  \E g : IsFlattened(ss, Len(ss), g) /\ FlattenSeq(ss) = g[Len(ss)]
<1> DEFINE n == Len(ss)
           f == CHOOSE g : g = [i \in 1..n |-> IF i = 1 THEN ss[i] ELSE g[i - 1] \o ss[i]]
<1>1. n \in 1..Len(ss)
    BY LenProperties
<1>2. PICK g \in [1..n -> Seq(S)] : IsFlattened(ss, n, g)
    BY <1>1, FlattenExists
<1>3. g = [i \in 1..n |-> IF i = 1 THEN ss[i] ELSE g[i - 1] \o ss[i]]
    BY <1>2 DEF IsFlattened
<1>4. f = [i \in 1..n |-> IF i = 1 THEN ss[i] ELSE f[i - 1] \o ss[i]]
    BY <1>3
<1>5. FlattenSeq(ss) = f[n]
    BY DEF FlattenSeq
<1> HIDE DEF f
<1>6. IsFlattened(ss, n, f)
    BY <1>4 DEF IsFlattened
<1> QED
    BY <1>5, <1>6

\* What is in the first n of the sequences.
RangeOfFirst(ss, n) == UNION {Range(ss[i]) : i \in 1..n}

\* What is flattened is of the kind that the parts are of, and has what they have.
LEMMA FlattenedRange ==
    ASSUME NEW S, NEW ss \in Seq(Seq(S)), NEW g, IsFlattened(ss, Len(ss), g), NEW n \in 1..Len(ss)
    PROVE  g[n] \in Seq(S) /\ Range(g[n]) = RangeOfFirst(ss, n)
<1> USE DEF RangeOfFirst
<1> DEFINE Good(k) == /\ g[k] \in Seq(S)
                      /\ Range(g[k]) = RangeOfFirst(ss, k)
           Bad == {k \in 1..Len(ss) : ~Good(k)}
<1>1. SUFFICES ASSUME Bad # {}
               PROVE  FALSE
    OBVIOUS
<1>2. Bad \in SUBSET Nat
    OBVIOUS
<1>3. PICK k \in Bad : \A j \in Bad : k <= j
    <2> HIDE DEF Bad
    <2> QED
        BY <1>1, <1>2, LeastNumber
<1>4. k \in 1..Len(ss) /\ ss[k] \in Seq(S) /\ Len(ss) \in Nat
    BY ElementOfSeq, LenProperties
<1>5. g[k] = IF k = 1 THEN ss[k] ELSE g[k - 1] \o ss[k]
    BY <1>4 DEF IsFlattened
<1>6. CASE k = 1
    <2>1. g[k] = ss[1]
        BY <1>5, <1>6
    <2>2. {Range(ss[i]) : i \in 1..1} = {Range(ss[1])}
        OBVIOUS
    <2>3. Good(k)
        BY <1>4, <1>6, <2>1, <2>2
    <2> QED
        BY <2>3
<1>7. CASE k # 1
    <2>1. k - 1 \in 1..Len(ss) /\ ~(k <= k - 1)
        BY <1>4, <1>7
    <2>2. k - 1 \notin Bad
        <3> HIDE DEF Bad
        <3> QED
            BY <1>3, <2>1
    <2>3. Good(k - 1)
        BY <2>1, <2>2
    <2>4. g[k] = g[k - 1] \o ss[k]
        BY <1>5, <1>7
    <2>5. Range(g[k]) = Range(g[k - 1]) \cup Range(ss[k])
        BY <1>4, <2>3, <2>4, RangeConcatenation
    <2>6. 1..k = (1..k - 1) \cup {k}
        BY <1>4
    <2>7. {Range(ss[i]) : i \in 1..k} = {Range(ss[i]) : i \in 1..k - 1} \cup {Range(ss[k])}
        BY <2>6
    <2>8. g[k] \in Seq(S)
        BY <1>4, <2>3, <2>4, ConcatProperties
    <2>9. Good(k)
        BY <2>3, <2>5, <2>7, <2>8
    <2> QED
        BY <2>9
<1> QED
    BY <1>6, <1>7

LEMMA FlattenRange ==
    ASSUME NEW S, NEW ss \in Seq(Seq(S))
    PROVE  /\ FlattenSeq(ss) \in Seq(S)
           /\ Range(FlattenSeq(ss)) = UNION {Range(ss[i]) : i \in DOMAIN ss}
<1>1. DOMAIN ss = 1..Len(ss) /\ Len(ss) \in Nat
    BY LenProperties
<1>2. CASE Len(ss) = 0
    <2>1. ss = <<>>
        BY <1>2, EmptySeq
    <2>2. FlattenSeq(ss) = <<>>
        BY <1>2, <2>1 DEF FlattenSeq
    <2>3. DOMAIN ss = {}
        BY <1>1, <1>2
    <2>4. Range(FlattenSeq(ss)) = {}
        BY <2>1, <2>2, <2>3 DEF Range
    <2> QED
        BY <2>2, <2>3, <2>4, EmptySeq
<1>3. CASE Len(ss) # 0
    <2>1. PICK g : IsFlattened(ss, Len(ss), g) /\ FlattenSeq(ss) = g[Len(ss)]
        BY <1>3, FlattenDefined
    <2>2. Len(ss) \in 1..Len(ss)
        BY <1>1, <1>3
    <2>3. g[Len(ss)] \in Seq(S) /\ Range(g[Len(ss)]) = RangeOfFirst(ss, Len(ss))
        BY <2>1, <2>2, FlattenedRange
    <2> QED
        BY <1>1, <2>1, <2>3 DEF RangeOfFirst
<1> QED
    BY <1>2, <1>3

\* A relation holds of any two members of a sequence, of the earlier and the later one.
Follows(s, R) == \A i, j \in DOMAIN s : i < j => <<s[i], s[j]>> \in R

LEMMA FollowsConcat ==
    ASSUME NEW S, NEW s \in Seq(S), NEW t \in Seq(S), NEW R, Follows(s, R), Follows(t, R),
           \A x \in Range(s), y \in Range(t) : <<x, y>> \in R
    PROVE  Follows(s \o t, R)
<1>1. /\ Len(s) \in Nat /\ Len(t) \in Nat
      /\ DOMAIN s = 1..Len(s) /\ DOMAIN t = 1..Len(t)
    BY LenProperties
<1>2. /\ s \o t \in Seq(S) /\ Len(s \o t) = Len(s) + Len(t)
      /\ \A i \in 1..Len(s) + Len(t) : (s \o t)[i] = IF i <= Len(s) THEN s[i] ELSE t[i - Len(s)]
    BY ConcatProperties
<1>3. DOMAIN (s \o t) = 1..Len(s) + Len(t)
    BY <1>2, LenProperties
<1> SUFFICES ASSUME NEW i \in 1..Len(s) + Len(t), NEW j \in 1..Len(s) + Len(t), i < j
             PROVE  <<(s \o t)[i], (s \o t)[j]>> \in R
    BY <1>3 DEF Follows
<1>4. CASE j <= Len(s)
    <2>1. i \in DOMAIN s /\ j \in DOMAIN s /\ i <= Len(s)
        BY <1>1, <1>4
    <2> QED
        BY <1>2, <1>4, <2>1 DEF Follows
<1>5. CASE i > Len(s)
    <2>1. i - Len(s) \in DOMAIN t /\ j - Len(s) \in DOMAIN t /\ i - Len(s) < j - Len(s)
        BY <1>1, <1>5
    <2>2. (s \o t)[i] = t[i - Len(s)] /\ (s \o t)[j] = t[j - Len(s)]
        BY <1>1, <1>2, <1>5
    <2> QED
        BY <2>1, <2>2 DEF Follows
<1>6. CASE i <= Len(s) /\ j > Len(s)
    <2>1. i \in DOMAIN s /\ j - Len(s) \in DOMAIN t
        BY <1>1, <1>6
    <2>2. (s \o t)[i] = s[i] /\ (s \o t)[j] = t[j - Len(s)]
        BY <1>1, <1>2, <1>6
    <2>3. s[i] \in Range(s) /\ t[j - Len(s)] \in Range(t)
        BY <2>1 DEF Range
    <2> QED
        BY <2>2, <2>3
<1>7. \/ j <= Len(s)
      \/ i > Len(s)
      \/ i <= Len(s) /\ j > Len(s)
    BY <1>1
<1> QED
    BY <1>4, <1>5, <1>6, <1>7, Zenon

\* What is flattened keeps the order of the parts and the order within them.
LEMMA FlattenFollows ==
    ASSUME NEW S, NEW ss \in Seq(Seq(S)), NEW R,
           \A i \in DOMAIN ss : Follows(ss[i], R),
           \A i, j \in DOMAIN ss : i < j =>
               \A x \in Range(ss[i]), y \in Range(ss[j]) : <<x, y>> \in R
    PROVE  Follows(FlattenSeq(ss), R)
<1>1. DOMAIN ss = 1..Len(ss) /\ Len(ss) \in Nat
    BY LenProperties
<1>2. CASE Len(ss) = 0
    <2>1. ss = <<>>
        BY <1>2, EmptySeq
    <2>2. FlattenSeq(ss) = <<>>
        BY <1>2, <2>1 DEF FlattenSeq
    <2>3. DOMAIN <<>> = {}
        BY <1>1, <1>2, <2>1
    <2> QED
        BY <2>2, <2>3 DEF Follows
<1>3. CASE Len(ss) # 0
    <2>1. PICK g : IsFlattened(ss, Len(ss), g) /\ FlattenSeq(ss) = g[Len(ss)]
        BY <1>3, FlattenDefined
    <2> DEFINE Bad == {k \in 1..Len(ss) : ~Follows(g[k], R)}
    <2>2. SUFFICES ASSUME Bad # {}
                   PROVE  FALSE
        BY <1>1, <1>3, <2>1
    <2>3. Bad \in SUBSET Nat
        OBVIOUS
    <2>4. PICK k \in Bad : \A j \in Bad : k <= j
        <3> HIDE DEF Bad
        <3> QED
            BY <2>2, <2>3, LeastNumber
    <2>5. k \in 1..Len(ss) /\ ss[k] \in Seq(S) /\ Follows(ss[k], R)
        BY <1>1, ElementOfSeq
    <2>6. g[k] = IF k = 1 THEN ss[k] ELSE g[k - 1] \o ss[k]
        BY <2>1, <2>5 DEF IsFlattened
    <2>7. CASE k = 1
        BY <2>4, <2>5, <2>6, <2>7
    <2>8. CASE k # 1
        <3>1. k - 1 \in 1..Len(ss) /\ ~(k <= k - 1)
            BY <1>1, <2>5, <2>8
        <3>2. k - 1 \notin Bad
            <4> HIDE DEF Bad
            <4> QED
                BY <2>4, <3>1
        <3>3. Follows(g[k - 1], R)
            BY <3>1, <3>2
        <3>4. g[k - 1] \in Seq(S) /\ Range(g[k - 1]) = RangeOfFirst(ss, k - 1)
            BY <2>1, <3>1, FlattenedRange
        <3>5. ASSUME NEW x \in Range(g[k - 1]), NEW y \in Range(ss[k])
              PROVE  <<x, y>> \in R
            <4>1. PICK i \in 1..k - 1 : x \in Range(ss[i])
                BY <3>4 DEF RangeOfFirst
            <4>2. i \in DOMAIN ss /\ k \in DOMAIN ss /\ i < k
                BY <1>1, <2>5, <4>1
            <4> QED
                BY <4>1, <4>2
        <3>6. Follows(g[k - 1] \o ss[k], R)
            BY <2>5, <3>3, <3>4, <3>5, FollowsConcat
        <3> QED
            BY <2>4, <2>6, <2>8, <3>6
    <2> QED
        BY <2>7, <2>8
<1> QED
    BY <1>2, <1>3

-----------------------------------------------------------------------------
(* The inductive invariant.                                                *)

\* The requests that are still to be sent, with what is known of their patches.
Task(p, r) == [type |-> p.type, parts |-> p.parts, readonly |-> p.readonly, request |-> r]
TasksOf(p) == {Task(p, p.requests[k]) : k \in DOMAIN p.requests}
Tasks(s) == UNION {TasksOf(p) : p \in Range(s)}

\* A request that brings a repository into being under the name that is configured.
Founds(r) == "name" \in r.fields \/ r.op = "create"

\* What the requests of a plan are: all but the deletions are for a configured
\* repository, under that name or, to rename it, under an alias.
Sound(t) ==
    LET r == t.request IN
    /\ r \in Request
    /\ r.op = "delete" => r.at = r.of
    /\ r.op # "delete" => r.of \in Expected /\ r.at \in Keys(r.of)
    /\ "name" \in r.fields <=> r.at # r.of
    /\ r.fields # {} => r.op = "patch"
    /\ r.op \in Children => /\ t.type = "remove" <=> config[r.of][r.op] = Absent
                            /\ ~t.readonly
    /\ r.op \notin Children => (t.type = "remove" <=> r.op = "delete")
    /\ t.readonly => r.op \in {"patch", "topics"} /\ config[r.of].archived

SoundPatch(p) ==
    /\ p \in Patch
    /\ p.requests # <<>>
    /\ \A t \in TasksOf(p) : Sound(t)
    /\ \A k \in DOMAIN p.requests : /\ Founds(p.requests[k]) => k = 1
                                    /\ p.requests[k].op \in Children => Len(p.requests) = 1

\* Patches that make a repository readonly come last.
ReadonlyLast == {pq \in Patch \X Patch : pq[1].readonly => pq[2].readonly}

\* A repository that does not get archived is renamed or created before anything else
\* is done to it.
FoundedFirst ==
    {pq \in Patch \X Patch :
        \A t \in TasksOf(pq[1]), u \in TasksOf(pq[2]) :
            t.request.op # "delete" /\ Founds(u.request) /\ ~config[u.request.of].archived
                => t.request.of # u.request.of}

TodoInv ==
    /\ \A i \in DOMAIN todo : SoundPatch(todo[i])
    /\ pc # "applying" => todo = <<>>

OrderInv == KeysAreUnique => Follows(todo, ReadonlyLast) /\ Follows(todo, FoundedFirst)

\* Only its own requests touch a repository that gets archived and keeps its name, and
\* those that make it readonly have nothing to do with its hooks and rules.
OwnRequests(m) ==
    \A t \in Tasks(todo) : t.request.at = m \/ t.request.of = m =>
        /\ t.request.at = m /\ t.request.of = m
        /\ t.request.op \in Children \/ t.readonly

\* The request that brings a hook or a rule up to date is possible.
ChildWaits(m, f) ==
    /\ ~live[m].archived
    /\ \E t \in Tasks(todo) : /\ t.request.op = f /\ t.request.of = m
                              /\ t.type = "add" <=> live[m][f] = Absent

\* Nothing is sent any more, and the repository has not been archived.
Spared(m) == todo = <<>> /\ ~live[m].archived

Archiving(m) ==
    /\ live[m] # Absent
    /\ OwnRequests(m)
    /\ \A f \in Children :
          AsConfigured(m, f) \/ <<m, f>> \in hist.spoilt \/ ChildWaits(m, f) \/ Spared(m)

Archived(m) == <<m, m>> \in hist.archives

ArchiveInv == KeysAreUnique => \A m : Archived(m) => m \in Expected /\ Archiving(m)

\* What a request sets, and that such a request is still to be sent.
Sets(r, f) == f \in r.fields \cup {r.op}
Waits(m, f) == \E t \in Tasks(todo) : f \in t.parts /\ t.request.of = m /\ Sets(t.request, f)

\* A repository has what is configured for m, or it will get it, or a patch has failed.
Matches(repo, m, f) == \/ repo[f] = config[m][f]
                       \/ f \in Children /\ config[m][f] = Absent /\ ~deletes
Brought(repo, m) == \A f \in Parts \ hist.failed : Matches(repo, m, f) \/ Waits(m, f)

Kept(n) == \A t \in Tasks(todo) : t.request.op = "delete" => t.request.at # n

FoundInv(m) ==
    \A t \in Tasks(todo) : t.request.of = m =>
        /\ t.request.op = "create" => Brought(Created(m), m)
        /\ "name" \in t.request.fields /\ live[t.request.at] # Absent
                => Brought(live[t.request.at], m)

Isolated(m) ==
    \/ live[m] # Absent => Brought(live[m], m)
    \/ \E n \in Keys(m) \ {m} : live[n] # Absent /\ Kept(n)

IsolationInv ==
    KeysAreUnique /\ pc # "idle" =>
        \A m \in Expected : ~config[m].archived => FoundInv(m) /\ Isolated(m)

\* A run that nothing has gone wrong with so far, and that CleanRunSettles speaks of.
Clean ==
    /\ pc # "idle" /\ errors = 0 /\ ~hist.disturbed /\ ~hist.clash
    /\ hist.creates => \A m \in Expected : ~config[m].archived

\* A configured repository is live under one of its keys, or it will be created; and if
\* under an alias, it will be renamed.
Alive(m) == Keys(m) \cap Existing(live)
WillBeCreated(m) == \E t \in Tasks(todo) : t.request.op = "create" /\ t.request.of = m
WillBeRenamed(m, n) ==
    \E t \in Tasks(todo) : /\ t.request.of = m /\ t.request.at = n
                           /\ "name" \in t.request.fields
Located(m) ==
    /\ \A n, x \in Alive(m) : n = x
    /\ Alive(m) = {} <=> WillBeCreated(m)
    /\ \A n \in Alive(m) \ {m} : WillBeRenamed(m, n)

\* What of a repository the plan compares, and that it is as configured or will be.
Counts(repo, m, f) == f \in {"desc", "rule"} => ~repo.archived \/ ~config[m].archived
Settling(repo, m) ==
    \A f \in Parts : Counts(repo, m, f) => Matches(repo, m, f) \/ Waits(m, f)

Unclaimed(n) == \A m \in Expected : n \notin Keys(m)

SettleInv ==
    Clean =>
        /\ KeysAreUnique /\ hist.failed = {}
        /\ \A t \in Tasks(todo) : /\ t.request.op = "create" => hist.creates
                                  /\ t.request.op = "delete" => Unclaimed(t.request.at)
        /\ \A m \in Expected : Located(m) /\ \A n \in Alive(m) : Settling(live[n], m)
        /\ deletes => \A n \in Existing(live) : Unclaimed(n) => ~Kept(n)

IInv == TypeOK /\ TodoInv /\ OrderInv /\ ArchiveInv /\ IsolationInv

-----------------------------------------------------------------------------
(* Which repository a configured one takes.                                *)

LEMMA OrderFacts ==
    /\ Order \in Seq(Names) /\ Len(Order) = Cardinality(Names) /\ Len(Order) \in Nat
    /\ DOMAIN Order = 1..Len(Order)
    /\ \A n \in Names : \E i \in DOMAIN Order : Order[i] = n
    /\ \A i, j \in DOMAIN Order : Order[i] = Order[j] => i = j
<1> DEFINE c == Cardinality(Names)
<1>1. c \in Nat
    BY OrderAssumption, FS_CardinalityType
<1>2. Order \in [1..c -> Names] /\ \A n \in Names : \E i \in DOMAIN Order : Order[i] = n
    BY OrderAssumption
<1>3. Order \in Seq(Names) /\ Len(Order) = c
    BY <1>1, <1>2
<1>4. IsFiniteSet(1..c) /\ Cardinality(1..c) = c
    BY <1>1, FS_Interval
<1>5. Order \in Surjection(1..c, Names)
    BY <1>2 DEF Surjection
<1>6. Order \in Injection(1..c, Names)
    BY <1>4, <1>5, FS_Surjection
<1>7. \A i, j \in 1..c : Order[i] = Order[j] => i = j
    BY <1>6 DEF Injection, IsInjective
<1> QED
    BY <1>1, <1>2, <1>3, <1>7

\* A configured repository takes one live repository at most, by one of its keys.
LEMMA TakesUnique ==
    ASSUME NEW l, NEW m, NEW n, NEW x, Takes(l, m, n), Takes(l, m, x)
    PROVE  n = x
<1>1. PICK i \in DOMAIN Order : /\ n = Order[i] /\ n \in Existing(l) \cap Keys(m)
                                /\ \A j \in 1..i - 1 : Order[j] \notin Existing(l) \cap Keys(m)
    BY DEF Takes
<1>2. PICK k \in DOMAIN Order : /\ x = Order[k] /\ x \in Existing(l) \cap Keys(m)
                                /\ \A j \in 1..k - 1 : Order[j] \notin Existing(l) \cap Keys(m)
    BY DEF Takes
<1>3. i \in 1..Len(Order) /\ k \in 1..Len(Order) /\ Len(Order) \in Nat
    BY OrderFacts
<1>4. ~(i < k)
    <2> SUFFICES ASSUME i < k
                 PROVE  FALSE
        OBVIOUS
    <2>1. i \in 1..k - 1
        BY <1>3
    <2> QED
        BY <1>1, <1>2, <2>1
<1>5. ~(k < i)
    <2> SUFFICES ASSUME k < i
                 PROVE  FALSE
        OBVIOUS
    <2>1. k \in 1..i - 1
        BY <1>3
    <2> QED
        BY <1>1, <1>2, <2>1
<1>6. i = k
    BY <1>3, <1>4, <1>5
<1> QED
    BY <1>1, <1>2, <1>6

LEMMA TakesKey ==
    ASSUME NEW l, NEW m, NEW n, Takes(l, m, n)
    PROVE  n \in Names /\ l[n] # Absent /\ n \in Keys(m)
BY DEF Takes, Existing

\* It does take one if there is any.
LEMMA TakesSome ==
    ASSUME NEW l, NEW m, NEW x \in Existing(l) \cap Keys(m)
    PROVE  \E n \in Names : Takes(l, m, n)
<1> DEFINE T == {i \in DOMAIN Order : Order[i] \in Existing(l) \cap Keys(m)}
<1>1. x \in Names
    BY DEF Existing
<1>2. DOMAIN Order \subseteq Nat /\ DOMAIN Order = 1..Len(Order) /\ Len(Order) \in Nat
    BY OrderFacts
<1>3. T \in SUBSET Nat
    BY <1>2
<1>4. T # {}
    BY <1>1, OrderFacts
<1>5. PICK i \in T : \A j \in T : i <= j
    <2> HIDE DEF T
    <2> QED
        BY <1>3, <1>4, LeastNumber
<1>6. ASSUME NEW j \in 1..i - 1
      PROVE  Order[j] \notin Existing(l) \cap Keys(m)
    <2>1. j \in DOMAIN Order /\ ~(i <= j)
        BY <1>2
    <2> QED
        BY <1>5, <2>1
<1>7. Takes(l, m, Order[i])
    BY <1>6 DEF Takes
<1> QED
    BY <1>7, TakesKey

\* With unique keys, a live repository is taken by one configured one at most.
LEMMA TakenOnce ==
    ASSUME KeysAreUnique, NEW l, NEW m \in Expected, NEW x \in Expected, NEW n,
           n \in Keys(m), n \in Keys(x)
    PROVE  m = x
BY DEF KeysAreUnique

\* What is done for a live repository.
LEMMA ForExistingCases ==
    ASSUME KeysAreUnique, NEW l, NEW n
    PROVE  /\ \A m \in Expected : Takes(l, m, n) => ForExisting(l, n) = Changes(l, n, m)
           /\ (\A m \in Expected : ~Takes(l, m, n)) => ForExisting(l, n) = Removal(n)
<1>1. ASSUME NEW m \in Expected, Takes(l, m, n)
      PROVE  ForExisting(l, n) = Changes(l, n, m)
    <2>1. \A x \in Expected : Takes(l, x, n) => x = m
        BY <1>1, TakesKey, TakenOnce
    <2>2. (CHOOSE x \in Expected : Takes(l, x, n)) = m
        BY <1>1, <2>1
    <2> QED
        BY <1>1, <2>2 DEF ForExisting
<1> QED
    BY <1>1 DEF ForExisting

-----------------------------------------------------------------------------
(* Patches.                                                                *)

SoundPatches == {p \in Patch : SoundPatch(p)}

\* The tasks of a patch, one by one.
LEMMA TasksOfOne ==
    ASSUME NEW p, NEW a, p.requests = <<a>>
    PROVE  TasksOf(p) = {Task(p, a)}
<1>1. DOMAIN p.requests = {1}
    OBVIOUS
<1> QED
    BY <1>1 DEF TasksOf

LEMMA TasksOfTwo ==
    ASSUME NEW p, NEW a, NEW b, p.requests = <<a, b>>
    PROVE  TasksOf(p) = {Task(p, a), Task(p, b)}
<1>1. DOMAIN p.requests = {1, 2}
    OBVIOUS
<1>2. p.requests[1] = a /\ p.requests[2] = b
    OBVIOUS
<1> QED
    BY <1>1, <1>2 DEF TasksOf

LEMMA RangeOfOne ==
    ASSUME NEW x
    PROVE  Range(<<x>>) = {x} /\ Range(<<>>) = {}
<1>1. DOMAIN <<x>> = {1} /\ <<x>>[1] = x
    OBVIOUS
<1>2. DOMAIN <<>> = {}
    OBVIOUS
<1> QED
    BY <1>1, <1>2 DEF Range

LEMMA OneLong ==
    ASSUME NEW x
    PROVE  DOMAIN <<x>> = {1} /\ Len(<<x>>) = 1
OBVIOUS

LEMMA FollowsOne ==
    ASSUME NEW x, NEW R
    PROVE  Follows(<<x>>, R) /\ Follows(<<>>, R)
<1>1. DOMAIN <<x>> = {1} /\ DOMAIN <<>> = {}
    OBVIOUS
<1>2. \A i, j \in {1} : ~(i < j)
    OBVIOUS
<1> QED
    BY <1>1, <1>2 DEF Follows

\* What a configured repository and a live one are.
LEMMA ConfigType ==
    ASSUME config \in Config, NEW m \in Expected
    PROVE  /\ m \in Names /\ config[m] \in Wanted /\ m \in Keys(m) /\ Keys(m) \subseteq Names
           /\ config[m].archived \in BOOLEAN
           /\ config[m].desc \in Texts /\ config[m].topics \in Texts
           /\ config[m].hook \in Texts \cup {Absent} /\ config[m].rule \in Texts \cup {Absent}
<1>1. m \in Names /\ config[m] # Absent
    BY DEF Expected
<1>2. config[m] \in Wanted
    BY <1>1 DEF Config
<1> QED
    BY <1>1, <1>2 DEF Wanted, Keys

LEMMA ConcatShort ==
    ASSUME NEW a, NEW b
    PROVE  /\ <<>> \o <<>> = <<>>
           /\ <<a>> \o <<>> = <<a>>
           /\ <<>> \o <<b>> = <<b>>
           /\ <<a>> \o <<b>> = <<a, b>>
<1> DEFINE S == {a, b}
<1>1. <<a>> \in Seq(S) /\ <<b>> \in Seq(S) /\ <<>> \in Seq(S) /\ <<a, b>> \in Seq(S)
    OBVIOUS
<1>2. <<>> \o <<>> = <<>> /\ <<a>> \o <<>> = <<a>> /\ <<>> \o <<b>> = <<b>>
    <2> HIDE DEF S
    <2> QED
        BY <1>1, ConcatEmptySeq
<1>3. <<a>> \o <<b>> = <<a, b>>
    <2> DEFINE u == <<a>> \o <<b>>
               v == <<a, b>>
    <2>1. Len(<<a>>) = 1 /\ Len(<<b>>) = 1 /\ Len(v) = 2
        OBVIOUS
    <2>2. /\ u \in Seq(S) /\ Len(u) = 1 + 1
          /\ \A i \in 1..1 + 1 : u[i] = IF i <= 1 THEN <<a>>[i] ELSE <<b>>[i - 1]
        BY <1>1, <2>1, ConcatProperties
    <2>3. u[1] = a /\ u[2] = b /\ v[1] = a /\ v[2] = b
        BY <2>2
    <2>4. \A i \in 1..2 : i = 1 \/ i = 2
        OBVIOUS
    <2> HIDE DEF u, S
    <2>5. \A i \in 1..Len(u) : u[i] = v[i]
        BY <2>2, <2>3, <2>4
    <2> HIDE DEF v
    <2>6. v \in Seq(S) /\ Len(u) = Len(v)
        BY <1>1, <2>1, <2>2 DEF v
    <2> QED
        BY <2>2, <2>5, <2>6, SeqEqual DEF u, v
<1> QED
    BY <1>2, <1>3

LEMMA UpdateRepoCases ==
    ASSUME NEW n, NEW m, NEW fields, NEW topics \in BOOLEAN
    PROVE  /\ fields = {} /\ ~topics => UpdateRepo(n, m, fields, topics) = <<>>
           /\ fields = {} /\ topics => UpdateRepo(n, m, fields, topics) = <<Req("topics", m, m, {})>>
           /\ fields # {} /\ ~topics
                => UpdateRepo(n, m, fields, topics) = <<Req("patch", n, m, fields)>>
           /\ fields # {} /\ topics
                => UpdateRepo(n, m, fields, topics)
                       = <<Req("patch", n, m, fields), Req("topics", m, m, {})>>
<1> DEFINE P == Req("patch", n, m, fields)
           T == Req("topics", m, m, {})
<1>1. UpdateRepo(n, m, fields, topics)
          = (IF fields = {} THEN <<>> ELSE <<P>>) \o (IF topics THEN <<T>> ELSE <<>>)
    BY DEF UpdateRepo
<1> HIDE DEF P, T
<1>2. fields = {} /\ ~topics => UpdateRepo(n, m, fields, topics) = <<>> \o <<>>
    BY <1>1
<1>3. fields = {} /\ topics => UpdateRepo(n, m, fields, topics) = <<>> \o <<T>>
    BY <1>1
<1>4. fields # {} /\ ~topics => UpdateRepo(n, m, fields, topics) = <<P>> \o <<>>
    BY <1>1
<1>5. fields # {} /\ topics => UpdateRepo(n, m, fields, topics) = <<P>> \o <<T>>
    BY <1>1
<1> QED
    BY <1>2, <1>3, <1>4, <1>5, ConcatShort DEF P, T

LEMMA ShortSeq ==
    ASSUME NEW S, NEW a \in S, NEW b \in S
    PROVE  <<>> \in Seq(S) /\ <<a>> \in Seq(S) /\ <<a, b>> \in Seq(S)
OBVIOUS

LEMMA NewPatchType ==
    ASSUME NEW type \in {"add", "remove", "change"}, NEW parts \in SUBSET Parts,
           NEW readonly \in BOOLEAN, NEW requests \in Seq(Request)
    PROVE  NewPatch(type, parts, readonly, requests) \in Patch
BY DEF NewPatch, Patch

\* The requests for the settings of a repository are sound, and no founding one is late.
LEMMA UpdateRepoSound ==
    ASSUME config \in Config, NEW n \in Names, NEW m \in Expected, n \in Keys(m),
           NEW fields \in SUBSET {"name", "archived", "desc"}, "name" \in fields <=> n # m,
           NEW topics \in BOOLEAN, UpdateRepo(n, m, fields, topics) # <<>>,
           NEW differing \in SUBSET Parts, NEW archives \in BOOLEAN,
           archives => config[m].archived,
           NEW p, p = NewPatch("change", differing, archives, UpdateRepo(n, m, fields, topics))
    PROVE  /\ SoundPatch(p)
           /\ \A t \in TasksOf(p) :
                 /\ t.type = "change" /\ t.parts = differing /\ t.readonly = archives
                 /\ t.request = Req("patch", n, m, fields) \/ t.request = Req("topics", m, m, {})
           /\ fields # {} => Task(p, Req("patch", n, m, fields)) \in TasksOf(p)
           /\ topics => Task(p, Req("topics", m, m, {})) \in TasksOf(p)
<1> DEFINE P == Req("patch", n, m, fields)
           T == Req("topics", m, m, {})
<1>1. m \in Names /\ m \in Keys(m)
    BY ConfigType
<1>2. P \in Request /\ T \in Request
    BY <1>1 DEF Req, Request
<1>3. /\ P.op = "patch" /\ P.at = n /\ P.of = m /\ P.fields = fields
      /\ T.op = "topics" /\ T.at = m /\ T.of = m /\ T.fields = {}
    BY DEF Req
<1>4. /\ p.type = "change" /\ p.parts = differing /\ p.readonly = archives
      /\ p.requests = UpdateRepo(n, m, fields, topics)
    BY DEF NewPatch
<1>5. ~Founds(T) /\ T.op \notin Children /\ P.op \notin Children
    BY <1>3 DEF Founds, Children
<1>6. Sound(Task(p, T))
    BY <1>1, <1>2, <1>3, <1>4 DEF Sound, Task, Children
<1>7. fields # {} => Sound(Task(p, P))
    BY <1>1, <1>2, <1>3, <1>4 DEF Sound, Task, Children
<1> HIDE DEF P, T
<1>8. CASE fields = {} /\ topics
    <2>1. p.requests = <<T>>
        <3>1. UpdateRepo(n, m, fields, topics) = <<T>>
            BY <1>8, UpdateRepoCases, Zenon DEF T
        <3> QED
            BY <1>4, <3>1
    <2>2. TasksOf(p) = {Task(p, T)}
        BY <2>1, TasksOfOne
    <2>3. p \in Patch
        <3>1. p.requests \in Seq(Request)
            BY <1>2, <2>1, ShortSeq
        <3> QED
            BY <1>4, <3>1, NewPatchType
    <2>4. DOMAIN p.requests = {1} /\ Len(p.requests) = 1
        BY <2>1, OneLong
    <2>5. SoundPatch(p)
        BY <1>6, <2>1, <2>2, <2>3, <2>4 DEF SoundPatch
    <2>6. /\ Task(p, T).type = "change" /\ Task(p, T).parts = differing
          /\ Task(p, T).readonly = archives /\ Task(p, T).request = T
        BY <1>4 DEF Task
    <2> QED
        BY <1>8, <2>2, <2>5, <2>6 DEF T, P
<1>9. CASE fields # {} /\ ~topics
    <2>1. p.requests = <<P>>
        BY <1>4, <1>9, UpdateRepoCases DEF P
    <2>2. TasksOf(p) = {Task(p, P)}
        BY <2>1, TasksOfOne
    <2>3. p \in Patch
        <3>1. p.requests \in Seq(Request)
            BY <1>2, <2>1, ShortSeq
        <3> QED
            BY <1>4, <3>1, NewPatchType
    <2>4. DOMAIN p.requests = {1} /\ Len(p.requests) = 1
        BY <2>1, OneLong
    <2>5. SoundPatch(p)
        BY <1>7, <1>9, <2>1, <2>2, <2>3, <2>4 DEF SoundPatch
    <2>6. /\ Task(p, P).type = "change" /\ Task(p, P).parts = differing
          /\ Task(p, P).readonly = archives /\ Task(p, P).request = P
        BY <1>4 DEF Task
    <2> QED
        BY <1>9, <2>2, <2>5, <2>6 DEF T, P
<1>10. CASE fields # {} /\ topics
    <2>1. p.requests = <<P, T>>
        <3>1. UpdateRepo(n, m, fields, topics) = <<P, T>>
            BY <1>10, UpdateRepoCases, Zenon DEF P, T
        <3> QED
            BY <1>4, <3>1
    <2>2. TasksOf(p) = {Task(p, P), Task(p, T)}
        BY <2>1, TasksOfTwo
    <2>3. p \in Patch
        <3>1. p.requests \in Seq(Request)
            BY <1>2, <2>1, ShortSeq
        <3> QED
            BY <1>4, <3>1, NewPatchType
    <2>4. DOMAIN p.requests = {1, 2} /\ p.requests[1] = P /\ p.requests[2] = T
        BY <2>1
    <2>5. SoundPatch(p)
        <3>1. \A t \in TasksOf(p) : Sound(t)
            BY <1>6, <1>7, <1>10, <2>2
        <3>2. \A k \in DOMAIN p.requests : /\ Founds(p.requests[k]) => k = 1
                                           /\ p.requests[k].op \notin Children
            BY <1>5, <2>4
        <3>3. p.requests # <<>>
            BY <2>4
        <3> QED
            BY <2>3, <3>1, <3>2, <3>3 DEF SoundPatch
    <2>6. /\ Task(p, P).type = "change" /\ Task(p, P).parts = differing
          /\ Task(p, P).readonly = archives /\ Task(p, P).request = P
          /\ Task(p, T).type = "change" /\ Task(p, T).parts = differing
          /\ Task(p, T).readonly = archives /\ Task(p, T).request = T
        BY <1>4 DEF Task
    <2> QED
        BY <1>10, <2>2, <2>5, <2>6 DEF T, P
<1>11. ~(fields = {} /\ ~topics)
    BY UpdateRepoCases
<1> QED
    BY <1>8, <1>9, <1>10, <1>11

-----------------------------------------------------------------------------
(* The patches of one repository.                                          *)

\* Patches for the configured repository m, in a good order.
Block(s, m) ==
    /\ s \in Seq(SoundPatches)
    /\ \A t \in Tasks(s) : t.request.of = m /\ t.request.op # "delete"
    /\ Follows(s, FoundedFirst)

\* Patches for it that can come after others.
Late(s, m) ==
    /\ s \in Seq(SoundPatches)
    /\ \A t \in Tasks(s) : /\ t.request.of = m /\ t.request.op # "delete"
                           /\ ~Founds(t.request)

LEMMA TasksConcat ==
    ASSUME NEW S, NEW s \in Seq(S), NEW t \in Seq(S)
    PROVE  Tasks(s \o t) = Tasks(s) \cup Tasks(t)
<1>1. Range(s \o t) = Range(s) \cup Range(t)
    BY RangeConcatenation
<1> QED
    BY <1>1 DEF Tasks

LEMMA TasksOfShort ==
    ASSUME NEW p
    PROVE  Tasks(<<p>>) = TasksOf(p) /\ Tasks(<<>>) = {}
<1>1. Range(<<p>>) = {p} /\ Range(<<>>) = {}
    BY RangeOfOne
<1> QED
    BY <1>1 DEF Tasks

LEMMA TasksOfMember ==
    ASSUME NEW s, NEW p \in Range(s)
    PROVE  TasksOf(p) \subseteq Tasks(s)
BY DEF Tasks

LEMMA BlockThenLate ==
    ASSUME NEW s, NEW t, NEW m, Block(s, m), Late(t, m)
    PROVE  /\ Block(s \o t, m)
           /\ Tasks(s \o t) = Tasks(s) \cup Tasks(t)
<1>1. s \in Seq(SoundPatches) /\ t \in Seq(SoundPatches) /\ Follows(s, FoundedFirst)
    BY DEF Block, Late
<1>2. s \o t \in Seq(SoundPatches)
    BY <1>1, ConcatProperties
<1>3. Tasks(s \o t) = Tasks(s) \cup Tasks(t)
    BY <1>1, TasksConcat
<1>4. \A x \in Tasks(s) \cup Tasks(t) : x.request.of = m /\ x.request.op # "delete"
    BY DEF Block, Late
<1>5. \A p \in Range(s) \cup Range(t) : p \in Patch
    BY <1>1, RangeOfSeq DEF SoundPatches
<1>6. \A p \in Range(s) \cup Range(t), q \in Range(t) : <<p, q>> \in FoundedFirst
    <2> TAKE p \in Range(s) \cup Range(t), q \in Range(t)
    <2>1. p \in Patch /\ q \in Patch
        BY <1>5
    <2>2. \A u \in TasksOf(q) : ~Founds(u.request)
        BY TasksOfMember DEF Late
    <2> QED
        BY <2>1, <2>2 DEF FoundedFirst
<1>7. Follows(t, FoundedFirst)
    <2>1. \A i \in DOMAIN t : t[i] \in Range(t)
        BY DEF Range
    <2> QED
        BY <1>6, <2>1 DEF Follows
<1>8. Follows(s \o t, FoundedFirst)
    BY <1>1, <1>6, <1>7, FollowsConcat
<1> QED
    BY <1>2, <1>3, <1>4, <1>8 DEF Block

LEMMA NothingIsLate ==
    ASSUME NEW m
    PROVE  Late(<<>>, m) /\ Block(<<>>, m) /\ Tasks(<<>>) = {}
<1>1. <<>> \in Seq(SoundPatches)
    BY EmptySeq
<1>2. Tasks(<<m>>) = TasksOf(m) /\ Tasks(<<>>) = {}
    BY TasksOfShort
<1>3. Follows(<<m>>, FoundedFirst) /\ Follows(<<>>, FoundedFirst)
    BY FollowsOne
<1> QED
    BY <1>1, <1>2, <1>3 DEF Late, Block

\* A hook or a rule that differs gets one request of its own.
LEMMA ChildPatchFacts ==
    ASSUME config \in Config, NEW m \in Expected, NEW child \in Children,
           NEW old \in Texts \cup {Absent}
    PROVE  /\ Late(ChildPatch(child, old, m), m)
           /\ \A t \in Tasks(ChildPatch(child, old, m)) :
                 t.request = Req(child, m, m, {}) /\ ~t.readonly /\ old # config[m][child]
           /\ old # config[m][child] => \E t \in Tasks(ChildPatch(child, old, m)) :
                 /\ t.request = Req(child, m, m, {}) /\ t.parts = {child}
                 /\ t.type = "add" <=> old = Absent
<1> DEFINE type == IF old = Absent THEN "add" ELSE IF config[m][child] = Absent THEN "remove" ELSE "change"
           R == Req(child, m, m, {})
           p == NewPatch(type, {child}, FALSE, <<R>>)
<1>1. CASE old = config[m][child]
    BY <1>1, NothingIsLate DEF ChildPatch
<1>2. CASE old # config[m][child]
    <2>1. ChildPatch(child, old, m) = <<p>>
        BY <1>2 DEF ChildPatch
    <2>2. m \in Names /\ m \in Keys(m)
        BY ConfigType
    <2>3. R \in Request
        BY <2>2 DEF Req, Request, Children
    <2>4. R.op = child /\ R.at = m /\ R.of = m /\ R.fields = {}
        BY DEF Req
    <2>5. p.type = type /\ p.parts = {child} /\ p.readonly = FALSE /\ p.requests = <<R>>
        BY DEF NewPatch
    <2>6. type \in {"add", "remove", "change"} /\ {child} \in SUBSET Parts
        BY DEF Parts, Children
    <2>7. type = "add" <=> old = Absent
        OBVIOUS
    <2>8. type = "remove" <=> config[m][child] = Absent
        BY <1>2
    <2> HIDE DEF R, type
    <2>9. p \in Patch
        BY <2>3, <2>6, ShortSeq, NewPatchType
    <2> HIDE DEF p
    <2>10. TasksOf(p) = {Task(p, R)}
        BY <2>5, TasksOfOne
    <2>11. /\ Task(p, R).type = type /\ Task(p, R).parts = {child}
           /\ Task(p, R).readonly = FALSE /\ Task(p, R).request = R
        BY <2>5 DEF Task
    <2>12. ~Founds(R)
        BY <2>4 DEF Founds, Children
    <2>13. Sound(Task(p, R))
        <3>1. R.op \in Children /\ R.op # "delete"
            BY <2>4 DEF Children
        <3> QED
            BY <2>2, <2>3, <2>4, <2>8, <2>11, <3>1, Zenon DEF Sound
    <2>14. DOMAIN p.requests = {1} /\ p.requests[1] = R /\ Len(p.requests) = 1
        BY <2>5
    <2>15. p \in SoundPatches
        BY <2>9, <2>10, <2>12, <2>13, <2>14 DEF SoundPatches, SoundPatch
    <2>16. <<p>> \in Seq(SoundPatches)
        BY <2>15, ShortSeq
    <2>17. Tasks(<<p>>) = {Task(p, R)}
        BY <2>10, TasksOfShort
    <2>18. Late(<<p>>, m)
        <3>1. R.op # "delete"
            BY <2>4 DEF Children
        <3> QED
            BY <2>4, <2>11, <2>12, <2>16, <2>17, <3>1 DEF Late
    <2> QED
        BY <1>2, <2>1, <2>7, <2>11, <2>17, <2>18 DEF R
<1> QED
    BY <1>1, <1>2

\* The settings of a repository that differ are set by its own patch.
LEMMA RepoPatchFacts ==
    ASSUME config \in Config, NEW l, NEW m \in Expected, NEW n \in Keys(m),
           l[n].archived \in BOOLEAN
    PROVE  /\ Block(RepoPatch(l, n, m), m)
           /\ \A t \in Tasks(RepoPatch(l, n, m)) :
                 /\ t.request.at \in {n, m} /\ t.request.op \in {"patch", "topics"}
                 /\ t.readonly = (~l[n].archived /\ config[m].archived)
           /\ \A f \in {"archived", "desc", "topics"} :
                 l[n][f] # config[m][f] /\ Counts(l[n], m, f) =>
                     \E t \in Tasks(RepoPatch(l, n, m)) : f \in t.parts /\ Sets(t.request, f)
           /\ n # m => \E t \in Tasks(RepoPatch(l, n, m)) :
                 t.request.at = n /\ "name" \in t.request.fields
           /\ n = m => \A t \in Tasks(RepoPatch(l, n, m)) : \E f \in {"archived", "desc", "topics"} :
                 l[n][f] # config[m][f] /\ Counts(l[n], m, f)
<1> DEFINE differing == Differing(l[n], config[m])
           fields == (differing \ {"topics"}) \cup IF n = m THEN {} ELSE {"name"}
           archives == ~l[n].archived /\ config[m].archived
           topics == "topics" \in differing
           U == UpdateRepo(n, m, fields, topics)
           p == NewPatch("change", differing, archives, U)
           P == Req("patch", n, m, fields)
           T == Req("topics", m, m, {})
<1>1. RepoPatch(l, n, m) = IF p.requests = <<>> THEN <<>> ELSE <<p>>
    BY DEF RepoPatch, IfAny
<1>2. p.requests = U
    BY DEF NewPatch
<1>3. differing \subseteq {"archived", "desc", "topics"} /\ differing \in SUBSET Parts
    BY DEF Differing, Parts
<1>4. archives \in BOOLEAN /\ topics \in BOOLEAN /\ (archives => config[m].archived)
    BY ConfigType
<1>5. fields \in SUBSET {"name", "archived", "desc"} /\ ("name" \in fields <=> n # m)
    BY <1>3
<1>6. m \in Names /\ n \in Names /\ config[m].archived \in BOOLEAN
    BY ConfigType
<1>7. /\ P.at = n /\ P.of = m /\ P.op = "patch" /\ P.fields = fields
      /\ T.at = m /\ T.of = m /\ T.op = "topics"
    BY DEF Req
<1>8. \A f \in {"archived", "desc", "topics"} :
          l[n][f] # config[m][f] /\ Counts(l[n], m, f) <=> f \in differing
    BY DEF Differing, Counts
<1>9. \A f \in differing \ {"topics"} : f \in fields
    OBVIOUS
<1> HIDE DEF differing, fields, archives, topics, U, p, P, T
<1>10. CASE U = <<>>
    <2>1. RepoPatch(l, n, m) = <<>>
        BY <1>1, <1>2, <1>10
    <2>2. fields = {} /\ ~topics
        BY <1>4, <1>5, <1>10, UpdateRepoCases, ~(<<P>> = <<>>), ~(<<T>> = <<>>), ~(<<P, T>> = <<>>) DEF U, P, T
    <2>3. differing = {}
        BY <1>3, <1>9, <2>2 DEF topics
    <2> QED
        BY <1>5, <1>8, <2>1, <2>2, <2>3, NothingIsLate
<1>11. CASE U # <<>>
    <2>1. RepoPatch(l, n, m) = <<p>>
        BY <1>1, <1>2, <1>11
    <2>2. /\ SoundPatch(p)
          /\ \A t \in TasksOf(p) :
                /\ t.type = "change" /\ t.parts = differing /\ t.readonly = archives
                /\ t.request = P \/ t.request = T
          /\ fields # {} => Task(p, P) \in TasksOf(p)
          /\ topics => Task(p, T) \in TasksOf(p)
        BY <1>3, <1>4, <1>5, <1>6, <1>11, UpdateRepoSound DEF U, p, P, T
    <2>3. Tasks(<<p>>) = TasksOf(p)
        BY TasksOfShort
    <2>4. <<p>> \in Seq(SoundPatches)
        BY <2>2, ShortSeq DEF SoundPatches, SoundPatch
    <2>5. Follows(<<p>>, FoundedFirst)
        BY FollowsOne
    <2>6. Block(<<p>>, m)
        BY <1>7, <2>2, <2>3, <2>4, <2>5 DEF Block
    <2>7. \A t \in TasksOf(p) :
              /\ t.request.at \in {n, m} /\ t.request.op \in {"patch", "topics"}
              /\ t.readonly = archives
        BY <1>7, <2>2
    <2>8. \A f \in {"archived", "desc", "topics"} :
              l[n][f] # config[m][f] /\ Counts(l[n], m, f) =>
                  \E t \in TasksOf(p) : f \in t.parts /\ Sets(t.request, f)
        <3> SUFFICES ASSUME NEW f \in {"archived", "desc", "topics"},
                            l[n][f] # config[m][f], Counts(l[n], m, f)
                     PROVE  \E t \in TasksOf(p) : f \in t.parts /\ Sets(t.request, f)
            OBVIOUS
        <3>1. f \in differing
            BY <1>8
        <3>2. CASE f = "topics"
            <4>1. Task(p, T) \in TasksOf(p)
                BY <2>2, <3>1, <3>2 DEF topics
            <4>2. Task(p, T).request = T
                BY DEF Task
            <4>3. Sets(T, f)
                BY <1>7, <3>2 DEF Sets
            <4> QED
                BY <2>2, <3>1, <4>1, <4>2, <4>3
        <3>3. CASE f # "topics"
            <4>1. f \in fields
                BY <1>9, <3>1, <3>3
            <4>2. Task(p, P) \in TasksOf(p)
                BY <2>2, <4>1
            <4>3. Task(p, P).request = P
                BY DEF Task
            <4>4. Sets(P, f)
                BY <1>7, <4>1 DEF Sets
            <4> QED
                BY <2>2, <3>1, <4>2, <4>3, <4>4
        <3> QED
            BY <3>2, <3>3
    <2>9. n # m => \E t \in TasksOf(p) : t.request.at = n /\ "name" \in t.request.fields
        <3>1. Task(p, P).request = P
            BY DEF Task
        <3> QED
            BY <1>5, <1>7, <2>2, <3>1
    <2>10. n = m => \E f \in {"archived", "desc", "topics"} : f \in differing
        <3>1. fields # {} \/ topics
            BY <1>4, <1>11, UpdateRepoCases DEF U
        <3>2. n = m => fields \subseteq differing
            BY DEF fields
        <3> QED
            BY <1>3, <3>1, <3>2 DEF topics
    <2>11. n = m => \E f \in {"archived", "desc", "topics"} :
               l[n][f] # config[m][f] /\ Counts(l[n], m, f)
        BY <1>8, <2>10
    <2> QED
        BY <2>1, <2>3, <2>6, <2>7, <2>8, <2>9, <2>11, Zenon DEF archives
<1> QED
    BY <1>10, <1>11

\* A live repository that is taken gets what differs, and if it gets archived, no
\* request that is not its own.
LEMMA ChangesFacts ==
    ASSUME config \in Config, NEW l \in Live, NEW m \in Expected, NEW n, Takes(l, m, n)
    PROVE  /\ Block(Changes(l, n, m), m)
           /\ \A t \in Tasks(Changes(l, n, m)) : t.request.at \in {n, m} /\ t.request.op # "create"
           /\ \A f \in Parts : l[n][f] # config[m][f] /\ Counts(l[n], m, f) =>
                 \E t \in Tasks(Changes(l, n, m)) : f \in t.parts /\ Sets(t.request, f)
           /\ n # m => \E t \in Tasks(Changes(l, n, m)) :
                 t.request.at = n /\ "name" \in t.request.fields
           /\ n = m => \A t \in Tasks(Changes(l, n, m)) : \E f \in Parts :
                 /\ l[n][f] # config[m][f] /\ Counts(l[n], m, f)
                 /\ f \notin Children \/ t.request.op = f
           /\ ~l[n].archived /\ config[m].archived =>
                 /\ \A t \in Tasks(Changes(l, n, m)) : t.request.op \in Children \/ t.readonly
                 /\ \A f \in Children : l[n][f] # config[m][f] =>
                        \E t \in Tasks(Changes(l, n, m)) :
                            t.request.op = f /\ (t.type = "add" <=> l[n][f] = Absent)
<1> DEFINE archives == ~l[n].archived /\ config[m].archived
           A == RepoPatch(l, n, m)
           B == ChildPatch("hook", l[n].hook, m)
           C == IF CountRules(config[m].archived, archives)
                THEN ChildPatch("rule", l[n].rule, m) ELSE <<>>
           s == Changes(l, n, m)
<1>1. n \in Keys(m) /\ n \in Names /\ l[n] # Absent
    BY TakesKey
<1>2. l[n] \in Repo
    BY <1>1 DEF Live
<1>3. /\ l[n].archived \in BOOLEAN /\ l[n].hook \in Texts \cup {Absent}
      /\ l[n].rule \in Texts \cup {Absent}
    BY <1>2 DEF Repo
<1>4. config[m].archived \in BOOLEAN
    BY ConfigType
<1>5. /\ Block(A, m)
      /\ \A t \in Tasks(A) : /\ t.request.at \in {n, m} /\ t.request.op \in {"patch", "topics"}
                             /\ t.readonly = archives
      /\ \A f \in {"archived", "desc", "topics"} : l[n][f] # config[m][f] /\ Counts(l[n], m, f) =>
             \E t \in Tasks(A) : f \in t.parts /\ Sets(t.request, f)
      /\ n # m => \E t \in Tasks(A) : t.request.at = n /\ "name" \in t.request.fields
      /\ n = m => \A t \in Tasks(A) : \E f \in {"archived", "desc", "topics"} :
             l[n][f] # config[m][f] /\ Counts(l[n], m, f)
    BY <1>1, <1>3, RepoPatchFacts
<1>6. "hook" \in Children /\ "rule" \in Children
    BY DEF Children
<1>7. /\ Late(B, m)
      /\ \A t \in Tasks(B) : t.request = Req("hook", m, m, {}) /\ l[n].hook # config[m]["hook"]
      /\ l[n].hook # config[m]["hook"] => \E t \in Tasks(B) :
             /\ t.request = Req("hook", m, m, {}) /\ t.parts = {"hook"}
             /\ t.type = "add" <=> l[n].hook = Absent
    BY <1>3, <1>6, ChildPatchFacts
<1>8. /\ Late(C, m)
      /\ \A t \in Tasks(C) : /\ t.request = Req("rule", m, m, {}) /\ l[n].rule # config[m]["rule"]
                             /\ ~config[m].archived \/ archives
      /\ ~config[m].archived \/ archives => (l[n].rule # config[m]["rule"] => \E t \in Tasks(C) :
             /\ t.request = Req("rule", m, m, {}) /\ t.parts = {"rule"}
             /\ t.type = "add" <=> l[n].rule = Absent)
    <2>1. CASE CountRules(config[m].archived, archives)
        <3>1. C = ChildPatch("rule", l[n].rule, m)
            BY <2>1
        <3>2. ~config[m].archived \/ archives
            BY <2>1 DEF CountRules
        <3> HIDE DEF C, archives
        <3> QED
            BY <1>3, <1>6, <3>1, <3>2, ChildPatchFacts
    <2>2. CASE ~CountRules(config[m].archived, archives)
        <3>1. C = <<>>
            BY <2>2
        <3>2. ~(~config[m].archived \/ archives)
            BY <2>2 DEF CountRules
        <3> HIDE DEF C
        <3> QED
            BY <3>1, <3>2, NothingIsLate
    <2> QED
        BY <2>1, <2>2
<1>9. s = (A \o B) \o C
    BY DEF Changes
<1> HIDE DEF A, B, C, s
<1>10. Block(A \o B, m) /\ Tasks(A \o B) = Tasks(A) \cup Tasks(B)
    BY <1>5, <1>7, BlockThenLate
<1>11. Block(s, m) /\ Tasks(s) = Tasks(A) \cup Tasks(B) \cup Tasks(C)
    BY <1>8, <1>9, <1>10, BlockThenLate
<1>12. \A c \in Children : LET R == Req(c, m, m, {}) IN
           R.at = m /\ R.op = c /\ R.of = m /\ Sets(R, c)
    BY DEF Req, Sets
<1>13. \A t \in Tasks(s) : t.request.at \in {n, m} /\ t.request.op # "create"
    <2>1. \A c \in Children : c # "create"
        BY DEF Children
    <2> QED
        BY <1>5, <1>6, <1>7, <1>8, <1>11, <1>12, <2>1
<1>14. ASSUME NEW f \in Parts, l[n][f] # config[m][f], Counts(l[n], m, f)
       PROVE  \E t \in Tasks(s) : f \in t.parts /\ Sets(t.request, f)
    <2>1. CASE f \in {"archived", "desc", "topics"}
        BY <1>5, <1>11, <1>14, <2>1
    <2>2. CASE f = "hook"
        BY <1>6, <1>7, <1>11, <1>12, <1>14, <2>2
    <2>3. CASE f = "rule"
        <3>1. ~config[m].archived \/ archives
            BY <1>3, <1>4, <1>14, <2>3 DEF Counts
        <3> QED
            BY <1>6, <1>8, <1>11, <1>12, <1>14, <2>3, <3>1
    <2> QED
        BY <2>1, <2>2, <2>3 DEF Parts, Children
<1>16. ASSUME n = m, NEW t \in Tasks(s)
       PROVE  \E f \in Parts : /\ l[n][f] # config[m][f] /\ Counts(l[n], m, f)
                               /\ f \notin Children \/ t.request.op = f
    <2>1. CASE t \in Tasks(A)
        <3>1. \A f \in {"archived", "desc", "topics"} : f \in Parts /\ f \notin Children
            BY DEF Parts, Children
        <3> QED
            BY <1>5, <1>16, <2>1, <3>1
    <2>2. CASE t \in Tasks(B)
        <3>1. l[n]["hook"] # config[m]["hook"] /\ t.request.op = "hook"
            BY <1>6, <1>7, <1>12, <2>2
        <3>2. Counts(l[n], m, "hook") /\ "hook" \in Parts
            BY DEF Counts, Parts, Children
        <3> QED
            BY <3>1, <3>2
    <2>3. CASE t \in Tasks(C)
        <3>1. l[n]["rule"] # config[m]["rule"] /\ t.request.op = "rule"
            BY <1>6, <1>8, <1>12, <2>3
        <3>2. ~config[m].archived \/ archives
            BY <1>8, <2>3
        <3>3. Counts(l[n], m, "rule") /\ "rule" \in Parts
            BY <3>2 DEF Counts, Parts, Children
        <3> QED
            BY <3>1, <3>3
    <2> QED
        BY <1>11, <2>1, <2>2, <2>3
<1>17. n # m => \E t \in Tasks(s) : t.request.at = n /\ "name" \in t.request.fields
    BY <1>5, <1>11
<1>15. ASSUME archives
       PROVE  /\ \A t \in Tasks(s) : t.request.op \in Children \/ t.readonly
              /\ \A f \in Children : l[n][f] # config[m][f] =>
                     \E t \in Tasks(s) :
                         t.request.op = f /\ (t.type = "add" <=> l[n][f] = Absent)
    <2>1. \A t \in Tasks(A) : t.readonly
        BY <1>5, <1>15
    <2>2. \A t \in Tasks(B) \cup Tasks(C) : t.request.op \in Children
        BY <1>6, <1>7, <1>8, <1>12
    <2>3. ASSUME l[n]["hook"] # config[m]["hook"]
          PROVE  \E t \in Tasks(s) : t.request.op = "hook" /\ (t.type = "add" <=> l[n]["hook"] = Absent)
        BY <1>6, <1>7, <1>11, <1>12, <2>3
    <2>4. ASSUME l[n]["rule"] # config[m]["rule"]
          PROVE  \E t \in Tasks(s) : t.request.op = "rule" /\ (t.type = "add" <=> l[n]["rule"] = Absent)
        BY <1>6, <1>8, <1>11, <1>12, <1>15, <2>4
    <2> QED
        BY <1>11, <2>1, <2>2, <2>3, <2>4 DEF Children
<1> QED
    BY <1>11, <1>13, <1>14, <1>15, <1>16, <1>17 DEF s

\* A repository that is missing is created, and gets what its creation leaves out.
LEMMA AdditionFacts ==
    ASSUME config \in Config, NEW m \in Expected
    PROVE  /\ Block(Addition(m), m)
           /\ \A t \in Tasks(Addition(m)) : t.request.at = m
           /\ \E t \in Tasks(Addition(m)) : t.request.op = "create"
           /\ ~config[m].archived => \A f \in Children \cup {"topics"} :
                 (f \in Children /\ config[m][f] = Absent)
                     \/ \E t \in Tasks(Addition(m)) : f \in t.parts /\ Sets(t.request, f)
<1> DEFINE C == Req("create", m, m, {})
           T == Req("topics", m, m, {})
           p == NewPatch("add", {"archived", "desc", "topics"}, FALSE, AddRepo(m))
           B == ChildPatch("hook", Absent, m)
           D == IF CountRules(config[m].archived, FALSE)
                THEN ChildPatch("rule", Absent, m) ELSE <<>>
           s == Addition(m)
<1>1. m \in Names /\ m \in Keys(m)
    BY ConfigType
<1>2. C \in Request /\ T \in Request
    BY <1>1 DEF Req, Request
<1>3. /\ C.op = "create" /\ C.at = m /\ C.of = m /\ C.fields = {}
      /\ T.op = "topics" /\ T.at = m /\ T.of = m /\ T.fields = {}
    BY DEF Req
<1>4. AddRepo(m) = <<C, T>>
    <2>1. UpdateRepo(m, m, {}, TRUE) = <<T>>
        BY UpdateRepoCases
    <2>2. AddRepo(m) = <<C>> \o <<T>>
        BY <2>1 DEF AddRepo
    <2> HIDE DEF C, T
    <2> QED
        BY <2>2, ConcatShort
<1>5. /\ p.type = "add" /\ p.parts = {"archived", "desc", "topics"} /\ p.readonly = FALSE
      /\ p.requests = <<C, T>>
    BY <1>4 DEF NewPatch
<1>6. Sound(Task(p, C)) /\ Sound(Task(p, T))
    BY <1>1, <1>2, <1>3, <1>5 DEF Sound, Task, Children
<1>7. ~Founds(T) /\ T.op \notin Children /\ C.op \notin Children
    BY <1>3 DEF Founds, Children
<1> HIDE DEF C, T
<1>8. p \in Patch
    <2>1. <<C, T>> \in Seq(Request)
        BY <1>2, ShortSeq
    <2>2. AddRepo(m) \in Seq(Request)
        BY <1>4, <2>1
    <2>3. {"archived", "desc", "topics"} \in SUBSET Parts
        BY DEF Parts
    <2> QED
        BY <2>2, <2>3, NewPatchType
<1> HIDE DEF p
<1>9. TasksOf(p) = {Task(p, C), Task(p, T)}
    BY <1>5, TasksOfTwo
<1>10. DOMAIN p.requests = {1, 2} /\ p.requests[1] = C /\ p.requests[2] = T
    BY <1>5
<1>11. p \in SoundPatches
    <2>1. \A t \in TasksOf(p) : Sound(t)
        BY <1>6, <1>9
    <2>2. \A k \in DOMAIN p.requests : /\ Founds(p.requests[k]) => k = 1
                                       /\ p.requests[k].op \notin Children
        BY <1>7, <1>10
    <2>3. p.requests # <<>>
        BY <1>10
    <2> QED
        BY <1>8, <2>1, <2>2, <2>3 DEF SoundPatches, SoundPatch
<1>12. /\ Task(p, C).request = C /\ Task(p, T).request = T
       /\ Task(p, T).parts = {"archived", "desc", "topics"}
    BY <1>5 DEF Task
<1>13. Block(<<p>>, m) /\ Tasks(<<p>>) = {Task(p, C), Task(p, T)}
    <2>1. <<p>> \in Seq(SoundPatches)
        BY <1>11, ShortSeq
    <2>2. Tasks(<<p>>) = {Task(p, C), Task(p, T)}
        BY <1>9, TasksOfShort
    <2>3. Follows(<<p>>, FoundedFirst)
        BY FollowsOne
    <2> QED
        BY <1>3, <1>12, <2>1, <2>2, <2>3 DEF Block
<1>14. "hook" \in Children /\ "rule" \in Children
    BY DEF Children
<1>15. /\ Late(B, m)
       /\ \A t \in Tasks(B) : t.request = Req("hook", m, m, {})
       /\ Absent # config[m]["hook"] => \E t \in Tasks(B) :
              t.request = Req("hook", m, m, {}) /\ t.parts = {"hook"}
    BY <1>14, ChildPatchFacts
<1>16. /\ Late(D, m)
       /\ \A t \in Tasks(D) : t.request = Req("rule", m, m, {})
       /\ ~config[m].archived => (Absent # config[m]["rule"] => \E t \in Tasks(D) :
              t.request = Req("rule", m, m, {}) /\ t.parts = {"rule"})
    <2>1. CASE CountRules(config[m].archived, FALSE)
        <3>1. D = ChildPatch("rule", Absent, m)
            BY <2>1
        <3> HIDE DEF D
        <3> QED
            BY <1>14, <3>1, ChildPatchFacts
    <2>2. CASE ~CountRules(config[m].archived, FALSE)
        <3>1. D = <<>>
            BY <2>2
        <3>2. ~(~config[m].archived)
            BY <2>2 DEF CountRules
        <3> HIDE DEF D
        <3> QED
            BY <3>1, <3>2, NothingIsLate
    <2> QED
        BY <2>1, <2>2
<1>17. s = (<<p>> \o B) \o D
    BY DEF Addition, p
<1> HIDE DEF B, D, s
<1>18. Block(<<p>> \o B, m) /\ Tasks(<<p>> \o B) = Tasks(<<p>>) \cup Tasks(B)
    BY <1>13, <1>15, BlockThenLate
<1>19. Block(s, m) /\ Tasks(s) = Tasks(<<p>>) \cup Tasks(B) \cup Tasks(D)
    BY <1>16, <1>17, <1>18, BlockThenLate
<1>20. \A c \in Children : LET R == Req(c, m, m, {}) IN R.at = m /\ Sets(R, c)
    BY DEF Req, Sets
<1>21. \A t \in Tasks(s) : t.request.at = m
    BY <1>3, <1>12, <1>13, <1>14, <1>15, <1>16, <1>19, <1>20
<1>22. ASSUME ~config[m].archived, NEW f \in Children \cup {"topics"}
       PROVE  (f \in Children /\ config[m][f] = Absent)
                  \/ \E t \in Tasks(s) : f \in t.parts /\ Sets(t.request, f)
    <2>1. CASE f = "hook"
        BY <1>14, <1>15, <1>19, <1>20, <2>1
    <2>2. CASE f = "rule"
        BY <1>14, <1>16, <1>19, <1>20, <1>22, <2>2
    <2>3. CASE f = "topics"
        <3>1. Task(p, T) \in Tasks(s) /\ "topics" \in Task(p, T).parts
            BY <1>12, <1>13, <1>19
        <3>2. Sets(Task(p, T).request, "topics")
            BY <1>3, <1>12 DEF Sets
        <3> QED
            BY <2>3, <3>1, <3>2
    <2> QED
        BY <2>1, <2>2, <2>3 DEF Children
<1>23. \E t \in Tasks(s) : t.request.op = "create"
    BY <1>3, <1>12, <1>13, <1>19
<1> QED
    BY <1>19, <1>21, <1>22, <1>23 DEF s

\* A live repository that nothing takes is removed.
LEMMA RemovalFacts ==
    ASSUME NEW n \in Names
    PROVE  /\ Removal(n) \in Seq(SoundPatches)
           /\ \A t \in Tasks(Removal(n)) : t.request.op = "delete" /\ t.request.at = n
                                           /\ t.request.of = n /\ ~Founds(t.request)
           /\ \E t \in Tasks(Removal(n)) : t.request.op = "delete" /\ t.request.at = n
           /\ Follows(Removal(n), FoundedFirst)
<1> DEFINE R == Req("delete", n, n, {})
           p == NewPatch("remove", {}, FALSE, <<R>>)
<1>1. R \in Request
    BY DEF Req, Request
<1>2. R.op = "delete" /\ R.at = n /\ R.of = n /\ R.fields = {}
    BY DEF Req
<1>3. p.type = "remove" /\ p.parts = {} /\ p.readonly = FALSE /\ p.requests = <<R>>
    BY DEF NewPatch
<1>4. Sound(Task(p, R))
    BY <1>1, <1>2, <1>3 DEF Sound, Task, Children
<1>5. ~Founds(R)
    BY <1>2 DEF Founds
<1> HIDE DEF R
<1>6. p \in Patch
    BY <1>1, ShortSeq, NewPatchType
<1>7. Removal(n) = <<p>>
    BY DEF Removal, R
<1> HIDE DEF p
<1>8. TasksOf(p) = {Task(p, R)} /\ Task(p, R).request = R
    BY <1>3, TasksOfOne DEF Task
<1>9. DOMAIN p.requests = {1} /\ p.requests[1] = R /\ Len(p.requests) = 1
    BY <1>3
<1>10. p \in SoundPatches
    BY <1>4, <1>5, <1>6, <1>8, <1>9 DEF SoundPatches, SoundPatch
<1>11. <<p>> \in Seq(SoundPatches)
    BY <1>10, ShortSeq
<1>12. Tasks(<<p>>) = {Task(p, R)}
    BY <1>8, TasksOfShort
<1>13. Follows(<<p>>, FoundedFirst)
    BY FollowsOne
<1> QED
    BY <1>2, <1>5, <1>7, <1>8, <1>11, <1>12, <1>13

-----------------------------------------------------------------------------
(* The whole plan.                                                         *)

LEMMA TasksFlatten ==
    ASSUME NEW S, NEW ss \in Seq(Seq(S))
    PROVE  \A t : t \in Tasks(FlattenSeq(ss)) <=> \E i \in DOMAIN ss : t \in Tasks(ss[i])
<1>1. Range(FlattenSeq(ss)) = UNION {Range(ss[i]) : i \in DOMAIN ss}
    BY FlattenRange
<1>2. \A p : p \in Range(FlattenSeq(ss)) <=> \E i \in DOMAIN ss : p \in Range(ss[i])
    BY <1>1
<1> QED
    BY <1>2 DEF Tasks

\* The patches at the place of a live repository, and of a missing one.
AtPlace(l, i) == IF Order[i] \in Existing(l) THEN ForExisting(l, Order[i]) ELSE <<>>
Missing(l, m) == m \in Expected /\ \A n \in Names : ~Takes(l, m, n)
AddedAt(l, i) == IF Missing(l, Order[i]) THEN Addition(Order[i]) ELSE <<>>

LEMMA AtPlaceFacts ==
    ASSUME config \in Config, KeysAreUnique, NEW l \in Live, NEW i \in DOMAIN Order
    PROVE  /\ AtPlace(l, i) \in Seq(SoundPatches)
           /\ Follows(AtPlace(l, i), FoundedFirst)
           /\ \A t \in Tasks(AtPlace(l, i)) :
                 \/ /\ t.request.of \in Expected /\ Takes(l, t.request.of, Order[i])
                    /\ t.request.op # "delete"
                    /\ t \in Tasks(Changes(l, Order[i], t.request.of))
                 \/ /\ t.request.op = "delete" /\ ~Founds(t.request)
                    /\ t.request.at = Order[i] /\ t.request.of = Order[i]
                    /\ Order[i] \in Existing(l)
                    /\ \A m \in Expected : ~Takes(l, m, Order[i])
           /\ \A m \in Expected : Takes(l, m, Order[i]) =>
                 Tasks(Changes(l, Order[i], m)) \subseteq Tasks(AtPlace(l, i))
           /\ Order[i] \in Existing(l) /\ (\A m \in Expected : ~Takes(l, m, Order[i])) =>
                 Tasks(Removal(Order[i])) \subseteq Tasks(AtPlace(l, i))
<1> DEFINE n == Order[i]
<1>1. n \in Names
    BY OrderFacts
<1>2. CASE n \notin Existing(l)
    <2>1. AtPlace(l, i) = <<>>
        BY <1>2 DEF AtPlace
    <2>2. \A m \in Expected : ~Takes(l, m, n)
        BY <1>2, TakesKey DEF Existing
    <2> QED
        BY <1>2, <2>1, <2>2, NothingIsLate DEF Late, Block
<1>3. ASSUME n \in Existing(l), NEW m \in Expected, Takes(l, m, n)
      PROVE  /\ AtPlace(l, i) = Changes(l, n, m)
             /\ \A x \in Expected : Takes(l, x, n) => x = m
    <2>1. AtPlace(l, i) = ForExisting(l, n)
        BY <1>3 DEF AtPlace
    <2>2. ForExisting(l, n) = Changes(l, n, m)
        BY <1>3, ForExistingCases
    <2>3. \A x \in Expected : Takes(l, x, n) => x = m
        BY <1>3, TakesKey, TakenOnce
    <2> QED
        BY <2>1, <2>2, <2>3
<1>4. CASE n \in Existing(l) /\ \E m \in Expected : Takes(l, m, n)
    <2>1. PICK m \in Expected : Takes(l, m, n)
        BY <1>4
    <2>2. AtPlace(l, i) = Changes(l, n, m) /\ \A x \in Expected : Takes(l, x, n) => x = m
        BY <1>3, <1>4, <2>1
    <2>3. Block(Changes(l, n, m), m)
        BY <2>1, ChangesFacts
    <2>4. /\ AtPlace(l, i) \in Seq(SoundPatches) /\ Follows(AtPlace(l, i), FoundedFirst)
          /\ \A t \in Tasks(AtPlace(l, i)) : t.request.of = m /\ t.request.op # "delete"
        BY <2>2, <2>3 DEF Block
    <2> HIDE DEF n
    <2> QED
        BY <1>4, <2>1, <2>2, <2>4 DEF n
<1>5. CASE n \in Existing(l) /\ \A m \in Expected : ~Takes(l, m, n)
    <2>1. AtPlace(l, i) = ForExisting(l, n)
        BY <1>5 DEF AtPlace
    <2>2. ForExisting(l, n) = Removal(n)
        BY <1>5, ForExistingCases
    <2> QED
        BY <1>1, <1>5, <2>1, <2>2, RemovalFacts
<1> QED
    BY <1>2, <1>4, <1>5

LEMMA AddedAtFacts ==
    ASSUME config \in Config, NEW l, NEW i \in DOMAIN Order
    PROVE  /\ AddedAt(l, i) \in Seq(SoundPatches)
           /\ Follows(AddedAt(l, i), FoundedFirst)
           /\ \A t \in Tasks(AddedAt(l, i)) :
                 /\ t.request.of = Order[i] /\ Missing(l, Order[i])
                 /\ t.request.op # "delete"
                 /\ t \in Tasks(Addition(Order[i]))
           /\ Missing(l, Order[i]) => Tasks(Addition(Order[i])) \subseteq Tasks(AddedAt(l, i))
<1>1. CASE Missing(l, Order[i])
    <2>1. AddedAt(l, i) = Addition(Order[i])
        BY <1>1 DEF AddedAt
    <2>2. Block(Addition(Order[i]), Order[i])
        BY <1>1, AdditionFacts DEF Missing
    <2> QED
        BY <1>1, <2>1, <2>2 DEF Block
<1>2. CASE ~Missing(l, Order[i])
    <2>1. AddedAt(l, i) = <<>>
        BY <1>2 DEF AddedAt
    <2> QED
        BY <1>2, <2>1, NothingIsLate DEF Late, Block
<1> QED
    BY <1>1, <1>2

LEMMA PatchesAre ==
    ASSUME NEW l
    PROVE  Patches(l) = FlattenSeq([i \in DOMAIN Order |-> AtPlace(l, i)])
                            \o FlattenSeq([i \in DOMAIN Order |-> AddedAt(l, i)])
BY DEF Patches, AtPlace, AddedAt, Missing

LEMMA SequenceOverOrder ==
    ASSUME NEW S, NEW f, f = [i \in DOMAIN Order |-> f[i]], \A i \in DOMAIN Order : f[i] \in S
    PROVE  f \in Seq(S) /\ DOMAIN f = DOMAIN Order
<1>1. DOMAIN Order = 1..Len(Order) /\ Len(Order) \in Nat
    BY OrderFacts
<1> QED
    BY <1>1

\* A founding request of another configured repository does not have to be first.
LEMMA OthersMayFollow ==
    ASSUME NEW s \in Seq(SoundPatches), NEW u \in Seq(SoundPatches),
           NEW x \in Range(s), NEW y \in Range(u),
           \A a \in Tasks(s), b \in Tasks(u) :
               a.request.op # "delete" /\ Founds(b.request) => a.request.of # b.request.of
    PROVE  <<x, y>> \in FoundedFirst
<1>1. x \in Patch /\ y \in Patch
    BY RangeOfSeq DEF SoundPatches
<1>2. TasksOf(x) \subseteq Tasks(s) /\ TasksOf(y) \subseteq Tasks(u)
    BY TasksOfMember
<1> QED
    BY <1>1, <1>2 DEF FoundedFirst

LEMMA PatchesFacts ==
    ASSUME config \in Config, KeysAreUnique, NEW l \in Live
    PROVE  /\ Patches(l) \in Seq(SoundPatches)
           /\ Follows(Patches(l), FoundedFirst)
           /\ \A t \in Tasks(Patches(l)) :
                 \/ /\ t.request.of \in Expected /\ t.request.op # "delete"
                    /\ \E n \in Names : Takes(l, t.request.of, n)
                                        /\ t \in Tasks(Changes(l, n, t.request.of))
                 \/ /\ t.request.op = "delete" /\ ~Founds(t.request)
                    /\ t.request.of = t.request.at /\ t.request.at \in Existing(l)
                    /\ \A m \in Expected : ~Takes(l, m, t.request.at)
                 \/ /\ Missing(l, t.request.of) /\ t.request.op # "delete"
                    /\ t \in Tasks(Addition(t.request.of))
           /\ \A m \in Expected, n \in Names : Takes(l, m, n) =>
                 Tasks(Changes(l, n, m)) \subseteq Tasks(Patches(l))
           /\ \A m \in Expected : Missing(l, m) =>
                 Tasks(Addition(m)) \subseteq Tasks(Patches(l))
           /\ \A n \in Existing(l) : (\A m \in Expected : ~Takes(l, m, n)) =>
                 Tasks(Removal(n)) \subseteq Tasks(Patches(l))
<1> DEFINE F == [i \in DOMAIN Order |-> AtPlace(l, i)]
           G == [i \in DOMAIN Order |-> AddedAt(l, i)]
<1>1. \A i \in DOMAIN Order : F[i] = AtPlace(l, i) /\ G[i] = AddedAt(l, i)
    OBVIOUS
<1>2. F = [i \in DOMAIN Order |-> F[i]] /\ G = [i \in DOMAIN Order |-> G[i]]
    OBVIOUS
<1>3. Patches(l) = FlattenSeq(F) \o FlattenSeq(G)
    BY PatchesAre
<1> HIDE DEF F, G
<1>4. F \in Seq(Seq(SoundPatches)) /\ DOMAIN F = DOMAIN Order
    <2>1. \A i \in DOMAIN Order : F[i] \in Seq(SoundPatches)
        BY <1>1, AtPlaceFacts
    <2> QED
        BY <1>2, <2>1, SequenceOverOrder
<1>5. G \in Seq(Seq(SoundPatches)) /\ DOMAIN G = DOMAIN Order
    <2>1. \A i \in DOMAIN Order : G[i] \in Seq(SoundPatches)
        BY <1>1, AddedAtFacts
    <2> QED
        BY <1>2, <2>1, SequenceOverOrder
<1>6. /\ FlattenSeq(F) \in Seq(SoundPatches) /\ FlattenSeq(G) \in Seq(SoundPatches)
      /\ Range(FlattenSeq(F)) = UNION {Range(F[i]) : i \in DOMAIN F}
      /\ Range(FlattenSeq(G)) = UNION {Range(G[i]) : i \in DOMAIN G}
    BY <1>4, <1>5, FlattenRange
<1>7. Tasks(Patches(l)) = Tasks(FlattenSeq(F)) \cup Tasks(FlattenSeq(G))
    BY <1>3, <1>6, TasksConcat
<1>8. /\ \A t : t \in Tasks(FlattenSeq(F)) <=> \E i \in DOMAIN Order : t \in Tasks(AtPlace(l, i))
      /\ \A t : t \in Tasks(FlattenSeq(G)) <=> \E i \in DOMAIN Order : t \in Tasks(AddedAt(l, i))
    BY <1>1, <1>4, <1>5, TasksFlatten
<1>9. DOMAIN Order = 1..Len(Order) /\ Len(Order) \in Nat /\ \A i \in DOMAIN Order : Order[i] \in Names
    BY OrderFacts
<1>10. Patches(l) \in Seq(SoundPatches)
    BY <1>3, <1>6, ConcatProperties
<1>11. Follows(FlattenSeq(F), FoundedFirst)
    <2>1. \A i \in DOMAIN F : Follows(F[i], FoundedFirst)
        BY <1>1, <1>4, AtPlaceFacts
    <2>2. ASSUME NEW i \in DOMAIN F, NEW j \in DOMAIN F, i < j, NEW x \in Range(F[i]), NEW y \in Range(F[j])
          PROVE  <<x, y>> \in FoundedFirst
        <3>1. i \in DOMAIN Order /\ j \in DOMAIN Order /\ i # j
            BY <1>4, <1>9, <2>2
        <3>2. Order[i] # Order[j]
            BY <3>1, OrderFacts
        <3>3. \A a \in Tasks(F[i]), b \in Tasks(F[j]) :
                  a.request.op # "delete" /\ Founds(b.request) => a.request.of # b.request.of
            <4> SUFFICES ASSUME NEW a \in Tasks(F[i]), NEW b \in Tasks(F[j]),
                                a.request.op # "delete", Founds(b.request),
                                a.request.of = b.request.of
                         PROVE  FALSE
                OBVIOUS
            <4>1. Takes(l, a.request.of, Order[i])
                BY <1>1, <3>1, AtPlaceFacts
            <4>2. Takes(l, b.request.of, Order[j])
                BY <1>1, <3>1, AtPlaceFacts
            <4> QED
                BY <3>2, <4>1, <4>2, TakesUnique
        <3>4. F[i] \in Seq(SoundPatches) /\ F[j] \in Seq(SoundPatches)
            BY <1>1, <3>1, AtPlaceFacts
        <3> QED
            BY <3>3, <3>4, OthersMayFollow
    <2> QED
        BY <1>4, <2>1, <2>2, FlattenFollows
<1>12. Follows(FlattenSeq(G), FoundedFirst)
    <2>1. \A i \in DOMAIN G : Follows(G[i], FoundedFirst)
        BY <1>1, <1>5, AddedAtFacts
    <2>2. ASSUME NEW i \in DOMAIN G, NEW j \in DOMAIN G, i < j, NEW x \in Range(G[i]), NEW y \in Range(G[j])
          PROVE  <<x, y>> \in FoundedFirst
        <3>1. i \in DOMAIN Order /\ j \in DOMAIN Order /\ i # j
            BY <1>5, <1>9, <2>2
        <3>2. Order[i] # Order[j]
            BY <3>1, OrderFacts
        <3>3. \A a \in Tasks(G[i]), b \in Tasks(G[j]) : a.request.of # b.request.of
            BY <1>1, <3>1, <3>2, AddedAtFacts
        <3>4. G[i] \in Seq(SoundPatches) /\ G[j] \in Seq(SoundPatches)
            BY <1>1, <3>1, AddedAtFacts
        <3> QED
            BY <3>3, <3>4, OthersMayFollow
    <2> QED
        BY <1>5, <2>1, <2>2, FlattenFollows
<1>13. Follows(Patches(l), FoundedFirst)
    <2>1. \A a \in Tasks(FlattenSeq(F)), b \in Tasks(FlattenSeq(G)) :
              a.request.op # "delete" /\ Founds(b.request) => a.request.of # b.request.of
        <3> TAKE a \in Tasks(FlattenSeq(F)), b \in Tasks(FlattenSeq(G))
        <3> SUFFICES ASSUME a.request.op # "delete", a.request.of = b.request.of
                     PROVE  FALSE
            OBVIOUS
        <3>1. PICK i \in DOMAIN Order : a \in Tasks(AtPlace(l, i))
            BY <1>8
        <3>2. PICK j \in DOMAIN Order : b \in Tasks(AddedAt(l, j))
            BY <1>8
        <3>3. Takes(l, a.request.of, Order[i])
            BY <3>1, AtPlaceFacts
        <3>4. Missing(l, b.request.of)
            BY <3>2, AddedAtFacts
        <3> QED
            BY <1>9, <3>3, <3>4 DEF Missing
    <2>2. \A x \in Range(FlattenSeq(F)), y \in Range(FlattenSeq(G)) : <<x, y>> \in FoundedFirst
        BY <1>6, <2>1, OthersMayFollow
    <2> QED
        BY <1>3, <1>6, <1>11, <1>12, <2>2, FollowsConcat
<1>14. ASSUME NEW t \in Tasks(Patches(l))
       PROVE  \/ /\ t.request.of \in Expected /\ t.request.op # "delete"
                 /\ \E n \in Names : Takes(l, t.request.of, n)
                                     /\ t \in Tasks(Changes(l, n, t.request.of))
              \/ /\ t.request.op = "delete" /\ ~Founds(t.request)
                 /\ t.request.of = t.request.at /\ t.request.at \in Existing(l)
                 /\ \A m \in Expected : ~Takes(l, m, t.request.at)
              \/ /\ Missing(l, t.request.of) /\ t.request.op # "delete"
                 /\ t \in Tasks(Addition(t.request.of))
    <2>1. CASE t \in Tasks(FlattenSeq(F))
        <3>1. PICK i \in DOMAIN Order : t \in Tasks(AtPlace(l, i))
            BY <1>8, <2>1
        <3> QED
            BY <1>9, <3>1, AtPlaceFacts
    <2>2. CASE t \in Tasks(FlattenSeq(G))
        <3>1. PICK i \in DOMAIN Order : t \in Tasks(AddedAt(l, i))
            BY <1>8, <2>2
        <3> QED
            BY <3>1, AddedAtFacts
    <2> QED
        BY <1>7, <2>1, <2>2
<1>15. ASSUME NEW m \in Expected, NEW n \in Names, Takes(l, m, n)
       PROVE  Tasks(Changes(l, n, m)) \subseteq Tasks(Patches(l))
    <2>1. PICK i \in DOMAIN Order : Order[i] = n
        BY OrderFacts
    <2>2. Tasks(Changes(l, n, m)) \subseteq Tasks(AtPlace(l, i))
        BY <1>15, <2>1, AtPlaceFacts
    <2> QED
        BY <1>7, <1>8, <2>2
<1>16. ASSUME NEW m \in Expected, Missing(l, m)
       PROVE  Tasks(Addition(m)) \subseteq Tasks(Patches(l))
    <2>1. PICK i \in DOMAIN Order : Order[i] = m
        BY OrderFacts DEF Expected
    <2>2. Tasks(Addition(m)) \subseteq Tasks(AddedAt(l, i))
        BY <1>16, <2>1, AddedAtFacts
    <2> QED
        BY <1>7, <1>8, <2>2
<1>17. ASSUME NEW n \in Existing(l), \A m \in Expected : ~Takes(l, m, n)
       PROVE  Tasks(Removal(n)) \subseteq Tasks(Patches(l))
    <2>1. PICK i \in DOMAIN Order : Order[i] = n
        BY OrderFacts DEF Existing
    <2>2. Tasks(Removal(n)) \subseteq Tasks(AtPlace(l, i))
        BY <1>17, <2>1, AtPlaceFacts
    <2> QED
        BY <1>7, <1>8, <2>2
<1> QED
    BY <1>10, <1>13, <1>14, <1>15, <1>16, <1>17

LEMMA ThoseFacts ==
    ASSUME NEW s \in Seq(SoundPatches), Follows(s, FoundedFirst), NEW readonly
    PROVE  /\ Those(s, readonly) \in Seq(SoundPatches)
           /\ Range(Those(s, readonly)) = {p \in Range(s) : p.readonly = readonly}
           /\ Follows(Those(s, readonly), FoundedFirst)
           /\ Follows(Those(s, readonly), ReadonlyLast)
<1> DEFINE F == [i \in DOMAIN s |-> IF s[i].readonly = readonly THEN <<s[i]>> ELSE <<>>]
<1>1. /\ DOMAIN s = 1..Len(s) /\ Len(s) \in Nat
      /\ \A i \in DOMAIN s : s[i] \in SoundPatches /\ s[i] \in Range(s)
      /\ \A p \in Range(s) : \E i \in DOMAIN s : p = s[i]
    BY LenProperties, ElementOfSeq DEF Range
<1>2. \A i \in DOMAIN s : F[i] = IF s[i].readonly = readonly THEN <<s[i]>> ELSE <<>>
    OBVIOUS
<1>3. \A i \in DOMAIN s : F[i] \in Seq(SoundPatches)
    BY <1>1, <1>2, ShortSeq, EmptySeq
<1>4. F \in Seq(Seq(SoundPatches)) /\ DOMAIN F = DOMAIN s
    BY <1>1, <1>3
<1>5. \A i \in DOMAIN s : Range(F[i]) = IF s[i].readonly = readonly THEN {s[i]} ELSE {}
    BY <1>2, RangeOfOne
<1>6. Those(s, readonly) = FlattenSeq(F)
    BY DEF Those
<1> HIDE DEF F
<1>7. Those(s, readonly) \in Seq(SoundPatches)
    BY <1>4, <1>6, FlattenRange
<1>8. Range(Those(s, readonly)) = {p \in Range(s) : p.readonly = readonly}
    <2>1. Range(Those(s, readonly)) = UNION {Range(F[i]) : i \in DOMAIN F}
        BY <1>4, <1>6, FlattenRange
    <2>2. \A p : p \in Range(Those(s, readonly)) <=> \E i \in DOMAIN s : p \in Range(F[i])
        BY <1>4, <2>1
    <2>3. ASSUME NEW p \in Range(Those(s, readonly))
          PROVE  p \in Range(s) /\ p.readonly = readonly
        <3>1. PICK i \in DOMAIN s : p \in Range(F[i])
            BY <2>2
        <3>2. s[i].readonly = readonly /\ p = s[i]
            BY <1>5, <3>1
        <3> QED
            BY <1>1, <3>2
    <2>4. \A p : p \in Range(s) /\ p.readonly = readonly => p \in Range(Those(s, readonly))
        BY <1>1, <1>5, <2>2
    <2> QED
        BY <2>3, <2>4
<1>9. Follows(Those(s, readonly), FoundedFirst)
    <2>1. \A i \in DOMAIN F : Follows(F[i], FoundedFirst)
        BY <1>2, <1>4, FollowsOne
    <2>2. \A i, j \in DOMAIN F : i < j =>
              \A x \in Range(F[i]), y \in Range(F[j]) : <<x, y>> \in FoundedFirst
        BY <1>4, <1>5 DEF Follows
    <2> QED
        BY <1>4, <1>6, <2>1, <2>2, FlattenFollows
<1>10. Follows(Those(s, readonly), ReadonlyLast)
    <2> DEFINE u == Those(s, readonly)
    <2>1. \A i \in DOMAIN u : u[i] \in Range(u)
        BY DEF Range
    <2>2. \A i \in DOMAIN u : u[i] \in Patch /\ u[i].readonly = readonly
        BY <1>1, <1>8, <2>1 DEF SoundPatches
    <2> HIDE DEF u
    <2>3. \A p, q \in Patch : p.readonly = q.readonly => <<p, q>> \in ReadonlyLast
        BY DEF ReadonlyLast
    <2>4. \A i, j \in DOMAIN u : <<u[i], u[j]>> \in ReadonlyLast
        BY <2>2, <2>3
    <2> QED
        BY <2>4 DEF Follows, u
<1> QED
    BY <1>7, <1>8, <1>9, <1>10

LEMMA InOrderFacts ==
    ASSUME NEW s \in Seq(SoundPatches), Follows(s, FoundedFirst)
    PROVE  /\ InOrder(s) \in Seq(SoundPatches)
           /\ Tasks(InOrder(s)) = Tasks(s)
           /\ Follows(InOrder(s), FoundedFirst)
           /\ Follows(InOrder(s), ReadonlyLast)
<1> DEFINE A == Those(s, FALSE)
           B == Those(s, TRUE)
<1>1. /\ A \in Seq(SoundPatches) /\ Range(A) = {p \in Range(s) : p.readonly = FALSE}
      /\ Follows(A, FoundedFirst) /\ Follows(A, ReadonlyLast)
    BY ThoseFacts
<1>2. /\ B \in Seq(SoundPatches) /\ Range(B) = {p \in Range(s) : p.readonly = TRUE}
      /\ Follows(B, FoundedFirst) /\ Follows(B, ReadonlyLast)
    BY ThoseFacts
<1>3. InOrder(s) = A \o B
    BY DEF InOrder
<1> HIDE DEF A, B
<1>4. InOrder(s) \in Seq(SoundPatches) /\ Range(InOrder(s)) = Range(A) \cup Range(B)
    BY <1>1, <1>2, <1>3, ConcatProperties, RangeConcatenation
<1>5. \A p \in Range(s) : p \in SoundPatches /\ p \in Patch /\ p.readonly \in BOOLEAN
    BY RangeOfSeq DEF SoundPatches, Patch
<1>6. Range(InOrder(s)) = Range(s)
    <2>1. \A p \in Range(s) : p.readonly = FALSE \/ p.readonly = TRUE
        BY <1>5
    <2> QED
        BY <1>1, <1>2, <1>4, <2>1
<1>7. \A p \in Range(A), q \in Range(B) : <<p, q>> \in ReadonlyLast
    BY <1>1, <1>2, <1>5 DEF ReadonlyLast
<1>8. \A p \in Range(A), q \in Range(B) : <<p, q>> \in FoundedFirst
    <2> TAKE p \in Range(A), q \in Range(B)
    <2>1. p \in Patch /\ q \in Patch /\ q \in SoundPatches /\ q.readonly = TRUE
        BY <1>1, <1>2, <1>5
    <2>2. \A u \in TasksOf(q) : u.readonly = TRUE /\ Sound(u)
        BY <2>1 DEF TasksOf, Task, SoundPatches, SoundPatch
    <2>3. \A u \in TasksOf(q) : config[u.request.of].archived
        BY <2>2 DEF Sound
    <2> QED
        BY <2>1, <2>3 DEF FoundedFirst
<1>9. Follows(InOrder(s), FoundedFirst) /\ Follows(InOrder(s), ReadonlyLast)
    BY <1>1, <1>2, <1>3, <1>7, <1>8, FollowsConcat
<1> QED
    BY <1>4, <1>6, <1>9 DEF Tasks

\* The plan is sound, in order, and lists what the properties need.
LEMMA PlanFacts ==
    ASSUME TypeOK, KeysAreUnique, todo' = InOrder(Patches(live))
    PROVE  /\ todo' \in Seq(Patch) /\ \A i \in DOMAIN todo' : SoundPatch(todo'[i])
           /\ Follows(todo', ReadonlyLast) /\ Follows(todo', FoundedFirst)
           /\ Tasks(todo') = Tasks(Patches(live))
<1>1. config \in Config /\ live \in Live
    BY DEF TypeOK
<1>2. Patches(live) \in Seq(SoundPatches) /\ Follows(Patches(live), FoundedFirst)
    BY <1>1, PatchesFacts
<1>3. /\ todo' \in Seq(SoundPatches) /\ Tasks(todo') = Tasks(Patches(live))
      /\ Follows(todo', FoundedFirst) /\ Follows(todo', ReadonlyLast)
    BY <1>2, InOrderFacts
<1>4. \A i \in DOMAIN todo' : todo'[i] \in SoundPatches
    BY <1>3, ElementOfSeq, LenProperties
<1>5. todo' \in Seq(Patch)
    <2>1. SoundPatches \subseteq Patch
        BY DEF SoundPatches
    <2> QED
        BY <1>3, <2>1
<1> QED
    BY <1>3, <1>4, <1>5 DEF SoundPatches

-----------------------------------------------------------------------------
(* What is left to be sent.                                                *)

HeadTask(p) == Task(p, Head(p.requests))
Shorter(p) == [p EXCEPT !.requests = Tail(@)]
Advanced(s) == IF Len(Head(s).requests) = 1
               THEN Tail(s)
               ELSE [s EXCEPT ![1].requests = Tail(@)]

LEMMA SequenceTail ==
    ASSUME NEW S, NEW s \in Seq(S), s # <<>>
    PROVE  /\ Head(s) = s[1] /\ s[1] \in S /\ Len(s) \in Nat /\ Len(s) >= 1
           /\ DOMAIN s = 1..Len(s) /\ 1 \in DOMAIN s
           /\ Tail(s) \in Seq(S) /\ Len(Tail(s)) = Len(s) - 1 /\ DOMAIN Tail(s) = 1..Len(s) - 1
           /\ \A i \in 1..Len(s) - 1 : Tail(s)[i] = s[i + 1] /\ i + 1 \in 1..Len(s)
           /\ \A i \in DOMAIN s : i = 1 \/ i - 1 \in 1..Len(s) - 1
<1>1. Len(s) \in Nat /\ DOMAIN s = 1..Len(s) /\ Len(s) # 0
    BY LenProperties, EmptySeq
<1>2. Head(s) = s[1] /\ s[1] \in S
    BY <1>1, ElementOfSeq
<1>3. /\ Tail(s) \in Seq(S) /\ Len(Tail(s)) = Len(s) - 1
      /\ \A i \in 1..Len(Tail(s)) : Tail(s)[i] = s[i + 1]
    BY HeadTailProperties
<1>4. DOMAIN Tail(s) = 1..Len(s) - 1
    BY <1>3, LenProperties
<1> QED
    BY <1>1, <1>2, <1>3, <1>4

\* The first request of a patch, and the patch without it.
LEMMA ShorterFacts ==
    ASSUME NEW p, SoundPatch(p)
    PROVE  /\ Sound(HeadTask(p)) /\ HeadTask(p) \in TasksOf(p)
           /\ HeadTask(p).request = Head(p.requests) /\ HeadTask(p).type = p.type
           /\ HeadTask(p).parts = p.parts /\ HeadTask(p).readonly = p.readonly
           /\ Len(p.requests) = 1 => TasksOf(p) = {HeadTask(p)}
           /\ \A t \in TasksOf(p) : Founds(t.request) => t = HeadTask(p)
           /\ \A t \in TasksOf(p) : t.request.op \in Children => t = HeadTask(p)
           /\ Len(p.requests) # 1 =>
                 /\ SoundPatch(Shorter(p)) /\ Shorter(p).readonly = p.readonly
                 /\ TasksOf(p) = {HeadTask(p)} \cup TasksOf(Shorter(p))
                 /\ \A t \in TasksOf(Shorter(p)) : ~Founds(t.request)
<1> DEFINE s == p.requests
           q == Shorter(p)
<1>1. p \in Patch /\ s # <<>>
    BY DEF SoundPatch
<1>2. s \in Seq(Request)
    BY <1>1 DEF Patch
<1>3. /\ Head(s) = s[1] /\ Len(s) \in Nat /\ Len(s) >= 1 /\ DOMAIN s = 1..Len(s) /\ 1 \in DOMAIN s
      /\ Tail(s) \in Seq(Request) /\ Len(Tail(s)) = Len(s) - 1 /\ DOMAIN Tail(s) = 1..Len(s) - 1
      /\ \A i \in 1..Len(s) - 1 : Tail(s)[i] = s[i + 1] /\ i + 1 \in 1..Len(s)
      /\ \A i \in DOMAIN s : i = 1 \/ i - 1 \in 1..Len(s) - 1
    <2> HIDE DEF s
    <2> QED
        BY <1>1, <1>2, SequenceTail
<1>4. HeadTask(p) \in TasksOf(p) /\ HeadTask(p) = Task(p, s[1])
    BY <1>3 DEF HeadTask, TasksOf
<1>5. Sound(HeadTask(p))
    BY <1>4 DEF SoundPatch
<1>6. /\ HeadTask(p).request = Head(s) /\ HeadTask(p).type = p.type
      /\ HeadTask(p).parts = p.parts /\ HeadTask(p).readonly = p.readonly
    BY DEF HeadTask, Task
<1>7. \A t \in TasksOf(p) : \E k \in DOMAIN s : t = Task(p, s[k]) /\ t.request = s[k]
    BY DEF TasksOf, Task
<1>8. \A k \in DOMAIN s : k # 1 => ~Founds(s[k])
    BY DEF SoundPatch
<1>81. \A k \in DOMAIN s : s[k].op \in Children => Len(s) = 1
    BY DEF SoundPatch
<1>9. Len(s) = 1 => TasksOf(p) = {HeadTask(p)}
    <2>1. Len(s) = 1 => \A k \in DOMAIN s : k = 1
        BY <1>3
    <2> HIDE DEF s
    <2> QED
        BY <1>4, <1>7, <2>1
<1>10. ASSUME NEW t \in TasksOf(p), t # HeadTask(p)
       PROVE  ~Founds(t.request)
    <2> HIDE DEF s
    <2>1. PICK k \in DOMAIN s : t = Task(p, s[k]) /\ t.request = s[k]
        BY <1>7
    <2>2. k # 1
        BY <1>4, <1>10, <2>1
    <2>3. ~Founds(s[k])
        BY <1>8, <2>2
    <2> QED
        BY <2>1, <2>3
<1>11. ASSUME NEW t \in TasksOf(p), t.request.op \in Children
       PROVE  t = HeadTask(p)
    <2> HIDE DEF s
    <2>1. PICK k \in DOMAIN s : t = Task(p, s[k]) /\ t.request = s[k]
        BY <1>7
    <2>2. s[k].op \in Children
        BY <1>11, <2>1
    <2>3. Len(s) = 1
        BY <1>81, <2>2
    <2> QED
        BY <1>9, <2>3
<1>12. ASSUME Len(s) # 1
       PROVE  /\ SoundPatch(q) /\ q.readonly = p.readonly
              /\ TasksOf(p) = {HeadTask(p)} \cup TasksOf(q)
              /\ \A t \in TasksOf(q) : ~Founds(t.request)
    <2>1. /\ q.requests = Tail(s) /\ q.type = p.type /\ q.parts = p.parts
          /\ q.readonly = p.readonly /\ q \in Patch
        <3>1. \A x \in Patch, u \in Seq(Request) :
                  /\ [x EXCEPT !.requests = u] \in Patch /\ [x EXCEPT !.requests = u].requests = u
                  /\ [x EXCEPT !.requests = u].type = x.type
                  /\ [x EXCEPT !.requests = u].parts = x.parts
                  /\ [x EXCEPT !.requests = u].readonly = x.readonly
            BY DEF Patch
        <3>2. q = [p EXCEPT !.requests = Tail(s)]
            BY DEF Shorter
        <3> HIDE DEF q, s
        <3> QED
            BY <1>1, <1>3, <3>1, <3>2
    <2> HIDE DEF q, s
    <2>2. \A r : Task(q, r) = Task(p, r)
        BY <2>1 DEF Task
    <2>3. DOMAIN q.requests = 1..Len(s) - 1 /\ \A i \in 1..Len(s) - 1 : q.requests[i] = s[i + 1]
        BY <1>3, <2>1
    <2>4. \A t \in TasksOf(q) : \E k \in DOMAIN s : k # 1 /\ t = Task(p, s[k]) /\ t.request = s[k]
        <3> TAKE t \in TasksOf(q)
        <3>1. PICK i \in 1..Len(s) - 1 : t = Task(q, q.requests[i])
            BY <2>3 DEF TasksOf
        <3>2. t = Task(p, s[i + 1]) /\ i + 1 \in DOMAIN s /\ i + 1 # 1
            BY <1>3, <2>2, <2>3, <3>1
        <3>3. t.request = s[i + 1]
            BY <3>2 DEF Task
        <3> QED
            BY <3>2, <3>3
    <2>5. \A k \in DOMAIN s : k = 1 \/ Task(p, s[k]) \in TasksOf(q)
        <3> TAKE k \in DOMAIN s
        <3> SUFFICES ASSUME k # 1
                     PROVE  Task(p, s[k]) \in TasksOf(q)
            OBVIOUS
        <3>1. k - 1 \in 1..Len(s) - 1 /\ (k - 1) + 1 = k
            BY <1>3
        <3>2. q.requests[k - 1] = s[k] /\ k - 1 \in DOMAIN q.requests
            BY <2>3, <3>1
        <3> QED
            BY <2>2, <3>2 DEF TasksOf
    <2>6. \A k \in DOMAIN s : Task(p, s[k]) \in TasksOf(p)
        BY DEF TasksOf, s
    <2>7. TasksOf(p) = {HeadTask(p)} \cup TasksOf(q)
        BY <1>4, <1>7, <2>4, <2>5, <2>6
    <2>8. \A t \in TasksOf(q) : Sound(t)
        BY <2>4, <2>6 DEF SoundPatch
    <2>9. ASSUME NEW t \in TasksOf(q)
          PROVE  ~Founds(t.request)
        <3>1. PICK k \in DOMAIN s : k # 1 /\ t.request = s[k]
            BY <2>4
        <3>2. ~Founds(s[k])
            BY <1>8, <3>1
        <3> QED
            BY <3>1, <3>2
    <2>10. q.requests # <<>>
        BY <1>3, <1>12, <2>3
    <2>11. \A k \in DOMAIN q.requests : /\ Founds(q.requests[k]) => k = 1
                                        /\ q.requests[k].op \in Children => Len(q.requests) = 1
        <3> TAKE k \in DOMAIN q.requests
        <3>1. k + 1 \in DOMAIN s /\ k + 1 # 1 /\ q.requests[k] = s[k + 1]
            BY <1>3, <2>3
        <3>2. ~Founds(s[k + 1])
            BY <1>8, <3>1
        <3>3. s[k + 1].op \notin Children
            BY <1>81, <1>12, <3>1
        <3> QED
            BY <3>1, <3>2, <3>3
    <2> QED
        BY <2>1, <2>7, <2>8, <2>9, <2>10, <2>11 DEF SoundPatch
<1> QED
    BY <1>5, <1>4, <1>6, <1>9, <1>10, <1>11, <1>12

\* Without its first patch, or without the first request of it, a plan stays in order.
LEMMA TailFacts ==
    ASSUME NEW s \in Seq(Patch), s # <<>>, \A i \in DOMAIN s : SoundPatch(s[i])
    PROVE  /\ Tail(s) \in Seq(Patch) /\ \A i \in DOMAIN Tail(s) : SoundPatch(Tail(s)[i])
           /\ Tasks(s) = TasksOf(Head(s)) \cup Tasks(Tail(s))
           /\ \A R : Follows(s, R) => Follows(Tail(s), R)
           /\ SoundPatch(Head(s)) /\ Head(s) \in Patch
<1>1. /\ Head(s) = s[1] /\ s[1] \in Patch /\ Len(s) \in Nat /\ Len(s) >= 1
      /\ DOMAIN s = 1..Len(s) /\ 1 \in DOMAIN s
      /\ Tail(s) \in Seq(Patch) /\ Len(Tail(s)) = Len(s) - 1 /\ DOMAIN Tail(s) = 1..Len(s) - 1
      /\ \A i \in 1..Len(s) - 1 : Tail(s)[i] = s[i + 1] /\ i + 1 \in 1..Len(s)
      /\ \A i \in DOMAIN s : i = 1 \/ i - 1 \in 1..Len(s) - 1
    BY SequenceTail
<1>2. \A i \in DOMAIN Tail(s) : SoundPatch(Tail(s)[i])
    BY <1>1
<1>3. Range(s) = {Head(s)} \cup Range(Tail(s))
    <2>1. \A p : p \in Range(s) <=> \E i \in DOMAIN s : p = s[i]
        BY DEF Range
    <2>2. \A p : p \in Range(Tail(s)) <=> \E i \in DOMAIN Tail(s) : p = Tail(s)[i]
        BY DEF Range
    <2>3. \A p : p \in Range(Tail(s)) => p \in Range(s)
        BY <1>1, <2>1, <2>2
    <2>4. ASSUME NEW p \in Range(s), p # Head(s)
          PROVE  p \in Range(Tail(s))
        <3>1. PICK i \in DOMAIN s : p = s[i]
            BY <2>1
        <3>2. i - 1 \in 1..Len(s) - 1 /\ (i - 1) + 1 = i
            BY <1>1, <2>4, <3>1
        <3>3. Tail(s)[i - 1] = s[i]
            BY <1>1, <3>2
        <3> QED
            BY <1>1, <2>2, <3>1, <3>2, <3>3
    <2>5. Head(s) \in Range(s)
        BY <1>1, <2>1
    <2> QED
        BY <2>3, <2>4, <2>5
<1>4. Tasks(s) = TasksOf(Head(s)) \cup Tasks(Tail(s))
    BY <1>3 DEF Tasks
<1>5. ASSUME NEW R, Follows(s, R)
      PROVE  Follows(Tail(s), R)
    <2> SUFFICES ASSUME NEW i \in DOMAIN Tail(s), NEW j \in DOMAIN Tail(s), i < j
                 PROVE  <<Tail(s)[i], Tail(s)[j]>> \in R
        BY DEF Follows
    <2>1. i + 1 \in DOMAIN s /\ j + 1 \in DOMAIN s /\ i + 1 < j + 1
        BY <1>1
    <2>2. <<s[i + 1], s[j + 1]>> \in R
        BY <1>5, <2>1 DEF Follows
    <2> QED
        BY <1>1, <2>2
<1> QED
    BY <1>1, <1>2, <1>4, <1>5

\* What comes after the first patch, in a plan that is in order.
LEMMA AfterHead ==
    ASSUME NEW s \in Seq(Patch), s # <<>>, NEW R, Follows(s, R), NEW t \in Tasks(Tail(s))
    PROVE  \E q \in Patch : t \in TasksOf(q) /\ <<Head(s), q>> \in R
<1>1. /\ Head(s) = s[1] /\ 1 \in DOMAIN s /\ DOMAIN s = 1..Len(s) /\ Len(s) \in Nat
      /\ DOMAIN Tail(s) = 1..Len(s) - 1 /\ Tail(s) \in Seq(Patch)
      /\ \A i \in 1..Len(s) - 1 : Tail(s)[i] = s[i + 1] /\ i + 1 \in 1..Len(s)
    BY SequenceTail
<1>2. PICK i \in DOMAIN Tail(s) : t \in TasksOf(Tail(s)[i])
    BY DEF Tasks, Range
<1>3. i + 1 \in DOMAIN s /\ 1 < i + 1 /\ Tail(s)[i] = s[i + 1]
    BY <1>1, <1>2
<1>4. <<s[1], s[i + 1]>> \in R
    BY <1>1, <1>3 DEF Follows
<1>5. Tail(s)[i] \in Patch
    BY <1>1, <1>2, ElementOfSeq, LenProperties
<1> QED
    BY <1>1, <1>2, <1>3, <1>4, <1>5

LEMMA AdvancedFacts ==
    ASSUME NEW s \in Seq(Patch), s # <<>>, \A i \in DOMAIN s : SoundPatch(s[i])
    PROVE  /\ Advanced(s) \in Seq(Patch) /\ \A i \in DOMAIN Advanced(s) : SoundPatch(Advanced(s)[i])
           /\ Tasks(s) = {HeadTask(Head(s))} \cup Tasks(Advanced(s))
           /\ Follows(s, ReadonlyLast) => Follows(Advanced(s), ReadonlyLast)
           /\ Follows(s, FoundedFirst) => Follows(Advanced(s), FoundedFirst)
           /\ \A t \in Tasks(Advanced(s)) : Founds(t.request) => t \in Tasks(Tail(s))
<1> DEFINE h == Head(s)
           q == Shorter(h)
           a == Advanced(s)
<1>1. /\ h = s[1] /\ s[1] \in Patch /\ Len(s) \in Nat /\ Len(s) >= 1
      /\ DOMAIN s = 1..Len(s) /\ 1 \in DOMAIN s /\ s = [i \in 1..Len(s) |-> s[i]]
    BY SequenceTail
<1>2. SoundPatch(h)
    BY <1>1
<1>3. /\ Tail(s) \in Seq(Patch) /\ \A i \in DOMAIN Tail(s) : SoundPatch(Tail(s)[i])
      /\ Tasks(s) = TasksOf(h) \cup Tasks(Tail(s))
      /\ \A R : Follows(s, R) => Follows(Tail(s), R)
    BY TailFacts
<1>4. CASE Len(h.requests) = 1
    <2>1. a = Tail(s)
        BY <1>4 DEF Advanced
    <2>2. TasksOf(h) = {HeadTask(h)}
        BY <1>2, <1>4, ShorterFacts
    <2> HIDE DEF a, h
    <2> QED
        BY <1>3, <2>1, <2>2 DEF a, h
<1>5. CASE Len(h.requests) # 1
    <2>1. /\ SoundPatch(q) /\ q.readonly = h.readonly
          /\ TasksOf(h) = {HeadTask(h)} \cup TasksOf(q)
          /\ \A t \in TasksOf(q) : ~Founds(t.request)
        BY <1>2, <1>5, ShorterFacts
    <2>2. a = [s EXCEPT ![1] = q]
        BY <1>1, <1>5 DEF Advanced, Shorter
    <2>3. q \in Patch
        BY <2>1 DEF SoundPatch
    <2> HIDE DEF a, q, h
    <2>4. DOMAIN a = DOMAIN s /\ \A i \in DOMAIN s : a[i] = IF i = 1 THEN q ELSE s[i]
        BY <1>1, <2>2
    <2>5. a \in Seq(Patch)
        BY <1>1, <2>2, <2>3
    <2>6. \A i \in DOMAIN a : SoundPatch(a[i])
        BY <2>1, <2>4
    <2>7. a # <<>>
        BY <1>1, <2>4
    <2>8. Head(a) = q /\ Tail(a) = Tail(s)
        <3>1. Head(a) = a[1] /\ Len(a) = Len(s)
            BY <1>1, <2>4, <2>5, <2>7, SequenceTail
        <3>2. /\ Tail(a) \in Seq(Patch) /\ Len(Tail(a)) = Len(a) - 1
              /\ \A i \in 1..Len(a) - 1 : Tail(a)[i] = a[i + 1] /\ i + 1 \in 1..Len(a)
            BY <2>5, <2>7, SequenceTail
        <3>3. /\ Len(Tail(s)) = Len(s) - 1
              /\ \A i \in 1..Len(s) - 1 : Tail(s)[i] = s[i + 1] /\ i + 1 \in 1..Len(s)
            BY SequenceTail
        <3>4. \A i \in 1..Len(s) - 1 : Tail(a)[i] = Tail(s)[i]
            <4> TAKE i \in 1..Len(s) - 1
            <4>1. Tail(a)[i] = a[i + 1] /\ i + 1 \in DOMAIN s /\ i + 1 # 1
                BY <1>1, <3>1, <3>2
            <4> QED
                BY <2>4, <3>3, <4>1
        <3>5. Tail(a) = Tail(s)
            BY <1>3, <3>1, <3>2, <3>3, <3>4, SeqEqual
        <3> QED
            BY <1>1, <2>4, <3>1, <3>5
    <2>9. Tasks(a) = TasksOf(q) \cup Tasks(Tail(s))
        BY <2>5, <2>6, <2>7, <2>8, TailFacts
    <2>10. ASSUME NEW R, Follows(s, R), \A x : <<h, x>> \in R => <<q, x>> \in R
           PROVE  Follows(a, R)
        <3> SUFFICES ASSUME NEW i \in DOMAIN s, NEW j \in DOMAIN s, i < j
                     PROVE  <<a[i], a[j]>> \in R
            BY <2>4 DEF Follows
        <3>1. <<s[i], s[j]>> \in R /\ j # 1
            BY <1>1, <2>10 DEF Follows
        <3>2. a[j] = s[j]
            BY <2>4, <3>1
        <3>3. CASE i = 1
            BY <1>1, <2>4, <2>10, <3>1, <3>2, <3>3
        <3>4. CASE i # 1
            BY <2>4, <3>1, <3>2, <3>4
        <3> QED
            BY <3>3, <3>4
    <2>11. \A x : <<h, x>> \in ReadonlyLast => <<q, x>> \in ReadonlyLast
        BY <2>1, <2>3 DEF ReadonlyLast
    <2>12. \A x : <<h, x>> \in FoundedFirst => <<q, x>> \in FoundedFirst
        BY <2>1, <2>3 DEF FoundedFirst
    <2> QED
        BY <1>3, <2>1, <2>5, <2>6, <2>9, <2>10, <2>11, <2>12 DEF a, h
<1> QED
    BY <1>4, <1>5

-----------------------------------------------------------------------------
(* What a request does.                                                    *)

LEMMA RepoParts ==
    ASSUME NEW repo \in Repo
    PROVE  /\ DOMAIN repo = Parts
           /\ repo.archived \in BOOLEAN /\ repo.desc \in Texts /\ repo.topics \in Texts
           /\ repo.hook \in Texts \cup {Absent} /\ repo.rule \in Texts \cup {Absent}
           /\ repo # Absent
<1>1. repo # Absent
    BY AbsentAssumption
<1> QED
    BY <1>1 DEF Repo, Parts, Children

LEMMA UpdatedFacts ==
    ASSUME config \in Config, NEW repo \in Repo, NEW r \in Request, r.of \in Expected
    PROVE  /\ Updated(repo, r) \in Repo
           /\ \A f \in Parts : Updated(repo, r)[f] = IF Sets(r, f) THEN config[r.of][f] ELSE repo[f]
<1> DEFINE u == Updated(repo, r)
           w == [archived |-> u.archived, desc |-> u.desc, topics |-> u.topics,
                 hook |-> u.hook, rule |-> u.rule]
<1>1. DOMAIN repo = Parts
    BY RepoParts
<1>2. u = [f \in Parts |-> IF Sets(r, f) THEN config[r.of][f] ELSE repo[f]]
    BY <1>1 DEF Updated, Sets
<1>3. \A f \in Parts : u[f] = IF Sets(r, f) THEN config[r.of][f] ELSE repo[f]
    BY <1>2
<1>4. {"archived", "desc", "topics", "hook", "rule"} = Parts
    BY DEF Parts, Children
<1> HIDE DEF u
<1>5. u = w
    BY <1>2, <1>4
<1>6. /\ u.archived \in BOOLEAN /\ u.desc \in Texts /\ u.topics \in Texts
      /\ u.hook \in Texts \cup {Absent} /\ u.rule \in Texts \cup {Absent}
    BY <1>3, <1>4, RepoParts, ConfigType
<1>7. w \in Repo
    BY <1>6 DEF Repo
<1> QED
    BY <1>3, <1>5, <1>7 DEF u

LEMMA CreatedFacts ==
    ASSUME config \in Config, NEW m \in Expected
    PROVE  /\ Created(m) \in Repo
           /\ Created(m)["archived"] = FALSE /\ Created(m)["desc"] = config[m]["desc"]
           /\ Created(m)["hook"] = Absent /\ Created(m)["rule"] = Absent
<1>1. config[m].desc \in Texts
    BY ConfigType
<1>2. (CHOOSE x \in Texts : TRUE) \in Texts
    BY <1>1
<1> QED
    BY <1>1, <1>2 DEF Created, Repo

\* The four things a request can do to the repositories.
Creates(r) == /\ r.op = "create" /\ r.at = r.of /\ live[r.of] = Absent
              /\ live' = [live EXCEPT ![r.of] = Created(r.of)]
Deletes(r) == /\ r.op = "delete" /\ r.at = r.of /\ live[r.at] # Absent
              /\ live' = [live EXCEPT ![r.at] = Absent]
Renames(r) == /\ r.op = "patch" /\ r.at # r.of /\ live[r.at] \in Repo /\ live[r.of] = Absent
              /\ live' = [live EXCEPT ![r.of] = Updated(live[r.at], r), ![r.at] = Absent]
Updates(r) == /\ r.op \in {"patch", "topics"} \cup Children /\ r.at = r.of /\ live[r.of] \in Repo
              /\ live' = [live EXCEPT ![r.of] = Updated(live[r.of], r)]

LEMMA EffectCases ==
    ASSUME live \in Live, config \in Config, NEW t, Sound(t), Possible(t.request, t.type),
           live' = Effect(t.request)
    PROVE  /\ live' \in Live
           /\ \/ Creates(t.request)
              \/ Deletes(t.request)
              \/ Renames(t.request)
              \/ Updates(t.request)
<1> DEFINE r == t.request
<1>1. /\ r \in Request /\ r.at \in Names /\ r.of \in Names
      /\ r.op \in {"create", "delete", "patch", "topics"} \cup Children
    BY DEF Sound, Request
<1>2. /\ r.op = "delete" => r.at = r.of
      /\ r.op # "delete" => r.of \in Expected /\ r.at \in Keys(r.of)
      /\ "name" \in r.fields <=> r.at # r.of
      /\ r.fields # {} => r.op = "patch"
    BY DEF Sound
<1>3. \A n \in Names : live[n] = Absent \/ live[n] \in Repo
    BY DEF Live
<1>4. \A n \in Names, x \in Repo \cup {Absent} : [live EXCEPT ![n] = x] \in Live
    BY DEF Live
<1>5. DOMAIN live = Names
    BY DEF Live
<1>6. \A c \in Children : c # "create" /\ c # "delete" /\ c # "patch" /\ c # "topics"
    BY DEF Children
<1>7. live[r.at] # Absent \/ r.op = "create"
    BY <1>1, <1>6 DEF Possible
<1>8. CASE r.op = "create"
    <2>1. "name" \notin r.fields /\ r.at = r.of
        BY <1>2, <1>8
    <2>2. live[r.at] = Absent
        BY <1>8 DEF Possible
    <2>3. live' = [live EXCEPT ![r.at] = Created(r.at)]
        BY <1>8, <2>1 DEF Effect
    <2>4. Created(r.of) \in Repo
        BY <1>2, <1>8, CreatedFacts
    <2> QED
        BY <1>1, <1>4, <1>8, <2>1, <2>2, <2>3, <2>4 DEF Creates
<1>9. CASE r.op = "delete"
    <2>1. "name" \notin r.fields /\ r.at = r.of /\ live[r.at] # Absent
        BY <1>2, <1>7, <1>9
    <2>2. live' = [live EXCEPT ![r.at] = Absent]
        BY <1>9, <2>1 DEF Effect
    <2> HIDE DEF r
    <2>3. Deletes(r)
        BY <1>9, <2>1, <2>2 DEF Deletes
    <2>4. [live EXCEPT ![r.at] = Absent] \in Live
        BY <1>1, <1>4
    <2>5. live' \in Live
        BY <2>2, <2>4
    <2> QED
        BY <2>3, <2>5 DEF r
<1>10. CASE r.op \notin {"create", "delete"} /\ r.at # r.of
    <2>1. "name" \in r.fields /\ r.op = "patch"
        BY <1>2, <1>10
    <2>2. live' = [live EXCEPT ![r.of] = Updated(live[r.at], r), ![r.at] = Absent]
        BY <2>1 DEF Effect
    <2>3. live[r.of] = Absent
        BY <2>1 DEF Possible
    <2>4. live[r.at] \in Repo
        BY <1>1, <1>3, <1>7, <2>1
    <2>5. Updated(live[r.at], r) \in Repo
        BY <1>1, <1>2, <2>1, <2>4, UpdatedFacts
    <2> DEFINE mid == [live EXCEPT ![r.of] = Updated(live[r.at], r)]
    <2>6. mid \in Live /\ live' = [mid EXCEPT ![r.at] = Absent]
        BY <1>1, <1>4, <2>2, <2>5
    <2>7. [mid EXCEPT ![r.at] = Absent] \in Live
        BY <1>1, <2>6 DEF Live
    <2> QED
        BY <1>10, <2>1, <2>2, <2>3, <2>4, <2>6, <2>7 DEF Renames
<1>11. CASE r.op \notin {"create", "delete"} /\ r.at = r.of
    <2>1. "name" \notin r.fields
        BY <1>2, <1>11
    <2>2. live' = [live EXCEPT ![r.at] = Updated(live[r.at], r)]
        BY <1>11, <2>1 DEF Effect
    <2>3. live[r.at] \in Repo
        BY <1>1, <1>3, <1>7, <1>11
    <2>4. Updated(live[r.at], r) \in Repo
        BY <1>1, <1>2, <1>11, <2>3, UpdatedFacts
    <2>5. live' \in Live
        BY <1>1, <1>4, <2>2, <2>4
    <2> QED
        BY <1>1, <1>11, <2>2, <2>3, <2>5 DEF Updates
<1> QED
    BY <1>8, <1>9, <1>10, <1>11

-----------------------------------------------------------------------------
(* The invariant holds of a plan.                                          *)

LEMMA PlanArchives ==
    ASSUME TypeOK, KeysAreUnique, Tasks(todo') = Tasks(Patches(live)),
           UNCHANGED <<live, config, deletes>>, NEW m \in Expected,
           \A t \in Tasks(todo') : Sound(t),
           Takes(live, m, m), ~live[m].archived, config[m].archived
    PROVE  /\ live[m] # Absent
           /\ OwnRequests(m)'
           /\ \A f \in Children : AsConfigured(m, f)' \/ ChildWaits(m, f)'
<1>1. config \in Config /\ live \in Live
    BY DEF TypeOK
<1>2. live[m] # Absent /\ m \in Keys(m)
    BY TakesKey
<1>3. /\ Block(Changes(live, m, m), m)
      /\ \A t \in Tasks(Changes(live, m, m)) : t.request.at \in {m, m}
      /\ \A t \in Tasks(Changes(live, m, m)) : t.request.op \in Children \/ t.readonly
      /\ \A f \in Children : live[m][f] # config[m][f] =>
             \E t \in Tasks(Changes(live, m, m)) :
                 t.request.op = f /\ (t.type = "add" <=> live[m][f] = Absent)
    BY <1>1, ChangesFacts
<1>4. Tasks(Changes(live, m, m)) \subseteq Tasks(todo')
    BY <1>1, PatchesFacts, ConfigType
<1>5. ASSUME NEW t \in Tasks(todo'), t.request.at = m \/ t.request.of = m
      PROVE  /\ t.request.at = m /\ t.request.of = m
             /\ t.request.op \in Children \/ t.readonly
    <2>1. CASE t.request.of \in Expected /\ t.request.op # "delete"
               /\ \E n \in Names : Takes(live, t.request.of, n)
                                   /\ t \in Tasks(Changes(live, n, t.request.of))
        <3>1. PICK n \in Names : Takes(live, t.request.of, n)
                                 /\ t \in Tasks(Changes(live, n, t.request.of))
            BY <2>1
        <3>2. t.request.at \in Keys(t.request.of)
            BY <2>1 DEF Sound
        <3>3. t.request.of = m
            BY <1>2, <1>5, <2>1, <3>2, TakenOnce
        <3>4. n = m
            BY <3>1, <3>3, TakesUnique
        <3> QED
            BY <1>3, <3>1, <3>3, <3>4
    <2>2. CASE t.request.op = "delete" /\ t.request.of = t.request.at
               /\ \A x \in Expected : ~Takes(live, x, t.request.at)
        BY <1>5, <2>2
    <2>3. CASE /\ Missing(live, t.request.of) /\ t.request.op # "delete"
               /\ t \in Tasks(Addition(t.request.of))
        <3>1. t.request.at = t.request.of
            BY <1>1, <2>3, AdditionFacts DEF Missing
        <3> QED
            BY <1>5, <2>3, <3>1, ConfigType, <1>1 DEF Missing
    <2> QED
        BY <1>1, <2>1, <2>2, <2>3, PatchesFacts
<1>6. ASSUME NEW f \in Children
      PROVE  AsConfigured(m, f)' \/ ChildWaits(m, f)'
    <2>1. CASE live[m][f] = config[m][f]
        BY <2>1 DEF AsConfigured
    <2>2. CASE live[m][f] # config[m][f]
        <3>1. PICK t \in Tasks(Changes(live, m, m)) :
                  t.request.op = f /\ (t.type = "add" <=> live[m][f] = Absent)
            BY <1>3, <2>2
        <3>2. t \in Tasks(todo') /\ t.request.of = m
            BY <1>3, <1>4, <3>1 DEF Block
        <3> QED
            BY <3>1, <3>2 DEF ChildWaits
    <2> QED
        BY <2>1, <2>2
<1> QED
    BY <1>2, <1>5, <1>6 DEF OwnRequests

LEMMA PlanIsolates ==
    ASSUME TypeOK, KeysAreUnique, Tasks(todo') = Tasks(Patches(live)),
           UNCHANGED <<live, config, deletes>>, NEW m \in Expected,
           \A t \in Tasks(todo') : Sound(t),
           ~config[m].archived
    PROVE  FoundInv(m)' /\ Isolated(m)'
<1>1. config \in Config /\ live \in Live
    BY DEF TypeOK
<1>2. m \in Names /\ m \in Keys(m) /\ config[m].archived = FALSE
    BY <1>1, ConfigType
<1>3. ASSUME NEW n \in Names, Takes(live, m, n)
      PROVE  Brought(live[n], m)'
    <2>1. \A f \in Parts : live[n][f] # config[m][f] =>
              \E t \in Tasks(Changes(live, n, m)) : f \in t.parts /\ Sets(t.request, f)
        BY <1>1, <1>3, ChangesFacts DEF Counts
    <2>2. \A t \in Tasks(Changes(live, n, m)) : t \in Tasks(todo') /\ t.request.of = m
        BY <1>1, <1>3, ChangesFacts, PatchesFacts DEF Block
    <2> QED
        BY <2>1, <2>2 DEF Brought, Matches, Waits
<1>4. ASSUME Missing(live, m)
      PROVE  Brought(Created(m), m)'
    <2>1. \A f \in Children \cup {"topics"} :
              (f \in Children /\ config[m][f] = Absent)
                  \/ \E t \in Tasks(Addition(m)) : f \in t.parts /\ Sets(t.request, f)
        BY <1>1, <1>2, AdditionFacts
    <2>2. \A t \in Tasks(Addition(m)) : t \in Tasks(todo') /\ t.request.of = m
        BY <1>1, <1>4, AdditionFacts, PatchesFacts DEF Block
    <2>3. \A f \in Children \cup {"topics"} :
              (f \in Children /\ config[m][f] = Absent) \/ Waits(m, f)'
        BY <2>1, <2>2 DEF Waits
    <2>4. /\ Created(m)["archived"] = FALSE /\ Created(m)["desc"] = config[m]["desc"]
          /\ Created(m)["hook"] = Absent /\ Created(m)["rule"] = Absent
        BY <1>1, CreatedFacts
    <2>5. Created(m)' = Created(m)
        BY DEF Created
    <2>6. \A f \in Parts : f = "archived" \/ f = "desc" \/ f \in Children \cup {"topics"}
        BY DEF Parts
    <2>7. \A f \in Parts : Created(m)[f] = config[m][f] \/ Waits(m, f)'
        <3> TAKE f \in Parts
        <3>1. CASE f = "archived"
            BY <1>2, <2>4, <3>1
        <3>2. CASE f = "desc"
            BY <2>4, <3>2
        <3>3. CASE f \in Children \cup {"topics"}
            <4>1. CASE Waits(m, f)'
                BY <4>1
            <4>2. CASE f \in Children /\ config[m][f] = Absent
                BY <2>4, <4>2 DEF Children
            <4> QED
                BY <2>3, <3>3, <4>1, <4>2
        <3> QED
            BY <2>6, <3>1, <3>2, <3>3
    <2>8. config' = config
        OBVIOUS
    <2> QED
        BY <2>5, <2>7, <2>8 DEF Brought, Matches
<1>5. ASSUME NEW t \in Tasks(todo'), t.request.of = m
      PROVE  /\ t.request.op = "create" => Brought(Created(m), m)'
             /\ "name" \in t.request.fields => Brought(live[t.request.at], m)'
    <2>1. CASE t.request.of \in Expected /\ t.request.op # "delete"
               /\ \E n \in Names : Takes(live, t.request.of, n)
                                   /\ t \in Tasks(Changes(live, n, t.request.of))
        <3>1. PICK n \in Names : Takes(live, m, n) /\ t \in Tasks(Changes(live, n, m))
            BY <1>5, <2>1
        <3>2. t.request.at \in {n, m} /\ t.request.op # "create"
            BY <1>1, <3>1, ChangesFacts
        <3>3. "name" \in t.request.fields => t.request.at # m
            BY <1>5 DEF Sound
        <3> QED
            BY <1>3, <3>1, <3>2, <3>3
    <2>2. CASE t.request.op = "delete" /\ ~Founds(t.request)
        BY <2>2 DEF Founds
    <2>3. CASE /\ Missing(live, t.request.of) /\ t.request.op # "delete"
               /\ t \in Tasks(Addition(t.request.of))
        <3>1. t.request.at = m
            BY <1>1, <1>5, <2>3, AdditionFacts
        <3>2. "name" \notin t.request.fields
            BY <1>5, <3>1 DEF Sound
        <3> QED
            BY <1>4, <1>5, <2>3, <3>2
    <2> QED
        BY <1>1, <2>1, <2>2, <2>3, PatchesFacts
<1>6. FoundInv(m)'
    <2>1. live' = live
        OBVIOUS
    <2> QED
        BY <1>5, <2>1 DEF FoundInv
<1>7. Isolated(m)'
    <2>1. CASE Missing(live, m)
        <3>1. m \notin Existing(live) \cap Keys(m)
            BY <2>1, TakesSome DEF Missing
        <3>2. live[m] = Absent
            BY <1>2, <3>1 DEF Existing
        <3> QED
            BY <3>2 DEF Isolated
    <2>2. ASSUME NEW n \in Names, Takes(live, m, n)
          PROVE  Isolated(m)'
        <3>1. CASE n = m
            <4>1. Brought(live[m], m)'
                BY <1>3, <2>2, <3>1
            <4> QED
                BY <4>1 DEF Isolated
        <3>2. CASE n # m
            <4>1. n \in Keys(m) \ {m} /\ live[n] # Absent
                BY <2>2, <3>2, TakesKey
            <4>2. Kept(n)'
                <5> SUFFICES ASSUME NEW t \in Tasks(todo'), t.request.op = "delete", t.request.at = n
                             PROVE  FALSE
                    BY DEF Kept
                <5>1. \A x \in Expected : ~Takes(live, x, t.request.at)
                    BY <1>1, PatchesFacts
                <5> QED
                    BY <2>2, <5>1
            <4>3. Keys(m)' = Keys(m)
                BY DEF Keys
            <4> QED
                BY <4>1, <4>2, <4>3 DEF Isolated
        <3> QED
            BY <3>1, <3>2
    <2> QED
        BY <2>1, <2>2 DEF Missing
<1> QED
    BY <1>6, <1>7

-----------------------------------------------------------------------------
(* The invariant holds of what a request leaves behind.                    *)

\* What a request of one patch sets, no other has to set any more.
LEMMA StillWaits ==
    ASSUME NEW t, Tasks(todo) \subseteq Tasks(todo') \cup {t},
           NEW m, NEW f, Waits(m, f), t.request.of # m \/ ~Sets(t.request, f)
    PROVE  Waits(m, f)'
BY DEF Waits

LEMMA StillBrought ==
    ASSUME NEW t, Tasks(todo) \subseteq Tasks(todo') \cup {t},
           NEW m, t.request.of # m \/ \A f \in Parts : ~Sets(t.request, f),
           UNCHANGED <<config, deletes>>, hist'.failed = hist.failed,
           NEW repo, Brought(repo, m)
    PROVE  Brought(repo, m)'
<1> SUFFICES ASSUME NEW f \in Parts \ hist.failed
             PROVE  Matches(repo, m, f)' \/ Waits(m, f)'
    BY DEF Brought
<1>1. Matches(repo, m, f) \/ Waits(m, f)
    BY DEF Brought
<1>2. Matches(repo, m, f) => Matches(repo, m, f)'
    BY DEF Matches
<1>3. Waits(m, f) => Waits(m, f)'
    BY StillWaits
<1> QED
    BY <1>1, <1>2, <1>3

\* A repository that a request has updated has what it had, or what it was to get.
LEMMA UpdatedIsBrought ==
    ASSUME config \in Config, NEW t, Tasks(todo) \subseteq Tasks(todo') \cup {t},
           UNCHANGED <<config, deletes>>, hist'.failed = hist.failed,
           t.request \in Request, t.request.of \in Expected,
           NEW repo \in Repo, Brought(repo, t.request.of)
    PROVE  Brought(Updated(repo, t.request), t.request.of)'
<1> DEFINE m == t.request.of
           u == Updated(repo, t.request)
<1>1. u' = u
    BY DEF Updated
<1>2. \A f \in Parts : u[f] = IF Sets(t.request, f) THEN config[m][f] ELSE repo[f]
    BY UpdatedFacts
<1> HIDE DEF u
<1> SUFFICES ASSUME NEW f \in Parts \ hist.failed
             PROVE  Matches(u, m, f)' \/ Waits(m, f)'
    BY <1>1 DEF Brought, u
<1>3. CASE Sets(t.request, f)
    <2>1. u'[f] = config'[m][f]
        BY <1>1, <1>2, <1>3
    <2> QED
        BY <2>1 DEF Matches
<1>4. CASE ~Sets(t.request, f)
    <2>1. u'[f] = repo[f]
        BY <1>1, <1>2, <1>4
    <2>2. Matches(repo, m, f) \/ Waits(m, f)
        BY DEF Brought
    <2>3. Matches(repo, m, f) => Matches(u, m, f)'
        BY <2>1 DEF Matches
    <2>4. Waits(m, f) => Waits(m, f)'
        BY <1>4, StillWaits
    <2> QED
        BY <2>2, <2>3, <2>4
<1> QED
    BY <1>3, <1>4

\* A request that deletes or creates sets none of the parts.
LEMMA SetsNothing ==
    ASSUME NEW t, Sound(t), t.request.op \in {"create", "delete"}, NEW f \in Parts
    PROVE  ~Sets(t.request, f)
<1>1. t.request.fields = {}
    BY DEF Sound
<1> QED
    BY <1>1 DEF Sets, Parts, Children

\* What a removal sets is a hook or a rule that is not configured.
LEMMA RemovalSets ==
    ASSUME NEW t, Sound(t), t.type = "remove", NEW f \in Parts, Sets(t.request, f)
    PROVE  f \in Children /\ config[t.request.of][f] = Absent
<1>1. t.request.op # "delete"
    BY SetsNothing
<1>2. t.request.op \in Children /\ config[t.request.of][t.request.op] = Absent
    BY <1>1 DEF Sound
<1>3. t.request.fields = {}
    BY <1>2 DEF Sound, Children
<1>4. f = t.request.op
    BY <1>3 DEF Sets
<1> QED
    BY <1>2, <1>4

\* Requests of one repository leave the others alone.
LEMMA OthersUnchanged ==
    ASSUME KeysAreUnique, live \in Live, config \in Config, NEW t, Sound(t),
           t.request.op # "delete", NEW m \in Expected, t.request.of # m,
           Creates(t.request) \/ Renames(t.request) \/ Updates(t.request),
           NEW n \in Keys(m)
    PROVE  live'[n] = live[n]
<1> DEFINE r == t.request
<1>1. r.of \in Expected /\ r.at \in Keys(r.of) /\ r.of \in Keys(r.of) /\ n \in Names
    BY ConfigType DEF Sound
<1>2. n # r.at /\ n # r.of
    BY <1>1, TakenOnce
<1>3. DOMAIN live = Names
    BY DEF Live
<1> HIDE DEF r
<1>4. CASE Creates(r)
    BY <1>2, <1>4 DEF Creates
<1>5. CASE Renames(r)
    BY <1>1, <1>2, <1>3, <1>5 DEF Renames
<1>6. CASE Updates(r)
    BY <1>2, <1>6 DEF Updates
<1> QED
    BY <1>4, <1>5, <1>6 DEF r

LEMMA DeleteOne ==
    ASSUME live \in Live, NEW r \in Request, Deletes(r), NEW n \in Names
    PROVE  live'[n] = IF n = r.at THEN Absent ELSE live[n]
<1>1. DOMAIN live = Names
    BY DEF Live
<1> QED
    BY <1>1 DEF Deletes

\* A request that is answered, whether the answer arrives or not.
LEMMA PerformedIsolates ==
    ASSUME KeysAreUnique, live \in Live, config \in Config,
           NEW t \in Tasks(todo), \A u \in Tasks(todo) : Sound(u),
           Creates(t.request) \/ Deletes(t.request) \/ Renames(t.request) \/ Updates(t.request),
           Tasks(todo) \subseteq Tasks(todo') \cup {t}, Tasks(todo') \subseteq Tasks(todo),
           UNCHANGED <<config, deletes>>, hist'.failed = hist.failed,
           NEW m \in Expected, FoundInv(m), Isolated(m),
           \A u \in Tasks(todo') : u.request.of = m /\ Founds(u.request)
               => u = t \/ t.request.op = "delete" \/ t.request.of # m
    PROVE  FoundInv(m)' /\ Isolated(m)'
<1> DEFINE r == t.request
<1>1. /\ Sound(t) /\ r \in Request /\ r.at \in Names /\ r.of \in Names
      /\ m \in Names /\ m \in Keys(m) /\ Keys(m) \subseteq Names
      /\ DOMAIN live = Names /\ Keys(m)' = Keys(m)
    BY ConfigType DEF Sound, Request, Live, Keys
<1>2. Created(m)' = Created(m)
    BY DEF Created
<1>3. \A n : Kept(n) => Kept(n)'
    BY DEF Kept
<1>4. Deletes(r) => r.op = "delete" /\ \A n \in Names : live'[n] = IF n = r.at THEN Absent ELSE live[n]
    <2> SUFFICES ASSUME Deletes(r)
                 PROVE  r.op = "delete" /\ \A n \in Names : live'[n] = IF n = r.at THEN Absent ELSE live[n]
        OBVIOUS
    <2>1. r.op = "delete"
        BY DEF Deletes
    <2> HIDE DEF r
    <2> QED
        BY <1>1, <2>1, DeleteOne
<1>5. ~Deletes(r) => r.op # "delete"
    BY DEF Creates, Renames, Updates, Children
<1>6. ~Deletes(r) /\ r.of # m => \A n \in Keys(m) : live'[n] = live[n]
    BY <1>1, <1>5, OthersUnchanged
<1>7. Deletes(r) => \A f \in Parts : ~Sets(r, f)
    BY <1>1, <1>4, SetsNothing
<1>8. ASSUME Deletes(r) \/ r.of # m, NEW repo, Brought(repo, m)
      PROVE  Brought(repo, m)'
    <2> HIDE DEF r
    <2>1. r.of # m \/ \A f \in Parts : ~Sets(r, f)
        BY <1>7, <1>8
    <2> QED
        BY <1>8, <2>1, StillBrought DEF r
<1>9. FoundInv(m)'
    <2> SUFFICES ASSUME NEW u \in Tasks(todo'), u.request.of = m
                 PROVE  /\ u.request.op = "create" => Brought(Created(m), m)'
                        /\ "name" \in u.request.fields /\ live'[u.request.at] # Absent
                               => Brought(live[u.request.at], m)'
        BY DEF FoundInv
    <2>1. u \in Tasks(todo) /\ Sound(u)
        OBVIOUS
    <2>2. /\ u.request.op = "create" => Brought(Created(m), m)
          /\ "name" \in u.request.fields /\ live[u.request.at] # Absent
                 => Brought(live[u.request.at], m)
        BY <2>1 DEF FoundInv
    <2>3. u.request.at \in Keys(m)
        <3>1. u.request.op = "delete" => u.request.at = m
            BY <2>1 DEF Sound
        <3>2. u.request.op # "delete" => u.request.at \in Keys(m)
            BY <2>1 DEF Sound
        <3> QED
            BY <1>1, <3>1, <3>2
    <2>4. CASE Deletes(r)
        <3>1. \A repo : Brought(repo, m) => Brought(repo, m)'
            BY <1>8, <2>4
        <3>2. live'[u.request.at] # Absent => live'[u.request.at] = live[u.request.at]
            BY <1>1, <1>4, <2>3, <2>4
        <3> QED
            BY <1>2, <2>2, <3>1, <3>2
    <2>5. CASE ~Deletes(r) /\ r.of # m
        <3>1. \A repo : Brought(repo, m) => Brought(repo, m)'
            BY <1>8, <2>5
        <3>2. live'[u.request.at] = live[u.request.at]
            BY <1>6, <2>3, <2>5
        <3> QED
            BY <1>2, <2>2, <3>1, <3>2
    <2>6. CASE ~Deletes(r) /\ r.of = m
        <3> SUFFICES ASSUME Founds(u.request)
                     PROVE  /\ u.request.op = "create" => Brought(Created(m), m)'
                            /\ "name" \in u.request.fields /\ live'[u.request.at] # Absent
                                   => Brought(live[u.request.at], m)'
            BY DEF Founds
        <3>1. u = t
            BY <1>5, <2>6
        <3>2. t \in Tasks(todo')
            BY <3>1
        <3>3. Tasks(todo) = Tasks(todo')
            BY <3>2
        <3>4. \A repo : Brought(repo, m) => Brought(repo, m)'
            BY <3>3 DEF Brought, Matches, Waits
        <3>5. "name" \in r.fields => live'[r.at] = Absent
            <4> SUFFICES ASSUME "name" \in r.fields
                         PROVE  live'[r.at] = Absent
                OBVIOUS
            <4>1. r.at # r.of
                BY <1>1 DEF Sound
            <4>2. Renames(r)
                BY <2>6, <4>1 DEF Creates, Updates
            <4> HIDE DEF r
            <4> QED
                BY <1>1, <4>2 DEF Renames
        <3> QED
            BY <1>2, <2>2, <3>1, <3>4, <3>5
    <2> QED
        BY <2>4, <2>5, <2>6
<1>10. Isolated(m)'
    <2>1. \/ live[m] # Absent => Brought(live[m], m)
          \/ \E n \in Keys(m) \ {m} : live[n] # Absent /\ Kept(n)
        BY DEF Isolated
    <2>2. CASE Deletes(r)
        <3>1. \A repo : Brought(repo, m) => Brought(repo, m)'
            BY <1>8, <2>2
        <3>2. \A n \in Names : live'[n] = IF n = r.at THEN Absent ELSE live[n]
            BY <1>4, <2>2
        <3>3. \A n \in Names : Kept(n) => live'[n] = live[n]
            BY <1>4, <2>2, <3>2 DEF Kept
        <3>4. CASE live[m] # Absent => Brought(live[m], m)
            BY <1>1, <3>1, <3>2, <3>4 DEF Isolated
        <3>5. CASE \E n \in Keys(m) \ {m} : live[n] # Absent /\ Kept(n)
            BY <1>1, <1>3, <3>3, <3>5 DEF Isolated
        <3> QED
            BY <2>1, <3>4, <3>5
    <2>3. CASE ~Deletes(r) /\ r.of # m
        <3>1. \A repo : Brought(repo, m) => Brought(repo, m)'
            BY <1>8, <2>3
        <3>2. \A n \in Keys(m) : live'[n] = live[n]
            BY <1>6, <2>3
        <3> QED
            BY <1>1, <1>3, <2>1, <3>1, <3>2 DEF Isolated
    <2>4. CASE Creates(r) /\ r.of = m
        <3>1. r.op = "create" /\ live'[m] = Created(m)
            BY <1>1, <2>4 DEF Creates
        <3>2. Brought(Created(m), m)
            BY <2>4, <3>1 DEF FoundInv
        <3>3. \A f \in Parts : ~Sets(r, f)
            BY <1>1, <3>1, SetsNothing
        <3>4. Brought(Created(m), m)'
            <4> HIDE DEF r
            <4>1. \A repo : Brought(repo, m) => Brought(repo, m)'
                BY <3>3, StillBrought DEF r
            <4> QED
                BY <1>2, <3>2, <4>1
        <3> QED
            BY <1>2, <3>1, <3>4 DEF Isolated
    <2>5. CASE Renames(r) /\ r.of = m
        <3>1. /\ r.at # m /\ live[r.at] \in Repo /\ live'[m] = Updated(live[r.at], r)
              /\ "name" \in r.fields
            BY <1>1, <2>5 DEF Renames, Sound
        <3>2. live[r.at] # Absent
            BY <3>1, RepoParts
        <3>3. Brought(live[r.at], m)
            BY <2>5, <3>1, <3>2 DEF FoundInv
        <3>4. PICK repo \in Repo : repo = live[r.at]
            BY <3>1
        <3>5. Brought(Updated(repo, r), m)'
            BY <1>1, <2>5, <3>3, <3>4, UpdatedIsBrought
        <3>6. Updated(repo, r)' = live'[m]
            BY <3>1, <3>4 DEF Updated
        <3>7. Brought(live[m], m)'
            BY <3>5, <3>6
        <3> QED
            BY <3>7 DEF Isolated
    <2>6. CASE Updates(r) /\ r.of = m
        <3>1. /\ r.at = m /\ live[m] \in Repo
              /\ live' = [live EXCEPT ![m] = Updated(live[m], r)]
            BY <2>6 DEF Updates
        <3>2. live'[m] = Updated(live[m], r) /\ \A n \in Names : n # m => live'[n] = live[n]
            BY <1>1, <3>1
        <3>3. CASE Brought(live[m], m)
            <4>1. PICK repo \in Repo : repo = live[m]
                BY <3>1
            <4>2. Brought(Updated(repo, r), m)'
                BY <1>1, <2>6, <3>3, <4>1, UpdatedIsBrought
            <4>3. Updated(repo, r)' = live'[m]
                BY <3>2, <4>1 DEF Updated
            <4>4. Brought(live[m], m)'
                BY <4>2, <4>3
            <4> QED
                BY <4>4 DEF Isolated
        <3>4. CASE \E n \in Keys(m) \ {m} : live[n] # Absent /\ Kept(n)
            BY <1>1, <1>3, <3>2, <3>4 DEF Isolated
        <3>5. live[m] # Absent
            BY <3>1, RepoParts
        <3> QED
            BY <2>1, <3>3, <3>4, <3>5
    <2> QED
        BY <2>2, <2>3, <2>4, <2>5, <2>6
<1> QED
    BY <1>9, <1>10

LEMMA PerformedArchives ==
    ASSUME live \in Live, config \in Config,
           NEW t \in Tasks(todo), \A u \in Tasks(todo) : Sound(u),
           t.readonly => \A u \in Tasks(todo) : u.readonly,
           Creates(t.request) \/ Deletes(t.request) \/ Renames(t.request) \/ Updates(t.request),
           Tasks(todo) \subseteq Tasks(todo') \cup {t}, Tasks(todo') \subseteq Tasks(todo),
           UNCHANGED <<config, deletes>>, hist'.spoilt = hist.spoilt,
           NEW m \in Expected, Archiving(m)
    PROVE  Archiving(m)'
<1> DEFINE r == t.request
<1>0. todo # <<>>
    BY NothingIsLate
<1>5. \A f \in Children : AsConfigured(m, f) \/ <<m, f>> \in hist.spoilt \/ ChildWaits(m, f)
    BY <1>0 DEF Archiving, Spared
<1>1. /\ Sound(t) /\ r \in Request /\ r.at \in Names /\ r.of \in Names
      /\ m \in Names /\ DOMAIN live = Names
    BY ConfigType DEF Sound, Request, Live
<1>2. OwnRequests(m)'
    BY DEF Archiving, OwnRequests
<1>3. CASE r.at # m /\ r.of # m
    <2>1. live'[m] = live[m]
        <3> HIDE DEF r
        <3>1. CASE Creates(r)
            BY <1>1, <1>3, <3>1 DEF Creates
        <3>2. CASE Deletes(r)
            BY <1>1, <1>3, <3>2 DEF Deletes
        <3>3. CASE Renames(r)
            BY <1>1, <1>3, <3>3 DEF Renames
        <3>4. CASE Updates(r)
            BY <1>1, <1>3, <3>4 DEF Updates
        <3> QED
            BY <3>1, <3>2, <3>3, <3>4 DEF r
    <2>2. \A f \in Children : ChildWaits(m, f) => ChildWaits(m, f)'
        <3> SUFFICES ASSUME NEW f \in Children, ChildWaits(m, f)
                     PROVE  ChildWaits(m, f)'
            OBVIOUS
        <3>1. PICK u \in Tasks(todo) : /\ u.request.op = f /\ u.request.of = m
                                       /\ u.type = "add" <=> live[m][f] = Absent
            BY DEF ChildWaits
        <3>2. u \in Tasks(todo')
            BY <1>3, <3>1
        <3> QED
            BY <2>1, <3>1, <3>2 DEF ChildWaits
    <2>3. \A f \in Children : AsConfigured(m, f) => AsConfigured(m, f)'
        BY <2>1 DEF AsConfigured
    <2> QED
        BY <1>5, <1>2, <2>1, <2>2, <2>3 DEF Archiving
<1>4. CASE r.at = m \/ r.of = m
    <2>1. r.at = m /\ r.of = m /\ (r.op \in Children \/ t.readonly)
        BY <1>4 DEF Archiving, OwnRequests
    <2>2. r.op \in {"patch", "topics"} \cup Children
        BY <1>1, <2>1 DEF Sound
    <2>3. Updates(r)
        BY <2>1, <2>2 DEF Creates, Deletes, Renames, Children
    <2>4. /\ live[m] \in Repo /\ live' = [live EXCEPT ![m] = Updated(live[m], r)]
        BY <2>1, <2>3 DEF Updates
    <2>5. live'[m] = Updated(live[m], r)
        BY <1>1, <2>4
    <2>6. /\ Updated(live[m], r) \in Repo
          /\ \A f \in Parts : Updated(live[m], r)[f] = IF Sets(r, f) THEN config[r.of][f] ELSE live[m][f]
        BY <1>1, <2>1, <2>4, UpdatedFacts
    <2>7. \A f \in Parts : live'[m][f] = IF Sets(r, f) THEN config[m][f] ELSE live[m][f]
        BY <2>1, <2>5, <2>6
    <2>8. live'[m] # Absent
        BY <2>5, <2>6, RepoParts
    <2>9. "archived" \in Parts /\ Children \subseteq Parts
        BY DEF Parts
    <2>10. ASSUME NEW f \in Children
           PROVE  AsConfigured(m, f)' \/ <<m, f>> \in hist'.spoilt \/ ChildWaits(m, f)'
        <3>1. CASE Sets(r, f)
            BY <2>7, <2>9, <3>1 DEF AsConfigured
        <3>2. CASE ~Sets(r, f) /\ AsConfigured(m, f)
            BY <2>7, <2>9, <3>2 DEF AsConfigured
        <3>3. CASE ~Sets(r, f) /\ ChildWaits(m, f)
            <4>1. PICK u \in Tasks(todo) : /\ u.request.op = f /\ u.request.of = m
                                           /\ u.type = "add" <=> live[m][f] = Absent
                BY <3>3 DEF ChildWaits
            <4>2. u # t
                BY <3>3, <4>1 DEF Sets
            <4>3. u \in Tasks(todo') /\ live'[m][f] = live[m][f]
                BY <2>7, <2>9, <3>3, <4>2
            <4>4. ~t.readonly
                BY <4>1 DEF Sound
            <4>5. r.op \in Children /\ r.fields = {}
                <5>1. r.op \in Children
                    BY <2>1, <4>4
                <5> QED
                    BY <1>1, <5>1 DEF Sound, Children
            <4>6. live'[m].archived = live[m].archived
                BY <2>7, <2>9, <4>5 DEF Sets, Children
            <4>7. ~live[m].archived
                BY <3>3 DEF ChildWaits
            <4> QED
                BY <4>1, <4>3, <4>6, <4>7 DEF ChildWaits
        <3> QED
            BY <1>5, <3>1, <3>2, <3>3
    <2> QED
        BY <1>2, <2>8, <2>10 DEF Archiving
<1> QED
    BY <1>3, <1>4

\* A patch that fails for a reason of its own, or is passed over, takes no request
\* with it that a repository to be archived needs; one that fails by accident is noted.
LEMMA DroppedArchives ==
    ASSUME NEW h, SoundPatch(h), Tasks(todo) = TasksOf(h) \cup Tasks(todo'), todo # <<>>,
           UNCHANGED <<live, config, deletes>>, hist.spoilt \subseteq hist'.spoilt,
           \/ ~Possible(HeadTask(h).request, h.type)
           \/ h.type = "remove" /\ ~deletes
           \/ \A f \in Children : HeadTask(h).request.op = f =>
                 <<HeadTask(h).request.of, f>> \in hist'.spoilt,
           NEW m, Archiving(m)
    PROVE  Archiving(m)'
<1>1. OwnRequests(m)' /\ live'[m] # Absent
    BY DEF Archiving, OwnRequests
<1> SUFFICES ASSUME NEW f \in Children
             PROVE  AsConfigured(m, f)' \/ <<m, f>> \in hist'.spoilt \/ ChildWaits(m, f)'
    BY <1>1 DEF Archiving
<1>2. CASE AsConfigured(m, f)
    BY <1>2 DEF AsConfigured
<1>3. CASE ChildWaits(m, f)
    <2>1. PICK u \in Tasks(todo) : /\ u.request.op = f /\ u.request.of = m
                                   /\ u.type = "add" <=> live[m][f] = Absent
        BY <1>3 DEF ChildWaits
    <2>2. CASE u \in Tasks(todo')
        BY <1>3, <2>1, <2>2 DEF ChildWaits
    <2>3. CASE u \in TasksOf(h)
        <3>1. u = HeadTask(h) /\ Sound(u) /\ u.type = h.type
            BY <2>1, <2>3, ShorterFacts
        <3>2. CASE h.type = "remove" /\ ~deletes
            <4>1. config[m][f] = Absent
                BY <2>1, <3>1, <3>2 DEF Sound
            <4> QED
                BY <3>2, <4>1 DEF AsConfigured
        <3>3. CASE ~Possible(HeadTask(h).request, h.type)
            <4>1. u.request.at = m /\ live[m] # Absent /\ ~live[m].archived
                BY <1>3, <2>1 DEF Archiving, OwnRequests, ChildWaits
            <4>2. ~Possible(u.request, u.type)
                BY <3>1, <3>3
            <4> QED
                BY <2>1, <4>1, <4>2 DEF Possible, Children
        <3>4. CASE \A g \in Children : HeadTask(h).request.op = g =>
                      <<HeadTask(h).request.of, g>> \in hist'.spoilt
            BY <2>1, <3>1, <3>4
        <3> QED
            BY <3>2, <3>3, <3>4
    <2> QED
        BY <2>1, <2>2, <2>3
<1> QED
    BY <1>2, <1>3 DEF Archiving, Spared

\* The patch that fails is accounted for; one that is passed over is not needed.
LEMMA DroppedIsolates ==
    ASSUME config \in Config, NEW h, SoundPatch(h), Tasks(todo) = TasksOf(h) \cup Tasks(todo'),
           UNCHANGED <<live, config, deletes>>,
           \/ hist'.failed = hist.failed \cup h.parts
           \/ h.type = "remove" /\ ~deletes /\ hist'.failed = hist.failed,
           NEW m, FoundInv(m), Isolated(m)
    PROVE  FoundInv(m)' /\ Isolated(m)'
<1>1. ASSUME NEW repo, Brought(repo, m)
      PROVE  Brought(repo, m)'
    <2> SUFFICES ASSUME NEW f \in Parts \ hist'.failed
                 PROVE  Matches(repo, m, f)' \/ Waits(m, f)'
        BY DEF Brought
    <2>1. f \in Parts \ hist.failed
        OBVIOUS
    <2>2. CASE Matches(repo, m, f)
        BY <2>2 DEF Matches
    <2>3. CASE Waits(m, f)
        <3>1. PICK u \in Tasks(todo) : f \in u.parts /\ u.request.of = m /\ Sets(u.request, f)
            BY <2>3 DEF Waits
        <3>2. CASE u \in Tasks(todo')
            BY <3>1, <3>2 DEF Waits
        <3>3. CASE u \in TasksOf(h)
            <4>1. u.parts = h.parts /\ u.type = h.type /\ Sound(u)
                BY <3>3 DEF TasksOf, Task, SoundPatch
            <4>2. u.type = "remove" /\ ~deletes
                BY <2>1, <3>1, <4>1
            <4>3. f \in Children /\ config[m][f] = Absent
                BY <3>1, <4>1, <4>2, RemovalSets
            <4> QED
                BY <4>2, <4>3 DEF Matches
        <3> QED
            BY <3>1, <3>2, <3>3
    <2>4. Matches(repo, m, f) \/ Waits(m, f)
        BY <1>1, <2>1 DEF Brought
    <2> QED
        BY <2>2, <2>3, <2>4
<1>2. Created(m)' = Created(m) /\ Keys(m)' = Keys(m)
    BY DEF Created, Keys
<1>3. \A n : Kept(n) => Kept(n)'
    BY DEF Kept
<1>4. FoundInv(m)'
    BY <1>1, <1>2 DEF FoundInv
<1>5. Isolated(m)'
    BY <1>1, <1>2, <1>3 DEF Isolated
<1> QED
    BY <1>4, <1>5

-----------------------------------------------------------------------------
(* The invariant is inductive.                                             *)

LEMMA SoundTasks ==
    ASSUME TodoInv
    PROVE  \A t \in Tasks(todo) : Sound(t)
<1> SUFFICES ASSUME NEW t \in Tasks(todo)
             PROVE  Sound(t)
    OBVIOUS
<1>1. PICK i \in DOMAIN todo : t \in TasksOf(todo[i])
    BY DEF Tasks, Range
<1> QED
    BY <1>1 DEF TodoInv, SoundPatch

\* The request that is sent now.
LEMMA SendingFacts ==
    ASSUME IInv, todo # <<>>, NEW h, h = Head(todo), NEW t, t = HeadTask(h)
    PROVE  /\ SoundPatch(h) /\ h \in Patch /\ t \in Tasks(todo) /\ Sound(t)
           /\ t.request = Now /\ t.type = h.type
           /\ \A u \in Tasks(todo) : Sound(u)
           /\ KeysAreUnique /\ t.readonly => \A u \in Tasks(todo) : u.readonly
           /\ KeysAreUnique => \A u \in Tasks(todo) :
                 Founds(u.request) /\ ~config[u.request.of].archived =>
                     u = t \/ t.request.op = "delete" \/ t.request.of # u.request.of
           /\ KeysAreUnique => \A u \in Tasks(Advanced(todo)) :
                 Founds(u.request) /\ ~config[u.request.of].archived =>
                     t.request.op = "delete" \/ t.request.of # u.request.of
<1>1. todo \in Seq(Patch) /\ \A i \in DOMAIN todo : SoundPatch(todo[i])
    BY DEF IInv, TypeOK, TodoInv
<1>2. /\ Tasks(todo) = TasksOf(h) \cup Tasks(Tail(todo))
      /\ SoundPatch(h) /\ h \in Patch
    BY <1>1, TailFacts
<1>3. /\ t \in TasksOf(h) /\ t.request = Now /\ t.type = h.type /\ t.readonly = h.readonly /\ Sound(t)
      /\ \A u \in TasksOf(h) : Founds(u.request) => u = t
    BY <1>2, ShorterFacts DEF Now
<1>4. \A u \in Tasks(todo) : Sound(u)
    BY SoundTasks DEF IInv
<1>5. ASSUME KeysAreUnique, t.readonly, NEW u \in Tasks(todo)
      PROVE  u.readonly
    <2>1. CASE u \in TasksOf(h)
        BY <1>3, <1>5, <2>1 DEF TasksOf, Task
    <2>2. CASE u \in Tasks(Tail(todo))
        <3>1. Follows(todo, ReadonlyLast)
            BY <1>5 DEF IInv, OrderInv
        <3>2. PICK q \in Patch : u \in TasksOf(q) /\ <<h, q>> \in ReadonlyLast
            BY <1>1, <2>2, <3>1, AfterHead
        <3>3. q.readonly
            BY <1>3, <1>5, <3>2 DEF ReadonlyLast
        <3> QED
            BY <3>2, <3>3 DEF TasksOf, Task
    <2> QED
        BY <1>2, <1>5, <2>1, <2>2
<1>6. ASSUME KeysAreUnique, NEW u \in Tasks(Tail(todo)), Founds(u.request),
             ~config[u.request.of].archived, t.request.op # "delete"
      PROVE  t.request.of # u.request.of
    <2>1. Follows(todo, FoundedFirst)
        BY <1>6 DEF IInv, OrderInv
    <2>2. PICK q \in Patch : u \in TasksOf(q) /\ <<h, q>> \in FoundedFirst
        BY <1>1, <1>6, <2>1, AfterHead
    <2> QED
        BY <1>3, <1>6, <2>2 DEF FoundedFirst
<1>7. ASSUME KeysAreUnique, NEW u \in Tasks(todo), Founds(u.request), ~config[u.request.of].archived,
             t.request.op # "delete", u # t
      PROVE  t.request.of # u.request.of
    <2>1. u \in Tasks(Tail(todo))
        BY <1>2, <1>3, <1>7
    <2> QED
        BY <1>6, <1>7, <2>1
<1>8. ASSUME KeysAreUnique, NEW u \in Tasks(Advanced(todo)), Founds(u.request),
             ~config[u.request.of].archived, t.request.op # "delete"
      PROVE  t.request.of # u.request.of
    <2>1. u \in Tasks(Tail(todo))
        BY <1>1, <1>8, AdvancedFacts
    <2> QED
        BY <1>6, <1>8, <2>1
<1> QED
    BY <1>2, <1>3, <1>4, <1>5, <1>7, <1>8

LEMMA Initial ==
    ASSUME Init
    PROVE  IInv
<1>1. todo = <<>> /\ todo \in Seq(Patch) /\ DOMAIN todo = {}
    BY EmptySeq, LenProperties DEF Init
<1>2. TypeOK
    <2>1. live \in Live /\ config \in Config /\ deletes \in BOOLEAN
        BY InputsAssumption DEF Init
    <2>2. count \in [runs : Nat, drifts : Nat, failures : Nat]
        BY DEF Init
    <2>3. hist \in [disturbed : BOOLEAN, failed : SUBSET Parts, creates : BOOLEAN,
                    clash : BOOLEAN, archives : SUBSET (Names \X Names),
                    spoilt : SUBSET (Names \X Children)]
        BY DEF Init
    <2> QED
        BY <1>1, <2>1, <2>2, <2>3 DEF TypeOK, Init
<1>3. TodoInv
    BY <1>1 DEF TodoInv
<1>4. OrderInv
    BY <1>1 DEF OrderInv, Follows
<1>5. ArchiveInv /\ IsolationInv
    BY DEF ArchiveInv, Archived, IsolationInv, Init
<1> QED
    BY <1>2, <1>3, <1>4, <1>5 DEF IInv

LEMMA PlanStep ==
    ASSUME IInv, Plan
    PROVE  IInv'
<1> USE DEF IInv
<1>1. TypeOK /\ config \in Config /\ live \in Live
    BY DEF TypeOK
<1>2. /\ live' = live /\ config' = config /\ deletes' = deletes
      /\ pc' \in {"applying", "done"}
      /\ hist'.disturbed = FALSE
      /\ hist'.archives = {p \in Names \X Names :
                                /\ p[2] \in Expected /\ Takes(live, p[2], p[1])
                                /\ ~live[p[1]].archived /\ config[p[2]].archived}
      /\ hist'.spoilt = {}
    BY DEF Plan
<1>3. (KeysAreUnique <=> KeysAreUnique') /\ Expected' = Expected
    BY <1>2 DEF KeysAreUnique, Expected, Keys
<1>4. /\ count' \in [runs : Nat, drifts : Nat, failures : Nat]
      /\ hist' \in [disturbed : BOOLEAN, failed : SUBSET Parts, creates : BOOLEAN,
                    clash : BOOLEAN, archives : SUBSET (Names \X Names),
                    spoilt : SUBSET (Names \X Children)]
    <2>1. \A c \in [runs : Nat, drifts : Nat, failures : Nat] :
              [c EXCEPT !.runs = @ + 1] \in [runs : Nat, drifts : Nat, failures : Nat]
        OBVIOUS
    <2>2. {p \in Names \X Names :
              /\ p[2] \in Expected /\ Takes(live, p[2], p[1])
              /\ ~live[p[1]].archived /\ config[p[2]].archived} \in SUBSET (Names \X Names)
        OBVIOUS
    <2> QED
        BY <2>1, <2>2 DEF Plan, TypeOK
<1>5. CASE ~KeysAreUnique
    <2>1. pc' = "done" /\ todo' = <<>> /\ errors' = 1
        BY <1>5 DEF Plan
    <2>2. todo' \in Seq(Patch) /\ DOMAIN todo' = {}
        BY <2>1, EmptySeq, LenProperties
    <2>3. TypeOK'
        BY <1>1, <1>2, <1>4, <2>1, <2>2 DEF TypeOK
    <2> QED
        BY <1>3, <1>5, <2>1, <2>2, <2>3
        DEF TodoInv, OrderInv, ArchiveInv, IsolationInv
<1>6. CASE KeysAreUnique
    <2>1. pc' = "applying" /\ todo' = InOrder(Patches(live)) /\ errors' = 0
        BY <1>6 DEF Plan
    <2>2. /\ todo' \in Seq(Patch) /\ \A i \in DOMAIN todo' : SoundPatch(todo'[i])
          /\ Follows(todo', ReadonlyLast) /\ Follows(todo', FoundedFirst)
          /\ Tasks(todo') = Tasks(Patches(live))
        BY <1>1, <1>6, <2>1, PlanFacts
    <2>3. \A p : SoundPatch(p) => SoundPatch(p)'
        BY <1>2 DEF SoundPatch, Sound, Expected, Keys
    <2>4. TodoInv'
        BY <2>1, <2>2, <2>3 DEF TodoInv
    <2>5. TypeOK'
        BY <1>1, <1>2, <1>4, <2>1, <2>2 DEF TypeOK, SoundPatch
    <2>6. OrderInv'
        <3>1. FoundedFirst' = FoundedFirst
            BY <1>2 DEF FoundedFirst
        <3> QED
            BY <2>2, <3>1 DEF OrderInv, Follows, ReadonlyLast
    <2>7. \A t \in Tasks(todo') : Sound(t)
        <3> SUFFICES ASSUME NEW t \in Tasks(todo')
                     PROVE  Sound(t)
            OBVIOUS
        <3>1. PICK i \in DOMAIN todo' : t \in TasksOf(todo'[i])
            BY DEF Tasks, Range
        <3> QED
            BY <2>2, <3>1 DEF SoundPatch
    <2>8. ArchiveInv'
        <3> SUFFICES ASSUME NEW m, <<m, m>> \in hist'.archives
                     PROVE  m \in Expected' /\ Archiving(m)'
            BY DEF ArchiveInv, Archived
        <3>1. m \in Expected /\ Takes(live, m, m) /\ ~live[m].archived /\ config[m].archived
            BY <1>2
        <3>2. /\ live[m] # Absent
              /\ OwnRequests(m)'
              /\ \A f \in Children : AsConfigured(m, f)' \/ ChildWaits(m, f)'
            BY <1>1, <1>2, <1>6, <2>2, <2>7, <3>1, PlanArchives
        <3> QED
            BY <1>2, <1>3, <3>1, <3>2 DEF Archiving
    <2>9. IsolationInv'
        <3> SUFFICES ASSUME NEW m \in Expected, ~config[m].archived
                     PROVE  FoundInv(m)' /\ Isolated(m)'
            BY <1>2, <1>3 DEF IsolationInv
        <3> QED
            BY <1>1, <1>2, <1>6, <2>2, <2>7, PlanIsolates
    <2> QED
        BY <2>4, <2>5, <2>6, <2>8, <2>9
<1> QED
    BY <1>5, <1>6

LEMMA ConfigKept ==
    ASSUME UNCHANGED config
    PROVE  /\ KeysAreUnique <=> KeysAreUnique'
           /\ Expected' = Expected
           /\ \A p : SoundPatch(p) => SoundPatch(p)'
           /\ FoundedFirst' = FoundedFirst
BY DEF KeysAreUnique, Expected, Keys, SoundPatch, Sound, FoundedFirst

\* The patches that are left keep what is known of them.
LEMMA LessToDo ==
    ASSUME IInv, UNCHANGED config, todo # <<>>, todo' \in {Tail(todo), Advanced(todo)},
           pc' = pc
    PROVE  /\ todo' \in Seq(Patch) /\ \A i \in DOMAIN todo' : todo'[i].requests # <<>>
           /\ TodoInv' /\ OrderInv'
<1>1. todo \in Seq(Patch) /\ \A i \in DOMAIN todo : SoundPatch(todo[i])
    BY DEF IInv, TypeOK, TodoInv
<1>2. /\ todo' \in Seq(Patch) /\ \A i \in DOMAIN todo' : SoundPatch(todo'[i])
      /\ Follows(todo, ReadonlyLast) => Follows(todo', ReadonlyLast)
      /\ Follows(todo, FoundedFirst) => Follows(todo', FoundedFirst)
    BY <1>1, TailFacts, AdvancedFacts
<1>3. pc = "applying"
    BY DEF IInv, TodoInv
<1>4. TodoInv'
    BY <1>2, <1>3, ConfigKept DEF TodoInv
<1>5. OrderInv'
    <2>1. OrderInv
        BY DEF IInv
    <2>2. ReadonlyLast' = ReadonlyLast
        BY DEF ReadonlyLast
    <2>3. \A R : Follows(todo, R)' <=> Follows(todo', R)
        BY DEF Follows
    <2> QED
        BY <1>2, <2>1, <2>2, <2>3, ConfigKept DEF OrderInv
<1>6. \A i \in DOMAIN todo' : todo'[i].requests # <<>>
    BY <1>2 DEF SoundPatch
<1> QED
    BY <1>2, <1>4, <1>5, <1>6

LEMMA SkipStep ==
    ASSUME IInv, Skip
    PROVE  IInv'
<1> DEFINE h == Head(todo)
<1>1. /\ pc = "applying" /\ todo # <<>> /\ h.type = "remove" /\ ~deletes /\ todo' = Tail(todo)
      /\ UNCHANGED <<live, config, deletes, pc, errors, count, hist>>
    BY DEF Skip, IsApplied
<1>2. TodoInv' /\ OrderInv' /\ todo' \in Seq(Patch) /\ \A i \in DOMAIN todo' : todo'[i].requests # <<>>
    BY <1>1, LessToDo
<1>3. TypeOK'
    BY <1>1, <1>2 DEF IInv, TypeOK
<1>4. Tasks(todo) = TasksOf(h) \cup Tasks(todo') /\ SoundPatch(h)
    BY <1>1, TailFacts DEF IInv, TypeOK, TodoInv
<1> HIDE DEF h
<1>5. ArchiveInv'
    <2> SUFFICES ASSUME KeysAreUnique', NEW m, Archived(m)'
                 PROVE  m \in Expected' /\ Archiving(m)'
        BY DEF ArchiveInv
    <2>1. KeysAreUnique /\ Archived(m)
        BY <1>1, ConfigKept DEF Archived
    <2>2. m \in Expected /\ Archiving(m)
        BY <2>1 DEF IInv, ArchiveInv
    <2> QED
        BY <1>1, <1>4, <2>2, DroppedArchives, ConfigKept
<1>6. IsolationInv'
    <2> SUFFICES ASSUME KeysAreUnique, pc # "idle", NEW m \in Expected, ~config[m].archived
                 PROVE  FoundInv(m)' /\ Isolated(m)'
        BY <1>1, ConfigKept DEF IsolationInv
    <2>1. FoundInv(m) /\ Isolated(m)
        BY DEF IInv, IsolationInv
    <2> QED
        BY <1>1, <1>4, <2>1, DroppedIsolates DEF IInv, TypeOK
<1> QED
    BY <1>2, <1>3, <1>5, <1>6 DEF IInv

LEMMA SucceedStep ==
    ASSUME IInv, Succeed
    PROVE  IInv'
<1>1. PICK h : h = Head(todo)
    OBVIOUS
<1>2. PICK t : t = HeadTask(h)
    OBVIOUS
<1>3. /\ pc = "applying" /\ todo # <<>> /\ Possible(Now, Head(todo).type) /\ live' = Effect(Now)
      /\ todo' = Advanced(todo)
      /\ UNCHANGED <<config, deletes, pc, errors, count, hist>>
    BY DEF Succeed, Sending, Advanced
<1>4. live \in Live /\ config \in Config
    BY DEF IInv, TypeOK
<1>5. /\ SoundPatch(h) /\ t \in Tasks(todo) /\ Sound(t)
      /\ t.request = Now /\ t.type = h.type
      /\ \A u \in Tasks(todo) : Sound(u)
      /\ KeysAreUnique /\ t.readonly => \A u \in Tasks(todo) : u.readonly
      /\ KeysAreUnique => \A u \in Tasks(todo) :
            Founds(u.request) /\ ~config[u.request.of].archived =>
                u = t \/ t.request.op = "delete" \/ t.request.of # u.request.of
    BY <1>1, <1>2, <1>3, SendingFacts
<1>6. /\ live' \in Live
      /\ Creates(t.request) \/ Deletes(t.request) \/ Renames(t.request) \/ Updates(t.request)
    BY <1>1, <1>3, <1>4, <1>5, EffectCases
<1>7. TodoInv' /\ OrderInv' /\ todo' \in Seq(Patch) /\ \A i \in DOMAIN todo' : todo'[i].requests # <<>>
    BY <1>3, LessToDo
<1>8. TypeOK'
    BY <1>3, <1>6, <1>7 DEF IInv, TypeOK
<1>9. Tasks(todo) = {t} \cup Tasks(todo')
    <2>1. todo \in Seq(Patch) /\ \A i \in DOMAIN todo : SoundPatch(todo[i])
        BY DEF IInv, TypeOK, TodoInv
    <2> QED
        BY <1>1, <1>2, <1>3, <2>1, AdvancedFacts
<1>10. ArchiveInv'
    <2> SUFFICES ASSUME KeysAreUnique', NEW m, Archived(m)'
                 PROVE  m \in Expected' /\ Archiving(m)'
        BY DEF ArchiveInv
    <2>1. KeysAreUnique /\ Archived(m)
        BY <1>3, ConfigKept DEF Archived
    <2>2. m \in Expected /\ Archiving(m)
        BY <2>1 DEF IInv, ArchiveInv
    <2>3. t.readonly => \A u \in Tasks(todo) : u.readonly
        BY <1>5, <2>1, Zenon
    <2>4. Tasks(todo) \subseteq Tasks(todo') \cup {t} /\ Tasks(todo') \subseteq Tasks(todo)
        BY <1>9
    <2>5. Archiving(m)'
        BY <1>3, <1>4, <1>5, <1>6, <2>2, <2>3, <2>4, PerformedArchives
    <2> QED
        BY <1>3, <2>2, <2>5, ConfigKept
<1>11. IsolationInv'
    <2> SUFFICES ASSUME KeysAreUnique, pc # "idle", NEW m \in Expected, ~config[m].archived
                 PROVE  FoundInv(m)' /\ Isolated(m)'
        BY <1>3, ConfigKept DEF IsolationInv
    <2>1. FoundInv(m) /\ Isolated(m)
        BY DEF IInv, IsolationInv
    <2>2. Tasks(todo) \subseteq Tasks(todo') \cup {t} /\ Tasks(todo') \subseteq Tasks(todo)
        BY <1>9
    <2>3. \A u \in Tasks(todo') : u.request.of = m /\ Founds(u.request)
              => u = t \/ t.request.op = "delete" \/ t.request.of # m
        BY <1>5, <2>2
    <2>4. hist'.failed = hist.failed
        BY <1>3
    <2> QED
        BY <1>3, <1>4, <1>5, <1>6, <2>1, <2>2, <2>3, <2>4, PerformedIsolates
<1> QED
    BY <1>7, <1>8, <1>10, <1>11 DEF IInv

LEMMA LoseAnswerStep ==
    ASSUME IInv, LoseAnswer
    PROVE  IInv'
<1>1. PICK h : h = Head(todo)
    OBVIOUS
<1>2. PICK t : t = HeadTask(h)
    OBVIOUS
<1>3. /\ pc = "applying" /\ todo # <<>> /\ Possible(Now, Head(todo).type) /\ live' = Effect(Now)
      /\ count' = [count EXCEPT !.failures = @ + 1]
      /\ hist' = [hist EXCEPT !.disturbed = TRUE]
      /\ UNCHANGED <<config, deletes, pc, todo, errors>>
    BY DEF LoseAnswer, Sending
<1>4. live \in Live /\ config \in Config
    BY DEF IInv, TypeOK
<1>5. /\ t \in Tasks(todo) /\ Sound(t) /\ t.request = Now /\ t.type = h.type
      /\ \A u \in Tasks(todo) : Sound(u)
      /\ KeysAreUnique /\ t.readonly => \A u \in Tasks(todo) : u.readonly
      /\ KeysAreUnique => \A u \in Tasks(todo) :
            Founds(u.request) /\ ~config[u.request.of].archived =>
                u = t \/ t.request.op = "delete" \/ t.request.of # u.request.of
    BY <1>1, <1>2, <1>3, SendingFacts
<1>6. /\ live' \in Live
      /\ Creates(t.request) \/ Deletes(t.request) \/ Renames(t.request) \/ Updates(t.request)
    BY <1>1, <1>3, <1>4, <1>5, EffectCases
<1>7. /\ hist'.failed = hist.failed
      /\ hist'.archives = hist.archives /\ hist'.spoilt = hist.spoilt
    BY <1>3 DEF IInv, TypeOK
<1>8. TypeOK'
    <2>1. \A c \in [runs : Nat, drifts : Nat, failures : Nat] :
              [c EXCEPT !.failures = @ + 1] \in [runs : Nat, drifts : Nat, failures : Nat]
        OBVIOUS
    <2> QED
        BY <1>3, <1>6, <2>1 DEF IInv, TypeOK
<1>9. TodoInv' /\ OrderInv'
    <2>1. TodoInv'
        BY <1>3, ConfigKept DEF IInv, TodoInv
    <2>2. OrderInv'
        BY <1>3, ConfigKept DEF IInv, OrderInv, Follows, ReadonlyLast
    <2> QED
        BY <2>1, <2>2
<1>10. ArchiveInv'
    <2> SUFFICES ASSUME KeysAreUnique', NEW m, Archived(m)'
                 PROVE  m \in Expected' /\ Archiving(m)'
        BY DEF ArchiveInv
    <2>1. KeysAreUnique /\ Archived(m)
        BY <1>3, <1>7, ConfigKept DEF Archived
    <2>2. m \in Expected /\ Archiving(m)
        BY <2>1 DEF IInv, ArchiveInv
    <2>3. t.readonly => \A u \in Tasks(todo) : u.readonly
        BY <1>5, <2>1, Zenon
    <2>4. Tasks(todo) \subseteq Tasks(todo') \cup {t} /\ Tasks(todo') \subseteq Tasks(todo)
        BY <1>3
    <2>5. Archiving(m)'
        BY <1>3, <1>4, <1>5, <1>6, <1>7, <2>2, <2>3, <2>4, PerformedArchives
    <2> QED
        BY <1>3, <2>2, <2>5, ConfigKept
<1>11. IsolationInv'
    <2> SUFFICES ASSUME KeysAreUnique, pc # "idle", NEW m \in Expected, ~config[m].archived
                 PROVE  FoundInv(m)' /\ Isolated(m)'
        BY <1>3, ConfigKept DEF IsolationInv
    <2>1. FoundInv(m) /\ Isolated(m)
        BY DEF IInv, IsolationInv
    <2>2. Tasks(todo) \subseteq Tasks(todo') \cup {t} /\ Tasks(todo') \subseteq Tasks(todo)
        BY <1>3
    <2>3. \A u \in Tasks(todo') : u.request.of = m /\ Founds(u.request)
              => u = t \/ t.request.op = "delete" \/ t.request.of # m
        BY <1>5, <2>2
    <2> QED
        BY <1>3, <1>4, <1>5, <1>6, <1>7, <2>1, <2>2, <2>3, PerformedIsolates
<1> QED
    BY <1>8, <1>9, <1>10, <1>11 DEF IInv

LEMMA FailStep ==
    ASSUME IInv, Fail
    PROVE  IInv'
<1>1. PICK h : h = Head(todo)
    OBVIOUS
<1>2. /\ pc = "applying" /\ todo # <<>> /\ todo' = Tail(todo) /\ errors' = errors + 1
      /\ UNCHANGED <<live, config, deletes, pc>>
      /\ \/ /\ count' = [count EXCEPT !.failures = @ + 1]
            /\ hist' = [hist EXCEPT !.failed = @ \cup h.parts, !.disturbed = TRUE,
                                    !.spoilt = @ \cup ({Now.of} \X ({Now.op} \cap Children))]
         \/ /\ ~Possible(Now, h.type)
            /\ count' = count
            /\ hist' = [hist EXCEPT !.failed = @ \cup h.parts]
    BY <1>1 DEF Fail, Sending, AfterFailure
<1>3. /\ SoundPatch(h) /\ h \in Patch
      /\ HeadTask(h).request = Now /\ HeadTask(h).type = h.type
    BY <1>1, <1>2, SendingFacts
<1>13. Now.of \in Names
    <2>1. Sound(HeadTask(h))
        BY <1>1, <1>2, SendingFacts
    <2> QED
        BY <1>3, <2>1 DEF Sound, Request
<1>4. TodoInv' /\ OrderInv' /\ todo' \in Seq(Patch) /\ \A i \in DOMAIN todo' : todo'[i].requests # <<>>
    BY <1>2, LessToDo
<1>5. h.parts \in SUBSET Parts
    BY <1>3 DEF Patch
<1>6. /\ hist \in [disturbed : BOOLEAN, failed : SUBSET Parts, creates : BOOLEAN,
                   clash : BOOLEAN, archives : SUBSET (Names \X Names),
                   spoilt : SUBSET (Names \X Children)]
      /\ count \in [runs : Nat, drifts : Nat, failures : Nat]
    BY DEF IInv, TypeOK
<1>7. /\ hist' \in [disturbed : BOOLEAN, failed : SUBSET Parts, creates : BOOLEAN,
                    clash : BOOLEAN, archives : SUBSET (Names \X Names),
                    spoilt : SUBSET (Names \X Children)]
      /\ hist'.failed = hist.failed \cup h.parts /\ hist'.archives = hist.archives
      /\ hist.spoilt \subseteq hist'.spoilt
      /\ \/ ~Possible(Now, h.type)
         \/ \A f \in Children : Now.op = f => <<Now.of, f>> \in hist'.spoilt
    <2>1. CASE hist' = [hist EXCEPT !.failed = @ \cup h.parts, !.disturbed = TRUE,
                                    !.spoilt = @ \cup ({Now.of} \X ({Now.op} \cap Children))]
        <3>1. {Now.of} \X ({Now.op} \cap Children) \in SUBSET (Names \X Children)
            BY <1>13
        <3> DEFINE new == {Now.of} \X ({Now.op} \cap Children)
        <3>2. \A f \in Children : Now.op = f => <<Now.of, f>> \in new
            OBVIOUS
        <3> HIDE DEF new
        <3> QED
            BY <1>5, <1>6, <2>1, <3>1, <3>2 DEF new
    <2>2. CASE ~Possible(Now, h.type) /\ hist' = [hist EXCEPT !.failed = @ \cup h.parts]
        BY <1>5, <1>6, <2>2
    <2> QED
        BY <1>2, <2>1, <2>2
<1>8. count' \in [runs : Nat, drifts : Nat, failures : Nat]
    BY <1>2, <1>6
<1>9. TypeOK'
    BY <1>2, <1>4, <1>7, <1>8 DEF IInv, TypeOK
<1>10. Tasks(todo) = TasksOf(h) \cup Tasks(todo')
    BY <1>1, <1>2, TailFacts DEF IInv, TypeOK, TodoInv
<1>11. ArchiveInv'
    <2> SUFFICES ASSUME KeysAreUnique', NEW m, Archived(m)'
                 PROVE  m \in Expected' /\ Archiving(m)'
        BY DEF ArchiveInv
    <2>1. KeysAreUnique /\ Archived(m)
        BY <1>2, <1>7, ConfigKept DEF Archived
    <2>2. m \in Expected /\ Archiving(m)
        BY <2>1 DEF IInv, ArchiveInv
    <2>3. \/ ~Possible(HeadTask(h).request, h.type)
          \/ \A f \in Children : HeadTask(h).request.op = f =>
                <<HeadTask(h).request.of, f>> \in hist'.spoilt
        BY <1>3, <1>7
    <2>4. Archiving(m)'
        BY <1>2, <1>3, <1>7, <1>10, <2>2, <2>3, DroppedArchives
    <2> QED
        BY <1>2, <2>2, <2>4, ConfigKept
<1>12. IsolationInv'
    <2> SUFFICES ASSUME KeysAreUnique, pc # "idle", NEW m \in Expected, ~config[m].archived
                 PROVE  FoundInv(m)' /\ Isolated(m)'
        BY <1>2, ConfigKept DEF IsolationInv
    <2>1. FoundInv(m) /\ Isolated(m)
        BY DEF IInv, IsolationInv
    <2>2. config \in Config
        BY DEF IInv, TypeOK
    <2> QED
        BY <1>2, <1>3, <1>7, <1>10, <2>1, <2>2, DroppedIsolates
<1> QED
    BY <1>4, <1>9, <1>11, <1>12 DEF IInv

\* Once every part may have failed, nothing is promised of any repository.
LEMMA NothingIsPromised ==
    ASSUME UNCHANGED config, hist'.failed = Parts
    PROVE  IsolationInv'
<1>1. \A repo, m : Brought(repo, m)'
    BY DEF Brought
<1>2. \A m : FoundInv(m)' /\ Isolated(m)'
    BY <1>1 DEF FoundInv, Isolated
<1> QED
    BY <1>2 DEF IsolationInv

LEMMA AbortStep ==
    ASSUME IInv, Abort
    PROVE  IInv'
<1>1. /\ count' = [count EXCEPT !.failures = @ + 1]
      /\ hist' = [hist EXCEPT !.failed = Parts, !.disturbed = TRUE]
      /\ errors' = errors + 1 /\ todo' = <<>> /\ pc' = "done"
      /\ UNCHANGED <<live, config, deletes>>
    BY DEF Abort
<1>2. /\ hist \in [disturbed : BOOLEAN, failed : SUBSET Parts, creates : BOOLEAN,
                   clash : BOOLEAN, archives : SUBSET (Names \X Names),
                   spoilt : SUBSET (Names \X Children)]
      /\ count \in [runs : Nat, drifts : Nat, failures : Nat]
    BY DEF IInv, TypeOK
<1>3. /\ hist' \in [disturbed : BOOLEAN, failed : SUBSET Parts, creates : BOOLEAN,
                    clash : BOOLEAN, archives : SUBSET (Names \X Names),
                    spoilt : SUBSET (Names \X Children)]
      /\ hist'.failed = Parts
      /\ hist'.archives = hist.archives /\ hist'.spoilt = hist.spoilt
    BY <1>1, <1>2
<1>4. count' \in [runs : Nat, drifts : Nat, failures : Nat]
    BY <1>1, <1>2
<1>5. todo' \in Seq(Patch) /\ DOMAIN todo' = {}
    BY <1>1, EmptySeq, LenProperties
<1>6. TypeOK'
    BY <1>1, <1>3, <1>4, <1>5 DEF IInv, TypeOK
<1>7. TodoInv' /\ OrderInv'
    BY <1>1, <1>5 DEF TodoInv, OrderInv, Follows
<1>9. ArchiveInv'
    <2> SUFFICES ASSUME KeysAreUnique', NEW m, Archived(m)'
                 PROVE  m \in Expected' /\ Archiving(m)'
        BY DEF ArchiveInv
    <2>1. KeysAreUnique /\ Archived(m)
        BY <1>1, <1>3, ConfigKept DEF Archived
    <2>2. m \in Expected /\ Archiving(m)
        BY <2>1 DEF IInv, ArchiveInv
    <2>3. OwnRequests(m)'
        <3>1. Tasks(todo)' = {}
            BY <1>1, NothingIsLate
        <3> QED
            BY <3>1 DEF OwnRequests
    <2>4. ASSUME NEW f \in Children
          PROVE  AsConfigured(m, f)' \/ <<m, f>> \in hist'.spoilt \/ Spared(m)'
        <3>1. AsConfigured(m, f) => AsConfigured(m, f)'
            BY <1>1 DEF AsConfigured
        <3>2. ChildWaits(m, f) \/ Spared(m) => Spared(m)'
            BY <1>1 DEF ChildWaits, Spared
        <3> QED
            BY <1>3, <2>2, <3>1, <3>2 DEF Archiving
    <2> QED
        BY <1>1, <2>2, <2>3, <2>4, ConfigKept DEF Archiving
<1>8. IsolationInv'
    BY <1>1, <1>3, NothingIsPromised
<1> QED
    BY <1>6, <1>7, <1>9, <1>8 DEF IInv

LEMMA DriftStep ==
    ASSUME IInv, Drift
    PROVE  IInv'
<1>1. /\ count' = [count EXCEPT !.drifts = @ + 1]
      /\ UNCHANGED <<config, deletes, pc, todo, errors>>
    BY DEF Drift
<1>11. PICK n \in Existing(live), f \in Parts, r \in Repo :
          /\ live' = [live EXCEPT ![n] = [@ EXCEPT ![f] = r[f]]]
          /\ hist' = [hist EXCEPT !.disturbed = TRUE, !.failed = Parts,
                                  !.spoilt = @ \cup ({n} \X Children)]
    BY DEF Drift
<1>2. /\ hist \in [disturbed : BOOLEAN, failed : SUBSET Parts, creates : BOOLEAN,
                   clash : BOOLEAN, archives : SUBSET (Names \X Names),
                   spoilt : SUBSET (Names \X Children)]
      /\ count \in [runs : Nat, drifts : Nat, failures : Nat]
    BY DEF IInv, TypeOK
<1>3. /\ hist' \in [disturbed : BOOLEAN, failed : SUBSET Parts, creates : BOOLEAN,
                    clash : BOOLEAN, archives : SUBSET (Names \X Names),
                    spoilt : SUBSET (Names \X Children)]
      /\ hist'.failed = Parts /\ hist'.archives = hist.archives
      /\ hist'.spoilt = hist.spoilt \cup ({n} \X Children)
    <2>1. {n} \X Children \in SUBSET (Names \X Children)
        BY DEF Existing
    <2> DEFINE new == {n} \X Children
    <2> HIDE DEF new
    <2> QED
        BY <1>11, <1>2, <2>1 DEF new
<1>4. count' \in [runs : Nat, drifts : Nat, failures : Nat]
    BY <1>1, <1>2
<1>12. live' \in Live /\ live'[n] \in Repo
    <2>2. live \in Live /\ n \in Names /\ live[n] \in Repo
        BY DEF IInv, TypeOK, Existing, Live
    <2>3. [live[n] EXCEPT ![f] = r[f]] \in Repo
        <3>1. \A a, b \in Repo :
                  /\ [a EXCEPT !.archived = b.archived] \in Repo
                  /\ [a EXCEPT !.desc = b.desc] \in Repo
                  /\ [a EXCEPT !.topics = b.topics] \in Repo
                  /\ [a EXCEPT !.hook = b.hook] \in Repo
                  /\ [a EXCEPT !.rule = b.rule] \in Repo
            BY DEF Repo
        <3>2. f \in {"archived", "desc", "topics", "hook", "rule"}
            BY DEF Parts, Children
        <3> QED
            BY <2>2, <3>1, <3>2
    <2>4. live' = [live EXCEPT ![n] = [live[n] EXCEPT ![f] = r[f]]]
        BY <1>11, <2>2
    <2> QED
        BY <2>2, <2>3, <2>4 DEF Live
<1>5. live' \in Live
    BY <1>12
<1>13. live'[n] # Absent
    BY <1>12, RepoParts
<1>6. TypeOK'
    BY <1>1, <1>3, <1>4, <1>5 DEF IInv, TypeOK
<1>7. TodoInv'
    BY <1>1, ConfigKept DEF IInv, TodoInv
<1>8. OrderInv'
    BY <1>1, ConfigKept DEF IInv, OrderInv, Follows, ReadonlyLast
<1>9. ArchiveInv'
    <2> SUFFICES ASSUME KeysAreUnique', NEW m, Archived(m)'
                 PROVE  m \in Expected' /\ Archiving(m)'
        BY DEF ArchiveInv
    <2>1. KeysAreUnique /\ Archived(m)
        BY <1>1, <1>3, ConfigKept DEF Archived
    <2>2. m \in Expected /\ Archiving(m)
        BY <2>1 DEF IInv, ArchiveInv
    <2>3. /\ m \in Names /\ n \in Names /\ live \in Live /\ live' \in Live /\ DOMAIN live = Names
          /\ live[n] # Absent
        BY <1>5, <2>2 DEF Expected, Existing, IInv, TypeOK, Live
    <2>4. OwnRequests(m)'
        BY <1>1, <2>2 DEF Archiving, OwnRequests
    <2>5. CASE n = m
        <3>1. \A g \in Children : <<m, g>> \in hist'.spoilt
            BY <1>3, <2>5
        <3>3. live'[m] # Absent
            BY <1>13, <2>5
        <3> QED
            BY <1>1, <2>2, <2>4, <3>1, <3>3, ConfigKept DEF Archiving
    <2>6. CASE n # m
        <3>1. live'[m] = live[m]
            BY <1>11, <2>3, <2>6
        <3>2. \A g \in Children : <<m, g>> \in hist.spoilt => <<m, g>> \in hist'.spoilt
            BY <1>3
        <3>3. \A g \in Children : /\ AsConfigured(m, g) => AsConfigured(m, g)'
                                  /\ ChildWaits(m, g) => ChildWaits(m, g)'
            BY <1>1, <3>1 DEF AsConfigured, ChildWaits
        <3>4. Spared(m) => Spared(m)'
            BY <1>1, <3>1 DEF Spared
        <3> QED
            BY <1>1, <2>2, <2>4, <3>1, <3>2, <3>3, <3>4, ConfigKept DEF Archiving
    <2> QED
        BY <2>5, <2>6
<1>10. IsolationInv'
    BY <1>1, <1>3, NothingIsPromised
<1> QED
    BY <1>6, <1>7, <1>8, <1>9, <1>10 DEF IInv

LEMMA FinishStep ==
    ASSUME IInv, Finish
    PROVE  IInv'
<1>1. /\ pc = "applying" /\ todo = <<>> /\ pc' = "done"
      /\ UNCHANGED <<live, config, deletes, todo, errors, count, hist>>
    BY DEF Finish
<1>2. TypeOK'
    BY <1>1 DEF IInv, TypeOK
<1>3. TodoInv'
    BY <1>1, ConfigKept DEF IInv, TodoInv
<1>4. OrderInv'
    BY <1>1, ConfigKept DEF IInv, OrderInv, Follows, ReadonlyLast
<1>5. \A m : Archiving(m) => Archiving(m)'
    BY <1>1 DEF Archiving, OwnRequests, AsConfigured, ChildWaits, Spared
<1>6. ArchiveInv'
    BY <1>1, <1>5, ConfigKept DEF IInv, ArchiveInv, Archived
<1>7. \A repo, m : Brought(repo, m) => Brought(repo, m)'
    BY <1>1 DEF Brought, Matches, Waits
<1>8. \A m : FoundInv(m) /\ Isolated(m) => FoundInv(m)' /\ Isolated(m)'
    BY <1>1, <1>7 DEF FoundInv, Isolated, Kept, Keys, Created
<1>9. IsolationInv'
    BY <1>1, <1>8, ConfigKept DEF IInv, IsolationInv
<1> QED
    BY <1>2, <1>3, <1>4, <1>6, <1>9 DEF IInv

LEMMA AgainStep ==
    ASSUME IInv, Again
    PROVE  IInv'
<1>1. /\ pc = "done" /\ pc' = "idle"
      /\ UNCHANGED <<live, config, deletes, todo, errors, count, hist>>
    BY DEF Again
<1>2. TypeOK'
    BY <1>1 DEF IInv, TypeOK
<1>3. TodoInv'
    BY <1>1, ConfigKept DEF IInv, TodoInv
<1>4. OrderInv'
    BY <1>1, ConfigKept DEF IInv, OrderInv, Follows, ReadonlyLast
<1>5. \A m : Archiving(m) => Archiving(m)'
    BY <1>1 DEF Archiving, OwnRequests, AsConfigured, ChildWaits, Spared
<1>6. ArchiveInv'
    BY <1>1, <1>5, ConfigKept DEF IInv, ArchiveInv, Archived
<1>7. IsolationInv'
    BY <1>1 DEF IsolationInv
<1> QED
    BY <1>2, <1>3, <1>4, <1>6, <1>7 DEF IInv

LEMMA Stuttering ==
    ASSUME IInv, UNCHANGED vars
    PROVE  IInv'
<1>1. /\ UNCHANGED live /\ UNCHANGED config /\ UNCHANGED deletes /\ UNCHANGED pc
      /\ UNCHANGED todo /\ UNCHANGED errors /\ UNCHANGED count /\ UNCHANGED hist
    BY DEF vars
<1>2. TypeOK'
    BY <1>1 DEF IInv, TypeOK
<1>3. TodoInv'
    BY <1>1, ConfigKept DEF IInv, TodoInv
<1>4. OrderInv'
    BY <1>1, ConfigKept DEF IInv, OrderInv, Follows, ReadonlyLast
<1>5. \A m : Archiving(m) => Archiving(m)'
    BY <1>1 DEF Archiving, OwnRequests, AsConfigured, ChildWaits, Spared
<1>6. ArchiveInv'
    BY <1>1, <1>5, ConfigKept DEF IInv, ArchiveInv, Archived
<1>7. \A repo, m : Brought(repo, m) => Brought(repo, m)'
    BY <1>1 DEF Brought, Matches, Waits
<1>8. \A m : FoundInv(m) /\ Isolated(m) => FoundInv(m)' /\ Isolated(m)'
    BY <1>1, <1>7 DEF FoundInv, Isolated, Kept, Keys, Created
<1>9. IsolationInv'
    BY <1>1, <1>8, ConfigKept DEF IInv, IsolationInv
<1> QED
    BY <1>2, <1>3, <1>4, <1>6, <1>9 DEF IInv

-----------------------------------------------------------------------------
(* Nothing vanishes.                                                       *)

\* The repositories that have something in a part, which Count counts.
Having(l, f) == {n \in Existing(l) : l[n][f] # Absent}

LEMMA CountFacts ==
    ASSUME NEW l, NEW k, NEW f
    PROVE  /\ Count(l, f) \in Nat
           /\ Having(l, f) \subseteq Having(k, f) => Count(k, f) >= Count(l, f)
           /\ \A a \in Having(l, f), m \in Names :
                 m \notin Having(l, f) /\ (Having(l, f) \ {a}) \cup {m} \subseteq Having(k, f)
                     => Count(k, f) >= Count(l, f)
<1> DEFINE L == Having(l, f)
           K == Having(k, f)
<1>1. IsFiniteSet(Names) /\ L \subseteq Names /\ K \subseteq Names
    BY OrderAssumption DEF Having, Existing
<1>2. Count(l, f) = Cardinality(L) /\ Count(k, f) = Cardinality(K)
    BY DEF Count, Having
<1> HIDE DEF L, K
<1>3. IsFiniteSet(L) /\ IsFiniteSet(K)
    BY <1>1, FS_Subset
<1>4. Cardinality(L) \in Nat /\ Cardinality(K) \in Nat
    BY <1>3, FS_CardinalityType
<1>5. L \subseteq K => Cardinality(K) >= Cardinality(L)
    BY <1>3, <1>4, FS_Subset
<1>6. ASSUME NEW a \in L, NEW m \in Names, m \notin L, (L \ {a}) \cup {m} \subseteq K
      PROVE  Cardinality(K) >= Cardinality(L)
    <2>1. IsFiniteSet(L \ {a}) /\ Cardinality(L \ {a}) = Cardinality(L) - 1
        BY <1>3, <1>6, FS_RemoveElement
    <2>2. /\ IsFiniteSet((L \ {a}) \cup {m})
          /\ Cardinality((L \ {a}) \cup {m}) = Cardinality(L \ {a}) + 1
        BY <1>6, <2>1, FS_AddElement
    <2>3. Cardinality((L \ {a}) \cup {m}) = Cardinality(L)
        BY <1>4, <2>1, <2>2
    <2>4. Cardinality((L \ {a}) \cup {m}) <= Cardinality(K)
        BY <1>3, <1>6, FS_Subset
    <2> QED
        BY <1>4, <2>3, <2>4
<1> QED
    BY <1>2, <1>4, <1>5, <1>6 DEF L, K

LEMMA PerformedKeeps ==
    ASSUME live \in Live, config \in Config, NEW t, Sound(t), t.type # "remove",
           Creates(t.request) \/ Deletes(t.request) \/ Renames(t.request) \/ Updates(t.request),
           live' \in Live, NEW f \in Parts
    PROVE  Count(live', f) >= Count(live, f)
<1> DEFINE r == t.request
<1>1. /\ r \in Request /\ r.at \in Names /\ r.of \in Names
      /\ DOMAIN live = Names /\ r.fields \subseteq {"name", "archived", "desc"}
    BY DEF Sound, Request, Live
<1>2. \A c \in Children : c \notin {"name", "archived", "desc"}
    BY DEF Children
<1>3. \A repo \in Repo : repo # Absent /\ (f \notin Children => repo[f] # Absent)
    <2> TAKE repo \in Repo
    <2>1. /\ repo # Absent /\ repo.archived \in BOOLEAN
          /\ repo.desc \in Texts /\ repo.topics \in Texts
        BY RepoParts
    <2>2. Absent \notin Texts /\ Absent \notin BOOLEAN
        BY AbsentAssumption
    <2> QED
        BY <2>1, <2>2 DEF Parts
<1>4. ~Deletes(r) => r.of \in Expected
    BY DEF Sound, Creates, Renames, Updates, Children
<1>5. ASSUME ~Deletes(r), NEW repo \in Repo, repo[f] # Absent
      PROVE  Updated(repo, r) # Absent /\ Updated(repo, r)[f] # Absent
    <2>1. /\ Updated(repo, r) \in Repo
          /\ Updated(repo, r)[f] = IF Sets(r, f) THEN config[r.of][f] ELSE repo[f]
        BY <1>1, <1>4, <1>5, UpdatedFacts
    <2>2. CASE f \notin Children
        BY <1>3, <2>1, <2>2
    <2>3. CASE f \in Children /\ ~Sets(r, f)
        BY <1>3, <1>5, <2>1, <2>3
    <2>4. CASE f \in Children /\ Sets(r, f)
        <3>1. r.op = f
            BY <1>1, <1>2, <2>4 DEF Sets
        <3>2. config[r.of][f] # Absent
            BY <2>4, <3>1 DEF Sound
        <3> QED
            BY <1>3, <2>1, <2>4, <3>2
    <2> QED
        BY <2>2, <2>3, <2>4
<1>6. CASE Creates(r)
    <2>1. live[r.of] = Absent /\ \A n \in Names : n # r.of => live'[n] = live[n]
        BY <1>1, <1>6 DEF Creates
    <2>2. Having(live, f) \subseteq Having(live', f)
        BY <2>1 DEF Having, Existing
    <2> QED
        BY <2>2, CountFacts
<1>7. CASE Deletes(r)
    <2>1. r.op = "delete"
        BY <1>7 DEF Deletes
    <2> QED
        BY <2>1 DEF Sound, Children
<1>8. CASE Updates(r) /\ ~Deletes(r)
    <2>1. live[r.of] \in Repo /\ live' = [live EXCEPT ![r.of] = Updated(live[r.of], r)]
        BY <1>8 DEF Updates
    <2>2. /\ live'[r.of] = Updated(live[r.of], r)
          /\ \A n \in Names : n # r.of => live'[n] = live[n]
        BY <1>1, <2>1
    <2>3. live[r.of][f] # Absent => live'[r.of] # Absent /\ live'[r.of][f] # Absent
        BY <1>5, <1>8, <2>1, <2>2
    <2>4. Having(live, f) \subseteq Having(live', f)
        BY <2>2, <2>3 DEF Having, Existing
    <2> QED
        BY <2>4, CountFacts
<1>9. CASE Renames(r) /\ ~Deletes(r)
    <2>1. /\ r.at # r.of /\ live[r.at] \in Repo /\ live[r.of] = Absent
          /\ live' = [live EXCEPT ![r.of] = Updated(live[r.at], r), ![r.at] = Absent]
        BY <1>9 DEF Renames
    <2>2. /\ live'[r.of] = Updated(live[r.at], r)
          /\ \A n \in Names : n # r.of /\ n # r.at => live'[n] = live[n]
        BY <1>1, <2>1
    <2>3. live[r.at][f] # Absent => live'[r.of] # Absent /\ live'[r.of][f] # Absent
        BY <1>5, <1>9, <2>1, <2>2
    <2>4. r.of \notin Having(live, f)
        BY <2>1 DEF Having, Existing
    <2>5. CASE r.at \in Having(live, f)
        <3>1. r.of \in Having(live', f)
            BY <1>1, <2>3, <2>5 DEF Having, Existing
        <3>2. Having(live, f) \ {r.at} \subseteq Having(live', f)
            BY <2>2, <2>4 DEF Having, Existing
        <3>3. (Having(live, f) \ {r.at}) \cup {r.of} \subseteq Having(live', f)
            BY <3>1, <3>2
        <3> QED
            BY <1>1, <2>4, <2>5, <3>3, CountFacts
    <2>6. CASE r.at \notin Having(live, f)
        <3>1. Having(live, f) \subseteq Having(live', f)
            BY <2>2, <2>4, <2>6 DEF Having, Existing
        <3> QED
            BY <3>1, CountFacts
    <2> QED
        BY <2>5, <2>6
<1> QED
    BY <1>6, <1>7, <1>8, <1>9

LEMMA StepKeeps ==
    ASSUME IInv, Next, ~deletes, count'.drifts = count.drifts, NEW f \in Parts
    PROVE  Count(live', f) >= Count(live, f)
<1>1. live \in Live /\ config \in Config /\ count \in [runs : Nat, drifts : Nat, failures : Nat]
    BY DEF IInv, TypeOK
<1>2. ASSUME Sending, Possible(Now, Head(todo).type), live' = Effect(Now)
      PROVE  Count(live', f) >= Count(live, f)
    <2>1. PICK h : h = Head(todo)
        OBVIOUS
    <2>2. PICK t : t = HeadTask(h)
        OBVIOUS
    <2>3. Sound(t) /\ t.request = Now /\ t.type = h.type
        BY <1>2, <2>1, <2>2, SendingFacts DEF Sending
    <2>4. t.type # "remove"
        BY <1>2, <2>1, <2>3 DEF Sending, IsApplied
    <2>5. /\ live' \in Live
          /\ Creates(t.request) \/ Deletes(t.request) \/ Renames(t.request) \/ Updates(t.request)
        BY <1>1, <1>2, <2>1, <2>3, EffectCases
    <2> QED
        BY <1>1, <2>3, <2>4, <2>5, PerformedKeeps
<1>3. ASSUME UNCHANGED live
      PROVE  Count(live', f) >= Count(live, f)
    BY <1>3, CountFacts
<1>4. CASE Succeed \/ LoseAnswer
    BY <1>2, <1>4 DEF Succeed, LoseAnswer
<1>5. CASE Plan \/ Skip \/ Fail \/ Abort \/ Finish \/ Again
    BY <1>3, <1>5 DEF Plan, Skip, Fail, Abort, Finish, Again
<1>6. CASE Drift
    BY <1>1, <1>6 DEF Drift
<1> QED
    BY <1>4, <1>5, <1>6 DEF Next, Operation

-----------------------------------------------------------------------------
(* The theorems.                                                           *)

LEMMA Inductive ==
    ASSUME IInv, [Next]_vars
    PROVE  IInv'
<1>1. CASE Plan
    BY <1>1, PlanStep
<1>2. CASE Skip
    BY <1>2, SkipStep
<1>3. CASE Succeed
    BY <1>3, SucceedStep
<1>4. CASE Fail
    BY <1>4, FailStep
<1>5. CASE LoseAnswer
    BY <1>5, LoseAnswerStep
<1>6. CASE Abort
    BY <1>6, AbortStep
<1>7. CASE Finish
    BY <1>7, FinishStep
<1>8. CASE Again
    BY <1>8, AgainStep
<1>9. CASE Drift
    BY <1>9, DriftStep
<1>10. CASE UNCHANGED vars
    BY <1>10, Stuttering
<1> QED
    BY <1>1, <1>2, <1>3, <1>4, <1>5, <1>6, <1>7, <1>8, <1>9, <1>10 DEF Next, Operation

\* In every state of every run, the patches and the requests that are left to be sent
\* are in a safe order and account for all that is not yet as configured.
THEOREM Invariance == Spec => []IInv
<1>1. Init => IInv
    BY Initial
<1>2. IInv /\ [Next]_vars => IInv'
    BY Inductive
<1> QED
    BY <1>1, <1>2, PTL DEF Spec

\* The variables keep their types: whatever fails, what is live is an organization of
\* repositories and what is left to be sent a list of patches with requests.
THEOREM TypeCorrect == Spec => []TypeOK
<1>1. IInv => TypeOK
    BY DEF IInv
<1> QED
    BY <1>1, Invariance, PTL

\* handle_finish: the patches that archive a repository come last, so that at no moment,
\* whichever request fails, is repeated or ends the run, a repository that keeps its name is
\* archived by the run before its hooks and rules are as configured; but for those whose own
\* request failed by accident, or that somebody changed.  A repository that is renamed and
\* archived in one run has no such promise.
THEOREM ArchivingIsLast == Spec => []ChildrenBeforeArchiving
<1>1. IInv => ChildrenBeforeArchiving
    <2> SUFFICES ASSUME IInv, KeysAreUnique, NEW m \in Names, NEW f \in Children,
                        <<m, m>> \in hist.archives, live[m].archived
                 PROVE  AsConfigured(m, f) \/ <<m, f>> \in hist.spoilt
        BY DEF ChildrenBeforeArchiving
    <2>1. Archiving(m)
        BY DEF IInv, ArchiveInv, Archived
    <2> QED
        BY <2>1 DEF Archiving, ChildWaits, Spared
<1> QED
    BY <1>1, Invariance, PTL

\* handle_finish: a patch that fails is counted and the others go on; what is not as
\* configured after a run belongs to a patch that failed.
THEOREM FailuresStayIsolated == Spec => []FailuresAreIsolated
<1>1. IInv => FailuresAreIsolated
    <2> SUFFICES ASSUME IInv, pc = "done", KeysAreUnique,
                        NEW m \in Expected \cap Existing(live), ~config[m].archived,
                        config[m].aliases \cap Existing(live) = {},
                        NEW f \in Parts \ hist.failed
                 PROVE  AsConfigured(m, f)
        BY DEF FailuresAreIsolated
    <2>1. todo = <<>>
        BY DEF IInv, TodoInv
    <2>2. Tasks(todo) = {}
        BY <2>1, NothingIsLate
    <2>3. Isolated(m)
        BY DEF IInv, IsolationInv
    <2>4. ~ \E n \in Keys(m) \ {m} : live[n] # Absent /\ Kept(n)
        <3>1. config \in Config
            BY DEF IInv, TypeOK
        <3>2. Keys(m) \subseteq Names
            BY <3>1, ConfigType
        <3> QED
            BY <3>2 DEF Keys, Existing
    <2>5. Brought(live[m], m)
        BY <2>3, <2>4 DEF Isolated, Existing
    <2> QED
        BY <2>2, <2>5 DEF Brought, Waits, Matches, AsConfigured
<1> QED
    BY <1>1, Invariance, PTL

\* Without --delete-resources no step of an apply makes a repository, a hook or a rule
\* disappear: a repository that is renamed takes all of them with it.
THEOREM NothingGetsLost == Spec => NothingVanishes
<1> DEFINE A == ~deletes /\ count'.drifts = count.drifts =>
                    \A f \in Parts : Count(live', f) >= Count(live, f)
<1>1. IInv /\ [Next]_vars => [A]_vars
    BY StepKeeps
<1>2. NothingVanishes <=> [][A]_vars
    BY PTL DEF NothingVanishes
<1> QED
    BY <1>1, <1>2, Invariance, PTL DEF Spec

-----------------------------------------------------------------------------
(* A run that nothing goes wrong with leaves nothing to be done.           *)

LEMMA NoTwo ==
    ASSUME NEW S, IsFiniteSet(S), ~(Cardinality(S) > 1), NEW x \in S, NEW y \in S
    PROVE  x = y
<1> SUFFICES ASSUME x # y PROVE FALSE
    OBVIOUS
<1>1. IsFiniteSet({x, y}) /\ Cardinality({x, y}) = 2
    <2>1. IsFiniteSet({x}) /\ Cardinality({x}) = 1
        BY FS_Singleton
    <2>2. IsFiniteSet({x} \cup {y}) /\ Cardinality({x} \cup {y}) = 2
        <3>1. y \notin {x}
            OBVIOUS
        <3>2. PICK T : T = {x}
            OBVIOUS
        <3>3. /\ IsFiniteSet(T \cup {y})
              /\ Cardinality(T \cup {y}) = IF y \in T THEN Cardinality(T) ELSE Cardinality(T) + 1
            BY <2>1, <3>2, FS_AddElement
        <3> QED
            BY <2>1, <3>1, <3>2, <3>3
    <2>3. {x} \cup {y} = {x, y}
        OBVIOUS
    <2> QED
        BY <2>2, <2>3
<1>2. Cardinality({x, y}) <= Cardinality(S)
    BY FS_Subset
<1>3. Cardinality(S) \in Nat
    BY FS_CardinalityType
<1> QED
    BY <1>1, <1>2, <1>3

LEMMA ConfigNames ==
    ASSUME UNCHANGED config
    PROVE  /\ Expected' = Expected /\ \A m : Keys(m)' = Keys(m)
           /\ \A n : Unclaimed(n)' <=> Unclaimed(n)
BY DEF Expected, Keys, Unclaimed

LEMMA AliveKeys ==
    ASSUME config \in Config, NEW m \in Expected
    PROVE  /\ Alive(m) = {n \in Keys(m) : live[n] # Absent}
           /\ \A n \in Alive(m) : n \in Names /\ n \in Keys(m)
BY ConfigType DEF Alive, Existing

\* A configured repository takes the one that is live under one of its keys.
LEMMA TakesAlive ==
    ASSUME TypeOK, NEW m \in Expected, \A x, y \in Alive(m) : x = y
    PROVE  /\ \A n \in Alive(m) : Takes(live, m, n)
           /\ \A n : Takes(live, m, n) => n \in Alive(m)
           /\ Missing(live, m) <=> Alive(m) = {}
<1>1. \A n : Takes(live, m, n) => n \in Alive(m) /\ n \in Names
    BY TakesKey DEF Alive, Existing
<1>2. ASSUME NEW n \in Alive(m)
      PROVE  Takes(live, m, n)
    <2>1. \E x \in Names : Takes(live, m, x)
        BY <1>2, TakesSome DEF Alive
    <2> QED
        BY <1>1, <1>2, <2>1
<1>3. Missing(live, m) <=> Alive(m) = {}
    <2>1. Alive(m) \subseteq Names
        BY DEF Alive, Existing
    <2> QED
        BY <1>1, <1>2, <2>1 DEF Missing
<1> QED
    BY <1>1, <1>2, <1>3

LEMMA PlanSettles ==
    ASSUME IInv, Plan
    PROVE  SettleInv'
<1>1. TypeOK /\ config \in Config /\ live \in Live
    BY DEF IInv, TypeOK
<1>2. /\ live' = live /\ config' = config /\ deletes' = deletes
      /\ hist'.failed = {}
      /\ hist'.creates <=> \E m \in Expected : Missing(live, m)
      /\ hist'.clash <=> \E m \in Expected : Cardinality(Keys(m) \cap Existing(live)) > 1
    BY DEF Plan, Missing
<1>3. (KeysAreUnique <=> KeysAreUnique') /\ Expected' = Expected /\ \A m : Alive(m)' = Alive(m)
    BY <1>2, ConfigKept DEF Alive, Existing, Keys
<1> SUFFICES ASSUME Clean'
             PROVE  SettleInv'
    BY DEF SettleInv
<1>4. KeysAreUnique /\ todo' = InOrder(Patches(live))
    BY DEF Plan, Clean
<1>5. Tasks(todo') = Tasks(Patches(live))
    BY <1>1, <1>4, PlanFacts
<1>6. \A m \in Expected : \A x, y \in Alive(m) : x = y
    <2> SUFFICES ASSUME NEW m \in Expected, NEW x \in Alive(m), NEW y \in Alive(m)
                 PROVE  x = y
        OBVIOUS
    <2>1. ~(Cardinality(Alive(m)) > 1)
        BY <1>2 DEF Clean, Alive
    <2>2. IsFiniteSet(Alive(m))
        <3>1. IsFiniteSet(Names) /\ Alive(m) \subseteq Names
            BY OrderAssumption DEF Alive, Existing
        <3> QED
            BY <3>1, FS_Subset
    <2> QED
        BY <2>1, <2>2, NoTwo
<1>7. \A m \in Expected :
          /\ \A n \in Alive(m) : Takes(live, m, n)
          /\ \A n : Takes(live, m, n) => n \in Alive(m)
          /\ Missing(live, m) <=> Alive(m) = {}
    BY <1>1, <1>6, TakesAlive
<1>8. ASSUME NEW t \in Tasks(todo')
      PROVE  /\ t.request.op = "create" => /\ hist'.creates
                                           /\ t.request.of \in Expected => Alive(t.request.of) = {}
             /\ t.request.op = "delete" => Unclaimed(t.request.at)
    <2>1. CASE t.request.of \in Expected /\ t.request.op # "delete"
               /\ \E n \in Names : Takes(live, t.request.of, n)
                                   /\ t \in Tasks(Changes(live, n, t.request.of))
        <3>1. t.request.op # "create"
            BY <1>1, <2>1, ChangesFacts
        <3> QED
            BY <2>1, <3>1
    <2>2. CASE /\ t.request.op = "delete" /\ t.request.at \in Existing(live)
               /\ \A m \in Expected : ~Takes(live, m, t.request.at)
        <3>1. ASSUME NEW m \in Expected, t.request.at \in Keys(m)
              PROVE  FALSE
            <4>1. t.request.at \in Alive(m)
                BY <2>2, <3>1 DEF Alive
            <4> QED
                BY <1>7, <2>2, <4>1
        <3> QED
            BY <2>2, <3>1 DEF Unclaimed
    <2>3. CASE Missing(live, t.request.of) /\ t.request.op # "delete"
        <3>1. t.request.of \in Expected
            BY <2>3 DEF Missing
        <3> QED
            BY <1>2, <1>7, <2>3, <3>1
    <2> QED
        BY <1>1, <1>4, <1>5, <2>1, <2>2, <2>3, PatchesFacts
<1>9. ASSUME NEW m \in Expected
      PROVE  Located(m)'
    <2>1. ASSUME Alive(m) = {}
          PROVE  WillBeCreated(m)'
        <3>1. Missing(live, m)
            BY <1>7, <2>1
        <3>2. Tasks(Addition(m)) \subseteq Tasks(todo')
            BY <1>1, <1>4, <1>5, <3>1, PatchesFacts
        <3>3. \E t \in Tasks(Addition(m)) : t.request.op = "create" /\ t.request.of = m
            BY <1>1, AdditionFacts DEF Block
        <3> QED
            BY <3>2, <3>3 DEF WillBeCreated
    <2>2. WillBeCreated(m)' => Alive(m) = {}
        BY <1>8 DEF WillBeCreated
    <2>3. ASSUME NEW n \in Alive(m), n # m
          PROVE  WillBeRenamed(m, n)'
        <3>1. Takes(live, m, n) /\ n \in Names
            BY <1>7, <2>3 DEF Alive, Existing
        <3>2. Tasks(Changes(live, n, m)) \subseteq Tasks(todo')
            BY <1>1, <1>4, <1>5, <3>1, PatchesFacts
        <3>3. \E t \in Tasks(Changes(live, n, m)) : t.request.of = m /\ t.request.at = n
                                                    /\ "name" \in t.request.fields
            BY <1>1, <2>3, <3>1, ChangesFacts DEF Block
        <3> QED
            BY <3>2, <3>3 DEF WillBeRenamed
    <2> QED
        BY <1>3, <1>6, <2>1, <2>2, <2>3 DEF Located
<1>10. ASSUME NEW m \in Expected, NEW n \in Alive(m)
       PROVE  Settling(live[n], m)'
    <2>1. Takes(live, m, n) /\ n \in Names
        BY <1>7, <1>10 DEF Alive, Existing
    <2>2. \A t \in Tasks(Changes(live, n, m)) : t \in Tasks(todo') /\ t.request.of = m
        BY <1>1, <1>4, <1>5, <2>1, PatchesFacts, ChangesFacts DEF Block
    <2> SUFFICES ASSUME NEW f \in Parts, Counts(live[n], m, f)
                 PROVE  Matches(live[n], m, f)' \/ Waits(m, f)'
        BY <1>2 DEF Settling, Counts
    <2>3. CASE live[n][f] = config[m][f]
        BY <1>2, <2>3 DEF Matches
    <2>4. CASE live[n][f] # config[m][f]
        <3>1. \E t \in Tasks(Changes(live, n, m)) : f \in t.parts /\ Sets(t.request, f)
            BY <1>1, <2>1, <2>4, ChangesFacts
        <3> QED
            BY <2>2, <3>1 DEF Waits
    <2> QED
        BY <2>3, <2>4
<1>11. ASSUME NEW n \in Existing(live), Unclaimed(n)
       PROVE  ~Kept(n)'
    <2>1. \A m \in Expected : ~Takes(live, m, n)
        BY <1>11, TakesKey DEF Unclaimed
    <2>2. Tasks(Removal(n)) \subseteq Tasks(todo')
        BY <1>1, <1>4, <1>5, <2>1, PatchesFacts
    <2>3. \E t \in Tasks(Removal(n)) : t.request.op = "delete" /\ t.request.at = n
        BY RemovalFacts DEF Existing
    <2> QED
        BY <2>2, <2>3 DEF Kept
<1>12. \A n : Unclaimed(n)' <=> Unclaimed(n)
    BY <1>2, ConfigNames
<1>13. \A t \in Tasks(todo)' : /\ t.request.op = "create" => hist'.creates
                               /\ t.request.op = "delete" => Unclaimed(t.request.at)'
    BY <1>8, <1>12 DEF Tasks
<1>14. \A m \in Expected' : Located(m)' /\ \A n \in Alive(m)' : Settling(live[n], m)'
    BY <1>3, <1>9, <1>10
<1>15. \A n \in Existing(live)' : Unclaimed(n)' => ~Kept(n)'
    BY <1>2, <1>11, <1>12 DEF Existing
<1> QED
    BY <1>2, <1>3, <1>4, <1>13, <1>14, <1>15 DEF SettleInv

LEMMA SkipSettles ==
    ASSUME IInv, SettleInv, Skip
    PROVE  SettleInv'
<1>1. PICK h : h = Head(todo)
    OBVIOUS
<1>2. /\ todo # <<>> /\ h.type = "remove" /\ ~deletes /\ todo' = Tail(todo)
      /\ UNCHANGED <<live, config, deletes, pc, errors, hist>>
    BY <1>1 DEF Skip, IsApplied
<1>3. Tasks(todo) = TasksOf(h) \cup Tasks(todo') /\ SoundPatch(h)
    BY <1>1, <1>2, TailFacts DEF IInv, TypeOK, TodoInv
<1>4. \A u \in TasksOf(h) : Sound(u) /\ u.type = "remove"
    BY <1>2, <1>3 DEF SoundPatch, TasksOf, Task
<1>5. \A u \in TasksOf(h) : u.request.op # "create" /\ "name" \notin u.request.fields
    <2> SUFFICES ASSUME NEW u \in TasksOf(h)
                 PROVE  u.request.op # "create" /\ "name" \notin u.request.fields
        OBVIOUS
    <2>1. u.request.op \in Children \/ u.request.op = "delete"
        BY <1>4 DEF Sound
    <2> QED
        BY <1>4, <2>1 DEF Sound, Children
<1>6. /\ KeysAreUnique' <=> KeysAreUnique
      /\ Expected' = Expected /\ \A m : Alive(m)' = Alive(m)
      /\ \A n : Unclaimed(n)' <=> Unclaimed(n)
    BY <1>2, ConfigKept, ConfigNames DEF Alive, Existing
<1> SUFFICES ASSUME Clean'
             PROVE  SettleInv'
    BY DEF SettleInv
<1>7. Clean
    BY <1>2, <1>6 DEF Clean
<1>8. /\ KeysAreUnique /\ hist.failed = {}
      /\ \A t \in Tasks(todo) : /\ t.request.op = "create" => hist.creates
                                /\ t.request.op = "delete" => Unclaimed(t.request.at)
      /\ \A m \in Expected : Located(m) /\ \A n \in Alive(m) : Settling(live[n], m)
    BY <1>7 DEF SettleInv
<1>9. ASSUME NEW m \in Expected
      PROVE  Located(m)'
    <2>1. WillBeCreated(m)' <=> WillBeCreated(m)
        BY <1>3, <1>5 DEF WillBeCreated
    <2>2. \A n : WillBeRenamed(m, n)' <=> WillBeRenamed(m, n)
        BY <1>3, <1>5 DEF WillBeRenamed
    <2>3. Located(m)
        BY <1>8
    <2> QED
        BY <1>6, <2>1, <2>2, <2>3 DEF Located
<1>10. ASSUME NEW m \in Expected, NEW n \in Alive(m)
       PROVE  Settling(live[n], m)'
    <2> SUFFICES ASSUME NEW f \in Parts, Counts(live[n], m, f)
                 PROVE  Matches(live[n], m, f)' \/ Waits(m, f)'
        BY <1>2 DEF Settling, Counts
    <2>1. CASE Matches(live[n], m, f)
        BY <1>2, <2>1 DEF Matches
    <2>2. CASE Waits(m, f)
        <3>1. PICK u \in Tasks(todo) : f \in u.parts /\ u.request.of = m /\ Sets(u.request, f)
            BY <2>2 DEF Waits
        <3>2. CASE u \in Tasks(todo')
            BY <3>1, <3>2 DEF Waits
        <3>3. CASE u \in TasksOf(h)
            <4>1. f \in Children /\ config[m][f] = Absent
                BY <1>4, <3>1, <3>3, RemovalSets
            <4> QED
                BY <1>2, <4>1 DEF Matches
        <3> QED
            BY <1>3, <3>2, <3>3
    <2> QED
        BY <1>8, <2>1, <2>2 DEF Settling
<1>11. \A t \in Tasks(todo)' : /\ t.request.op = "create" => hist'.creates
                               /\ t.request.op = "delete" => Unclaimed(t.request.at)'
    <2>1. Tasks(todo)' = Tasks(todo')
        BY DEF Tasks
    <2> QED
        BY <1>2, <1>3, <1>6, <1>8, <2>1
<1>12. \A m \in Expected' : Located(m)' /\ \A n \in Alive(m)' : Settling(live[n], m)'
    BY <1>6, <1>9, <1>10
<1> QED
    BY <1>2, <1>6, <1>8, <1>11, <1>12 DEF SettleInv

\* A repository that a request has updated still gets what counts of it.
LEMMA UpdatedIsSettling ==
    ASSUME config \in Config, NEW t, Tasks(todo) \subseteq Tasks(todo') \cup {t},
           UNCHANGED <<config, deletes>>,
           t.request \in Request, t.request.of \in Expected,
           NEW repo \in Repo, Settling(repo, t.request.of)
    PROVE  Settling(Updated(repo, t.request), t.request.of)'
<1>1. PICK m : m = t.request.of
    OBVIOUS
<1>2. PICK u : u = Updated(repo, t.request)
    OBVIOUS
<1>3. Updated(repo, t.request)' = u
    BY <1>2 DEF Updated
<1>4. \A f \in Parts : u[f] = IF Sets(t.request, f) THEN config[m][f] ELSE repo[f]
    BY <1>1, <1>2, UpdatedFacts
<1> SUFFICES ASSUME NEW f \in Parts, Counts(u, m, f)
             PROVE  Matches(u, m, f)' \/ Waits(m, f)'
    BY <1>1, <1>3 DEF Settling, Counts
<1>5. CASE Sets(t.request, f)
    BY <1>4, <1>5 DEF Matches
<1>6. CASE ~Sets(t.request, f)
    <2>1. u[f] = repo[f]
        BY <1>4, <1>6
    <2>2. Counts(repo, m, f)
        <3>1. u["archived"] = config[m]["archived"] \/ u["archived"] = repo["archived"]
            BY <1>4 DEF Parts
        <3> QED
            BY <3>1 DEF Counts
    <2>3. Matches(repo, m, f) \/ Waits(m, f)
        BY <1>1, <2>2 DEF Settling
    <2>4. Matches(repo, m, f) => Matches(u, m, f)'
        BY <2>1 DEF Matches
    <2>5. Waits(m, f) => Waits(m, f)'
        BY <1>1, <1>6, StillWaits
    <2> QED
        BY <2>3, <2>4, <2>5
<1> QED
    BY <1>5, <1>6

LEMMA StillSettling ==
    ASSUME NEW t, Tasks(todo) \subseteq Tasks(todo') \cup {t},
           NEW m, t.request.of # m \/ \A f \in Parts : ~Sets(t.request, f),
           UNCHANGED <<config, deletes>>,
           NEW repo, Settling(repo, m)
    PROVE  Settling(repo, m)'
<1> SUFFICES ASSUME NEW f \in Parts, Counts(repo, m, f)
             PROVE  Matches(repo, m, f)' \/ Waits(m, f)'
    BY DEF Settling, Counts
<1>1. Matches(repo, m, f) \/ Waits(m, f)
    BY DEF Settling
<1>2. Matches(repo, m, f) => Matches(repo, m, f)'
    BY DEF Matches
<1>3. Waits(m, f) => Waits(m, f)'
    BY StillWaits
<1> QED
    BY <1>1, <1>2, <1>3

\* A request leaves every repository settled, its own and those of the others.
LEMMA PerformedSettles ==
    ASSUME KeysAreUnique, live \in Live, config \in Config,
           NEW t \in Tasks(todo), \A u \in Tasks(todo) : Sound(u),
           Creates(t.request) \/ Deletes(t.request) \/ Renames(t.request) \/ Updates(t.request),
           Tasks(todo) \subseteq Tasks(todo') \cup {t}, Tasks(todo') \subseteq Tasks(todo),
           UNCHANGED <<config, deletes>>,
           \A u \in Tasks(todo) : u.request.op = "delete" => Unclaimed(u.request.at),
           NEW m \in Expected, Located(m), \A n \in Alive(m) : Settling(live[n], m),
           WillBeCreated(m) => Settling(Created(m), m),
           \A u \in Tasks(todo') : u.request.op = "create" /\ u.request.of = m
               => t.request.op = "delete" \/ t.request.of # m
    PROVE  Located(m)' /\ \A n \in Alive(m)' : Settling(live[n], m)'
<1>1. PICK r : r = t.request
    OBVIOUS
<1>2. /\ Sound(t) /\ r \in Request /\ r.at \in Names /\ r.of \in Names
      /\ m \in Names /\ m \in Keys(m) /\ Keys(m) \subseteq Names
      /\ DOMAIN live = Names
    BY <1>1, ConfigType DEF Sound, Request, Live
<1>3. /\ Alive(m) = {n \in Keys(m) : live[n] # Absent}
      /\ Alive(m)' = {n \in Keys(m) : live'[n] # Absent}
    BY <1>2 DEF Alive, Existing, Keys
<1>4. /\ \A n, x \in Alive(m) : n = x
      /\ Alive(m) = {} <=> WillBeCreated(m)
      /\ \A n \in Alive(m) \ {m} : WillBeRenamed(m, n)
    BY DEF Located
<1>5. WillBeCreated(m)' => WillBeCreated(m)
    BY DEF WillBeCreated
<1>6. ASSUME \A n \in Keys(m) : live'[n] = live[n],
             r.op = "delete" \/ r.of # m
      PROVE  Located(m)' /\ \A n \in Alive(m)' : Settling(live[n], m)'
    <2>1. Alive(m)' = Alive(m)
        BY <1>3, <1>6
    <2>2. WillBeCreated(m) => WillBeCreated(m)'
        BY <1>1, <1>6 DEF WillBeCreated
    <2>3. r.op = "delete" => "name" \notin r.fields
        BY <1>1, <1>2 DEF Sound
    <2>4. \A n : WillBeRenamed(m, n) => WillBeRenamed(m, n)'
        BY <1>1, <1>6, <2>3 DEF WillBeRenamed
    <2>5. Located(m)'
        BY <1>4, <1>5, <2>1, <2>2, <2>4 DEF Located
    <2>6. t.request.of # m \/ \A f \in Parts : ~Sets(t.request, f)
        BY <1>1, <1>2, <1>6, SetsNothing
    <2>7. ASSUME NEW n \in Alive(m)'
          PROVE  Settling(live[n], m)'
        <3>1. PICK repo : repo = live[n]
            OBVIOUS
        <3>2. live'[n] = repo /\ Settling(repo, m)
            BY <1>3, <1>6, <2>1, <2>7, <3>1
        <3>3. Settling(repo, m)'
            BY <2>6, <3>2, StillSettling
        <3> QED
            BY <3>2, <3>3
    <2> QED
        BY <2>5, <2>7
<1>7. CASE r.op = "delete"
    <2>1. Deletes(r)
        BY <1>1, <1>7 DEF Creates, Renames, Updates, Children
    <2>2. r.at \notin Keys(m)
        BY <1>1, <1>7 DEF Unclaimed
    <2>3. \A n \in Keys(m) : live'[n] = live[n]
        BY <1>2, <2>1, <2>2, DeleteOne
    <2> QED
        BY <1>6, <1>7, <2>3
<1>8. CASE r.op # "delete" /\ r.of # m
    <2>1. Creates(r) \/ Renames(r) \/ Updates(r)
        BY <1>1, <1>8 DEF Deletes
    <2>2. \A n \in Keys(m) : live'[n] = live[n]
        BY <1>1, <1>2, <1>8, <2>1, OthersUnchanged
    <2> QED
        BY <1>6, <1>8, <2>2
<1>9. ASSUME r.op # "delete", r.of = m, NEW repo, live'[m] = repo, repo # Absent, Settling(repo, m)',
             \A n \in Keys(m) \ {m} : live'[n] = Absent
      PROVE  Located(m)' /\ \A n \in Alive(m)' : Settling(live[n], m)'
    <2>1. Alive(m)' = {m}
        BY <1>2, <1>3, <1>9
    <2>2. ~WillBeCreated(m)'
        BY <1>1, <1>9 DEF WillBeCreated
    <2>3. Located(m)'
        BY <2>1, <2>2 DEF Located
    <2> QED
        BY <1>9, <2>1, <2>3
<1>10. CASE Creates(r) /\ r.of = m
    <2>1. r.op = "create" /\ live[m] = Absent /\ live' = [live EXCEPT ![m] = Created(m)]
        BY <1>10 DEF Creates
    <2>2. WillBeCreated(m)
        BY <1>1, <1>10, <2>1 DEF WillBeCreated
    <2>3. \A n \in Keys(m) : live[n] = Absent
        BY <1>3, <1>4, <2>2
    <2>4. PICK repo : repo = Created(m)
        OBVIOUS
    <2>5. live'[m] = repo /\ \A n \in Keys(m) \ {m} : live'[n] = Absent
        BY <1>2, <2>1, <2>3, <2>4
    <2>6. repo # Absent
        BY <2>4, CreatedFacts, RepoParts
    <2>7. \A f \in Parts : ~Sets(t.request, f)
        BY <1>1, <1>2, <2>1, SetsNothing
    <2>8. Settling(repo, m)
        BY <2>2, <2>4
    <2>9. Settling(repo, m)'
        BY <2>7, <2>8, StillSettling
    <2> QED
        BY <1>9, <1>10, <2>1, <2>5, <2>6, <2>9
<1>11. CASE Renames(r) /\ r.of = m
    <2>1. /\ r.op = "patch" /\ r.at # m /\ live[r.at] \in Repo /\ live[m] = Absent
          /\ live' = [live EXCEPT ![m] = Updated(live[r.at], r), ![r.at] = Absent]
        BY <1>11 DEF Renames
    <2>2. r.at \in Keys(m)
        BY <1>1, <1>2, <1>11, <2>1 DEF Sound
    <2>3. r.at \in Alive(m)
        BY <1>3, <2>1, <2>2, RepoParts
    <2>4. \A n \in Keys(m) : n # r.at => live[n] = Absent
        BY <1>3, <1>4, <2>3
    <2>5. PICK old : old = live[r.at]
        OBVIOUS
    <2>6. PICK repo : repo = Updated(old, r)
        OBVIOUS
    <2>7. live'[m] = repo /\ \A n \in Keys(m) \ {m} : live'[n] = Absent
        BY <1>2, <2>1, <2>4, <2>5, <2>6
    <2>8. repo \in Repo /\ repo # Absent
        BY <1>2, <1>11, <2>1, <2>5, <2>6, UpdatedFacts, RepoParts
    <2>9. old \in Repo /\ Settling(old, m)
        BY <2>1, <2>3, <2>5
    <2>10. Settling(Updated(old, r), m)'
        BY <1>1, <1>2, <1>11, <2>9, UpdatedIsSettling
    <2>11. r' = r /\ Updated(old, r)' = repo
        BY <1>1, <2>6 DEF Updated
    <2> QED
        BY <1>9, <1>11, <2>1, <2>7, <2>8, <2>10, <2>11
<1>12. CASE Updates(r) /\ r.of = m
    <2>1. /\ r.op # "delete" /\ live[m] \in Repo
          /\ live' = [live EXCEPT ![m] = Updated(live[m], r)]
        BY <1>12 DEF Updates, Children
    <2>2. m \in Alive(m)
        BY <1>2, <1>3, <2>1, RepoParts
    <2>3. \A n \in Keys(m) : n # m => live[n] = Absent
        BY <1>3, <1>4, <2>2
    <2>4. PICK old : old = live[m]
        OBVIOUS
    <2>5. PICK repo : repo = Updated(old, r)
        OBVIOUS
    <2>6. live'[m] = repo /\ \A n \in Keys(m) \ {m} : live'[n] = Absent
        BY <1>2, <2>1, <2>3, <2>4, <2>5
    <2>7. repo \in Repo /\ repo # Absent
        BY <1>2, <1>12, <2>1, <2>4, <2>5, UpdatedFacts, RepoParts
    <2>8. old \in Repo /\ Settling(old, m)
        BY <2>1, <2>2, <2>4
    <2>9. Settling(Updated(old, r), m)'
        BY <1>1, <1>2, <1>12, <2>8, UpdatedIsSettling
    <2>10. Updated(old, r)' = repo
        BY <2>5 DEF Updated
    <2> QED
        BY <1>9, <1>12, <2>1, <2>6, <2>7, <2>9, <2>10
<1> QED
    BY <1>1, <1>7, <1>8, <1>10, <1>11, <1>12 DEF Deletes

LEMMA SucceedSettles ==
    ASSUME IInv, SettleInv, Succeed
    PROVE  SettleInv'
<1>1. PICK h : h = Head(todo)
    OBVIOUS
<1>2. PICK t : t = HeadTask(h)
    OBVIOUS
<1>3. /\ todo # <<>> /\ Possible(Now, Head(todo).type) /\ live' = Effect(Now)
      /\ todo' = Advanced(todo)
      /\ UNCHANGED <<config, deletes, pc, errors, hist>>
    BY DEF Succeed, Sending, Advanced
<1>4. live \in Live /\ config \in Config
    BY DEF IInv, TypeOK
<1>5. /\ t \in Tasks(todo) /\ Sound(t)
      /\ t.request = Now /\ t.type = h.type
      /\ \A u \in Tasks(todo) : Sound(u)
      /\ KeysAreUnique => \A u \in Tasks(Advanced(todo)) :
            Founds(u.request) /\ ~config[u.request.of].archived =>
                t.request.op = "delete" \/ t.request.of # u.request.of
    BY <1>1, <1>2, <1>3, SendingFacts
<1>6. /\ live' \in Live
      /\ Creates(t.request) \/ Deletes(t.request) \/ Renames(t.request) \/ Updates(t.request)
    BY <1>1, <1>3, <1>4, <1>5, EffectCases
<1>7. Tasks(todo) = {t} \cup Tasks(todo') /\ Tasks(todo)' = Tasks(todo')
    <2>1. todo \in Seq(Patch) /\ \A i \in DOMAIN todo : SoundPatch(todo[i])
        BY DEF IInv, TypeOK, TodoInv
    <2>2. Tasks(todo)' = Tasks(todo')
        BY DEF Tasks
    <2> QED
        BY <1>1, <1>2, <1>3, <2>1, <2>2, AdvancedFacts
<1>8. /\ KeysAreUnique' <=> KeysAreUnique
      /\ Expected' = Expected
      /\ \A n : Unclaimed(n)' <=> Unclaimed(n)
    BY <1>3, ConfigKept, ConfigNames
<1> SUFFICES ASSUME Clean'
             PROVE  SettleInv'
    BY DEF SettleInv
<1>9. Clean
    BY <1>3, <1>8 DEF Clean
<1>10. /\ KeysAreUnique /\ hist.failed = {} /\ pc # "idle"
       /\ \A u \in Tasks(todo) : /\ u.request.op = "create" => hist.creates
                                 /\ u.request.op = "delete" => Unclaimed(u.request.at)
       /\ \A m \in Expected : Located(m) /\ \A n \in Alive(m) : Settling(live[n], m)
       /\ deletes => \A n \in Existing(live) : Unclaimed(n) => ~Kept(n)
    BY <1>9 DEF SettleInv, Clean
<1>11. \A u \in Tasks(todo), m \in Expected : u.request.op = "create" => ~config[m].archived
    BY <1>9, <1>10 DEF Clean
<1>12. ASSUME NEW m \in Expected
       PROVE  Located(m)' /\ \A n \in Alive(m)' : Settling(live[n], m)'
    <2>1. ASSUME WillBeCreated(m)
          PROVE  Settling(Created(m), m)
        <3>1. ~config[m].archived
            BY <1>11, <2>1 DEF WillBeCreated
        <3>2. FoundInv(m)
            BY <1>10, <3>1 DEF IInv, IsolationInv
        <3>3. Brought(Created(m), m)
            BY <2>1, <3>2 DEF FoundInv, WillBeCreated
        <3> QED
            BY <1>10, <3>3 DEF Brought, Settling
    <2>2. \A u \in Tasks(todo') : u.request.op = "create" /\ u.request.of = m
              => t.request.op = "delete" \/ t.request.of # m
        BY <1>3, <1>5, <1>7, <1>10, <1>11 DEF Founds
    <2>3. Tasks(todo) \subseteq Tasks(todo') \cup {t} /\ Tasks(todo') \subseteq Tasks(todo)
        BY <1>7
    <2> QED
        BY <1>3, <1>4, <1>5, <1>6, <1>10, <2>1, <2>2, <2>3, PerformedSettles
<1>13. ASSUME deletes, NEW n \in Existing(live'), Unclaimed(n)
       PROVE  ~Kept(n)'
    <2>1. n \in Existing(live) /\ (t.request.op # "delete" \/ n # t.request.at)
        <3>1. n \in Names /\ live'[n] # Absent /\ t.request \in Request
            BY <1>5 DEF Existing, Sound
        <3>2. CASE Deletes(t.request)
            BY <1>4, <3>1, <3>2, DeleteOne DEF Existing
        <3>3. CASE ~Deletes(t.request)
            <4>1. Creates(t.request) \/ Renames(t.request) \/ Updates(t.request)
                BY <1>6, <3>3
            <4>2. t.request.op # "delete"
                BY <4>1 DEF Creates, Renames, Updates, Children
            <4>3. t.request.of \in Expected /\ t.request.at \in Keys(t.request.of)
                  /\ t.request.of \in Keys(t.request.of)
                BY <1>4, <1>5, <4>2, ConfigType DEF Sound
            <4>4. n # t.request.of /\ n # t.request.at
                BY <1>13, <4>3 DEF Unclaimed
            <4>5. live'[n] = live[n]
                BY <1>4, <3>1, <4>1, <4>4 DEF Creates, Renames, Updates, Live
            <4> QED
                BY <3>1, <4>2, <4>5 DEF Existing
        <3> QED
            BY <3>2, <3>3
    <2>2. PICK u \in Tasks(todo) : u.request.op = "delete" /\ u.request.at = n
        BY <1>10, <1>13, <2>1 DEF Kept
    <2>3. u # t
        BY <2>1, <2>2
    <2> QED
        BY <1>7, <2>2, <2>3 DEF Kept
<1>14. \A u \in Tasks(todo)' : /\ u.request.op = "create" => hist'.creates
                               /\ u.request.op = "delete" => Unclaimed(u.request.at)'
    BY <1>3, <1>7, <1>8, <1>10
<1>15. deletes' => \A n \in Existing(live)' : Unclaimed(n)' => ~Kept(n)'
    BY <1>3, <1>8, <1>13 DEF Existing
<1>16. \A m \in Expected' : Located(m)' /\ \A n \in Alive(m)' : Settling(live[n], m)'
    BY <1>8, <1>12
<1> QED
    BY <1>3, <1>8, <1>10, <1>14, <1>15, <1>16 DEF SettleInv

LEMMA OtherwiseSettles ==
    ASSUME IInv, SettleInv,
           Fail \/ LoseAnswer \/ Abort \/ Finish \/ Again \/ Drift \/ UNCHANGED vars
    PROVE  SettleInv'
<1>1. errors \in Nat /\ hist \in [disturbed : BOOLEAN, failed : SUBSET Parts, creates : BOOLEAN,
                                  clash : BOOLEAN, archives : SUBSET (Names \X Names),
                                  spoilt : SUBSET (Names \X Children)]
    BY DEF IInv, TypeOK
<1>2. CASE Fail \/ Abort
    <2>1. errors' # 0
        BY <1>1, <1>2 DEF Fail, Abort
    <2> QED
        BY <2>1 DEF SettleInv, Clean
<1>3. CASE LoseAnswer \/ Drift
    <2>1. hist'.disturbed
        BY <1>1, <1>3 DEF LoseAnswer, Drift
    <2> QED
        BY <2>1 DEF SettleInv, Clean
<1>4. CASE Again
    BY <1>4 DEF Again, SettleInv, Clean
<1>5. CASE Finish \/ UNCHANGED vars
    <2>1. /\ UNCHANGED <<live, config, deletes, todo, errors, hist>>
          /\ pc' # "idle" => pc # "idle"
        BY <1>5 DEF Finish, vars
    <2>2. Clean' => Clean
        BY <2>1 DEF Clean, Expected
    <2>3. /\ KeysAreUnique' <=> KeysAreUnique
          /\ Expected' = Expected
          /\ \A n : Unclaimed(n)' <=> Unclaimed(n)
        BY <2>1, ConfigKept, ConfigNames
    <2>4. \A m : /\ Located(m)' <=> Located(m)
                 /\ Alive(m)' = Alive(m)
        BY <2>1 DEF Located, Alive, Keys, Existing, WillBeCreated, WillBeRenamed
    <2>5. \A m, n : Settling(live[n], m)' <=> Settling(live[n], m)
        BY <2>1 DEF Settling, Counts, Matches, Waits
    <2>6. Tasks(todo)' = Tasks(todo) /\ Existing(live)' = Existing(live)
          /\ \A n : Kept(n)' <=> Kept(n)
        BY <2>1 DEF Tasks, Existing, Kept
    <2> QED
        BY <2>1, <2>2, <2>3, <2>4, <2>5, <2>6 DEF SettleInv
<1> QED
    BY <1>2, <1>3, <1>4, <1>5

\* What is live when nothing is left to be sent.
LEMMA SettledAtTheEnd ==
    ASSUME IInv, SettleInv, Clean, todo = <<>>,
           NEW t \in Tasks(Patches(live))
    PROVE  t.type = "remove" /\ ~deletes
<1>1. TypeOK /\ config \in Config /\ live \in Live
    BY DEF IInv, TypeOK
<1>2. Tasks(todo) = {}
    <2>1. Range(todo) = {}
        BY DEF Range
    <2> QED
        BY <2>1 DEF Tasks
<1>3. /\ KeysAreUnique
      /\ \A m \in Expected : Located(m) /\ \A n \in Alive(m) : Settling(live[n], m)
      /\ deletes => \A n \in Existing(live) : Unclaimed(n) => ~Kept(n)
    BY DEF SettleInv
<1>4. \A m \in Expected : /\ \A n, x \in Alive(m) : n = x
                          /\ Alive(m) = {m}
    BY <1>2, <1>3 DEF Located, WillBeCreated, WillBeRenamed
<1>5. \A m \in Expected : /\ \A n \in Alive(m) : Takes(live, m, n)
                          /\ \A n : Takes(live, m, n) => n \in Alive(m)
                          /\ Missing(live, m) <=> Alive(m) = {}
    BY <1>1, <1>4, TakesAlive
<1>6. \A m \in Expected, f \in Parts : Counts(live[m], m, f) => Matches(live[m], m, f)
    BY <1>2, <1>3, <1>4 DEF Settling, Waits
<1>7. Sound(t)
    <2>1. Patches(live) \in Seq(SoundPatches)
        BY <1>1, <1>3, PatchesFacts
    <2>2. PICK i \in DOMAIN Patches(live) : t \in TasksOf(Patches(live)[i])
        BY DEF Tasks, Range
    <2>3. Patches(live)[i] \in SoundPatches
        BY <2>1, <2>2, ElementOfSeq, LenProperties
    <2> QED
        BY <2>2, <2>3 DEF SoundPatches, SoundPatch
<1>8. CASE t.request.of \in Expected /\ t.request.op # "delete"
           /\ \E n \in Names : Takes(live, t.request.of, n)
                               /\ t \in Tasks(Changes(live, n, t.request.of))
    <2>1. PICK m \in Expected : m = t.request.of
        BY <1>8
    <2>2. Takes(live, m, m) /\ t \in Tasks(Changes(live, m, m))
        BY <1>4, <1>5, <1>8, <2>1
    <2>3. PICK f \in Parts : /\ live[m][f] # config[m][f] /\ Counts(live[m], m, f)
                             /\ f \notin Children \/ t.request.op = f
        BY <1>1, <2>2, ChangesFacts
    <2>4. f \in Children /\ config[m][f] = Absent /\ ~deletes
        BY <1>6, <2>3 DEF Matches
    <2>5. t.type = "remove"
        BY <1>7, <2>1, <2>3, <2>4 DEF Sound
    <2> QED
        BY <2>4, <2>5
<1>9. CASE /\ t.request.op = "delete" /\ t.request.at \in Existing(live)
           /\ \A m \in Expected : ~Takes(live, m, t.request.at)
    <2>1. ASSUME NEW m \in Expected, t.request.at \in Keys(m)
          PROVE  FALSE
        <3>1. t.request.at \in Alive(m)
            BY <1>9, <2>1 DEF Alive
        <3> QED
            BY <1>5, <1>9, <3>1
    <2>2. Unclaimed(t.request.at)
        BY <2>1 DEF Unclaimed
    <2>3. Kept(t.request.at)
        BY <1>2 DEF Kept
    <2>4. ~deletes
        BY <1>3, <1>9, <2>2, <2>3
    <2>5. t.type = "remove"
        BY <1>7, <1>9 DEF Sound, Children
    <2> QED
        BY <2>4, <2>5
<1>10. CASE Missing(live, t.request.of)
    <2>1. PICK m \in Expected : m = t.request.of
        BY <1>10 DEF Missing
    <2>2. Alive(m) = {}
        BY <1>5, <1>10, <2>1
    <2> QED
        BY <1>4, <2>2
<1> QED
    BY <1>1, <1>3, <1>8, <1>9, <1>10, PatchesFacts

\* After a run without errors and without interference, another plan is empty but for
\* what needs --delete-resources.
THEOREM CleanRunLeavesNothing == Spec => []CleanRunSettles
<1>1. Init => IInv /\ SettleInv
    <2>1. Init => ~Clean
        BY DEF Init, Clean
    <2> QED
        BY <2>1, Initial DEF SettleInv
<1>2. IInv /\ SettleInv /\ [Next]_vars => (IInv /\ SettleInv)'
    <2> SUFFICES ASSUME IInv, SettleInv, [Next]_vars
                 PROVE  IInv' /\ SettleInv'
        OBVIOUS
    <2>1. IInv'
        BY Inductive
    <2>2. CASE Plan
        BY <2>1, <2>2, PlanSettles
    <2>3. CASE Skip
        BY <2>1, <2>3, SkipSettles
    <2>4. CASE Succeed
        BY <2>1, <2>4, SucceedSettles
    <2>5. CASE Fail \/ LoseAnswer \/ Abort \/ Finish \/ Again \/ Drift \/ UNCHANGED vars
        BY <2>1, <2>5, OtherwiseSettles
    <2> QED
        BY <2>2, <2>3, <2>4, <2>5 DEF Next, Operation
<1>3. IInv /\ SettleInv => CleanRunSettles
    <2> SUFFICES ASSUME IInv, SettleInv,
                        pc = "done", errors = 0, ~hist.disturbed, ~hist.clash,
                        hist.creates => \A m \in Expected : ~config[m].archived,
                        NEW i \in DOMAIN Patches(live)
                 PROVE  Patches(live)[i].type = "remove" /\ ~deletes
        BY DEF CleanRunSettles
    <2>1. Clean /\ KeysAreUnique
        BY DEF Clean, SettleInv
    <2>2. todo = <<>>
        BY DEF IInv, TodoInv
    <2>3. PICK p : p = Patches(live)[i]
        OBVIOUS
    <2>4. p \in SoundPatches
        <3>1. Patches(live) \in Seq(SoundPatches)
            BY <2>1, PatchesFacts DEF IInv, TypeOK
        <3> QED
            BY <2>3, <3>1, ElementOfSeq, LenProperties
    <2>5. HeadTask(p) \in TasksOf(p) /\ HeadTask(p).type = p.type
        BY <2>4, ShorterFacts DEF SoundPatches
    <2>6. HeadTask(p) \in Tasks(Patches(live))
        BY <2>3, <2>5 DEF Tasks, Range
    <2> QED
        BY <2>1, <2>2, <2>3, <2>5, <2>6, SettledAtTheEnd
<1> QED
    BY <1>1, <1>2, <1>3, PTL DEF Spec
=============================================================================
