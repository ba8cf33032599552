--------------------- MODULE SecretsAndWebhooks_proofs ---------------------
(***************************************************************************)
(* What holds of webhooks, secrets and variables whatever is live, is      *)
(* configured and is merged, and however many keys, credentials and        *)
(* failures there are.                                                     *)
(*                                                                         *)
(* Plans and imports are put together one object at a time, so the proofs  *)
(* begin with what holds of a function that is defined by recursion over   *)
(* the first natural numbers.                                              *)
(*                                                                         *)
(* The second half is about what a run that nothing disturbs settles.  It  *)
(* holds when no key has a wildcard: each object is then paired with the   *)
(* one of its own key, and what is still to do is a relation between three *)
(* sets, what is live, what is still to be patched and what is configured. *)
(***************************************************************************)
EXTENDS SecretsAndWebhooks, FiniteSetTheorems, SequenceTheorems, TLAPS

-----------------------------------------------------------------------------
(* Recursion over 0 .. n.                                                  *)

\* Every set of natural numbers that is not empty has a least element: an induction
\* that the library states for sets of finite sets.
LEMMA LeastNumber ==
    ASSUME NEW T \in SUBSET Nat, T # {}
    PROVE  \E m \in T : \A k \in T : m <= k
<1> DEFINE F == {0..k : k \in T}
           R == StrictSubsetOrdering(Nat)
           S == FiniteSubsetsOf(Nat)
<1>1. \A k \in T : 0..k \in S
    <2> TAKE k \in T
    <2>1. IsFiniteSet(0..k)
        BY FS_Interval
    <2>2. 0..k \in SUBSET Nat
        OBVIOUS
    <2> QED
        BY <2>1, <2>2 DEF FiniteSubsetsOf
<1>2. F \subseteq S
    BY <1>1
<1>3. F # {}
    OBVIOUS
<1>4. IsWellFoundedOn(R, S)
    BY FS_StrictSubsetOrderingWellFounded
<1>5. PICK x \in F : \A y \in F : ~ (<<y, x>> \in R)
    <2> HIDE DEF F, R, S
    <2> QED
        BY <1>2, <1>3, <1>4, WFMin
<1>6. PICK m \in T : x = 0..m
    OBVIOUS
<1>7. ASSUME NEW k \in T
      PROVE  m <= k
    <2>1. SUFFICES ASSUME k < m
                   PROVE  FALSE
        OBVIOUS
    <2>2. 0..k \in F
        OBVIOUS
    <2>3. 0..k \subseteq 0..m /\ 0..k # 0..m
        BY <2>1
    <2>4. 0..k \in SUBSET Nat /\ 0..m \in SUBSET Nat
        OBVIOUS
    <2>5. <<0..k, 0..m>> \in R
        BY <2>3, <2>4 DEF StrictSubsetOrdering
    <2> QED
        BY <1>5, <1>6, <2>2, <2>5
<1> QED
    BY <1>7

\* What holds at the beginning, and of each step when it held before it, holds of all.
LEMMA Steps ==
    ASSUME NEW S, NEW n \in Nat, NEW f, f[0] \in S,
           \A i \in 1..n : f[i - 1] \in S => f[i] \in S
    PROVE  \A i \in 0..n : f[i] \in S
<1> DEFINE Bad == {k \in 0..n : f[k] \notin S}
<1>1. SUFFICES ASSUME Bad # {}
               PROVE  FALSE
    OBVIOUS
<1>2. Bad \in SUBSET Nat
    OBVIOUS
<1>3. PICK k \in Bad : \A j \in Bad : k <= j
    <2> HIDE DEF Bad
    <2> QED
        BY <1>1, <1>2, LeastNumber
<1>4. k \in 1..n /\ k - 1 \in 0..n /\ ~(k <= k - 1)
    OBVIOUS
<1>5. k - 1 \notin Bad
    <2> HIDE DEF Bad
    <2> QED
        BY <1>3, <1>4
<1>6. f[k - 1] \in S
    BY <1>4, <1>5
<1> QED
    BY <1>4, <1>6

\* The values of a recursion that begins with base and goes on with step.
IsFolded(g, n, base0, step) == g[0] = base0 /\ \A i \in 1..n : g[i] = step[<<g[i - 1], i>>]

\* A recursion has a solution.
LEMMA Folding ==
    ASSUME NEW S, NEW n \in Nat, NEW base0 \in S, NEW step \in [S \X (1..n) -> S]
    PROVE  \E g \in [0..n -> S] : IsFolded(g, n, base0, step)
<1> DEFINE Bad == {k \in 0..n : ~ \E g \in [0..k -> S] : IsFolded(g, k, base0, step)}
<1>1. SUFFICES ASSUME Bad # {}
               PROVE  FALSE
    <2>1. n \in 0..n
        OBVIOUS
    <2> QED
        BY <2>1
<1>2. Bad \in SUBSET Nat
    OBVIOUS
<1>3. PICK k \in Bad : \A j \in Bad : k <= j
    <2> HIDE DEF Bad
    <2> QED
        BY <1>1, <1>2, LeastNumber
<1>4. k \in 0..n
    OBVIOUS
<1>5. CASE k = 0
    <2> DEFINE g == [i \in 0..0 |-> base0]
    <2>1. g \in [0..0 -> S]
        OBVIOUS
    <2>2. IsFolded(g, 0, base0, step)
        BY DEF IsFolded
    <2> QED
        BY <1>5, <2>1, <2>2
<1>6. CASE k # 0
    <2>1. k - 1 \in 0..n /\ k \in 1..n /\ ~(k <= k - 1)
        BY <1>4, <1>6
    <2>2. k - 1 \notin Bad
        <3> HIDE DEF Bad
        <3> QED
            BY <1>3, <2>1
    <2>3. PICK g \in [0..k - 1 -> S] : IsFolded(g, k - 1, base0, step)
        BY <2>1, <2>2
    <2> DEFINE next == step[<<g[k - 1], k>>]
               h == [i \in 0..k |-> IF i = k THEN next ELSE g[i]]
    <2>4. k - 1 \in 0..k - 1 /\ g[k - 1] \in S
        BY <2>1
    <2>5. next \in S
        BY <2>1, <2>4
    <2>6. \A i \in 0..k : i # k => i \in 0..k - 1
        BY <1>4
    <2>7. h \in [0..k -> S]
        <3> HIDE DEF next
        <3> QED
            BY <2>5, <2>6
    <2>8. h[0] = base0
        <3>1. 0 \in 0..k /\ 0 # k
            BY <1>4, <1>6
        <3> QED
            BY <2>3, <3>1 DEF IsFolded
    <2>9. ASSUME NEW i \in 1..k
          PROVE  h[i] = step[<<h[i - 1], i>>]
        <3>1. CASE i = k
            <4>1. k \in 0..k /\ k - 1 \in 0..k /\ k - 1 # k
                BY <2>1
            <4>2. h[k] = next /\ h[k - 1] = g[k - 1]
                BY <4>1
            <4> HIDE DEF h
            <4> QED
                BY <3>1, <4>2
        <3>2. CASE i # k
            <4>1. /\ i \in 0..k /\ i \in 1..k - 1
                  /\ i - 1 \in 0..k /\ i - 1 # k
                BY <1>4, <3>2
            <4>2. h[i] = g[i] /\ h[i - 1] = g[i - 1]
                BY <3>2, <4>1
            <4> HIDE DEF h
            <4> QED
                BY <2>3, <4>1, <4>2 DEF IsFolded
        <3> QED
            BY <3>1, <3>2
    <2>10. IsFolded(h, k, base0, step)
        <3> HIDE DEF h
        <3> QED
            BY <2>8, <2>9 DEF IsFolded
    <2> QED
        BY <2>7, <2>10
<1> QED
    BY <1>5, <1>6

-----------------------------------------------------------------------------
(* The invariant.                                                          *)

\* No url in the parameters has a wildcard: names never have one.
Plainly ==
    \A k \in Kinds :
        /\ \A l \in Lives[k] : \A i \in DOMAIN l : ~IsWildcard(l[i].key)
        /\ \A c \in Configs[k] : \A i \in DOMAIN c : ~IsWildcard(c[i].key)

\* An object, and an entry, of the kind that the behaviour is about; without wildcards
\* there never is one.
Suits(object) == Fits(kind, object) /\ (Plainly => ~IsWildcard(object.key))
SuitsEntry(e) == Suits(e) /\ FitsEntry(kind, e)

\* The entry of a patch goes to the object that the patch is for: only webhooks are
\* matched with anything but their own key.
GoesTo(p) ==
    p.op # "remove" =>
        /\ p.entry \in Entry
        /\ SuitsEntry(p.entry)
        /\ kind # "webhook" => p.entry.key = p.key

\* A patch that is planned has what the configuration has as a secret, and never
\* asterisks; one that is about to be applied has what GitHub may use.
IsPlanned(p) == GoesTo(p) /\ (p.op # "remove" => p.entry.secret \in Given \ {Dummy})
IsReady(p) == GoesTo(p) /\ (p.op # "remove" => p.entry.secret \in Secrets \cup {NoSecret})

PlannedPatches == {p \in Patches : IsPlanned(p)}
ReadyPatches == {p \in Patches : IsReady(p)}

IsConfigured(e) == e.secret \in Given /\ SuitsEntry(e)

LiveInv == \A i \in DOMAIN live : Suits(live[i])

ConfigInv ==
    /\ \A i \in DOMAIN config : IsConfigured(config[i])
    /\ \A i \in DOMAIN base : IsConfigured(base[i])

TodoInv == \A i \in DOMAIN run.todo : IsReady(run.todo[i])

IInv == TypeOK /\ LiveInv /\ ConfigInv /\ TodoInv /\ SecretsAreSecret

LEMMA LivesFacts ==
    ASSUME kind \in Kinds, NEW l \in Lives[kind]
    PROVE  /\ l \in Seq(LiveObject) /\ KeysDiffer(l)
           /\ \A i \in DOMAIN l : l[i].secret \in Secrets \cup {NoSecret} /\ Suits(l[i])
BY LivesAssumption DEF Suits, Plainly

LEMMA ConfigsFacts ==
    ASSUME kind \in Kinds, NEW c \in Configs[kind]
    PROVE  c \in Seq(Entry) /\ \A i \in DOMAIN c : IsConfigured(c[i])
<1>1. c \in Seq(Entry) /\ \A i \in DOMAIN c : c[i].secret \in Given /\ FitsEntry(kind, c[i])
    BY ConfigsAssumption
<1>2. Plainly => \A i \in DOMAIN c : ~IsWildcard(c[i].key)
    BY DEF Plainly
<1> QED
    BY <1>1, <1>2 DEF IsConfigured, SuitsEntry, Suits, FitsEntry

-----------------------------------------------------------------------------
(* Matching.                                                               *)

\* Removing one of a sequence.
LEMMA RemoveAtFacts ==
    ASSUME NEW S, NEW s \in Seq(S), NEW i \in 1..Len(s)
    PROVE  /\ RemoveAt(s, i) \in Seq(S)
           /\ Len(RemoveAt(s, i)) = Len(s) - 1
           /\ \A j \in 1..Len(s) - 1 : RemoveAt(s, i)[j] = IF j < i THEN s[j] ELSE s[j + 1]
<1> DEFINE a == SubSeq(s, 1, i - 1)
           b == SubSeq(s, i + 1, Len(s))
<1>1. Len(s) \in Nat /\ i \in Nat /\ 1 <= i /\ i <= Len(s)
    BY LenProperties
<1>2. (\A j \in 1..i - 1 : s[j] \in S) /\ \A j \in i + 1..Len(s) : s[j] \in S
    BY <1>1, ElementOfSeq
<1>3. /\ a \in Seq(S) /\ Len(a) = i - 1
      /\ \A j \in 1..i - 1 : a[j] = s[j]
    <2>1. /\ a \in Seq(S) /\ Len(a) = IF 1 <= i - 1 THEN i - 1 - 1 + 1 ELSE 0
          /\ \A j \in 1..i - 1 - 1 + 1 : a[j] = s[1 + j - 1]
        BY <1>1, <1>2, SubSeqProperties
    <2> HIDE DEF a
    <2> QED
        BY <1>1, <2>1
<1>4. /\ b \in Seq(S) /\ Len(b) = Len(s) - i
      /\ \A j \in 1..Len(s) - i : b[j] = s[i + j]
    <2>1. /\ b \in Seq(S) /\ Len(b) = IF i + 1 <= Len(s) THEN Len(s) - (i + 1) + 1 ELSE 0
          /\ \A j \in 1..Len(s) - (i + 1) + 1 : b[j] = s[i + 1 + j - 1]
        BY <1>1, <1>2, SubSeqProperties
    <2> HIDE DEF b
    <2> QED
        BY <1>1, <2>1
<1>5. RemoveAt(s, i) = a \o b
    BY DEF RemoveAt
<1> HIDE DEF a, b
<1>6. /\ a \o b \in Seq(S) /\ Len(a \o b) = Len(a) + Len(b)
      /\ \A j \in 1..Len(a) + Len(b) : (a \o b)[j] = IF j <= Len(a) THEN a[j] ELSE b[j - Len(a)]
    BY <1>3, <1>4, ConcatProperties
<1>7. Len(a) + Len(b) = Len(s) - 1
    BY <1>1, <1>3, <1>4
<1>8. ASSUME NEW j \in 1..Len(s) - 1
      PROVE  (a \o b)[j] = IF j < i THEN s[j] ELSE s[j + 1]
    <2>1. (a \o b)[j] = IF j <= i - 1 THEN a[j] ELSE b[j - (i - 1)]
        BY <1>3, <1>6, <1>7
    <2>2. CASE j < i
        BY <1>1, <1>3, <2>1, <2>2
    <2>3. CASE ~(j < i)
        <3>1. j - (i - 1) \in 1..Len(s) - i /\ i + (j - (i - 1)) = j + 1
            BY <1>1, <2>3
        <3> QED
            BY <1>1, <1>4, <2>1, <2>3, <3>1
    <2> QED
        BY <2>2, <2>3
<1> QED
    BY <1>5, <1>6, <1>7, <1>8

\* The first of a set of places.
LEMMA FirstOf ==
    ASSUME NEW T \in SUBSET Nat, T # {}
    PROVE  (CHOOSE i \in T : \A j \in T : i <= j) \in T
BY LeastNumber

\* An entry is found under its own key, unless it is about webhooks.
LEMMA EntryForFacts ==
    ASSUME NEW entries \in Seq(Entry), \A i \in DOMAIN entries : IsConfigured(entries[i]),
           NEW key, NEW left \in SUBSET (DOMAIN entries), EntryFor(key, entries, left) # 0
    PROVE  /\ EntryFor(key, entries, left) \in DOMAIN entries
           /\ kind # "webhook" => entries[EntryFor(key, entries, left)].key = key
<1> DEFINE named == {i \in left : key \in Names(entries[i])}
           prefixed == IF \E i \in DOMAIN entries : IsWildcard(entries[i].key)
                       THEN {i \in DOMAIN entries : IsPrefix(Stripped(entries[i].key), key)}
                       ELSE {}
           all == IF named # {} THEN named ELSE prefixed
           found == CHOOSE i \in all : \A j \in all : i <= j
<1>1. DOMAIN entries \in SUBSET Nat
    BY LenProperties
<1>2. all \in SUBSET (DOMAIN entries)
    OBVIOUS
<1>3. EntryFor(key, entries, left) = IF all = {} THEN 0 ELSE found
    BY DEF EntryFor
<1>4. ASSUME kind # "webhook", NEW i \in all
      PROVE  entries[i].key = key
    <2>1. prefixed = {}
        BY <1>4 DEF IsConfigured, SuitsEntry, Suits, FitsEntry, Fits
    <2>2. i \in named
        BY <1>4, <2>1
    <2>3. entries[i].aliases = {}
        BY <1>4, <2>2 DEF IsConfigured, SuitsEntry, Suits, FitsEntry
    <2> QED
        BY <2>2, <2>3 DEF Names
<1> HIDE DEF all
<1>5. all # {} /\ EntryFor(key, entries, left) = found
    BY <1>3
<1>6. found \in all
    BY <1>1, <1>2, <1>5, FirstOf
<1> QED
    BY <1>2, <1>4, <1>5, <1>6

-----------------------------------------------------------------------------
(* The plan.                                                               *)

LEMMA RemovalPlanned ==
    ASSUME NEW key \in Words
    PROVE  Patch("remove", NoEntry, key) \in PlannedPatches
BY DEF Patch, Patches, PlannedPatches, IsPlanned, GoesTo

LEMMA EntryPlanned ==
    ASSUME NEW e \in Entry, IsConfigured(e), e.secret # Dummy, NEW key \in Words,
           NEW op \in {"add", "change"}, kind # "webhook" => e.key = key
    PROVE  Patch(op, e, key) \in PlannedPatches
<1>1. Patch(op, e, key) \in Patches
    BY DEF Patch, Patches
<1>2. /\ Patch(op, e, key).entry = e
      /\ Patch(op, e, key).key = key
    BY DEF Patch
<1> QED
    BY <1>1, <1>2 DEF PlannedPatches, IsPlanned, GoesTo, IsConfigured

\* What is kept while live objects are matched.
Matchings(entries) == [left : SUBSET (DOMAIN entries), ok : BOOLEAN, out : Seq(PlannedPatches)]

LEMMA MatchedFacts ==
    ASSUME NEW entries \in Seq(Entry), \A i \in DOMAIN entries : IsConfigured(entries[i]),
           NEW c, c.key \in Words, NEW options, NEW s \in Matchings(entries)
    PROVE  Matched(s, c, entries, options) \in Matchings(entries)
<1>1. /\ s.left \in SUBSET (DOMAIN entries) /\ s.out \in Seq(PlannedPatches)
      /\ s = [left |-> s.left, ok |-> s.ok, out |-> s.out]
    BY DEF Matchings
<1>2. PICK i : i = EntryFor(c.key, entries, s.left)
    OBVIOUS
<1>3. CASE i = 0
    <2>1. PICK out : out = Append(s.out, Patch("remove", NoEntry, c.key))
        OBVIOUS
    <2>2. out \in Seq(PlannedPatches)
        BY <1>1, <2>1, RemovalPlanned, AppendProperties
    <2>3. Matched(s, c, entries, options) = [s EXCEPT !.out = out]
        BY <1>2, <1>3, <2>1 DEF Matched
    <2> QED
        BY <2>2, <2>3 DEF Matchings
<1>4. CASE i # 0
    <2>1. i \in DOMAIN entries /\ (kind # "webhook" => entries[i].key = c.key)
        BY <1>1, <1>2, <1>4, EntryForFacts
    <2>2. PICK out : out = IF IsPatched(entries[i], c, options)
                           THEN Append(s.out, Patch("change", entries[i], c.key)) ELSE s.out
        OBVIOUS
    <2>3. entries[i] \in Entry /\ IsConfigured(entries[i])
        BY <2>1, LenProperties, ElementOfSeq
    <2>4. ASSUME IsPatched(entries[i], c, options)
          PROVE  out \in Seq(PlannedPatches)
        <3>1. entries[i].secret # Dummy
            BY <2>4 DEF IsPatched
        <3>2. PICK patch : patch = Patch("change", entries[i], c.key)
            OBVIOUS
        <3>3. patch \in PlannedPatches
            BY <2>1, <2>3, <3>1, <3>2, EntryPlanned
        <3>4. out = Append(s.out, patch)
            BY <2>2, <2>4, <3>2
        <3> QED
            BY <1>1, <3>3, <3>4, AppendProperties
    <2>5. ASSUME ~IsPatched(entries[i], c, options)
          PROVE  out \in Seq(PlannedPatches)
        BY <1>1, <2>2, <2>5
    <2>6. out \in Seq(PlannedPatches)
        BY <2>4, <2>5
    <2>7. PICK ok \in BOOLEAN : ok <=> s.ok /\ i \in s.left
        OBVIOUS
    <2>8. ok = (s.ok /\ i \in s.left)
        BY <2>7
    <2>9. Matched(s, c, entries, options) = [left |-> s.left \ {i}, ok |-> ok, out |-> out]
        BY <1>2, <1>4, <2>2, <2>8, Zenon DEF Matched
    <2>10. s.left \ {i} \in SUBSET (DOMAIN entries)
        BY <1>1
    <2> QED
        BY <2>6, <2>7, <2>9, <2>10 DEF Matchings
<1> QED
    BY <1>3, <1>4

\* How all of them are matched, one after the other.
LEMMA AllMatchedSteps ==
    ASSUME NEW entries \in Seq(Entry), \A i \in DOMAIN entries : IsConfigured(entries[i]),
           NEW T, \A c \in T : c.key \in Words, NEW current \in Seq(T), NEW options
    PROVE  \E f :
               /\ AllMatched(current, entries, options) = f[Len(current)]
               /\ f[0] = [left |-> DOMAIN entries, ok |-> TRUE, out |-> <<>>]
               /\ \A i \in 1..Len(current) : f[i] = Matched(f[i - 1], current[i], entries, options)
               /\ \A i \in 0..Len(current) : f[i] \in Matchings(entries)
<1> DEFINE n == Len(current)
           M == Matchings(entries)
           first == [left |-> DOMAIN entries, ok |-> TRUE, out |-> <<>>]
           step == [x \in M \X (1..n) |-> Matched(x[1], current[x[2]], entries, options)]
           f == CHOOSE g : g = [i \in 0..n |-> IF i = 0 THEN first
                                               ELSE Matched(g[i - 1], current[i], entries, options)]
<1>1. n \in Nat /\ \A i \in 1..n : current[i] \in T
    BY LenProperties, ElementOfSeq
<1>2. first \in M
    BY EmptySeq DEF Matchings
<1>3. \A m \in M, i \in 1..n : Matched(m, current[i], entries, options) \in M
    <2> TAKE m \in M, i \in 1..n
    <2>1. current[i].key \in Words
        BY <1>1
    <2> QED
        BY <2>1, MatchedFacts
<1>4. step \in [M \X (1..n) -> M]
    <2> HIDE DEF M, n
    <2> QED
        BY <1>3
<1>5. PICK g \in [0..n -> M] : IsFolded(g, n, first, step)
    <2> HIDE DEF M, n, first, step
    <2> QED
        BY <1>1, <1>2, <1>4, Folding
<1>6. ASSUME NEW i \in 0..n
      PROVE  g[i] = IF i = 0 THEN first ELSE Matched(g[i - 1], current[i], entries, options)
    <2>1. CASE i = 0
        BY <1>5, <2>1 DEF IsFolded
    <2>2. CASE i # 0
        <3>1. i \in 1..n /\ i - 1 \in 0..n
            BY <1>1, <2>2
        <3>2. <<g[i - 1], i>> \in M \X (1..n)
            BY <1>5, <3>1
        <3>3. g[i] = step[<<g[i - 1], i>>]
            BY <1>5, <3>1 DEF IsFolded
        <3>4. step[<<g[i - 1], i>>] = Matched(g[i - 1], current[i], entries, options)
            <4> HIDE DEF M, n
            <4> QED
                BY <3>2
        <3> QED
            BY <2>2, <3>3, <3>4
    <2> QED
        BY <2>1, <2>2
<1>7. g = [i \in 0..n |-> IF i = 0 THEN first ELSE Matched(g[i - 1], current[i], entries, options)]
    <2> HIDE DEF M, n, first
    <2> QED
        BY <1>5, <1>6
<1>8. f = [i \in 0..n |-> IF i = 0 THEN first ELSE Matched(f[i - 1], current[i], entries, options)]
    <2> HIDE DEF n, first
    <2> QED
        BY <1>7
<1>9. AllMatched(current, entries, options) = f[n]
    BY DEF AllMatched
<1> HIDE DEF f, M, n, first, step
<1>10. f[0] = first
    BY <1>1, <1>8
<1>11. \A i \in 1..n : f[i] = Matched(f[i - 1], current[i], entries, options)
    BY <1>1, <1>8
<1>12. f[0] \in M
    BY <1>2, <1>10
<1>13. ASSUME NEW i \in 1..n, f[i - 1] \in M
       PROVE  f[i] \in M
    BY <1>3, <1>11, <1>13
<1>14. \A i \in 0..n : f[i] \in M
    BY <1>1, <1>12, <1>13, Steps
<1> QED
    BY <1>9, <1>10, <1>11, <1>14 DEF M, n, first

LEMMA AllMatchedFacts ==
    ASSUME NEW entries \in Seq(Entry), \A i \in DOMAIN entries : IsConfigured(entries[i]),
           NEW T, \A c \in T : c.key \in Words, NEW current \in Seq(T), NEW options
    PROVE  AllMatched(current, entries, options) \in Matchings(entries)
<1>1. PICK f :
          /\ AllMatched(current, entries, options) = f[Len(current)]
          /\ \A i \in 0..Len(current) : f[i] \in Matchings(entries)
    BY AllMatchedSteps
<1>2. Len(current) \in 0..Len(current)
    BY LenProperties
<1> QED
    BY <1>1, <1>2

\* A patch that adds what no live object was matched with, unless it is left alone.
Added(s, e, isLeft) ==
    IF isLeft /\ e.secret # Dummy THEN Append(s, Patch("add", e, e.key)) ELSE s

LEMMA WithAdditionsSteps ==
    ASSUME NEW entries \in Seq(Entry), \A i \in DOMAIN entries : IsConfigured(entries[i]),
           NEW patches \in Seq(PlannedPatches), NEW left
    PROVE  \E f :
               /\ WithAdditions(patches, entries, left) = f[Len(entries)]
               /\ f[0] = patches
               /\ \A i \in 1..Len(entries) : f[i] = Added(f[i - 1], entries[i], i \in left)
               /\ \A i \in 0..Len(entries) : f[i] \in Seq(PlannedPatches)
<1> DEFINE n == Len(entries)
           M == Seq(PlannedPatches)
           After(s, i) == IF i \in left /\ entries[i].secret # Dummy
                          THEN Append(s, Patch("add", entries[i], entries[i].key)) ELSE s
           step == [x \in M \X (1..n) |-> After(x[1], x[2])]
           f == CHOOSE g : g = [i \in 0..n |-> IF i = 0 THEN patches ELSE After(g[i - 1], i)]
<1>1. n \in Nat /\ DOMAIN entries = 1..n /\ \A i \in 1..n : entries[i] \in Entry
    BY LenProperties, ElementOfSeq
<1>2. ASSUME NEW m \in M, NEW i \in 1..n
      PROVE  After(m, i) \in M
    <2>1. CASE i \in left /\ entries[i].secret # Dummy
        <3>1. IsConfigured(entries[i]) /\ entries[i] \in Entry /\ entries[i].key \in Words
            BY <1>1 DEF Entry
        <3>2. PICK patch : patch = Patch("add", entries[i], entries[i].key)
            OBVIOUS
        <3>3. patch \in PlannedPatches
            BY <2>1, <3>1, <3>2, EntryPlanned
        <3>4. After(m, i) = Append(m, patch)
            BY <2>1, <3>2
        <3> QED
            BY <3>3, <3>4, AppendProperties
    <2>2. CASE ~(i \in left /\ entries[i].secret # Dummy)
        BY <2>2
    <2> QED
        BY <2>1, <2>2
<1>3. step \in [M \X (1..n) -> M]
    <2> HIDE DEF M, n, After
    <2> QED
        BY <1>2
<1>4. PICK g \in [0..n -> M] : IsFolded(g, n, patches, step)
    <2> HIDE DEF n, step
    <2> QED
        BY <1>1, <1>3, Folding
<1>5. ASSUME NEW i \in 0..n
      PROVE  g[i] = IF i = 0 THEN patches ELSE After(g[i - 1], i)
    <2> HIDE DEF After
    <2>1. CASE i = 0
        BY <1>4, <2>1 DEF IsFolded
    <2>2. CASE i # 0
        <3>1. i \in 1..n /\ i - 1 \in 0..n
            BY <1>1, <2>2
        <3>2. <<g[i - 1], i>> \in M \X (1..n)
            BY <1>4, <3>1
        <3>3. g[i] = step[<<g[i - 1], i>>]
            BY <1>4, <3>1 DEF IsFolded
        <3>4. step[<<g[i - 1], i>>] = After(g[i - 1], i)
            <4> HIDE DEF M, n
            <4> QED
                BY <3>2
        <3> QED
            BY <2>2, <3>3, <3>4
    <2> QED
        BY <2>1, <2>2
<1>6. g = [i \in 0..n |-> IF i = 0 THEN patches ELSE After(g[i - 1], i)]
    <2> HIDE DEF M, n, After
    <2> QED
        BY <1>4, <1>5
<1>7. f = [i \in 0..n |-> IF i = 0 THEN patches ELSE After(f[i - 1], i)]
    <2> HIDE DEF n, After
    <2> QED
        BY <1>6
<1>8. WithAdditions(patches, entries, left) = f[n]
    BY DEF WithAdditions
<1> HIDE DEF f, M, n, After, step
<1>9. f[0] = patches
    BY <1>1, <1>7
<1>10. \A i \in 1..n : f[i] = After(f[i - 1], i)
    BY <1>1, <1>7
<1>11. f[0] \in M
    BY <1>9 DEF M
<1>12. ASSUME NEW i \in 1..n, f[i - 1] \in M
       PROVE  f[i] \in M
    BY <1>2, <1>10, <1>12
<1>13. \A i \in 0..n : f[i] \in M
    BY <1>1, <1>11, <1>12, Steps
<1>14. \A i \in 1..n : f[i] = Added(f[i - 1], entries[i], i \in left)
    BY <1>10 DEF After, Added
<1> QED
    BY <1>8, <1>9, <1>13, <1>14 DEF M, n

LEMMA WithAdditionsFacts ==
    ASSUME NEW entries \in Seq(Entry), \A i \in DOMAIN entries : IsConfigured(entries[i]),
           NEW patches \in Seq(PlannedPatches), NEW left
    PROVE  WithAdditions(patches, entries, left) \in Seq(PlannedPatches)
<1>1. PICK f :
          /\ WithAdditions(patches, entries, left) = f[Len(entries)]
          /\ \A i \in 0..Len(entries) : f[i] \in Seq(PlannedPatches)
    BY WithAdditionsSteps
<1>2. Len(entries) \in 0..Len(entries)
    BY LenProperties
<1> QED
    BY <1>1, <1>2

\* What is planned has what is configured as its secret, and goes where it belongs.
LEMMA PlannedFacts ==
    ASSUME NEW entries \in Seq(Entry), \A i \in DOMAIN entries : IsConfigured(entries[i]),
           NEW T, \A c \in T : c.key \in Words, NEW current \in Seq(T), NEW options
    PROVE  Planned(current, entries, options).patches \in Seq(PlannedPatches)
<1>1. PICK s : s = AllMatched(current, entries, options)
    OBVIOUS
<1>2. s \in Matchings(entries)
    BY <1>1, AllMatchedFacts
<1>3. s.out \in Seq(PlannedPatches)
    BY <1>2 DEF Matchings
<1>4. Planned(current, entries, options).patches = WithAdditions(s.out, entries, s.left)
    BY <1>1 DEF Planned
<1> QED
    BY <1>3, <1>4, WithAdditionsFacts

\* What is chosen of the patches is what is in the set.
LEMMA ChosenSteps ==
    ASSUME NEW S, NEW patches \in Seq(S), NEW set
    PROVE  \E f :
               /\ Chosen(patches, set) = f[Len(patches)]
               /\ f[0] = <<>>
               /\ \A i \in 1..Len(patches) :
                      f[i] = IF patches[i] \in set THEN Append(f[i - 1], patches[i]) ELSE f[i - 1]
               /\ \A i \in 0..Len(patches) : f[i] \in Seq(S \cap set)
<1> DEFINE n == Len(patches)
           M == Seq(S \cap set)
           After(s, i) == IF patches[i] \in set THEN Append(s, patches[i]) ELSE s
           step == [x \in M \X (1..n) |-> After(x[1], x[2])]
           f == CHOOSE g : g = [i \in 0..n |-> IF i = 0 THEN <<>> ELSE After(g[i - 1], i)]
<1>1. n \in Nat /\ \A i \in 1..n : patches[i] \in S
    BY LenProperties, ElementOfSeq
<1>2. ASSUME NEW m \in M, NEW i \in 1..n
      PROVE  After(m, i) \in M
    <2>1. CASE patches[i] \in set
        <3>1. PICK patch : patch = patches[i]
            OBVIOUS
        <3>2. patch \in S \cap set
            BY <1>1, <2>1, <3>1
        <3>3. After(m, i) = Append(m, patch)
            BY <2>1, <3>1
        <3> QED
            BY <3>2, <3>3, AppendProperties
    <2>2. CASE patches[i] \notin set
        BY <2>2
    <2> QED
        BY <2>1, <2>2
<1>3. step \in [M \X (1..n) -> M]
    <2> HIDE DEF M, n, After
    <2> QED
        BY <1>2
<1>4. <<>> \in M
    BY EmptySeq
<1>5. PICK g \in [0..n -> M] : IsFolded(g, n, <<>>, step)
    <2> HIDE DEF M, n, step
    <2> QED
        BY <1>1, <1>3, <1>4, Folding
<1>6. ASSUME NEW i \in 0..n
      PROVE  g[i] = IF i = 0 THEN <<>> ELSE After(g[i - 1], i)
    <2> HIDE DEF After
    <2>1. CASE i = 0
        BY <1>5, <2>1 DEF IsFolded
    <2>2. CASE i # 0
        <3>1. i \in 1..n /\ i - 1 \in 0..n
            BY <1>1, <2>2
        <3>2. <<g[i - 1], i>> \in M \X (1..n)
            BY <1>5, <3>1
        <3>3. g[i] = step[<<g[i - 1], i>>]
            BY <1>5, <3>1 DEF IsFolded
        <3>4. step[<<g[i - 1], i>>] = After(g[i - 1], i)
            <4> HIDE DEF M, n
            <4> QED
                BY <3>2
        <3> QED
            BY <2>2, <3>3, <3>4
    <2> QED
        BY <2>1, <2>2
<1>7. g = [i \in 0..n |-> IF i = 0 THEN <<>> ELSE After(g[i - 1], i)]
    <2> HIDE DEF M, n, After
    <2> QED
        BY <1>5, <1>6
<1>8. f = [i \in 0..n |-> IF i = 0 THEN <<>> ELSE After(f[i - 1], i)]
    <2> HIDE DEF n, After
    <2> QED
        BY <1>7
<1>9. Chosen(patches, set) = f[n]
    BY DEF Chosen
<1> HIDE DEF f, M, n, After, step
<1>10. f[0] = <<>>
    BY <1>1, <1>8
<1>11. \A i \in 1..n : f[i] = After(f[i - 1], i)
    BY <1>1, <1>8
<1>12. f[0] \in M
    BY <1>4, <1>10
<1>13. ASSUME NEW i \in 1..n, f[i - 1] \in M
       PROVE  f[i] \in M
    BY <1>2, <1>11, <1>13
<1>14. \A i \in 0..n : f[i] \in M
    BY <1>1, <1>12, <1>13, Steps
<1> QED
    BY <1>9, <1>10, <1>11, <1>14 DEF M, n, After

LEMMA ChosenFacts ==
    ASSUME NEW S, NEW patches \in Seq(S), NEW set
    PROVE  Chosen(patches, set) \in Seq(S \cap set)
<1>1. PICK f :
          /\ Chosen(patches, set) = f[Len(patches)]
          /\ \A i \in 0..Len(patches) : f[i] \in Seq(S \cap set)
    BY ChosenSteps
<1>2. Len(patches) \in 0..Len(patches)
    BY LenProperties
<1> QED
    BY <1>1, <1>2

-----------------------------------------------------------------------------
(* The requests.                                                           *)

\* What GitHub may hold.
Sound(objects) ==
    /\ objects \in Seq(LiveObject)
    /\ KeysDiffer(objects)
    /\ \A i \in DOMAIN objects : Suits(objects[i]) /\ objects[i].secret \in Secrets \cup {NoSecret}

LEMMA PageFacts ==
    ASSUME NEW S, NEW s \in Seq(S)
    PROVE  /\ Page(s) \in Seq(S)
           /\ DOMAIN Page(s) \in SUBSET (DOMAIN s)
           /\ \A i \in DOMAIN Page(s) : Page(s)[i] = s[i]
<1>1. PICK n \in 0..Len(s) : n = IF Len(s) <= PageSize THEN Len(s) ELSE PageSize
    BY PageAssumption, LenProperties
<1>2. Len(s) \in Nat /\ DOMAIN s = 1..Len(s) /\ \A i \in 1..n : s[i] \in S
    BY LenProperties, ElementOfSeq
<1>3. Page(s) = SubSeq(s, 1, n)
    BY <1>1 DEF Page
<1>4. /\ Page(s) \in Seq(S) /\ Len(Page(s)) = IF 1 <= n THEN n - 1 + 1 ELSE 0
      /\ \A i \in 1..n - 1 + 1 : Page(s)[i] = s[1 + i - 1]
    BY <1>2, <1>3, SubSeqProperties
<1>5. Len(Page(s)) = n /\ n \in Nat
    BY <1>2, <1>4
<1>6. DOMAIN Page(s) = 1..n
    BY <1>4, <1>5, LenProperties
<1> QED
    BY <1>2, <1>4, <1>5, <1>6

LEMMA TargetFacts ==
    ASSUME NEW p, NEW app, live \in Seq(LiveObject)
    PROVE  /\ Target(p, app) \in {0} \cup DOMAIN live
           /\ ~(app /\ kind = "webhook") =>
                  IF Target(p, app) = 0 THEN \A i \in DOMAIN live : live[i].key # p.key
                  ELSE live[Target(p, app)].key = p.key
<1> DEFINE looked == app /\ kind = "webhook"
           places == DOMAIN (IF looked THEN Page(live) ELSE live)
           fits == {i \in places :
                       \/ live[i].key = p.key
                       \/ looked /\ IsWildcard(p.key) /\ IsPrefix(Stripped(p.key), live[i].key)}
           found == CHOOSE i \in fits : \A j \in fits : i <= j
<1>1. DOMAIN live \in SUBSET Nat
    BY LenProperties
<1>2. DOMAIN Page(live) \in SUBSET (DOMAIN live)
    BY PageFacts
<1>3. places \in SUBSET (DOMAIN live)
    <2>1. CASE looked
        BY <1>2, <2>1
    <2>2. CASE ~looked
        BY <2>2
    <2> QED
        BY <2>1, <2>2
<1>4. Target(p, app) = IF fits = {} THEN 0 ELSE found
    BY DEF Target
<1>5. ASSUME ~(app /\ kind = "webhook")
      PROVE  fits = {i \in DOMAIN live : live[i].key = p.key}
    <2>1. ~looked
        BY <1>5
    <2> HIDE DEF looked
    <2> QED
        BY <2>1
<1>6. fits \in SUBSET (DOMAIN live)
    <2> HIDE DEF places, looked
    <2> QED
        BY <1>3
<1> HIDE DEF fits
<1>7. CASE fits = {}
    <2>1. Target(p, app) = 0
        BY <1>4, <1>7
    <2> QED
        BY <1>5, <1>7, <2>1
<1>8. CASE fits # {}
    <2>1. Target(p, app) = found
        BY <1>4, <1>8
    <2>2. found \in fits
        BY <1>1, <1>6, <1>8, FirstOf
    <2> HIDE DEF found
    <2>3. found \in DOMAIN live /\ found # 0
        <3>1. 0 \notin DOMAIN live
            BY LenProperties
        <3> QED
            BY <1>6, <2>2, <3>1
    <2> QED
        BY <1>5, <2>1, <2>2, <2>3
<1> QED
    BY <1>7, <1>8

LEMMA ObjectFacts ==
    ASSUME NEW e \in Entry, SuitsEntry(e), e.secret \in Secrets \cup {NoSecret}
    PROVE  /\ Object(e) \in LiveObject /\ Object(e).key = e.key
           /\ Suits(Object(e)) /\ Object(e).secret \in Secrets \cup {NoSecret}
<1>1. /\ Object(e) = [key |-> e.key, secret |-> e.secret, data |-> e.data]
      /\ e.key \in Words /\ e.secret \in AnySecret /\ e.data \in Data
    BY DEF Object, Entry
<1> QED
    BY <1>1 DEF LiveObject, SuitsEntry, Suits, FitsEntry, Fits

\* What is put, new or in the place of something else, fits in with the rest.
LEMMA PutSound ==
    ASSUME Sound(live), NEW e \in Entry, SuitsEntry(e), e.secret \in Secrets \cup {NoSecret},
           NEW i \in {0} \cup DOMAIN live, \A j \in DOMAIN live : live[j].key = e.key => j = i
    PROVE  Sound(Put(e, i))
<1>1. live \in Seq(LiveObject) /\ DOMAIN live = 1..Len(live) /\ Len(live) \in Nat
    BY LenProperties DEF Sound
<1>2. PICK o : o = Object(e)
    OBVIOUS
<1>3. /\ o \in LiveObject /\ o.key = e.key
      /\ Suits(o) /\ o.secret \in Secrets \cup {NoSecret}
    BY <1>2, ObjectFacts
<1>4. CASE i = 0
    <2>1. PICK s : s = Append(live, o)
        OBVIOUS
    <2>2. /\ s \in Seq(LiveObject) /\ Len(s) = Len(live) + 1
          /\ \A j \in 1..Len(live) : s[j] = live[j]
          /\ s[Len(live) + 1] = o
        BY <1>1, <1>3, <2>1, AppendProperties
    <2>3. DOMAIN s = 1..Len(live) + 1
        BY <2>2, LenProperties
    <2>4. \A j \in DOMAIN s : IF j \in DOMAIN live THEN s[j] = live[j] ELSE s[j] = o /\ j = Len(live) + 1
        BY <1>1, <2>2, <2>3
    <2>5. \A j \in DOMAIN live : live[j].key # o.key
        BY <1>1, <1>3, <1>4
    <2>6. KeysDiffer(s)
        BY <2>4, <2>5 DEF KeysDiffer, Sound
    <2>7. \A j \in DOMAIN s : Suits(s[j]) /\ s[j].secret \in Secrets \cup {NoSecret}
        BY <1>3, <2>4 DEF Sound
    <2>8. Put(e, i) = s
        BY <1>2, <1>4, <2>1 DEF Put
    <2> QED
        BY <2>2, <2>6, <2>7, <2>8 DEF Sound
<1>5. CASE i # 0
    <2>1. PICK s : s = [live EXCEPT ![i] = o]
        OBVIOUS
    <2>2. i \in DOMAIN live /\ live \in [1..Len(live) -> LiveObject]
        BY <1>1, <1>5, LenProperties
    <2>3. s \in [1..Len(live) -> LiveObject] /\ DOMAIN s = DOMAIN live
        BY <1>1, <1>3, <2>1, <2>2
    <2>4. s \in Seq(LiveObject)
        BY <1>1, <2>3, SeqDef
    <2>5. \A j \in DOMAIN s : s[j] = IF j = i THEN o ELSE live[j]
        BY <2>1, <2>3
    <2>6. \A j \in DOMAIN live : live[j].key = o.key => j = i
        BY <1>3
    <2>7. KeysDiffer(s)
        BY <2>3, <2>5, <2>6 DEF KeysDiffer, Sound
    <2>8. \A j \in DOMAIN s : Suits(s[j]) /\ s[j].secret \in Secrets \cup {NoSecret}
        BY <1>3, <2>3, <2>5 DEF Sound
    <2>9. Put(e, i) = s
        BY <1>2, <1>5, <2>1 DEF Put
    <2> QED
        BY <2>4, <2>7, <2>8, <2>9 DEF Sound
<1> QED
    BY <1>4, <1>5

LEMMA RemovedSound ==
    ASSUME Sound(live), NEW i \in DOMAIN live
    PROVE  Sound(RemoveAt(live, i))
<1>1. live \in Seq(LiveObject) /\ DOMAIN live = 1..Len(live) /\ Len(live) \in Nat
    BY LenProperties DEF Sound
<1>2. PICK s : s = RemoveAt(live, i)
    OBVIOUS
<1>3. /\ s \in Seq(LiveObject) /\ Len(s) = Len(live) - 1
      /\ \A j \in 1..Len(live) - 1 : s[j] = IF j < i THEN live[j] ELSE live[j + 1]
    BY <1>1, <1>2, RemoveAtFacts
<1>4. DOMAIN s = 1..Len(live) - 1
    BY <1>3, LenProperties
<1>5. \A j \in DOMAIN s : j \in DOMAIN live /\ j + 1 \in DOMAIN live
    BY <1>1, <1>4
<1>6. ASSUME NEW j \in DOMAIN s, NEW k \in DOMAIN s, s[j].key = s[k].key
      PROVE  j = k
    <2>1. PICK a \in DOMAIN live : s[j] = live[a] /\ a = IF j < i THEN j ELSE j + 1
        BY <1>3, <1>4, <1>5
    <2>2. PICK b \in DOMAIN live : s[k] = live[b] /\ b = IF k < i THEN k ELSE k + 1
        BY <1>3, <1>4, <1>5
    <2>3. a = b
        BY <1>6, <2>1, <2>2 DEF Sound, KeysDiffer
    <2> QED
        BY <1>1, <1>4, <2>1, <2>2, <2>3
<1>7. ASSUME NEW j \in DOMAIN s
      PROVE  Suits(s[j]) /\ s[j].secret \in Secrets \cup {NoSecret}
    <2>1. PICK a \in DOMAIN live : s[j] = live[a]
        BY <1>3, <1>4, <1>5
    <2> QED
        BY <2>1 DEF Sound
<1>8. KeysDiffer(s)
    BY <1>6 DEF KeysDiffer
<1> QED
    BY <1>2, <1>3, <1>7, <1>8 DEF Sound

\* Whatever is asked for, what GitHub holds afterwards is sound.
LEMMA AskSound ==
    ASSUME kind \in Kinds, Sound(live), NEW p \in ReadyPatches, NEW app
    PROVE  Sound(Ask(p, app).live)
<1>1. PICK i : i = Target(p, app)
    OBVIOUS
<1>2. /\ i \in {0} \cup DOMAIN live
      /\ kind # "webhook" => IF i = 0 THEN \A j \in DOMAIN live : live[j].key # p.key
                                       ELSE live[i].key = p.key
    BY <1>1, TargetFacts DEF Sound
<1>3. 0 \notin DOMAIN live
    BY LenProperties DEF Sound
<1>4. p.op \in {"add", "change", "remove"} /\ GoesTo(p)
      /\ (p.op # "remove" => p.entry.secret \in Secrets \cup {NoSecret})
    BY DEF ReadyPatches, Patches, IsReady
<1>5. kind \in {"webhook", "secret", "variable"}
    BY KindsAssumption
<1>6. Sound(Refused.live)
    BY DEF Refused, Answer
<1>7. Sound(Removed(i).live)
    <2>1. CASE i = 0
        BY <1>6, <2>1 DEF Removed
    <2>2. CASE i # 0
        BY <1>2, <2>2, RemovedSound DEF Removed, Answer
    <2> QED
        BY <2>1, <2>2
<1>8. CASE p.op = "remove"
    <2>1. Ask(p, app).live = Removed(i).live
        BY <1>1, <1>5, <1>8 DEF Ask, AskForWebhook, AskForSecret, AskForVariable,
            DeleteWebhook, DeleteSecret, DeleteVariable
    <2> QED
        BY <1>7, <2>1
<1>9. CASE p.op # "remove"
    <2> DEFINE e == p.entry
    <2>1. e \in Entry /\ SuitsEntry(e) /\ e.secret \in Secrets \cup {NoSecret}
        BY <1>4, <1>9 DEF GoesTo
    <2>2. CASE kind = "webhook"
        <3>1. Sound(AddWebhook(e).live)
            <4>1. CASE Clashes(e, 0)
                BY <1>6, <4>1 DEF AddWebhook
            <4>2. CASE ~Clashes(e, 0)
                <5>1. \A j \in DOMAIN live : live[j].key = e.key => j = 0
                    BY <4>2 DEF Clashes
                <5>2. Sound(Put(e, 0))
                    BY <1>2, <2>1, <5>1, PutSound
                <5> QED
                    BY <4>2, <5>2 DEF AddWebhook, Answer
            <4> QED
                BY <4>1, <4>2
        <3>2. Sound(UpdateWebhook(e, i).live)
            <4>1. CASE i = 0 \/ Clashes(e, i)
                BY <1>6, <4>1 DEF UpdateWebhook
            <4>2. CASE ~(i = 0 \/ Clashes(e, i))
                <5>1. \A j \in DOMAIN live : live[j].key = e.key => j = i
                    BY <4>2 DEF Clashes
                <5>2. Sound(Put(e, i))
                    BY <1>2, <2>1, <5>1, PutSound
                <5> QED
                    BY <4>2, <5>2 DEF UpdateWebhook, Answer
            <4> QED
                BY <4>1, <4>2
        <3>3. Ask(p, app) = AddWebhook(e) \/ Ask(p, app) = UpdateWebhook(e, i)
            BY <1>1, <1>4, <1>9, <2>2 DEF Ask, AskForWebhook
        <3> QED
            BY <3>1, <3>2, <3>3
    <2>3. CASE kind # "webhook"
        <3>1. e.key = p.key
            BY <1>4, <1>9, <2>3 DEF GoesTo
        <3>2. \A j \in DOMAIN live : live[j].key = e.key => j = i
            <4>1. CASE i = 0
                BY <1>2, <2>3, <3>1, <4>1
            <4>2. CASE i # 0
                BY <1>2, <2>3, <3>1, <4>2 DEF Sound, KeysDiffer
            <4> QED
                BY <4>1, <4>2
        <3>3. Sound(Put(e, i))
            BY <1>2, <2>1, <3>2, PutSound
        <3>4. \/ Ask(p, app) = AddSecret(e, i) \/ Ask(p, app) = UpdateSecret(e, i)
              \/ Ask(p, app) = AddVariable(e, i) \/ Ask(p, app) = UpdateVariable(e, i)
            BY <1>1, <1>4, <1>5, <1>9, <2>3 DEF Ask, AskForSecret, AskForVariable
        <3>5. Ask(p, app).live = Put(e, i) \/ Ask(p, app).live = Refused.live
            <4>1. CASE Ask(p, app) = AddSecret(e, i)
                BY <4>1 DEF AddSecret, Answer
            <4>2. CASE Ask(p, app) = UpdateSecret(e, i)
                BY <4>2 DEF UpdateSecret, Answer
            <4>3. CASE Ask(p, app) = AddVariable(e, i)
                BY <4>3 DEF AddVariable, Answer
            <4>4. CASE Ask(p, app) = UpdateVariable(e, i)
                BY <4>4 DEF UpdateVariable, Answer
            <4> QED
                BY <3>4, <4>1, <4>2, <4>3, <4>4
        <3> QED
            BY <1>6, <3>3, <3>5
    <2> QED
        BY <2>2, <2>3
<1> QED
    BY <1>8, <1>9

-----------------------------------------------------------------------------
(* Import.                                                                 *)

LEMMA ImportedSecretFacts ==
    ASSUME \A i \in DOMAIN config : IsConfigured(config[i]), NEW c, Suits(c)
    PROVE  /\ ImportedSecret(c) \in Given
           /\ c.secret = NoSecret => ImportedSecret(c) = NoSecret
           /\ kind = "secret" => ImportedSecret(c) # NoSecret
<1> DEFINE same == {i \in DOMAIN config : config[i].key = c.key}
           found == CHOOSE i \in same : TRUE
<1>1. ImportedSecret(c) = IF c.secret = NoSecret THEN NoSecret
                          ELSE IF same = {} THEN Dummy ELSE config[found].secret
    BY DEF ImportedSecret
<1>2. same # {} => found \in same
    OBVIOUS
<1>3. same # {} => IsConfigured(config[found])
    BY <1>2
<1>4. same # {} => config[found].secret \in Given /\ (kind = "secret" => config[found].secret # NoSecret)
    BY <1>3 DEF IsConfigured, SuitsEntry, Suits, FitsEntry, Fits
<1> HIDE DEF same, found
<1>5. kind = "secret" => c.secret # NoSecret
    BY DEF Suits, Fits
<1>6. Dummy # NoSecret
    BY DEF Dummy, NoSecret
<1> QED
    BY <1>1, <1>4, <1>5, <1>6 DEF Given

\* An import that is under way.
Imports == {s \in Seq(Entry) : \A i \in DOMAIN s : IsConfigured(s[i])}

\* An object that is imported.
LEMMA ImportedEntryFacts ==
    ASSUME \A i \in DOMAIN config : IsConfigured(config[i]), NEW c \in LiveObject, Suits(c)
    PROVE  ImportedEntry(c) \in Entry /\ IsConfigured(ImportedEntry(c))
<1>1. PICK secret : secret = ImportedSecret(c)
    OBVIOUS
<1>2. /\ secret \in Given /\ secret \in AnySecret
      /\ c.secret = NoSecret => secret = NoSecret
      /\ kind = "secret" => secret # NoSecret
    BY <1>1, ImportedSecretFacts DEF AnySecret
<1>3. c.key \in Words /\ c.data \in Data
    BY DEF LiveObject
<1>4. ImportedEntry(c) = [key |-> c.key, aliases |-> {}, secret |-> secret, data |-> c.data]
    BY <1>1 DEF ImportedEntry
<1>5. ImportedEntry(c) \in Entry
    BY <1>2, <1>3, <1>4 DEF Entry
<1>6. PICK e : e = ImportedEntry(c)
    OBVIOUS
<1>7. e.key = c.key /\ e.secret = secret /\ e.aliases = {}
    BY <1>4, <1>6
<1>8. SuitsEntry(e)
    BY <1>2, <1>7 DEF SuitsEntry, Suits, FitsEntry, Fits
<1> QED
    BY <1>2, <1>5, <1>6, <1>7, <1>8 DEF IsConfigured

\* Only webhooks are masked.
LEMMA MaskedFacts ==
    ASSUME NEW s \in Imports, NEW e \in Entry, IsConfigured(e)
    PROVE  Masked(s, e) \in Imports
<1> DEFINE fits == {i \in DOMAIN s : IsPrefix(Stripped(e.key), s[i].key)}
           found == CHOOSE i \in fits : \A j \in fits : i <= j
<1>1. Masked(s, e) = IF ~IsWildcard(e.key) \/ fits = {} THEN s ELSE [s EXCEPT ![found].key = e.key]
    BY DEF Masked
<1>2. CASE ~IsWildcard(e.key) \/ fits = {}
    BY <1>1, <1>2
<1>3. CASE ~(~IsWildcard(e.key) \/ fits = {})
    <2>1. s \in Seq(Entry) /\ DOMAIN s = 1..Len(s) /\ Len(s) \in Nat /\ s \in [1..Len(s) -> Entry]
        BY LenProperties DEF Imports
    <2>2. kind = "webhook"
        BY <1>3 DEF IsConfigured, SuitsEntry, Suits, FitsEntry, Fits
    <2>3. fits # {} /\ fits \in SUBSET Nat
        BY <1>3, <2>1
    <2> HIDE DEF fits
    <2>4. found \in fits
        BY <2>3, FirstOf
    <2>5. PICK k \in DOMAIN s : k = found
        BY <2>4 DEF fits
    <2>6. PICK o : o = [s[k] EXCEPT !.key = e.key]
        OBVIOUS
    <2>7. s[k] \in Entry /\ IsConfigured(s[k]) /\ e.key \in Words
        BY <2>1, <2>5 DEF Imports, Entry
    <2>8. o \in Entry /\ o.secret = s[k].secret
        BY <2>6, <2>7 DEF Entry
    <2>9. IsConfigured(o)
        <3>1. o.key = e.key /\ (Plainly => ~IsWildcard(e.key))
            BY <2>6, <2>7 DEF Entry, IsConfigured, SuitsEntry, Suits
        <3> QED
            BY <2>2, <2>7, <2>8, <3>1 DEF IsConfigured, SuitsEntry, Suits, FitsEntry, Fits
    <2>10. PICK t : t = [s EXCEPT ![k] = o]
        OBVIOUS
    <2>11. /\ t \in [1..Len(s) -> Entry] /\ DOMAIN t = DOMAIN s
           /\ \A j \in DOMAIN s : t[j] = IF j = k THEN o ELSE s[j]
        BY <2>1, <2>8, <2>10
    <2>12. t \in Seq(Entry)
        BY <2>1, <2>11, SeqDef
    <2>13. t \in Imports
        BY <2>9, <2>11, <2>12 DEF Imports
    <2>14. Masked(s, e) = [s EXCEPT ![k].key = e.key]
        BY <1>1, <1>3, <2>5
    <2>15. Masked(s, e) = t
        BY <2>6, <2>10, <2>14
    <2> QED
        BY <2>13, <2>15
<1> QED
    BY <1>2, <1>3

LEMMA ImportedSteps ==
    ASSUME config \in Seq(Entry), \A i \in DOMAIN config : IsConfigured(config[i]),
           live \in Seq(LiveObject), \A i \in DOMAIN live : Suits(live[i])
    PROVE  \E f :
               /\ Imported = f[Len(config)]
               /\ f[0] = [j \in DOMAIN Page(live) |-> ImportedEntry(live[j])]
               /\ \A i \in 1..Len(config) : f[i] = Masked(f[i - 1], config[i])
               /\ \A i \in 0..Len(config) : f[i] \in Imports
<1> DEFINE n == Len(config)
           first == [j \in DOMAIN Page(live) |-> ImportedEntry(live[j])]
           step == [x \in Imports \X (1..n) |-> Masked(x[1], config[x[2]])]
           f == CHOOSE g : g = [i \in 0..n |-> IF i = 0 THEN first ELSE Masked(g[i - 1], config[i])]
<1>1. n \in Nat /\ DOMAIN config = 1..n /\ \A i \in 1..n : config[i] \in Entry
    BY LenProperties, ElementOfSeq
<1>2. first \in Imports
    <2>1. /\ Page(live) \in Seq(LiveObject)
          /\ DOMAIN Page(live) \in SUBSET (DOMAIN live)
        BY PageFacts
    <2>2. PICK m \in Nat : DOMAIN Page(live) = 1..m
        BY <2>1, LenProperties
    <2>3. \A j \in DOMAIN live : live[j] \in LiveObject
        BY LenProperties, ElementOfSeq
    <2>4. \A j \in DOMAIN Page(live) : first[j] \in Entry /\ IsConfigured(first[j])
        BY <2>1, <2>3, ImportedEntryFacts
    <2>5. first \in [1..m -> Entry] /\ DOMAIN first = DOMAIN Page(live)
        BY <2>2, <2>4
    <2> HIDE DEF first
    <2>6. first \in Seq(Entry)
        BY <2>2, <2>5, SeqDef
    <2> QED
        BY <2>4, <2>5, <2>6 DEF Imports
<1>3. \A m \in Imports, i \in 1..n : Masked(m, config[i]) \in Imports
    <2> TAKE m \in Imports, i \in 1..n
    <2>1. config[i] \in Entry /\ IsConfigured(config[i])
        BY <1>1
    <2> QED
        BY <2>1, MaskedFacts
<1>4. step \in [Imports \X (1..n) -> Imports]
    <2> HIDE DEF n
    <2> QED
        BY <1>3
<1>5. PICK g \in [0..n -> Imports] : IsFolded(g, n, first, step)
    <2> HIDE DEF n, first, step
    <2> QED
        BY <1>1, <1>2, <1>4, Folding
<1>6. ASSUME NEW i \in 0..n
      PROVE  g[i] = IF i = 0 THEN first ELSE Masked(g[i - 1], config[i])
    <2>1. CASE i = 0
        BY <1>5, <2>1 DEF IsFolded
    <2>2. CASE i # 0
        <3>1. i \in 1..n /\ i - 1 \in 0..n
            BY <1>1, <2>2
        <3>2. <<g[i - 1], i>> \in Imports \X (1..n)
            BY <1>5, <3>1
        <3>3. g[i] = step[<<g[i - 1], i>>]
            BY <1>5, <3>1 DEF IsFolded
        <3>4. step[<<g[i - 1], i>>] = Masked(g[i - 1], config[i])
            <4> HIDE DEF n
            <4> QED
                BY <3>2
        <3> QED
            BY <2>2, <3>3, <3>4
    <2> QED
        BY <2>1, <2>2
<1>7. g = [i \in 0..n |-> IF i = 0 THEN first ELSE Masked(g[i - 1], config[i])]
    <2> HIDE DEF n, first
    <2> QED
        BY <1>5, <1>6
<1>8. f = [i \in 0..n |-> IF i = 0 THEN first ELSE Masked(f[i - 1], config[i])]
    <2> HIDE DEF n, first
    <2> QED
        BY <1>7
<1>9. Imported = f[n]
    BY DEF Imported
<1> HIDE DEF f, n, first, step
<1>10. f[0] = first
    BY <1>1, <1>8
<1>11. \A i \in 1..n : f[i] = Masked(f[i - 1], config[i])
    BY <1>1, <1>8
<1>12. f[0] \in Imports
    BY <1>2, <1>10
<1>13. ASSUME NEW i \in 1..n, f[i - 1] \in Imports
       PROVE  f[i] \in Imports
    BY <1>3, <1>11, <1>13
<1>14. \A i \in 0..n : f[i] \in Imports
    BY <1>1, <1>12, <1>13, Steps
<1> QED
    BY <1>9, <1>10, <1>11, <1>14 DEF n, first

LEMMA ImportedFacts ==
    ASSUME config \in Seq(Entry), \A i \in DOMAIN config : IsConfigured(config[i]),
           live \in Seq(LiveObject), \A i \in DOMAIN live : Suits(live[i])
    PROVE  Imported \in Imports
<1>1. PICK f : Imported = f[Len(config)] /\ \A i \in 0..Len(config) : f[i] \in Imports
    BY ImportedSteps
<1>2. Len(config) \in 0..Len(config)
    BY LenProperties
<1> QED
    BY <1>1, <1>2

-----------------------------------------------------------------------------
(* The steps.                                                              *)

LEMMA ReadySequence ==
    ASSUME NEW s \in Seq(ReadyPatches)
    PROVE  s \in Seq(Patches) /\ \A i \in DOMAIN s : IsReady(s[i])
<1>1. Len(s) \in Nat /\ DOMAIN s = 1..Len(s) /\ s \in [1..Len(s) -> ReadyPatches]
    BY LenProperties
<1>2. \A i \in DOMAIN s : s[i] \in Patches /\ IsReady(s[i])
    BY <1>1 DEF ReadyPatches
<1>3. s \in [1..Len(s) -> Patches]
    BY <1>1, <1>2
<1> QED
    BY <1>1, <1>2, <1>3, SeqDef

\* A secret that was resolved is one that GitHub may use.
LEMMA ValueFacts ==
    ASSUME vault \in [References -> Credentials \cup {Missing}],
           NEW s \in Given \ {Dummy}, Value(s) # Missing
    PROVE  /\ Value(s) \in Secrets \cup {NoSecret}
           /\ Value(s) = NoSecret <=> s = NoSecret
<1>1. NoSecret \notin Secrets /\ NoSecret \notin References
    BY AbsenceAssumption
<1>2. CASE s \in References
    <2>1. Value(s) \in Credentials
        BY <1>2 DEF Value
    <2> QED
        BY <1>1, <1>2, <2>1 DEF Secrets
<1>3. CASE s \notin References
    BY <1>3 DEF Value, Secrets, Given
<1> QED
    BY <1>2, <1>3

LEMMA WithValuesFacts ==
    ASSUME NEW p \in PlannedPatches, NEW options,
           IF options.app THEN p.op = "remove" \/ p.entry.secret = NoSecret
           ELSE p.op # "remove" => Value(p.entry.secret) # Missing,
           vault \in [References -> Credentials \cup {Missing}]
    PROVE  WithValues(p, options) \in ReadyPatches
<1>1. /\ p \in Patches /\ GoesTo(p)
      /\ p.op # "remove" => p.entry.secret \in Given \ {Dummy}
    BY DEF PlannedPatches, IsPlanned
<1>2. CASE p.op = "remove"
    <2>1. WithValues(p, options) = p
        BY <1>2 DEF WithValues
    <2> QED
        BY <1>1, <1>2, <2>1 DEF ReadyPatches, IsReady
<1>3. CASE p.op # "remove" /\ options.app
    <2>1. WithValues(p, options) = p
        BY <1>3 DEF WithValues
    <2>2. p.entry.secret = NoSecret
        BY <1>3
    <2> QED
        BY <1>1, <2>1, <2>2 DEF ReadyPatches, IsReady
<1>4. CASE p.op # "remove" /\ ~options.app
    <2>1. PICK v : v = Value(p.entry.secret)
        OBVIOUS
    <2>2. v \in Secrets \cup {NoSecret} /\ (v = NoSecret <=> p.entry.secret = NoSecret)
        BY <1>1, <1>4, <2>1, ValueFacts
    <2>3. PICK e : e = [p.entry EXCEPT !.secret = v]
        OBVIOUS
    <2>4. p.entry \in Entry /\ SuitsEntry(p.entry) /\ (kind # "webhook" => p.entry.key = p.key)
        BY <1>1, <1>4 DEF GoesTo
    <2>5. v \in AnySecret
        BY <2>2 DEF AnySecret, Given
    <2>6. /\ e \in Entry /\ e.secret = v
          /\ e.key = p.entry.key /\ e.aliases = p.entry.aliases
        BY <2>3, <2>4, <2>5 DEF Entry
    <2>7. SuitsEntry(e)
        BY <2>2, <2>4, <2>6 DEF SuitsEntry, Suits, FitsEntry, Fits
    <2>8. WithValues(p, options) = [p EXCEPT !.entry.secret = Value(@)]
        BY <1>4 DEF WithValues
    <2>9. [p EXCEPT !.entry.secret = Value(@)] = [p EXCEPT !.entry = e]
        BY <2>1, <2>3
    <2>10. PICK q : q = [p EXCEPT !.entry = e]
        OBVIOUS
    <2>11. q \in Patches /\ q.op = p.op /\ q.key = p.key /\ q.entry = e
        BY <1>1, <2>6, <2>10 DEF Patches
    <2>12. q \in ReadyPatches
        BY <2>2, <2>4, <2>6, <2>7, <2>11 DEF ReadyPatches, IsReady, GoesTo
    <2> QED
        BY <2>8, <2>9, <2>10, <2>12
<1> QED
    BY <1>2, <1>3, <1>4

\* What is chosen of what is planned, and resolved, is ready.
LEMMA ResolvedFacts ==
    ASSUME NEW Q \in SUBSET PlannedPatches, NEW s \in Seq(Q), NEW options,
           \A p \in Q : IF options.app THEN p.op = "remove" \/ p.entry.secret = NoSecret
                        ELSE p.op # "remove" => Value(p.entry.secret) # Missing,
           vault \in [References -> Credentials \cup {Missing}]
    PROVE  [i \in DOMAIN s |-> WithValues(s[i], options)] \in Seq(ReadyPatches)
<1>1. Len(s) \in Nat /\ DOMAIN s = 1..Len(s) /\ \A i \in 1..Len(s) : s[i] \in Q
    BY LenProperties, ElementOfSeq
<1>2. \A i \in DOMAIN s : WithValues(s[i], options) \in ReadyPatches
    <2> TAKE i \in DOMAIN s
    <2>1. PICK p \in Q : p = s[i]
        BY <1>1
    <2>2. p \in PlannedPatches
        OBVIOUS
    <2> QED
        BY <2>1, <2>2, WithValuesFacts
<1> DEFINE t == [i \in DOMAIN s |-> WithValues(s[i], options)]
<1>3. t \in [1..Len(s) -> ReadyPatches]
    BY <1>1, <1>2
<1> HIDE DEF t
<1>4. t \in Seq(ReadyPatches)
    BY <1>1, <1>3, SeqDef
<1> QED
    BY <1>4 DEF t

\* What is listed has the keys of what is live.
LEMMA ListingFacts ==
    ASSUME live \in Seq(LiveObject)
    PROVE  Listing \in Seq(LiveObject)
<1>1. /\ Page(live) \in Seq(LiveObject)
      /\ DOMAIN Page(live) \in SUBSET (DOMAIN live)
    BY PageFacts
<1>2. PICK m \in Nat : DOMAIN Page(live) = 1..m
    BY <1>1, LenProperties
<1>3. \A j \in DOMAIN live : live[j] \in LiveObject
    BY LenProperties, ElementOfSeq
<1>4. ASSUME NEW c \in LiveObject
      PROVE  Redacted(c) \in LiveObject
    <2>1. Redacted(c) \in {[c EXCEPT !.secret = Dummy], [c EXCEPT !.secret = NoSecret]}
        BY DEF Redacted
    <2>2. Dummy \in AnySecret /\ NoSecret \in AnySecret
        BY DEF AnySecret, Given
    <2> QED
        BY <2>1, <2>2 DEF LiveObject
<1>5. PICK s : s = Listing
    OBVIOUS
<1>6. s = [i \in 1..m |-> Redacted(live[i])]
    BY <1>2, <1>5 DEF Listing
<1>7. s \in [1..m -> LiveObject]
    BY <1>1, <1>2, <1>3, <1>4, <1>6
<1>8. s \in Seq(LiveObject)
    BY <1>7, SeqDef
<1> QED
    BY <1>5, <1>8

\* The object of an entry, whatever its secret.
LEMMA BeforeFacts ==
    ASSUME base \in Seq(Entry)
    PROVE  [i \in DOMAIN base |-> Object(base[i])] \in Seq(LiveObject)
<1>1. Len(base) \in Nat /\ DOMAIN base = 1..Len(base) /\ \A i \in 1..Len(base) : base[i] \in Entry
    BY LenProperties, ElementOfSeq
<1>2. \A e \in Entry : Object(e) \in LiveObject
    BY DEF Entry, LiveObject, Object
<1> DEFINE s == [i \in DOMAIN base |-> Object(base[i])]
<1>3. s \in [1..Len(base) -> LiveObject]
    BY <1>1, <1>2
<1> HIDE DEF s
<1>4. s \in Seq(LiveObject)
    BY <1>1, <1>3, SeqDef
<1> QED
    BY <1>4 DEF s

\* A user's run has what was planned and resolved.
LEMMA UserRuns ==
    ASSUME IInv, NEW options \in Options, NEW delete \in BOOLEAN, NEW twice \in BOOLEAN,
           NEW listed \in Seq(LiveObject), UserPlans(options, delete, twice, listed)
    PROVE  /\ run' \in [by : {"nobody", "user", "app"}, delete : BOOLEAN, todo : Seq(ReadyPatches)]
           /\ clean' \in [plan : BOOLEAN, values : BOOLEAN]
<1> DEFINE plan == Planned(listed, config, options)
           todo == Selected(plan.patches, options)
           resolved == {p.entry.secret : p \in {q \in ToSet(todo) : q.op # "remove"}}
                       \cup (IF twice THEN {config[i].secret : i \in DOMAIN config} ELSE {})
           fails == ValidationFails \/ ~plan.ok \/ ResolvingFails(resolved, twice)
           meant == {p \in ToSet(todo) : delete \/ p.op # "remove"}
           applied == Chosen(todo, meant)
<1>1. /\ config \in Seq(Entry) /\ \A i \in DOMAIN config : IsConfigured(config[i])
      /\ vault \in [References -> Credentials \cup {Missing}]
    BY DEF IInv, TypeOK, ConfigInv
<1>2. /\ ~options.app /\ options.secrets \in BOOLEAN /\ options.webhooks \in BOOLEAN
      /\ options.onlySecrets \in BOOLEAN
    BY DEF Options
<1>3. plan.patches \in Seq(PlannedPatches)
    <2>1. \A c \in LiveObject : c.key \in Words
        BY DEF LiveObject
    <2> QED
        BY <1>1, <2>1, PlannedFacts
<1> DEFINE wanted == {p \in ToSet(plan.patches) : Included(p, options)}
<1>4. todo \in Seq(PlannedPatches \cap wanted)
    <2>1. todo = Chosen(plan.patches, wanted)
        BY DEF Selected
    <2> HIDE DEF wanted, plan, todo
    <2> QED
        BY <1>3, <2>1, ChosenFacts
<1> DEFINE Q == (PlannedPatches \cap wanted) \cap meant
<1>5. applied \in Seq(Q)
    <2> HIDE DEF wanted, plan, todo, meant
    <2> QED
        BY <1>4, ChosenFacts
<1>6. ASSUME ~fails, NEW p \in Q, p.op # "remove"
      PROVE  Value(p.entry.secret) # Missing
    <2>1. p.entry.secret \in resolved
        BY <1>6
    <2> HIDE DEF resolved, plan, Q
    <2> QED
        BY <1>6, <2>1 DEF ResolvingFails
<1>7. Q \in SUBSET PlannedPatches
    OBVIOUS
<1> DEFINE values == [i \in DOMAIN applied |-> WithValues(applied[i], options)]
<1>8. ASSUME ~fails
      PROVE  values \in Seq(ReadyPatches)
    <2>1. \A p \in Q : p.op # "remove" => Value(p.entry.secret) # Missing
        BY <1>6, <1>8
    <2> HIDE DEF applied, Q, fails
    <2>2. \A p \in Q : IF options.app THEN p.op = "remove" \/ p.entry.secret = NoSecret
                      ELSE p.op # "remove" => Value(p.entry.secret) # Missing
        BY <1>2, <2>1
    <2>3. PICK s \in Seq(Q) : s = applied
        BY <1>5
    <2>4. [i \in DOMAIN s |-> WithValues(s[i], options)] \in Seq(ReadyPatches)
        BY <1>1, <1>7, <2>2, ResolvedFacts
    <2> QED
        BY <2>3, <2>4
<1>9. run' = IF fails THEN Idle ELSE [by |-> "user", delete |-> delete, todo |-> values]
    BY DEF UserPlans
<1>10. clean' = IF fails \/ listed # Listing \/ Len(live) > PageSize \/ ~delete THEN Nothing
                ELSE [plan |-> ~options.onlySecrets \/ kind = "secret",
                      values |-> IF kind = "secret" THEN options.secrets
                                 ELSE options.webhooks /\ ~options.onlySecrets]
    BY DEF UserPlans
<1> HIDE DEF fails, values
<1>11. run' \in [by : {"nobody", "user", "app"}, delete : BOOLEAN, todo : Seq(ReadyPatches)]
    <2>1. CASE fails
        BY <1>9, <2>1, EmptySeq DEF Idle
    <2>2. CASE ~fails
        BY <1>8, <1>9, <2>2
    <2> QED
        BY <2>1, <2>2
<1>12. clean' \in [plan : BOOLEAN, values : BOOLEAN]
    <2>1. PICK a \in BOOLEAN : a = (~options.onlySecrets \/ kind = "secret")
        BY Zenon
    <2>2. PICK b \in BOOLEAN : b = IF kind = "secret" THEN options.secrets
                                   ELSE options.webhooks /\ ~options.onlySecrets
        <3>1. (options.webhooks /\ ~options.onlySecrets) \in BOOLEAN
            BY Zenon
        <3> QED
            BY <1>2, <3>1, Zenon
    <2>3. clean' = Nothing \/ clean' = [plan |-> a, values |-> b]
        BY <1>10, <2>1, <2>2, Zenon
    <2>4. Nothing \in [plan : BOOLEAN, values : BOOLEAN]
        BY DEF Nothing
    <2>5. [plan |-> a, values |-> b] \in [plan : BOOLEAN, values : BOOLEAN]
        OBVIOUS
    <2> QED
        BY <2>3, <2>4, <2>5, Zenon
<1> QED
    BY <1>11, <1>12

\* What the app applies has no secrets.
LEMMA AppRuns ==
    ASSUME IInv, AppApply
    PROVE  run' \in [by : {"nobody", "user", "app"}, delete : BOOLEAN, todo : Seq(ReadyPatches)]
<1> DEFINE before == [i \in DOMAIN base |-> Object(base[i])]
           plan == Planned(before, config, ByTheApp)
           todo == Selected(plan.patches, ByTheApp)
<1>1. /\ config \in Seq(Entry) /\ \A i \in DOMAIN config : IsConfigured(config[i])
      /\ vault \in [References -> Credentials \cup {Missing}] /\ base \in Seq(Entry)
    BY DEF IInv, TypeOK, ConfigInv
<1>2. ByTheApp.app = TRUE
    BY DEF ByTheApp, Plain
<1>3. before \in Seq(LiveObject)
    BY <1>1, BeforeFacts
<1>4. plan.patches \in Seq(PlannedPatches)
    <2>1. \A c \in LiveObject : c.key \in Words
        BY DEF LiveObject
    <2> HIDE DEF before
    <2> QED
        BY <1>1, <1>3, <2>1, PlannedFacts
<1> DEFINE wanted == {p \in ToSet(plan.patches) : Included(p, ByTheApp)}
           Q == PlannedPatches \cap wanted
<1>5. todo \in Seq(Q)
    <2>1. todo = Chosen(plan.patches, wanted)
        BY DEF Selected
    <2> HIDE DEF wanted, plan, todo
    <2> QED
        BY <1>4, <2>1, ChosenFacts
<1>6. \A p \in Q : p.op = "remove" \/ p.entry.secret = NoSecret
    BY <1>2 DEF Included
<1> DEFINE values == [i \in DOMAIN todo |-> WithValues(todo[i], ByTheApp)]
<1>7. values \in Seq(ReadyPatches)
    <2>1. Q \in SUBSET PlannedPatches
        OBVIOUS
    <2> HIDE DEF todo, Q
    <2>2. \A p \in Q : IF ByTheApp.app THEN p.op = "remove" \/ p.entry.secret = NoSecret
                      ELSE p.op # "remove" => Value(p.entry.secret) # Missing
        BY <1>2, <1>6
    <2> QED
        BY <1>1, <1>5, <2>1, <2>2, ResolvedFacts
<1>8. run' = IF ValidationFails \/ ~plan.ok THEN Idle
             ELSE [by |-> "app", delete |-> TRUE, todo |-> values]
    BY DEF AppApply
<1> HIDE DEF values, plan
<1>9. CASE ~(ValidationFails \/ ~plan.ok)
    BY <1>7, <1>8, <1>9
<1>10. CASE ValidationFails \/ ~plan.ok
    BY <1>8, <1>10, EmptySeq DEF Idle
<1> QED
    BY <1>9, <1>10

\* A run of patches that are ready is one that the invariant allows.
LEMMA RunReady ==
    ASSUME NEW r \in [by : {"nobody", "user", "app"}, delete : BOOLEAN, todo : Seq(ReadyPatches)]
    PROVE  /\ r \in [by : {"nobody", "user", "app"}, delete : BOOLEAN, todo : Seq(Patches)]
           /\ \A i \in DOMAIN r.todo : IsReady(r.todo[i])
<1>1. r.todo \in Seq(Patches) /\ \A i \in DOMAIN r.todo : IsReady(r.todo[i])
    BY ReadySequence
<1> QED
    BY <1>1

\* The patches that are left when the first one was applied.
LEMMA TodoFacts ==
    ASSUME IInv, run.todo # <<>>
    PROVE  /\ Head(run.todo) \in ReadyPatches
           /\ [run EXCEPT !.todo = Tail(@)] \in
                  [by : {"nobody", "user", "app"}, delete : BOOLEAN, todo : Seq(ReadyPatches)]
<1>1. run \in [by : {"nobody", "user", "app"}, delete : BOOLEAN, todo : Seq(Patches)]
    BY DEF IInv, TypeOK
<1>2. run.todo \in Seq(Patches) /\ \A i \in DOMAIN run.todo : IsReady(run.todo[i])
    BY <1>1 DEF IInv, TodoInv
<1>3. PICK s : s = run.todo
    OBVIOUS
<1>4. Len(s) \in Nat /\ DOMAIN s = 1..Len(s) /\ s \in [1..Len(s) -> Patches]
    BY <1>2, <1>3, LenProperties
<1>5. \A i \in 1..Len(s) : s[i] \in ReadyPatches
    BY <1>2, <1>3, <1>4 DEF ReadyPatches
<1>6. s \in [1..Len(s) -> ReadyPatches]
    BY <1>4, <1>5
<1>7. s \in Seq(ReadyPatches)
    BY <1>4, <1>6, SeqDef
<1>8. Head(s) \in ReadyPatches /\ Tail(s) \in Seq(ReadyPatches)
    BY <1>3, <1>7, HeadTailProperties
<1> QED
    BY <1>1, <1>3, <1>8

-----------------------------------------------------------------------------
(* The theorems.                                                           *)

\* What GitHub holds, in terms of the invariant.
LEMMA SoundIsInvariant ==
    Sound(live) <=> live \in Seq(LiveObject) /\ KeysDiffer(live) /\ LiveInv /\ SecretsAreSecret
BY DEF Sound, LiveInv, SecretsAreSecret

LEMMA InitIInv == Init => IInv
<1> SUFFICES ASSUME Init
             PROVE  IInv
    OBVIOUS
<1>1. kind \in Kinds /\ live \in Lives[kind] /\ config \in Configs[kind] /\ base = config
    BY DEF Init
<1>2. /\ live \in Seq(LiveObject) /\ KeysDiffer(live)
      /\ \A i \in DOMAIN live : live[i].secret \in Secrets \cup {NoSecret} /\ Suits(live[i])
    BY <1>1, LivesFacts
<1>3. config \in Seq(Entry) /\ \A i \in DOMAIN config : IsConfigured(config[i])
    BY <1>1, ConfigsFacts
<1>4. run = Idle /\ DOMAIN run.todo = {}
    BY DEF Init, Idle
<1>5. run \in [by : {"nobody", "user", "app"}, delete : BOOLEAN, todo : Seq(Patches)]
    BY <1>4, EmptySeq DEF Idle
<1>6. clean \in [plan : BOOLEAN, values : BOOLEAN]
    BY DEF Init, Nothing
<1>7. TypeOK
    BY <1>1, <1>2, <1>3, <1>5, <1>6 DEF TypeOK, Init
<1> QED
    BY <1>1, <1>2, <1>3, <1>4, <1>7 DEF IInv, LiveInv, ConfigInv, TodoInv, SecretsAreSecret

\* A run that begins or goes on.
LEMMA RunStep ==
    ASSUME IInv, UNCHANGED <<kind, live, config, vault>>, base' \in {base, config},
           run' \in [by : {"nobody", "user", "app"}, delete : BOOLEAN, todo : Seq(ReadyPatches)],
           clean' \in [plan : BOOLEAN, values : BOOLEAN]
    PROVE  IInv'
<1>1. /\ run' \in [by : {"nobody", "user", "app"}, delete : BOOLEAN, todo : Seq(Patches)]
      /\ \A i \in DOMAIN run'.todo : IsReady(run'.todo[i])
    <2>1. PICK r \in [by : {"nobody", "user", "app"}, delete : BOOLEAN, todo : Seq(ReadyPatches)] :
              r = run'
        OBVIOUS
    <2> QED
        BY <2>1, RunReady
<1>2. TypeOK'
    BY <1>1 DEF IInv, TypeOK
<1>3. TodoInv'
    BY <1>1 DEF TodoInv, IsReady, GoesTo, SuitsEntry, Suits
<1>4. LiveInv' /\ SecretsAreSecret'
    BY DEF IInv, LiveInv, Suits, SecretsAreSecret
<1>5. ConfigInv'
    BY DEF IInv, ConfigInv, IsConfigured, SuitsEntry, Suits
<1> QED
    BY <1>2, <1>3, <1>4, <1>5 DEF IInv

\* What GitHub holds changes, and the run is left as it is or goes on.
LEMMA LiveStep ==
    ASSUME IInv, UNCHANGED <<kind, config, base, vault>>,
           NEW l, Sound(l), live' = l,
           run' \in [by : {"nobody", "user", "app"}, delete : BOOLEAN, todo : Seq(Patches)],
           \A i \in DOMAIN run'.todo : IsReady(run'.todo[i]),
           clean' \in [plan : BOOLEAN, values : BOOLEAN]
    PROVE  IInv'
<1>1. /\ l \in Seq(LiveObject) /\ KeysDiffer(l)
      /\ \A i \in DOMAIN l : Suits(l[i]) /\ l[i].secret \in Secrets \cup {NoSecret}
    BY DEF Sound
<1>2. TypeOK'
    BY <1>1 DEF IInv, TypeOK
<1>3. TodoInv'
    BY DEF TodoInv, IsReady, GoesTo, SuitsEntry, Suits
<1>4. LiveInv' /\ SecretsAreSecret'
    BY <1>1 DEF LiveInv, Suits, SecretsAreSecret
<1>5. ConfigInv'
    BY DEF IInv, ConfigInv, IsConfigured, SuitsEntry, Suits
<1> QED
    BY <1>2, <1>3, <1>4, <1>5 DEF IInv

\* The configuration changes while no run is under way.
LEMMA ConfigStep ==
    ASSUME IInv, UNCHANGED <<kind, live, base, vault, run>>,
           NEW c \in Imports, config' = c,
           clean' \in [plan : BOOLEAN, values : BOOLEAN]
    PROVE  IInv'
<1>1. TypeOK'
    BY DEF IInv, TypeOK, Imports
<1>2. TodoInv'
    BY DEF IInv, TodoInv, IsReady, GoesTo, SuitsEntry, Suits
<1>3. LiveInv' /\ SecretsAreSecret'
    BY DEF IInv, LiveInv, Suits, SecretsAreSecret
<1>4. ConfigInv'
    BY DEF IInv, ConfigInv, IsConfigured, SuitsEntry, Suits, Imports
<1> QED
    BY <1>1, <1>2, <1>3, <1>4 DEF IInv

LEMMA NextIInv ==
    ASSUME IInv, [Next]_vars
    PROVE  IInv'
<1>1. /\ TypeOK /\ LiveInv /\ ConfigInv /\ TodoInv /\ SecretsAreSecret
      /\ Sound(live)
    BY SoundIsInvariant DEF IInv, TypeOK
<1>2. /\ live \in Seq(LiveObject) /\ config \in Seq(Entry)
      /\ run \in [by : {"nobody", "user", "app"}, delete : BOOLEAN, todo : Seq(Patches)]
      /\ clean \in [plan : BOOLEAN, values : BOOLEAN]
      /\ kind \in Kinds
    BY <1>1 DEF TypeOK
<1>3. Nothing \in [plan : BOOLEAN, values : BOOLEAN]
    BY DEF Nothing
<1>4. CASE UserApply
    <2>1. PICK options \in Options, delete \in BOOLEAN, twice \in BOOLEAN :
              \/ UserPlans(options, delete, twice, Listing)
              \/ UserPlans(options, delete, twice, <<>>)
        BY <1>4, Zenon DEF UserApply
    <2>2. Listing \in Seq(LiveObject) /\ <<>> \in Seq(LiveObject)
        BY <1>2, ListingFacts, EmptySeq
    <2>3. PICK listed \in Seq(LiveObject) : UserPlans(options, delete, twice, listed)
        BY <2>1, <2>2, Zenon
    <2>4. /\ run' \in [by : {"nobody", "user", "app"}, delete : BOOLEAN, todo : Seq(ReadyPatches)]
          /\ clean' \in [plan : BOOLEAN, values : BOOLEAN]
        BY <2>3, UserRuns
    <2>5. UNCHANGED <<kind, live, config, base, vault>>
        BY <2>3 DEF UserPlans
    <2> QED
        BY <2>4, <2>5, RunStep
<1>5. CASE AppApply
    <2>1. run' \in [by : {"nobody", "user", "app"}, delete : BOOLEAN, todo : Seq(ReadyPatches)]
        BY <1>5, AppRuns
    <2>2. UNCHANGED <<kind, live, config, vault>> /\ base' = config /\ clean' = Nothing
        BY <1>5 DEF AppApply
    <2> QED
        BY <1>3, <2>1, <2>2, RunStep
<1>6. CASE Apply
    <2>1. run.todo # <<>>
        BY <1>6 DEF Apply
    <2>2. PICK r : r = [run EXCEPT !.todo = Tail(@)]
        OBVIOUS
    <2>3. /\ Head(run.todo) \in ReadyPatches
          /\ r \in [by : {"nobody", "user", "app"}, delete : BOOLEAN, todo : Seq(ReadyPatches)]
        BY <2>1, <2>2, TodoFacts
    <2>4. PICK answer : answer = Ask(Head(run.todo), run.by = "app")
        OBVIOUS
    <2>5. Sound(answer.live)
        BY <1>1, <1>2, <2>3, <2>4, AskSound
    <2>6. /\ live' = answer.live /\ run' = r /\ (clean' = clean \/ clean' = Nothing)
          /\ UNCHANGED <<kind, config, base, vault>>
        BY <1>6, <2>2, <2>4 DEF Apply
    <2>7. /\ r \in [by : {"nobody", "user", "app"}, delete : BOOLEAN, todo : Seq(Patches)]
          /\ \A i \in DOMAIN r.todo : IsReady(r.todo[i])
        BY <2>3, RunReady
    <2> QED
        BY <1>2, <1>3, <2>5, <2>6, <2>7, LiveStep
<1>7. CASE Fail
    <2>1. /\ run.todo # <<>> /\ run' = [run EXCEPT !.todo = Tail(@)] /\ clean' = Nothing
          /\ UNCHANGED <<kind, live, config, base, vault>>
        BY <1>7 DEF Fail
    <2>2. run' \in [by : {"nobody", "user", "app"}, delete : BOOLEAN, todo : Seq(ReadyPatches)]
        BY <2>1, TodoFacts
    <2> QED
        BY <1>3, <2>1, <2>2, RunStep
<1>8. CASE Finish
    <2>1. run' = Idle /\ UNCHANGED <<kind, live, config, base, vault, clean>>
        BY <1>8 DEF Finish
    <2>2. run' \in [by : {"nobody", "user", "app"}, delete : BOOLEAN, todo : Seq(ReadyPatches)]
        BY <2>1, EmptySeq DEF Idle
    <2> QED
        BY <1>2, <2>1, <2>2, RunStep
<1>9. CASE Import
    <2>1. PICK c : c = Imported
        OBVIOUS
    <2>2. c \in Imports
        BY <1>1, <1>2, <2>1, ImportedFacts DEF LiveInv, ConfigInv
    <2>3. config' = c /\ UNCHANGED <<kind, live, base, vault, run>>
        BY <1>9, <2>1 DEF Import
    <2>4. clean' \in [plan : BOOLEAN, values : BOOLEAN]
        <3>1. PICK b \in BOOLEAN :
                  b = (/\ Cardinality(Keys(Imported)) = Len(Imported)
                       /\ \A i \in DOMAIN Imported : Imported[i].secret = NoSecret => live[i].secret = NoSecret)
            BY Zenon
        <3>2. clean' = [plan |-> b, values |-> FALSE]
            BY <1>9, <3>1, Zenon DEF Import
        <3> QED
            BY <3>2
    <2> QED
        BY <2>2, <2>3, <2>4, ConfigStep
<1>10. CASE Merge
    <2>1. /\ config' \in Configs[kind] /\ clean' = Nothing
          /\ UNCHANGED <<kind, live, base, vault, run>>
        BY <1>10 DEF Merge
    <2>2. PICK c \in Configs[kind] : c = config'
        BY <2>1
    <2>3. c \in Imports
        BY <1>2, <2>2, ConfigsFacts DEF Imports
    <2> QED
        BY <1>3, <2>1, <2>2, <2>3, ConfigStep
<1>11. CASE Rotate
    <2>1. /\ UNCHANGED <<kind, live, config, base, run>>
          /\ clean' = [clean EXCEPT !.values = FALSE]
        BY <1>11 DEF Rotate
    <2>2. PICK r \in References, v \in Credentials \cup {Missing} : vault' = [vault EXCEPT ![r] = v]
        BY <1>11 DEF Rotate
    <2>3. vault' \in [References -> Credentials \cup {Missing}]
        BY <1>1, <2>2 DEF TypeOK
    <2>4. clean' \in [plan : BOOLEAN, values : BOOLEAN]
        BY <1>2, <2>1
    <2>5. TypeOK'
        BY <1>1, <2>1, <2>3, <2>4 DEF TypeOK
    <2>6. TodoInv'
        BY <1>1, <2>1 DEF TodoInv, IsReady, GoesTo, SuitsEntry, Suits
    <2>7. LiveInv' /\ SecretsAreSecret'
        BY <1>1, <2>1 DEF LiveInv, Suits, SecretsAreSecret
    <2>8. ConfigInv'
        BY <1>1, <2>1 DEF ConfigInv, IsConfigured, SuitsEntry, Suits
    <2> QED
        BY <2>5, <2>6, <2>7, <2>8 DEF IInv
<1>12. CASE OthersChange
    <2>1. clean' = Nothing /\ UNCHANGED <<kind, config, base, vault, run>>
        BY <1>12 DEF OthersChange
    <2>2. \A i \in DOMAIN run'.todo : IsReady(run'.todo[i])
        BY <1>1, <2>1 DEF TodoInv
    <2>3. PICK l : l = live'
        OBVIOUS
    <2>4. Sound(l)
        <3>1. CASE \E i \in DOMAIN live : live' = RemoveAt(live, i)
            BY <1>1, <2>3, <3>1, RemovedSound
        <3>2. CASE \E o \in UNION {ToSet(k) : k \in Lives[kind]} :
                      o.key \notin Keys(live) /\ live' = Append(live, o)
            <4>1. PICK k \in Lives[kind] :
                      \E o \in ToSet(k) : 
                      o.key \notin Keys(live) /\ live' = Append(live, o)
                BY <3>2
            <4>2. PICK i \in DOMAIN k : k[i].key \notin Keys(live) /\ live' = Append(live, k[i])
                BY <4>1 DEF ToSet
            <4>3. k \in Seq(LiveObject) /\ k[i].secret \in Secrets \cup {NoSecret} /\ Suits(k[i])
                BY <1>2, LivesFacts
            <4>4. PICK o : o = k[i]
                OBVIOUS
            <4>5. o \in LiveObject
                BY <4>3, <4>4, LenProperties, ElementOfSeq
            <4>6. l = Append(live, o) /\ \A j \in DOMAIN live : live[j].key # o.key
                BY <2>3, <4>2, <4>4 DEF Keys
            <4>7. /\ l \in Seq(LiveObject) /\ Len(l) = Len(live) + 1
                  /\ \A j \in 1..Len(live) : l[j] = live[j]
                  /\ l[Len(live) + 1] = o
                BY <1>2, <4>5, <4>6, AppendProperties
            <4>8. DOMAIN l = 1..Len(live) + 1 /\ DOMAIN live = 1..Len(live) /\ Len(live) \in Nat
                BY <1>2, <4>7, LenProperties
            <4>9. \A j \in DOMAIN l : IF j \in DOMAIN live THEN l[j] = live[j] ELSE l[j] = o /\ j = Len(live) + 1
                BY <4>7, <4>8
            <4>10. KeysDiffer(l)
                BY <1>1, <4>6, <4>9 DEF KeysDiffer, Sound
            <4> QED
                BY <1>1, <4>3, <4>4, <4>7, <4>9, <4>10 DEF Sound
        <3> QED
            BY <1>12, <3>1, <3>2 DEF OthersChange
    <2> QED
        BY <1>2, <1>3, <2>1, <2>2, <2>3, <2>4, LiveStep
<1>13. CASE UNCHANGED vars
    <2>1. TypeOK'
        BY <1>1, <1>13 DEF TypeOK, vars
    <2>2. TodoInv'
        BY <1>1, <1>13 DEF TodoInv, IsReady, GoesTo, SuitsEntry, Suits, vars
    <2>3. LiveInv' /\ SecretsAreSecret'
        BY <1>1, <1>13 DEF LiveInv, Suits, SecretsAreSecret, vars
    <2>4. ConfigInv'
        BY <1>1, <1>13 DEF ConfigInv, IsConfigured, SuitsEntry, Suits, vars
    <2> QED
        BY <2>1, <2>2, <2>3, <2>4 DEF IInv
<1> QED
    BY <1>4, <1>5, <1>6, <1>7, <1>8, <1>9, <1>10, <1>11, <1>12, <1>13 DEF Next

\* The invariant holds whatever is live, configured, merged, rotated and imported, and
\* whichever requests fail.
THEOREM Invariance == Spec => []IInv
<1>1. Init => IInv
    BY InitIInv
<1>2. IInv /\ [Next]_vars => IInv'
    BY NextIInv
<1> QED
    BY <1>1, <1>2, PTL DEF Spec

\* Every variable has its type, and no two objects of an owner ever have the same key:
\* not when a webhook is given another url, nor when a secret is put that exists.
THEOREM TypeCorrect == Spec => []TypeOK
<1>1. IInv => TypeOK
    BY DEF IInv
<1> QED
    BY <1>1, Invariance, PTL

\* GitHub never uses the reference to a credential as a secret, nor the asterisks that
\* stand for one: neither a user's apply, which resolves what it has planned, nor the
\* app's, which has no credentials, nor what an import copies leads to that.
THEOREM SecretsStaySecret == Spec => []SecretsAreSecret
<1>1. IInv => SecretsAreSecret
    BY DEF IInv
<1> QED
    BY <1>1, Invariance, PTL

\* Induction over 0 .. n.
LEMMA Induction ==
    ASSUME NEW n \in Nat, NEW T, 0 \in T, \A i \in 1..n : i - 1 \in T => i \in T
    PROVE  \A i \in 0..n : i \in T
<1>1. PICK f : f = [i \in 0..n |-> i]
    OBVIOUS
<1>2. f[0] \in T
    BY <1>1
<1>3. \A i \in 1..n : f[i - 1] \in T => f[i] \in T
    <2>1. \A i \in 1..n : i \in 0..n /\ i - 1 \in 0..n
        OBVIOUS
    <2> QED
        BY <1>1, <2>1
<1>4. \A i \in 0..n : f[i] \in T
    BY <1>2, <1>3, Steps
<1> QED
    BY <1>1, <1>4

\* If the set has all of the patches, all of them are chosen.
LEMMA ChosenAll ==
    ASSUME NEW S, NEW patches \in Seq(S), NEW set, \A i \in DOMAIN patches : patches[i] \in set
    PROVE  Chosen(patches, set) = patches
<1>1. PICK f :
          /\ Chosen(patches, set) = f[Len(patches)]
          /\ f[0] = <<>>
          /\ \A i \in 1..Len(patches) :
                 f[i] = IF patches[i] \in set THEN Append(f[i - 1], patches[i]) ELSE f[i - 1]
          /\ \A i \in 0..Len(patches) : f[i] \in Seq(S \cap set)
    BY ChosenSteps
<1>2. /\ Len(patches) \in Nat /\ DOMAIN patches = 1..Len(patches)
      /\ \A i \in 1..Len(patches) : patches[i] \in S \cap set
    BY LenProperties, ElementOfSeq
<1>3. PICK n \in Nat : n = Len(patches)
    BY <1>2
<1> DEFINE T == {i \in 0..n : Len(f[i]) = i /\ \A k \in 1..i : f[i][k] = patches[k]}
<1>4. 0 \in T
    BY <1>1, EmptySeq
<1>5. ASSUME NEW i \in 1..n, i - 1 \in T
      PROVE  i \in T
    <2>1. i - 1 \in 0..n /\ i \in 0..n /\ i - 1 + 1 = i
        OBVIOUS
    <2>2. PICK s \in Seq(S \cap set) : s = f[i - 1]
        BY <1>1, <1>3, <2>1
    <2>3. PICK p \in S \cap set : p = patches[i]
        BY <1>2, <1>3
    <2>4. f[i] = Append(s, p)
        BY <1>1, <1>3, <2>2, <2>3
    <2>5. Len(s) = i - 1 /\ \A k \in 1..i - 1 : s[k] = patches[k]
        BY <1>5, <2>2
    <2>6. /\ Len(f[i]) = Len(s) + 1 /\ f[i][Len(s) + 1] = p
          /\ \A k \in 1..Len(s) : f[i][k] = s[k]
        BY <2>4, AppendProperties
    <2>7. \A k \in 1..i : k = i \/ k \in 1..i - 1
        OBVIOUS
    <2> QED
        BY <2>1, <2>3, <2>5, <2>6, <2>7
<1>6. n \in T
    <2> HIDE DEF T
    <2>1. \A i \in 0..n : i \in T
        BY <1>4, <1>5, Induction
    <2> QED
        BY <2>1
<1>7. f[n] \in Seq(S \cap set) /\ Len(f[n]) = n /\ \A k \in 1..n : f[n][k] = patches[k]
    BY <1>1, <1>3, <1>6
<1>8. patches \in Seq(S \cap set)
    <2>1. patches \in [1..n -> S \cap set]
        BY <1>2, <1>3, LenProperties
    <2> QED
        BY <2>1, SeqDef
<1> QED
    BY <1>1, <1>3, <1>7, <1>8, SeqEqual

\* Without wildcards an entry is found under one of its names.
LEMMA EntryForPlain ==
    ASSUME Plainly, NEW entries \in Seq(Entry), \A i \in DOMAIN entries : IsConfigured(entries[i]),
           NEW key, NEW left \in SUBSET (DOMAIN entries)
    PROVE  LET i == EntryFor(key, entries, left) IN
           \/ i = 0 /\ \A j \in left : key \notin Names(entries[j])
           \/ i \in left /\ key \in Names(entries[i])
<1> DEFINE named == {i \in left : key \in Names(entries[i])}
           prefixed == IF \E i \in DOMAIN entries : IsWildcard(entries[i].key)
                       THEN {i \in DOMAIN entries : IsPrefix(Stripped(entries[i].key), key)}
                       ELSE {}
           all == IF named # {} THEN named ELSE prefixed
           found == CHOOSE i \in all : \A j \in all : i <= j
<1>1. DOMAIN entries \in SUBSET Nat
    BY LenProperties
<1>2. prefixed = {}
    BY DEF IsConfigured, SuitsEntry, Suits
<1>3. all = named
    BY <1>2
<1>4. EntryFor(key, entries, left) = IF all = {} THEN 0 ELSE found
    BY DEF EntryFor
<1>5. all \in SUBSET Nat
    BY <1>1, <1>3
<1>6. all # {} => found \in all
    <2> HIDE DEF all
    <2> QED
        BY <1>5, FirstOf
<1> HIDE DEF found
<1>7. CASE all = {}
    BY <1>3, <1>4, <1>7
<1>8. CASE all # {}
    <2>1. EntryFor(key, entries, left) = found /\ found \in named
        BY <1>3, <1>4, <1>6, <1>8
    <2> QED
        BY <2>1
<1> QED
    BY <1>7, <1>8

-----------------------------------------------------------------------------
(* What is planned when no key has a wildcard.                             *)

\* The entry is used up by the first live object that bears one of its names.
Owns(current, entries, a, j) ==
    /\ current[a].key \in Names(entries[j])
    /\ \A b \in 1..a - 1 : current[b].key \notin Names(entries[j])

\* What becomes of a live object.
IsMatch(current, entries, options, a, p) ==
    \/ /\ p = Patch("remove", NoEntry, current[a].key)
       /\ \A j \in DOMAIN entries : ~Owns(current, entries, a, j)
    \/ \E j \in DOMAIN entries :
           /\ Owns(current, entries, a, j)
           /\ IsPatched(entries[j], current[a], options)
           /\ p = Patch("change", entries[j], current[a].key)

\* The patches are those of the first k live objects, each of them once.
Gathered(out, current, entries, options, k) ==
    /\ \A n \in DOMAIN out : \E a \in 1..k : IsMatch(current, entries, options, a, out[n])
    /\ \A a \in 1..k : \A p : IsMatch(current, entries, options, a, p) => \E n \in DOMAIN out : out[n] = p
    /\ \A m, n \in DOMAIN out : out[m].key = out[n].key => m = n

LEMMA MatchKey ==
    ASSUME NEW current, NEW entries, NEW options, NEW a, NEW p, IsMatch(current, entries, options, a, p)
    PROVE  p.key = current[a].key
BY DEF IsMatch, Patch

\* One more live object, with a patch or without.
LEMMA GatheredOne ==
    ASSUME NEW S, NEW out \in Seq(S), NEW current, NEW entries, NEW options, NEW k \in Nat \ {0},
           Gathered(out, current, entries, options, k - 1),
           \A a \in 1..k - 1 : current[a].key # current[k].key,
           NEW p \in S, IsMatch(current, entries, options, k, p),
           \A q : IsMatch(current, entries, options, k, q) => q = p
    PROVE  Gathered(Append(out, p), current, entries, options, k)
<1>1. PICK t : t = Append(out, p)
    OBVIOUS
<1>2. /\ Len(out) \in Nat /\ DOMAIN out = 1..Len(out)
      /\ t \in Seq(S) /\ Len(t) = Len(out) + 1
      /\ \A n \in 1..Len(out) : t[n] = out[n]
      /\ t[Len(out) + 1] = p
    BY <1>1, LenProperties, AppendProperties
<1>3. DOMAIN t = 1..Len(out) + 1
    BY <1>2, LenProperties
<1>4. \A n \in DOMAIN t : (n \in DOMAIN out /\ t[n] = out[n]) \/ (n = Len(out) + 1 /\ t[n] = p)
    BY <1>2, <1>3
<1>5. \A a \in 1..k : a = k \/ a \in 1..k - 1
    OBVIOUS
<1>6. \A a \in 1..k - 1 : a \in 1..k
    OBVIOUS
<1>7. k \in 1..k
    OBVIOUS
<1>8. \A n \in DOMAIN t : \E a \in 1..k : IsMatch(current, entries, options, a, t[n])
    BY <1>4, <1>6, <1>7 DEF Gathered
<1>9. \A a \in 1..k : \A q : IsMatch(current, entries, options, a, q) => \E n \in DOMAIN t : t[n] = q
    <2> SUFFICES ASSUME NEW a \in 1..k, NEW q, IsMatch(current, entries, options, a, q)
                 PROVE  \E n \in DOMAIN t : t[n] = q
        OBVIOUS
    <2>1. CASE a = k
        BY <1>2, <1>3, <2>1
    <2>2. CASE a # k
        <3>1. PICK n \in DOMAIN out : out[n] = q
            BY <1>5, <2>2 DEF Gathered
        <3> QED
            BY <1>2, <1>3, <3>1
    <2> QED
        BY <2>1, <2>2
<1>10. ASSUME NEW m \in DOMAIN t, NEW n \in DOMAIN t, t[m].key = t[n].key
       PROVE  m = n
    <2>1. p.key = current[k].key
        BY MatchKey
    <2>2. \A i \in DOMAIN out : out[i].key # p.key
        <3> TAKE i \in DOMAIN out
        <3>1. PICK a \in 1..k - 1 : IsMatch(current, entries, options, a, out[i])
            BY DEF Gathered
        <3>2. out[i].key = current[a].key
            BY <3>1, MatchKey
        <3> QED
            BY <2>1, <3>2
    <2> QED
        BY <1>4, <1>10, <2>2 DEF Gathered
<1> QED
    BY <1>1, <1>8, <1>9, <1>10 DEF Gathered

LEMMA GatheredNone ==
    ASSUME NEW out, NEW current, NEW entries, NEW options, NEW k \in Nat \ {0},
           Gathered(out, current, entries, options, k - 1),
           \A q : ~IsMatch(current, entries, options, k, q)
    PROVE  Gathered(out, current, entries, options, k)
<1>1. \A a \in 1..k : a = k \/ a \in 1..k - 1
    OBVIOUS
<1>2. \A a \in 1..k - 1 : a \in 1..k
    OBVIOUS
<1> QED
    BY <1>1, <1>2 DEF Gathered

\* The entries that nothing up to k bears a name of.
Unnamed(current, entries, k) ==
    {j \in DOMAIN entries : \A b \in 1..k : current[b].key \notin Names(entries[j])}

IsMatching(s, current, entries, options, k) ==
    /\ s.ok = TRUE
    /\ s.left = Unnamed(current, entries, k)
    /\ Gathered(s.out, current, entries, options, k)

LEMMA UnnamedStep ==
    ASSUME NEW current, NEW entries, NEW k \in Nat \ {0}
    PROVE  /\ Unnamed(current, entries, k) =
                  {j \in Unnamed(current, entries, k - 1) : current[k].key \notin Names(entries[j])}
           /\ \A j \in DOMAIN entries :
                  Owns(current, entries, k, j) <=>
                      j \in Unnamed(current, entries, k - 1) /\ current[k].key \in Names(entries[j])
<1>1. \A b : b \in 1..k <=> b = k \/ b \in 1..k - 1
    OBVIOUS
<1>2. \A j \in DOMAIN entries :
          j \in Unnamed(current, entries, k) <=>
              j \in Unnamed(current, entries, k - 1) /\ current[k].key \notin Names(entries[j])
    BY <1>1 DEF Unnamed
<1>3. Unnamed(current, entries, k) \in SUBSET (DOMAIN entries)
      /\ Unnamed(current, entries, k - 1) \in SUBSET (DOMAIN entries)
    BY DEF Unnamed
<1>4. \A j \in DOMAIN entries :
          Owns(current, entries, k, j) <=>
              j \in Unnamed(current, entries, k - 1) /\ current[k].key \in Names(entries[j])
    BY DEF Unnamed, Owns
<1> QED
    BY <1>2, <1>3, <1>4

LEMMA MatchedPlain ==
    ASSUME Plainly, NEW entries \in Seq(Entry), \A i \in DOMAIN entries : IsConfigured(entries[i]),
           NamesDiffer(entries), NEW current, NEW options, NEW k \in Nat \ {0},
           \A a \in 1..k - 1 : current[a].key # current[k].key, current[k].key \in Words,
           NEW s \in Matchings(entries), IsMatching(s, current, entries, options, k - 1)
    PROVE  IsMatching(Matched(s, current[k], entries, options), current, entries, options, k)
<1>1. PICK c : c = current[k]
    OBVIOUS
<1>2. PICK i : i = EntryFor(c.key, entries, s.left)
    OBVIOUS
<1>3. /\ s.left \in SUBSET (DOMAIN entries) /\ s.ok = TRUE /\ s.out \in Seq(PlannedPatches)
      /\ s.left = Unnamed(current, entries, k - 1)
      /\ Gathered(s.out, current, entries, options, k - 1)
      /\ s = [left |-> s.left, ok |-> s.ok, out |-> s.out]
    BY DEF IsMatching, Matchings
<1>4. \/ i = 0 /\ \A j \in s.left : c.key \notin Names(entries[j])
      \/ i \in s.left /\ c.key \in Names(entries[i])
    BY <1>2, <1>3, EntryForPlain
<1>5. 0 \notin DOMAIN entries
    BY LenProperties
<1>6. CASE i = 0
    <2>1. \A j \in s.left : c.key \notin Names(entries[j])
        BY <1>3, <1>4, <1>5, <1>6
    <2>2. PICK p : p = Patch("remove", NoEntry, c.key)
        OBVIOUS
    <2>3. PICK t : t = Append(s.out, p)
        OBVIOUS
    <2>4. Matched(s, c, entries, options) = [left |-> s.left, ok |-> s.ok, out |-> t]
        <3>1. Matched(s, c, entries, options) = [s EXCEPT !.out = t]
            BY <1>2, <1>6, <2>2, <2>3 DEF Matched
        <3> QED
            BY <1>3, <3>1
    <2>5. s.left = Unnamed(current, entries, k)
        <3>1. Unnamed(current, entries, k) = {j \in s.left : c.key \notin Names(entries[j])}
            BY <1>1, <1>3, UnnamedStep
        <3>2. {j \in s.left : c.key \notin Names(entries[j])} = s.left
            BY <2>1
        <3> QED
            BY <3>1, <3>2
    <2>6. \A j \in DOMAIN entries : ~Owns(current, entries, k, j)
        BY <1>1, <1>3, <2>1, UnnamedStep
    <2>7. IsMatch(current, entries, options, k, p) /\ \A q : IsMatch(current, entries, options, k, q) => q = p
        BY <1>1, <2>2, <2>6 DEF IsMatch
    <2>8. p \in PlannedPatches
        BY <1>1, <2>2, RemovalPlanned
    <2>9. Gathered(t, current, entries, options, k)
        BY <1>3, <2>3, <2>7, <2>8, GatheredOne
    <2> QED
        BY <1>1, <1>3, <2>4, <2>5, <2>9 DEF IsMatching
<1>7. CASE i # 0
    <2>1. i \in s.left /\ c.key \in Names(entries[i]) /\ i \in DOMAIN entries
        BY <1>3, <1>4, <1>7
    <2>2. \A j \in DOMAIN entries : c.key \in Names(entries[j]) => j = i
        BY <2>1 DEF NamesDiffer
    <2>3. Owns(current, entries, k, i) /\ \A j \in DOMAIN entries : Owns(current, entries, k, j) => j = i
        BY <1>1, <1>3, <2>1, <2>2, UnnamedStep
    <2>4. s.left \ {i} = Unnamed(current, entries, k)
        BY <1>1, <1>3, <2>1, <2>2, UnnamedStep
    <2>5. PICK p : p = Patch("change", entries[i], c.key)
        OBVIOUS
    <2>6. PICK t : t = IF IsPatched(entries[i], c, options) THEN Append(s.out, p) ELSE s.out
        OBVIOUS
    <2>7. Matched(s, c, entries, options) = [left |-> s.left \ {i}, ok |-> TRUE, out |-> t]
        <3>1. TRUE = (s.ok /\ i \in s.left)
            BY <1>3, <2>1
        <3> QED
            BY <1>2, <1>7, <2>5, <2>6, <3>1, Zenon DEF Matched
    <2>8. \A q : IsMatch(current, entries, options, k, q) <=> IsPatched(entries[i], c, options) /\ q = p
        BY <1>1, <2>1, <2>3, <2>5 DEF IsMatch
    <2>9. Gathered(t, current, entries, options, k)
        <3>1. CASE IsPatched(entries[i], c, options)
            <4>1. p \in PlannedPatches
                <5>1. entries[i] \in Entry /\ IsConfigured(entries[i])
                    BY <2>1, LenProperties, ElementOfSeq
                <5>2. entries[i].secret # Dummy
                    BY <3>1 DEF IsPatched
                <5>3. kind # "webhook" => entries[i].key = c.key
                    BY <2>1, <5>1 DEF IsConfigured, SuitsEntry, FitsEntry, Names
                <5> QED
                    BY <1>1, <2>5, <5>1, <5>2, <5>3, EntryPlanned
            <4>2. t = Append(s.out, p)
                BY <2>6, <3>1
            <4> QED
                BY <1>3, <2>8, <3>1, <4>1, <4>2, GatheredOne
        <3>2. CASE ~IsPatched(entries[i], c, options)
            <4>1. t = s.out
                BY <2>6, <3>2
            <4> QED
                BY <1>3, <2>8, <3>2, <4>1, GatheredNone
        <3> QED
            BY <3>1, <3>2
    <2> QED
        BY <1>1, <2>4, <2>7, <2>9 DEF IsMatching
<1> QED
    BY <1>6, <1>7

LEMMA AllMatchedPlain ==
    ASSUME Plainly, NEW entries \in Seq(Entry), \A i \in DOMAIN entries : IsConfigured(entries[i]),
           NamesDiffer(entries), NEW T, \A c \in T : c.key \in Words, NEW current \in Seq(T),
           KeysDiffer(current), NEW options
    PROVE  IsMatching(AllMatched(current, entries, options), current, entries, options, Len(current))
<1>1. PICK f :
          /\ AllMatched(current, entries, options) = f[Len(current)]
          /\ f[0] = [left |-> DOMAIN entries, ok |-> TRUE, out |-> <<>>]
          /\ \A i \in 1..Len(current) : f[i] = Matched(f[i - 1], current[i], entries, options)
          /\ \A i \in 0..Len(current) : f[i] \in Matchings(entries)
    BY AllMatchedSteps
<1>2. PICK n \in Nat : n = Len(current)
    BY LenProperties
<1>3. DOMAIN current = 1..n /\ \A i \in 1..n : current[i].key \in Words
    BY <1>2, LenProperties, ElementOfSeq
<1> DEFINE Done == {i \in 0..n : IsMatching(f[i], current, entries, options, i)}
<1>4. 0 \in Done
    <2>1. 1..0 = {} /\ DOMAIN <<>> = {}
        BY EmptySeq
    <2>2. Unnamed(current, entries, 0) = DOMAIN entries
        BY <2>1 DEF Unnamed
    <2>3. Gathered(<<>>, current, entries, options, 0)
        BY <2>1 DEF Gathered
    <2> QED
        BY <1>1, <2>2, <2>3 DEF IsMatching
<1>5. ASSUME NEW i \in 1..n, i - 1 \in Done
      PROVE  i \in Done
    <2>1. i - 1 \in 0..n /\ i \in 0..n /\ i \in Nat \ {0}
        OBVIOUS
    <2>2. PICK s \in Matchings(entries) : s = f[i - 1]
        BY <1>1, <1>2, <2>1
    <2>3. IsMatching(s, current, entries, options, i - 1)
        BY <1>5, <2>2
    <2>4. \A a \in 1..i - 1 : current[a].key # current[i].key
        <3>1. \A a \in 1..i - 1 : a \in 1..n /\ a # i
            OBVIOUS
        <3> QED
            BY <1>3, <3>1 DEF KeysDiffer
    <2>5. IsMatching(Matched(s, current[i], entries, options), current, entries, options, i)
        BY <1>3, <2>1, <2>3, <2>4, MatchedPlain
    <2>6. f[i] = Matched(s, current[i], entries, options)
        BY <1>1, <1>2, <2>2
    <2> QED
        BY <2>1, <2>5, <2>6
<1>6. n \in Done
    <2> HIDE DEF Done
    <2>1. \A i \in 0..n : i \in Done
        BY <1>4, <1>5, Induction
    <2> QED
        BY <2>1
<1> QED
    BY <1>1, <1>2, <1>6

\* What an entry is added with.
IsAddition(entries, left, j, p) ==
    /\ j \in left
    /\ entries[j].secret # Dummy
    /\ p = Patch("add", entries[j], entries[j].key)

\* The patches with what the first i entries add to them, each of them once.
Extended(t, out, entries, left, i) ==
    /\ \A p : (\E n \in DOMAIN t : t[n] = p) <=>
                  (\E n \in DOMAIN out : out[n] = p) \/ (\E j \in 1..i : IsAddition(entries, left, j, p))
    /\ \A m, n \in DOMAIN t : t[m] = t[n] => m = n

LEMMA AddedPlain ==
    ASSUME NEW S, NEW t \in Seq(S), NEW out, NEW entries, NEW left, NEW i \in Nat \ {0},
           Extended(t, out, entries, left, i - 1), \A n \in DOMAIN out : out[n].op # "add",
           \A j \in 1..i - 1 : entries[j] # entries[i],
           i \in left /\ entries[i].secret # Dummy => Patch("add", entries[i], entries[i].key) \in S
    PROVE  Extended(Added(t, entries[i], i \in left), out, entries, left, i)
<1>1. \A j : j \in 1..i <=> j = i \/ j \in 1..i - 1
    OBVIOUS
<1>2. PICK new : new = Patch("add", entries[i], entries[i].key)
    OBVIOUS
<1>3. CASE i \in left /\ entries[i].secret # Dummy
    <2>1. PICK u : u = Append(t, new)
        OBVIOUS
    <2>2. /\ Len(t) \in Nat /\ DOMAIN t = 1..Len(t)
          /\ u \in Seq(S) /\ Len(u) = Len(t) + 1
          /\ \A n \in 1..Len(t) : u[n] = t[n]
          /\ u[Len(t) + 1] = new
        BY <1>2, <1>3, <2>1, LenProperties, AppendProperties
    <2>3. DOMAIN u = 1..Len(t) + 1
        BY <2>2, LenProperties
    <2>4. \A n : n \in DOMAIN u <=> n \in DOMAIN t \/ n = Len(t) + 1
        BY <2>2, <2>3
    <2>5. \A p : (\E n \in DOMAIN u : u[n] = p) <=> (\E n \in DOMAIN t : t[n] = p) \/ p = new
        BY <2>2, <2>4
    <2>6. \A p : IsAddition(entries, left, i, p) <=> p = new
        BY <1>2, <1>3 DEF IsAddition
    <2>7. \A p : (\E n \in DOMAIN u : u[n] = p) <=>
                     (\E n \in DOMAIN out : out[n] = p) \/ (\E j \in 1..i : IsAddition(entries, left, j, p))
        BY <1>1, <2>5, <2>6 DEF Extended
    <2>8. \A n \in DOMAIN t : t[n] # new
        <3> SUFFICES ASSUME NEW n \in DOMAIN t, t[n] = new
                     PROVE  FALSE
            OBVIOUS
        <3>1. new.op = "add" /\ new.entry = entries[i]
            BY <1>2 DEF Patch
        <3>2. (\E m \in DOMAIN out : out[m] = new) \/ (\E j \in 1..i - 1 : IsAddition(entries, left, j, new))
            BY DEF Extended
        <3>3. PICK j \in 1..i - 1 : IsAddition(entries, left, j, new)
            BY <3>1, <3>2
        <3>4. new.entry = entries[j]
            BY <3>3 DEF IsAddition, Patch
        <3> QED
            BY <3>1, <3>4
    <2>9. \A m, n \in DOMAIN u : u[m] = u[n] => m = n
        BY <2>2, <2>4, <2>8 DEF Extended
    <2>10. Added(t, entries[i], i \in left) = u
        BY <1>2, <1>3, <2>1 DEF Added
    <2> QED
        BY <2>7, <2>9, <2>10 DEF Extended
<1>4. CASE ~(i \in left /\ entries[i].secret # Dummy)
    <2>1. Added(t, entries[i], i \in left) = t
        BY <1>4 DEF Added
    <2>2. \A p : ~IsAddition(entries, left, i, p)
        BY <1>4 DEF IsAddition
    <2> QED
        BY <1>1, <2>1, <2>2 DEF Extended
<1> QED
    BY <1>3, <1>4

LEMMA WithAdditionsPlain ==
    ASSUME NEW entries \in Seq(Entry), \A i \in DOMAIN entries : IsConfigured(entries[i]),
           NamesDiffer(entries), NEW out \in Seq(PlannedPatches), NEW left,
           \A n \in DOMAIN out : out[n].op # "add", \A m, n \in DOMAIN out : out[m] = out[n] => m = n
    PROVE  Extended(WithAdditions(out, entries, left), out, entries, left, Len(entries))
<1>1. PICK f :
          /\ WithAdditions(out, entries, left) = f[Len(entries)]
          /\ f[0] = out
          /\ \A i \in 1..Len(entries) : f[i] = Added(f[i - 1], entries[i], i \in left)
          /\ \A i \in 0..Len(entries) : f[i] \in Seq(PlannedPatches)
    BY WithAdditionsSteps
<1>2. PICK n \in Nat : n = Len(entries)
    BY LenProperties
<1>3. DOMAIN entries = 1..n /\ \A i \in 1..n : entries[i] \in Entry /\ IsConfigured(entries[i])
    BY <1>2, LenProperties, ElementOfSeq
<1> DEFINE Done == {i \in 0..n : Extended(f[i], out, entries, left, i)}
<1>4. 0 \in Done
    <2>1. 1..0 = {}
        OBVIOUS
    <2> QED
        BY <1>1, <2>1 DEF Extended
<1>5. ASSUME NEW i \in 1..n, i - 1 \in Done
      PROVE  i \in Done
    <2>1. i - 1 \in 0..n /\ i \in 0..n /\ i \in Nat \ {0}
        OBVIOUS
    <2>2. PICK t \in Seq(PlannedPatches) : t = f[i - 1]
        BY <1>1, <1>2, <2>1
    <2>3. Extended(t, out, entries, left, i - 1)
        BY <1>5, <2>2
    <2>4. \A j \in 1..i - 1 : entries[j] # entries[i]
        <3>1. \A j \in 1..i - 1 : j \in 1..n /\ j # i
            OBVIOUS
        <3>2. \A e : e.key \in Names(e)
            BY DEF Names
        <3> QED
            BY <1>3, <3>1, <3>2 DEF NamesDiffer
    <2>5. entries[i].secret # Dummy => Patch("add", entries[i], entries[i].key) \in PlannedPatches
        <3>1. entries[i].key \in Words
            BY <1>3 DEF Entry
        <3> QED
            BY <1>3, <3>1, EntryPlanned
    <2>6. Extended(Added(t, entries[i], i \in left), out, entries, left, i)
        BY <2>1, <2>3, <2>4, <2>5, AddedPlain
    <2>7. f[i] = Added(t, entries[i], i \in left)
        BY <1>1, <1>2, <2>2
    <2> QED
        BY <2>1, <2>6, <2>7
<1>6. n \in Done
    <2> HIDE DEF Done
    <2>1. \A i \in 0..n : i \in Done
        BY <1>4, <1>5, Induction
    <2> QED
        BY <2>1
<1> QED
    BY <1>1, <1>2, <1>6

\* What is planned: what becomes of the live objects, and an addition for each entry
\* that none of them bears a name of.
InPlan(current, entries, options, p) ==
    \/ \E a \in DOMAIN current : IsMatch(current, entries, options, a, p)
    \/ \E j \in DOMAIN entries :
           /\ entries[j].secret # Dummy
           /\ \A a \in DOMAIN current : current[a].key \notin Names(entries[j])
           /\ p = Patch("add", entries[j], entries[j].key)

LEMMA PlannedPlain ==
    ASSUME Plainly, NEW entries \in Seq(Entry), \A i \in DOMAIN entries : IsConfigured(entries[i]),
           NamesDiffer(entries), NEW T, \A c \in T : c.key \in Words, NEW current \in Seq(T),
           KeysDiffer(current), NEW options
    PROVE  LET plan == Planned(current, entries, options) IN
           /\ plan.ok
           /\ plan.patches \in Seq(PlannedPatches)
           /\ \A m, n \in DOMAIN plan.patches : plan.patches[m] = plan.patches[n] => m = n
           /\ \A p : p \in ToSet(plan.patches) <=> InPlan(current, entries, options, p)
<1>1. PICK s : s = AllMatched(current, entries, options)
    OBVIOUS
<1>2. IsMatching(s, current, entries, options, Len(current))
    BY <1>1, AllMatchedPlain
<1>3. s \in Matchings(entries)
    BY <1>1, AllMatchedFacts
<1>4. DOMAIN current = 1..Len(current) /\ DOMAIN entries = 1..Len(entries)
    BY LenProperties
<1>5. s.out \in Seq(PlannedPatches)
    BY <1>3 DEF Matchings
<1>6. Gathered(s.out, current, entries, options, Len(current)) /\ s.ok = TRUE
      /\ s.left = Unnamed(current, entries, Len(current))
    BY <1>2 DEF IsMatching
<1>7. \A n \in DOMAIN s.out : s.out[n].op # "add"
    <2> TAKE n \in DOMAIN s.out
    <2>1. PICK p : p = s.out[n]
        OBVIOUS
    <2>2. PICK a \in 1..Len(current) : IsMatch(current, entries, options, a, p)
        BY <1>6, <2>1 DEF Gathered
    <2>3. p.op # "add"
        BY <2>2 DEF IsMatch, Patch
    <2> QED
        BY <2>1, <2>3
<1>8. \A m, n \in DOMAIN s.out : s.out[m] = s.out[n] => m = n
    BY <1>6 DEF Gathered
<1>9. PICK t : t = WithAdditions(s.out, entries, s.left)
    OBVIOUS
<1>10. Extended(t, s.out, entries, s.left, Len(entries))
    BY <1>5, <1>7, <1>8, <1>9, WithAdditionsPlain
<1>11. \A p : (\E n \in DOMAIN s.out : s.out[n] = p) <=>
                  \E a \in DOMAIN current : IsMatch(current, entries, options, a, p)
    BY <1>4, <1>6 DEF Gathered
<1>12. \A j, p : j \in DOMAIN entries =>
          (IsAddition(entries, s.left, j, p) <=>
              /\ entries[j].secret # Dummy
              /\ \A a \in DOMAIN current : current[a].key \notin Names(entries[j])
              /\ p = Patch("add", entries[j], entries[j].key))
    BY <1>4, <1>6 DEF IsAddition, Unnamed
<1>13. \A p : (\E n \in DOMAIN t : t[n] = p) <=> InPlan(current, entries, options, p)
    <2> TAKE p
    <2>1. (\E n \in DOMAIN t : t[n] = p) <=>
              \/ \E a \in DOMAIN current : IsMatch(current, entries, options, a, p)
              \/ \E j \in DOMAIN entries : IsAddition(entries, s.left, j, p)
        BY <1>4, <1>10, <1>11 DEF Extended
    <2> QED
        BY <1>12, <2>1 DEF InPlan
<1>14. \A p : p \in ToSet(t) <=> \E n \in DOMAIN t : t[n] = p
    BY DEF ToSet
<1>15. t \in Seq(PlannedPatches)
    BY <1>5, <1>9, WithAdditionsFacts
<1>16. Planned(current, entries, options) = [ok |-> NamesDiffer(entries) /\ s.ok, patches |-> t]
    BY <1>1, <1>9, Zenon DEF Planned
<1>17. Planned(current, entries, options).patches = t /\ Planned(current, entries, options).ok
    <2>1. TRUE = (NamesDiffer(entries) /\ s.ok)
        BY <1>6
    <2>2. Planned(current, entries, options) = [ok |-> TRUE, patches |-> t]
        BY <1>16, <2>1, Zenon
    <2> QED
        BY <2>2
<1>18. \A m, n \in DOMAIN t : t[m] = t[n] => m = n
    BY <1>10 DEF Extended
<1> QED
    BY <1>13, <1>14, <1>15, <1>17, <1>18

-----------------------------------------------------------------------------
(* What a run that nothing disturbs has still to do.  L is the set of what *)
(* is live, T that of the patches to come, E that of the entries, all of   *)
(* the kind k; v gives the credentials, and values says that the secrets   *)
(* are updated.                                                            *)

\* What GitHub gets for a configured secret.
ValueOf(v, secret) == IF secret \in References THEN v[secret] ELSE secret

\* An entry and an object that a plan finds no difference between.
Tells(k, c) == k = "secret" \/ c.secret # NoSecret
Settles(k, e, c) ==
    \/ e.secret = Dummy
    \/ e.data = c.data /\ (Tells(k, c) <=> e.secret # NoSecret)

\* A live object that is going to be removed; one that stays as what an entry is about.
Goes(T, key) == \E p \in T : p.op = "remove" /\ p.key = key
Stays(T, c, e) == c.key \in Names(e) /\ ~Goes(T, c.key)

\* A patch is for an object that is live, or for an entry that nothing live bears a
\* name of; it carries what is configured.
IsFor(p, e) ==
    /\ p.entry.key = e.key
    /\ p.entry.data = e.data
    /\ p.entry.secret = NoSecret <=> e.secret = NoSecret

Accurate(L, E, values, v, p) ==
    /\ p.op # "add" => \E c \in L : c.key = p.key
    /\ p.op # "remove" => \E e \in E :
           /\ IsFor(p, e)
           /\ p.op = "change" => p.key \in Names(e)
           /\ p.op = "add" => \A c \in L : c.key \notin Names(e)
           /\ values => p.entry.secret = ValueOf(v, e.secret)

\* No two patches are for the same object, nor for the same entry.
Distinct(p, q) ==
    /\ p.op # "add" /\ q.op # "add" => p.key # q.key
    /\ p.op # "remove" /\ q.op # "remove" => p.entry.key # q.entry.key

\* A live object is removed, or is what its entry says once the patches are applied; an
\* entry that is no placeholder is live or will be, and with the secret it names.
ObjectSettles(T, E, k, c) ==
    \/ Goes(T, c.key)
    \/ \E e \in E :
           /\ c.key \in Names(e)
           /\ Settles(k, e, c) \/ \E q \in T : q.op = "change" /\ q.key = c.key

EntrySettles(L, T, e) ==
    \/ e.secret = Dummy
    \/ \E q \in T : q.op = "add" /\ q.entry.key = e.key
    \/ \E c \in L : Stays(T, c, e)

SecretSettles(L, T, v, e) ==
    \/ e.secret \in {NoSecret, Dummy}
    \/ \E q \in T : q.op # "remove" /\ q.entry.key = e.key
    \/ \E c \in L : c.key = e.key /\ ~Goes(T, c.key) /\ c.secret = ValueOf(v, e.secret)

\* Names are unique on both sides, and no difference is without its patch.
Settling(L, T, E, values, k, v) ==
    /\ \A c, d \in L : c.key = d.key => c = d
    /\ \A e, f \in E : e # f => Names(e) \cap Names(f) = {}
    /\ k = "secret" => \A e \in E : e.secret # NoSecret
    /\ \A p \in T : p.op \in {"add", "change", "remove"} /\ Accurate(L, E, values, v, p)
    /\ \A p, q \in T : p # q => Distinct(p, q)
    /\ \A c \in L : ObjectSettles(T, E, k, c)
    /\ \A e \in E : \A c, d \in L : Stays(T, c, e) /\ Stays(T, d, e) => c = d
    /\ \A e \in E : EntrySettles(L, T, e)
    /\ values => \A e \in E : SecretSettles(L, T, v, e)

\* What is removed is gone.
LEMMA RemoveSettles ==
    ASSUME NEW L, NEW T, NEW E, NEW values, NEW k, NEW v, Settling(L, T, E, values, k, v),
           NEW p \in T, p.op = "remove", NEW c0 \in L, c0.key = p.key
    PROVE  Settling(L \ {c0}, T \ {p}, E, values, k, v)
<1> DEFINE L2 == L \ {c0}
           T2 == T \ {p}
<1>1. \A c \in L2 : c.key # p.key /\ c \in L /\ c # c0
    BY DEF Settling
<1>2. \A c \in L2 : Goes(T2, c.key) <=> Goes(T, c.key)
    BY <1>1 DEF Goes
<1>3. Goes(T, c0.key)
    BY DEF Goes
<1>4. ASSUME NEW q \in T2
      PROVE  q.op \in {"add", "change", "remove"} /\ Accurate(L2, E, values, v, q)
    <2>1. Accurate(L, E, values, v, q) /\ q.op \in {"add", "change", "remove"} /\ Distinct(p, q)
        BY DEF Settling
    <2>2. q.op # "add" => \E c \in L2 : c.key = q.key
        BY <2>1 DEF Accurate, Distinct
    <2>3. \A c \in L2 : c \in L
        OBVIOUS
    <2> HIDE DEF L2
    <2> QED
        BY <2>1, <2>2, <2>3 DEF Accurate
<1>5. ASSUME NEW c \in L2
      PROVE  ObjectSettles(T2, E, k, c)
    <2>1. ObjectSettles(T, E, k, c)
        BY DEF Settling
    <2>2. \A q \in T : q.op = "change" => q \in T2
        OBVIOUS
    <2> HIDE DEF L2, T2
    <2> QED
        BY <1>2, <2>1, <2>2 DEF ObjectSettles
<1>6. ASSUME NEW e \in E, NEW c \in L2, NEW d \in L2, Stays(T2, c, e), Stays(T2, d, e)
      PROVE  c = d
    <2> HIDE DEF L2, T2
    <2>1. Stays(T, c, e) /\ Stays(T, d, e)
        BY <1>2, <1>6 DEF Stays
    <2> QED
        BY <1>1, <2>1 DEF Settling
<1>7. ASSUME NEW e \in E
      PROVE  EntrySettles(L2, T2, e)
    <2>1. EntrySettles(L, T, e)
        BY DEF Settling
    <2>2. \A q \in T : q.op = "add" => q \in T2
        OBVIOUS
    <2>3. \A c \in L : Stays(T, c, e) => c \in L2
        BY <1>3 DEF Stays
    <2> HIDE DEF L2, T2
    <2>4. \A c \in L : Stays(T, c, e) => Stays(T2, c, e)
        BY <1>2, <2>3 DEF Stays
    <2> QED
        BY <2>1, <2>2, <2>3, <2>4 DEF EntrySettles
<1>8. ASSUME NEW e \in E, values
      PROVE  SecretSettles(L2, T2, v, e)
    <2>1. SecretSettles(L, T, v, e)
        BY <1>8 DEF Settling
    <2>2. \A q \in T : q.op # "remove" => q \in T2
        OBVIOUS
    <2>3. \A c \in L : ~Goes(T, c.key) => c \in L2
        BY <1>3
    <2> HIDE DEF L2, T2
    <2> QED
        BY <1>2, <2>1, <2>2, <2>3 DEF SecretSettles
<1>9. /\ \A c, d \in L2 : c.key = d.key => c = d
      /\ \A e, f \in E : e # f => Names(e) \cap Names(f) = {}
      /\ k = "secret" => \A e \in E : e.secret # NoSecret
      /\ \A q, r \in T2 : q # r => Distinct(q, r)
    BY DEF Settling
<1> HIDE DEF L2, T2
<1>10. Settling(L2, T2, E, values, k, v)
    BY <1>4, <1>5, <1>6, <1>7, <1>8, <1>9 DEF Settling
<1> QED
    BY <1>10 DEF L2, T2

\* What is put for an entry is what the entry is about.
LEMMA PutSettles ==
    ASSUME NEW L, NEW T, NEW E, NEW values, NEW k, NEW v, Settling(L, T, E, values, k, v),
           NEW p \in T, p.op \in {"add", "change"},
           NEW L1 \in SUBSET L, \A c \in L1 : p.op = "change" => c.key # p.key,
           \A c \in L : c \notin L1 => p.op = "change" /\ c.key = p.key,
           NEW o, o.key = p.entry.key, o.data = p.entry.data, o.secret = p.entry.secret,
           \A c \in L1 : c.key # o.key
    PROVE  Settling(L1 \cup {o}, T \ {p}, E, values, k, v)
<1> DEFINE L2 == L1 \cup {o}
           T2 == T \ {p}
<1>1. PICK e0 \in E :
          /\ IsFor(p, e0)
          /\ p.op = "change" => p.key \in Names(e0)
          /\ p.op = "add" => \A c \in L : c.key \notin Names(e0)
          /\ values => p.entry.secret = ValueOf(v, e0.secret)
    BY DEF Settling, Accurate
<1>2. o.key = e0.key /\ o.key \in Names(e0)
    BY <1>1 DEF IsFor, Names
<1>3. \A e \in E : \A name : name \in Names(e) /\ name \in Names(e0) => e = e0
    BY DEF Settling
<1>4. \A key : Goes(T2, key) <=> Goes(T, key)
    BY DEF Goes
<1>5. \A q \in T2 : q.op # "add" => q.key # o.key /\ \E c \in L1 : c.key = q.key
    <2> TAKE q \in T2
    <2> HAVE q.op # "add"
    <2>1. Distinct(p, q) /\ Accurate(L, E, values, v, q)
        BY DEF Settling
    <2>2. PICK c \in L : c.key = q.key
        BY <2>1 DEF Accurate
    <2>3. c \in L1
        BY <2>1, <2>2 DEF Distinct
    <2> QED
        BY <2>2, <2>3
<1>6. ~Goes(T, o.key)
    <2>1. \A q \in T2 : ~(q.op = "remove" /\ q.key = o.key)
        BY <1>5
    <2>2. ~Goes(T2, o.key)
        BY <2>1 DEF Goes
    <2> QED
        BY <1>4, <2>2
<1>7. \A e \in E : e.key \in Names(e)
    BY DEF Names
<1>8. ASSUME NEW q \in T2
      PROVE  q.op \in {"add", "change", "remove"} /\ Accurate(L2, E, values, v, q)
    <2>1. Accurate(L, E, values, v, q) /\ q.op \in {"add", "change", "remove"} /\ Distinct(p, q)
        BY DEF Settling
    <2>2. q.op # "add" => \E c \in L2 : c.key = q.key
        BY <1>5
    <2>3. ASSUME q.op # "remove"
          PROVE  \E e \in E :
                     /\ IsFor(q, e)
                     /\ q.op = "change" => q.key \in Names(e)
                     /\ q.op = "add" => \A c \in L2 : c.key \notin Names(e)
                     /\ values => q.entry.secret = ValueOf(v, e.secret)
        <3>1. PICK e \in E :
                  /\ IsFor(q, e)
                  /\ q.op = "change" => q.key \in Names(e)
                  /\ q.op = "add" => \A c \in L : c.key \notin Names(e)
                  /\ values => q.entry.secret = ValueOf(v, e.secret)
            BY <2>1, <2>3 DEF Accurate
        <3>2. e.key # e0.key
            BY <1>1, <2>1, <2>3, <3>1 DEF IsFor, Distinct
        <3>3. o.key \notin Names(e)
            BY <1>2, <1>3, <3>2
        <3> QED
            BY <3>1, <3>3
    <2> HIDE DEF L2
    <2> QED
        BY <2>1, <2>2, <2>3 DEF Accurate
<1>9. ObjectSettles(T2, E, k, o)
    <2>1. k = "secret" => e0.secret # NoSecret
        BY DEF Settling
    <2>2. Settles(k, e0, o)
        BY <1>1, <2>1 DEF Settles, Tells, IsFor
    <2> QED
        BY <1>2, <2>2 DEF ObjectSettles
<1>10. ASSUME NEW c \in L1
       PROVE  ObjectSettles(T2, E, k, c)
    <2>1. ObjectSettles(T, E, k, c)
        BY DEF Settling
    <2>2. \A q \in T : q.op = "change" /\ q.key = c.key => q \in T2
        OBVIOUS
    <2> HIDE DEF T2
    <2> QED
        BY <1>4, <2>1, <2>2 DEF ObjectSettles
\* The object that was changed stayed for the entry that the new one stays for.
<1>11. ASSUME NEW c \in L, c \notin L1, NEW e \in E, c.key \in Names(e)
       PROVE  e = e0 /\ ~Goes(T, c.key)
    <2>1. c.key = p.key /\ p.op = "change"
        BY <1>11
    <2>2. e = e0
        BY <1>1, <1>3, <1>11, <2>1
    <2>3. \A q \in T : q.op = "remove" => q.key # p.key
        BY <2>1 DEF Settling, Distinct
    <2> QED
        BY <2>1, <2>2, <2>3 DEF Goes
<1>12. ASSUME NEW c \in L1
       PROVE  ~Stays(T, c, e0)
    <2>1. CASE p.op = "add"
        BY <1>1, <2>1 DEF Stays
    <2>2. CASE p.op = "change"
        <3>1. PICK d \in L : d.key = p.key
            BY <2>2 DEF Settling, Accurate
        <3>2. d \notin L1 /\ d.key \in Names(e0)
            BY <1>1, <2>2, <3>1
        <3>3. Stays(T, d, e0)
            BY <1>11, <3>2 DEF Stays
        <3>4. \A x, y \in L : Stays(T, x, e0) /\ Stays(T, y, e0) => x = y
            BY DEF Settling
        <3> QED
            BY <3>2, <3>3, <3>4
    <2> QED
        BY <2>1, <2>2
<1>13. \A c, e : Stays(T2, c, e) <=> Stays(T, c, e)
    BY <1>4 DEF Stays
<1>14. \A e \in E : Stays(T, o, e) <=> e = e0
    BY <1>2, <1>3, <1>6 DEF Stays
<1>15. ASSUME NEW e \in E, NEW c \in L2, NEW d \in L2, Stays(T2, c, e), Stays(T2, d, e)
       PROVE  c = d
    <2>1. Stays(T, c, e) /\ Stays(T, d, e)
        BY <1>13, <1>15
    <2>2. CASE e = e0
        BY <1>12, <2>1, <2>2
    <2>3. CASE e # e0
        <3>1. c \in L /\ d \in L
            BY <1>14, <2>1, <2>3
        <3> QED
            BY <2>1, <3>1 DEF Settling
    <2> QED
        BY <2>2, <2>3
<1>16. ASSUME NEW e \in E
       PROVE  EntrySettles(L2, T2, e)
    <2>1. CASE e = e0
        <3>1. Stays(T2, o, e)
            BY <1>13, <1>14, <2>1
        <3> QED
            BY <3>1 DEF EntrySettles
    <2>2. CASE e # e0
        <3>1. EntrySettles(L, T, e)
            BY DEF Settling
        <3>2. p.entry.key # e.key
            BY <1>2, <1>3, <1>7, <2>2
        <3>3. \A q \in T : q.op = "add" /\ q.entry.key = e.key => q \in T2
            BY <3>2
        <3>4. \A c \in L : Stays(T, c, e) => c \in L2 /\ Stays(T2, c, e)
            <4> TAKE c \in L
            <4> HAVE Stays(T, c, e)
            <4>1. c \in L1
                BY <1>11, <2>2 DEF Stays
            <4> QED
                BY <1>13, <4>1
        <3> HIDE DEF L2, T2
        <3> QED
            BY <3>1, <3>3, <3>4 DEF EntrySettles
    <2> QED
        BY <2>1, <2>2
<1>17. ASSUME NEW e \in E, values
       PROVE  SecretSettles(L2, T2, v, e)
    <2>1. CASE e = e0
        <3>1. o.key = e.key /\ ~Goes(T2, o.key) /\ o.secret = ValueOf(v, e.secret)
            BY <1>1, <1>2, <1>4, <1>6, <1>17, <2>1
        <3> QED
            BY <3>1 DEF SecretSettles
    <2>2. CASE e # e0
        <3>1. SecretSettles(L, T, v, e)
            BY <1>17 DEF Settling
        <3>2. p.entry.key # e.key
            BY <1>2, <1>3, <1>7, <2>2
        <3>3. \A q \in T : q.op # "remove" /\ q.entry.key = e.key => q \in T2
            BY <3>2
        <3>4. \A c \in L : c.key = e.key => c \in L2
            BY <1>7, <1>11, <2>2
        <3> HIDE DEF L2, T2
        <3> QED
            BY <1>4, <3>1, <3>3, <3>4 DEF SecretSettles
    <2> QED
        BY <2>1, <2>2
<1>18. /\ \A c, d \in L2 : c.key = d.key => c = d
       /\ \A e, f \in E : e # f => Names(e) \cap Names(f) = {}
       /\ k = "secret" => \A e \in E : e.secret # NoSecret
       /\ \A q, r \in T2 : q # r => Distinct(q, r)
    BY DEF Settling
<1>19. \A c \in L2 : ObjectSettles(T2, E, k, c)
    BY <1>9, <1>10
<1> HIDE DEF L2, T2
<1>20. Settling(L2, T2, E, values, k, v)
    BY <1>8, <1>15, <1>16, <1>17, <1>18, <1>19 DEF Settling
<1> QED
    BY <1>20 DEF L2, T2

-----------------------------------------------------------------------------
(* Sequences in which nothing occurs twice.                                *)

Once(s) == \A m, n \in DOMAIN s : s[m] = s[n] => m = n

LEMMA ToSetAppend ==
    ASSUME NEW S, NEW s \in Seq(S), NEW x \in S
    PROVE  ToSet(Append(s, x)) = ToSet(s) \cup {x}
<1>1. PICK t : t = Append(s, x)
    OBVIOUS
<1>2. /\ Len(s) \in Nat /\ DOMAIN s = 1..Len(s)
      /\ t \in Seq(S) /\ Len(t) = Len(s) + 1
      /\ \A n \in 1..Len(s) : t[n] = s[n]
      /\ t[Len(s) + 1] = x
    BY <1>1, LenProperties, AppendProperties
<1>3. \A n : n \in DOMAIN t <=> n \in DOMAIN s \/ n = Len(s) + 1
    BY <1>2, LenProperties
<1>4. \A y : (\E n \in DOMAIN t : t[n] = y) <=> (\E n \in DOMAIN s : s[n] = y) \/ y = x
    BY <1>2, <1>3
<1>5. ToSet(t) = ToSet(s) \cup {x}
    BY <1>4 DEF ToSet
<1> QED
    BY <1>1, <1>5

LEMMA ToSetExcept ==
    ASSUME NEW S, NEW s \in Seq(S), Once(s), NEW i \in DOMAIN s, NEW x
    PROVE  ToSet([s EXCEPT ![i] = x]) = (ToSet(s) \ {s[i]}) \cup {x}
<1>1. PICK t : t = [s EXCEPT ![i] = x]
    OBVIOUS
<1>2. s \in [1..Len(s) -> S] /\ DOMAIN s = 1..Len(s)
    BY LenProperties
<1>3. DOMAIN t = DOMAIN s /\ \A n \in DOMAIN s : t[n] = IF n = i THEN x ELSE s[n]
    BY <1>1, <1>2
<1>4. ASSUME NEW y
      PROVE  (\E n \in DOMAIN t : t[n] = y) <=> (\E n \in DOMAIN s : s[n] = y /\ y # s[i]) \/ y = x
    BY <1>3 DEF Once
<1>5. ToSet(t) = (ToSet(s) \ {s[i]}) \cup {x}
    BY <1>4 DEF ToSet
<1> QED
    BY <1>1, <1>5

LEMMA ToSetRemoveAt ==
    ASSUME NEW S, NEW s \in Seq(S), Once(s), NEW i \in DOMAIN s
    PROVE  ToSet(RemoveAt(s, i)) = ToSet(s) \ {s[i]}
<1>1. PICK t : t = RemoveAt(s, i)
    OBVIOUS
<1>2. Len(s) \in Nat /\ DOMAIN s = 1..Len(s) /\ i \in 1..Len(s)
    BY LenProperties
<1>3. /\ t \in Seq(S) /\ Len(t) = Len(s) - 1
      /\ \A j \in 1..Len(s) - 1 : t[j] = IF j < i THEN s[j] ELSE s[j + 1]
    BY <1>1, <1>2, RemoveAtFacts
<1>4. DOMAIN t = 1..Len(s) - 1
    BY <1>3, LenProperties
<1>5. \A n \in DOMAIN t : \E m \in DOMAIN s : m # i /\ t[n] = s[m]
    <2> TAKE n \in DOMAIN t
    <2>1. CASE n < i
        BY <1>2, <1>3, <1>4, <2>1
    <2>2. CASE ~(n < i)
        <3>1. n + 1 \in DOMAIN s /\ n + 1 # i
            BY <1>2, <1>4, <2>2
        <3> QED
            BY <1>3, <1>4, <2>2, <3>1
    <2> QED
        BY <2>1, <2>2
<1>6. \A m \in DOMAIN s : m # i => \E n \in DOMAIN t : t[n] = s[m]
    <2> TAKE m \in DOMAIN s
    <2> HAVE m # i
    <2>1. CASE m < i
        <3>1. m \in 1..Len(s) - 1
            BY <1>2, <2>1
        <3> QED
            BY <1>3, <1>4, <2>1, <3>1
    <2>2. CASE ~(m < i)
        <3>1. m - 1 \in 1..Len(s) - 1 /\ ~(m - 1 < i) /\ m - 1 + 1 = m
            BY <1>2, <2>2
        <3> QED
            BY <1>3, <1>4, <3>1
    <2> QED
        BY <2>1, <2>2
<1>7. \A y : (\E n \in DOMAIN t : t[n] = y) <=> (\E m \in DOMAIN s : s[m] = y) /\ y # s[i]
    BY <1>5, <1>6 DEF Once
<1>8. ToSet(t) = ToSet(s) \ {s[i]}
    BY <1>7 DEF ToSet
<1> QED
    BY <1>1, <1>8

LEMMA ToSetTail ==
    ASSUME NEW S, NEW s \in Seq(S), s # <<>>, Once(s)
    PROVE  /\ ToSet(Tail(s)) = ToSet(s) \ {Head(s)} /\ Head(s) \in ToSet(s)
           /\ Once(Tail(s))
<1>1. PICK t : t = Tail(s)
    OBVIOUS
<1>2. /\ Len(s) \in Nat /\ DOMAIN s = 1..Len(s) /\ Len(s) # 0
      /\ t \in Seq(S) /\ Len(t) = Len(s) - 1
      /\ \A n \in 1..Len(s) - 1 : t[n] = s[n + 1]
      /\ Head(s) = s[1]
    BY <1>1, LenProperties, HeadTailProperties, EmptySeq
<1>3. DOMAIN t = 1..Len(s) - 1
    BY <1>2, LenProperties
<1>4. \A n \in DOMAIN t : n + 1 \in DOMAIN s /\ n + 1 # 1 /\ t[n] = s[n + 1]
    BY <1>2, <1>3
<1>5. \A m \in DOMAIN s : m = 1 \/ (m - 1 \in DOMAIN t /\ t[m - 1] = s[m])
    BY <1>2, <1>3, <1>4
<1>6. 1 \in DOMAIN s
    BY <1>2
<1>7. \A y : (\E n \in DOMAIN t : t[n] = y) <=> (\E m \in DOMAIN s : s[m] = y) /\ y # s[1]
    BY <1>4, <1>5, <1>6 DEF Once
<1>8. ToSet(t) = ToSet(s) \ {s[1]} /\ s[1] \in ToSet(s)
    <2>1. \A y : y \in ToSet(t) <=> y \in ToSet(s) /\ y # s[1]
        BY <1>7, Zenon DEF ToSet
    <2>2. s[1] \in ToSet(s)
        BY <1>6 DEF ToSet
    <2> QED
        BY <2>1, <2>2
<1>9. ASSUME NEW m \in DOMAIN t, NEW n \in DOMAIN t, t[m] = t[n]
      PROVE  m = n
    <2>1. m + 1 = n + 1
        BY <1>4, <1>9 DEF Once
    <2> QED
        BY <1>3, <2>1
<1> QED
    BY <1>1, <1>2, <1>8, <1>9 DEF Once

-----------------------------------------------------------------------------
(* A request that succeeds.                                                *)

\* What GitHub holds after a user's patch that succeeds.
LEMMA AskSucceeds ==
    ASSUME kind \in Kinds, Sound(live), NEW p \in ReadyPatches, Ask(p, FALSE).ok
    PROVE  /\ p.op = "remove" => \E i \in DOMAIN live :
                  live[i].key = p.key /\ Ask(p, FALSE).live = RemoveAt(live, i)
           /\ p.op = "change" => \E i \in DOMAIN live :
                  /\ live[i].key = p.key /\ Ask(p, FALSE).live = [live EXCEPT ![i] = Object(p.entry)]
                  /\ \A j \in DOMAIN live : live[j].key = p.entry.key => j = i
           /\ p.op = "add" =>
                  /\ Ask(p, FALSE).live = Append(live, Object(p.entry))
                  /\ \A j \in DOMAIN live : live[j].key # p.entry.key
<1>1. PICK i : i = Target(p, FALSE)
    OBVIOUS
<1>2. /\ i \in {0} \cup DOMAIN live
      /\ IF i = 0 THEN \A j \in DOMAIN live : live[j].key # p.key ELSE live[i].key = p.key
    BY <1>1, TargetFacts DEF Sound
<1>3. 0 \notin DOMAIN live
    BY LenProperties DEF Sound
<1>4. /\ p.op \in {"add", "change", "remove"}
      /\ p.op # "remove" /\ kind # "webhook" => p.entry.key = p.key
    BY DEF ReadyPatches, Patches, IsReady, GoesTo
<1>5. kind \in {"webhook", "secret", "variable"}
    BY KindsAssumption
<1>6. ~Refused.ok
    BY DEF Refused, Answer
<1>7. PICK answer : answer = Ask(p, FALSE)
    OBVIOUS
<1>8. CASE p.op = "remove"
    <2>1. answer = Removed(i)
        BY <1>1, <1>5, <1>7, <1>8 DEF Ask, AskForWebhook, AskForSecret, AskForVariable,
            DeleteWebhook, DeleteSecret, DeleteVariable
    <2>2. i # 0
        BY <1>6, <1>7, <2>1 DEF Removed
    <2>3. answer.live = RemoveAt(live, i)
        BY <2>1, <2>2 DEF Removed, Answer
    <2> QED
        BY <1>2, <1>7, <1>8, <2>2, <2>3
<1>9. CASE p.op = "change"
    <2>1. /\ i # 0 /\ answer.live = Put(p.entry, i)
          /\ \A j \in DOMAIN live : live[j].key = p.entry.key => j = i
        <3>1. CASE kind = "webhook"
            <4>1. answer = UpdateWebhook(p.entry, i)
                BY <1>1, <1>7, <1>9, <3>1 DEF Ask, AskForWebhook
            <4>2. i # 0 /\ ~Clashes(p.entry, i)
                BY <1>6, <1>7, <4>1 DEF UpdateWebhook
            <4>3. answer.live = Put(p.entry, i)
                BY <4>1, <4>2 DEF UpdateWebhook, Answer
            <4> QED
                BY <4>2, <4>3 DEF Clashes
        <3>2. CASE kind = "secret"
            <4>1. answer = UpdateSecret(p.entry, i)
                BY <1>1, <1>7, <1>9, <3>2 DEF Ask, AskForSecret
            <4>2. answer.live = Put(p.entry, i) /\ i # 0
                <5>1. PICK b \in BOOLEAN : b = (i # 0)
                    BY Zenon
                <5>2. answer = [ok |-> b, live |-> Put(p.entry, i)]
                    BY <4>1, <5>1, Zenon DEF UpdateSecret, Answer
                <5>3. answer.ok = b /\ answer.live = Put(p.entry, i)
                    BY <5>2
                <5> QED
                    BY <1>7, <5>1, <5>3
            <4> QED
                BY <1>2, <1>4, <1>9, <3>2, <4>2 DEF Sound, KeysDiffer
        <3>3. CASE kind = "variable"
            <4>1. answer = UpdateVariable(p.entry, i)
                BY <1>1, <1>7, <1>9, <3>3 DEF Ask, AskForVariable
            <4>2. i # 0
                BY <1>6, <1>7, <4>1 DEF UpdateVariable
            <4>3. answer.live = Put(p.entry, i)
                BY <4>1, <4>2 DEF UpdateVariable, Answer
            <4> QED
                BY <1>2, <1>4, <1>9, <3>3, <4>2, <4>3 DEF Sound, KeysDiffer
        <3> QED
            BY <1>5, <3>1, <3>2, <3>3
    <2>2. answer.live = [live EXCEPT ![i] = Object(p.entry)]
        BY <2>1 DEF Put
    <2> QED
        BY <1>2, <1>7, <1>9, <2>1, <2>2
<1>10. CASE p.op = "add"
    <2>1. /\ answer.live = Put(p.entry, 0)
          /\ \A j \in DOMAIN live : live[j].key # p.entry.key
        <3>1. CASE kind = "webhook"
            <4>1. answer = AddWebhook(p.entry)
                BY <1>1, <1>7, <1>10, <3>1 DEF Ask, AskForWebhook
            <4>2. ~Clashes(p.entry, 0)
                BY <1>6, <1>7, <4>1 DEF AddWebhook
            <4>3. answer.live = Put(p.entry, 0)
                BY <4>1, <4>2 DEF AddWebhook, Answer
            <4> QED
                BY <1>3, <4>2, <4>3 DEF Clashes
        <3>2. CASE kind = "secret"
            <4>1. answer = AddSecret(p.entry, i)
                BY <1>1, <1>7, <1>10, <3>2 DEF Ask, AskForSecret
            <4>2. answer.live = Put(p.entry, i) /\ i = 0
                <5>1. PICK b \in BOOLEAN : b = (i = 0)
                    BY Zenon
                <5>2. answer = [ok |-> b, live |-> Put(p.entry, i)]
                    BY <4>1, <5>1, Zenon DEF AddSecret, Answer
                <5>3. answer.ok = b /\ answer.live = Put(p.entry, i)
                    BY <5>2
                <5> QED
                    BY <1>7, <5>1, <5>3
            <4> QED
                BY <1>2, <1>4, <1>10, <3>2, <4>2
        <3>3. CASE kind = "variable"
            <4>1. answer = AddVariable(p.entry, i)
                BY <1>1, <1>7, <1>10, <3>3 DEF Ask, AskForVariable
            <4>2. i = 0
                BY <1>6, <1>7, <4>1 DEF AddVariable
            <4>3. answer.live = Put(p.entry, 0)
                BY <4>1, <4>2 DEF AddVariable, Answer
            <4> QED
                BY <1>2, <1>4, <1>10, <3>3, <4>2, <4>3
        <3> QED
            BY <1>5, <3>1, <3>2, <3>3
    <2>2. answer.live = Append(live, Object(p.entry))
        BY <2>1 DEF Put
    <2> QED
        BY <1>7, <1>10, <2>1, <2>2
<1> QED
    BY <1>4, <1>8, <1>9, <1>10

-----------------------------------------------------------------------------
(* What a run that nothing disturbed has settled.                          *)

\* What the last run or import could see is settled, or is going to be.
Sees == clean.plan /\ (run = Idle => Len(live) <= PageSize)

SettleInv ==
    Sees =>
        /\ NamesDiffer(config)
        /\ run.by # "app"
        /\ Once(run.todo)
        /\ Settling(ToSet(live), ToSet(run.todo), ToSet(config), clean.values, kind, vault)

LEMMA Unclean == ~Nothing.plan
BY DEF Nothing

LEMMA LiveOnce ==
    ASSUME Sound(live)
    PROVE  Once(live)
BY DEF Sound, KeysDiffer, Once

\* What a patch that was applied leaves.
LEMMA ApplySettles ==
    ASSUME IInv, SettleInv, Apply
    PROVE  SettleInv'
<1> SUFFICES ASSUME Sees'
             PROVE  (/\ NamesDiffer(config)
                     /\ run.by # "app"
                     /\ Once(run.todo)
                     /\ Settling(ToSet(live), ToSet(run.todo), ToSet(config), clean.values, kind, vault))'
    BY DEF SettleInv
<1>1. /\ run.todo # <<>>
      /\ run' = [run EXCEPT !.todo = Tail(@)]
      /\ UNCHANGED <<kind, config, base, vault, count>>
    BY DEF Apply
<1>2. /\ run \in [by : {"nobody", "user", "app"}, delete : BOOLEAN, todo : Seq(Patches)]
      /\ kind \in Kinds /\ Sound(live)
    BY SoundIsInvariant DEF IInv, TypeOK
<1>3. clean'.plan
    BY DEF Sees
<1>4. PICK p : p = Head(run.todo)
    OBVIOUS
<1>5. p \in ReadyPatches
    BY <1>1, <1>4, TodoFacts
<1>6. PICK answer : answer = Ask(p, run.by = "app")
    OBVIOUS
<1>7. clean' = IF answer.ok THEN clean ELSE Nothing
    BY <1>4, <1>6 DEF Apply
<1>8. answer.ok /\ clean' = clean
    BY <1>3, <1>7, Unclean
<1>9. Sees
    BY <1>1, <1>3, <1>8 DEF Sees, Idle
<1>10. /\ NamesDiffer(config)
       /\ run.by # "app"
       /\ Once(run.todo)
       /\ Settling(ToSet(live), ToSet(run.todo), ToSet(config), clean.values, kind, vault)
    BY <1>9 DEF SettleInv
<1>11. answer = Ask(p, FALSE)
    <2>1. (run.by = "app") = FALSE
        BY <1>10
    <2> QED
        BY <1>6, <2>1
<1>12. live' = answer.live
    BY <1>4, <1>6 DEF Apply
<1>13. /\ p.op = "remove" => \E i \in DOMAIN live :
              live[i].key = p.key /\ live' = RemoveAt(live, i)
       /\ p.op = "change" => \E i \in DOMAIN live :
              /\ live[i].key = p.key /\ live' = [live EXCEPT ![i] = Object(p.entry)]
              /\ \A j \in DOMAIN live : live[j].key = p.entry.key => j = i
       /\ p.op = "add" =>
              /\ live' = Append(live, Object(p.entry))
              /\ \A j \in DOMAIN live : live[j].key # p.entry.key
    BY <1>2, <1>5, <1>8, <1>11, <1>12, AskSucceeds
<1>14. PICK s : s = run.todo
    OBVIOUS
<1>15. ToSet(Tail(s)) = ToSet(s) \ {p} /\ p \in ToSet(s) /\ Once(Tail(s))
    BY <1>1, <1>2, <1>4, <1>10, <1>14, ToSetTail
<1>16. run'.todo = Tail(s) /\ run'.by = run.by
    BY <1>1, <1>2, <1>14
<1>17. PICK L, T, E : L = ToSet(live) /\ T = ToSet(s) /\ E = ToSet(config)
    OBVIOUS
<1>18. live \in Seq(LiveObject) /\ Once(live) /\ \A i \in DOMAIN live : live[i] \in L
    <2>1. \A i \in DOMAIN live : live[i] \in ToSet(live)
        BY DEF ToSet
    <2> QED
        BY <1>2, <1>17, <2>1, LiveOnce DEF Sound
<1>19. Settling(L, T, E, clean.values, kind, vault) /\ p \in T
    BY <1>10, <1>14, <1>15, <1>17
<1>20. p.op \in {"add", "change", "remove"}
    BY <1>5 DEF ReadyPatches, Patches
<1>21. \A c \in L : \E i \in DOMAIN live : c = live[i]
    BY <1>17 DEF ToSet
<1>22. \A c, d \in L : c.key = d.key => c = d
    BY <1>19 DEF Settling
<1>23. Settling(ToSet(live'), T \ {p}, E, clean.values, kind, vault)
    <2>1. CASE p.op = "remove"
        <3>1. PICK i \in DOMAIN live : live[i].key = p.key /\ live' = RemoveAt(live, i)
            BY <1>13, <2>1
        <3>2. ToSet(live') = L \ {live[i]}
            BY <1>17, <1>18, <3>1, ToSetRemoveAt
        <3> QED
            BY <1>18, <1>19, <2>1, <3>1, <3>2, RemoveSettles
    <2>2. CASE p.op # "remove"
        <3>1. p.entry \in Entry
            BY <1>5, <2>2 DEF ReadyPatches, IsReady, GoesTo
        <3>2. PICK o : o = Object(p.entry)
            OBVIOUS
        <3>3. /\ o.key = p.entry.key /\ o.data = p.entry.data /\ o.secret = p.entry.secret
              /\ o \in LiveObject
            <4>1. SuitsEntry(p.entry) /\ p.entry.secret \in Secrets \cup {NoSecret}
                BY <1>5, <2>2 DEF ReadyPatches, IsReady, GoesTo
            <4> QED
                BY <3>1, <3>2, <4>1, ObjectFacts DEF Object
        <3>4. CASE p.op = "change"
            <4>1. PICK i \in DOMAIN live :
                      /\ live[i].key = p.key /\ live' = [live EXCEPT ![i] = o]
                      /\ \A j \in DOMAIN live : live[j].key = p.entry.key => j = i
                BY <1>13, <3>2, <3>4
            <4>2. PICK L1 \in SUBSET L : L1 = L \ {live[i]}
                OBVIOUS
            <4>3. ToSet(live') = L1 \cup {o}
                <5>1. ToSet([live EXCEPT ![i] = o]) = (ToSet(live) \ {live[i]}) \cup {o}
                    BY <1>18, ToSetExcept
                <5> QED
                    BY <1>17, <4>1, <4>2, <5>1
            <4>4. \A c \in L1 : c.key # p.key /\ c.key # o.key
                BY <1>18, <1>21, <1>22, <3>3, <4>1, <4>2
            <4>5. \A c \in L : c \notin L1 => p.op = "change" /\ c.key = p.key
                BY <3>4, <4>1, <4>2
            <4> QED
                BY <1>19, <3>3, <3>4, <4>3, <4>4, <4>5, PutSettles
        <3>5. CASE p.op = "add"
            <4>1. live' = Append(live, o) /\ \A j \in DOMAIN live : live[j].key # p.entry.key
                BY <1>13, <3>2, <3>5
            <4>2. ToSet(live') = L \cup {o}
                BY <1>17, <1>18, <3>3, <4>1, ToSetAppend
            <4>3. \A c \in L : c.key # o.key
                BY <1>21, <3>3, <4>1
            <4>4. PICK L1 \in SUBSET L : L1 = L
                OBVIOUS
            <4>5. /\ \A c \in L1 : p.op = "change" => c.key # p.key
                  /\ \A c \in L : c \notin L1 => p.op = "change" /\ c.key = p.key
                  /\ \A c \in L1 : c.key # o.key
                BY <3>5, <4>3, <4>4
            <4>6. p.op \in {"add", "change"}
                BY <3>5
            <4>7. Settling(L1 \cup {o}, T \ {p}, E, clean.values, kind, vault)
                BY <1>19, <3>3, <4>5, <4>6, PutSettles
            <4> QED
                BY <4>2, <4>4, <4>7
        <3> QED
            BY <1>20, <2>2, <3>4, <3>5
    <2> QED
        BY <2>1, <2>2
<1>24. ToSet(run'.todo) = T \ {p} /\ Once(run'.todo) /\ run'.by # "app"
    BY <1>10, <1>15, <1>16, <1>17
<1>25. NamesDiffer(config')
    BY <1>1, <1>10
<1>26. ToSet(config') = E
    BY <1>1, <1>17
<1> QED
    BY <1>1, <1>8, <1>23, <1>24, <1>25, <1>26

-----------------------------------------------------------------------------
(* What is listed, and what a plan makes of it.                            *)

LEMMA ListingPlain ==
    ASSUME Sound(live), Len(live) <= PageSize
    PROVE  /\ Listing \in Seq(LiveObject) /\ DOMAIN Listing = DOMAIN live
           /\ KeysDiffer(Listing)
           /\ \A a \in DOMAIN live :
                  /\ Listing[a].key = live[a].key /\ Listing[a].data = live[a].data
                  /\ Listing[a].secret = IF Tells(kind, live[a]) THEN Dummy ELSE NoSecret
<1>1. live \in Seq(LiveObject) /\ DOMAIN live = 1..Len(live) /\ Len(live) \in Nat
    BY LenProperties DEF Sound
<1>2. Listing \in Seq(LiveObject)
    BY <1>1, ListingFacts
<1>3. DOMAIN Page(live) = DOMAIN live
    <2>1. \A i \in 1..Len(live) : live[i] \in LiveObject
        BY <1>1, ElementOfSeq
    <2>2. Page(live) = SubSeq(live, 1, Len(live))
        BY DEF Page
    <2>3. /\ SubSeq(live, 1, Len(live)) \in Seq(LiveObject)
          /\ Len(SubSeq(live, 1, Len(live))) = IF 1 <= Len(live) THEN Len(live) - 1 + 1 ELSE 0
        BY <1>1, <2>1, SubSeqProperties
    <2>4. Len(SubSeq(live, 1, Len(live))) = Len(live)
        BY <1>1, <2>3
    <2> QED
        BY <1>1, <2>2, <2>3, <2>4, LenProperties
<1>4. Listing = [i \in DOMAIN live |-> Redacted(live[i])]
    BY <1>3 DEF Listing
<1>5. ASSUME NEW a \in DOMAIN live
      PROVE  /\ Listing[a].key = live[a].key /\ Listing[a].data = live[a].data
             /\ Listing[a].secret = IF Tells(kind, live[a]) THEN Dummy ELSE NoSecret
    <2>1. Listing[a] = Redacted(live[a])
        BY <1>4
    <2>2. PICK c \in LiveObject : c = live[a]
        BY <1>1, ElementOfSeq
    <2>3. PICK hidden : hidden = IF Tells(kind, c) THEN Dummy ELSE NoSecret
        OBVIOUS
    <2>4. Redacted(c) = [c EXCEPT !.secret = hidden]
        BY <2>3 DEF Redacted, Tells
    <2>5. c = [key |-> c.key, secret |-> c.secret, data |-> c.data]
        BY DEF LiveObject
    <2> QED
        BY <2>1, <2>2, <2>3, <2>4, <2>5
<1>6. DOMAIN Listing = DOMAIN live
    BY <1>4
<1>7. KeysDiffer(Listing)
    BY <1>5, <1>6 DEF KeysDiffer, Sound
<1> QED
    BY <1>2, <1>5, <1>6, <1>7

\* What is not forced is patched when the object does not settle the entry.
LEMMA PatchedMeans ==
    ASSUME NEW e, NEW c, NEW r, r.data = c.data,
           r.secret = IF Tells(kind, c) THEN Dummy ELSE NoSecret, NEW options
    PROVE  IsPatched(e, r, options) <=>
               ~Settles(kind, e, c) \/ (e.secret # Dummy /\ IsForced(e, options))
<1>1. Dummy # NoSecret
    BY DEF Dummy, NoSecret
<1>2. e.secret # Dummy => (SecretDiffers(e, r) <=> ~(Tells(kind, c) <=> e.secret # NoSecret))
    <2>1. CASE Tells(kind, c)
        BY <2>1 DEF SecretDiffers
    <2>2. CASE ~Tells(kind, c)
        BY <1>1, <2>2 DEF SecretDiffers
    <2> QED
        BY <2>1, <2>2
<1> QED
    BY <1>2 DEF IsPatched, Settles

LEMMA PlainForcesNothing ==
    ASSUME NEW e
    PROVE  ~IsForced(e, Plain)
BY DEF IsForced, Plain

\* An entry that something live bears a name of is used up by the first that does.
LEMMA Owned ==
    ASSUME NEW S, NEW current \in Seq(S), NEW entries, NEW j, NEW b \in DOMAIN current,
           current[b].key \in Names(entries[j])
    PROVE  \E a \in DOMAIN current : Owns(current, entries, a, j)
<1> DEFINE bearers == {a \in DOMAIN current : current[a].key \in Names(entries[j])}
<1>1. DOMAIN current = 1..Len(current) /\ Len(current) \in Nat
    BY LenProperties
<1>2. bearers \in SUBSET Nat /\ bearers # {}
    BY <1>1
<1>3. PICK a \in bearers : \A x \in bearers : a <= x
    <2> HIDE DEF bearers
    <2> QED
        BY <1>2, LeastNumber
<1>4. \A x \in 1..a - 1 : x \in DOMAIN current /\ ~(a <= x)
    BY <1>1
<1>5. \A x \in 1..a - 1 : current[x].key \notin Names(entries[j])
    BY <1>3, <1>4
<1> QED
    BY <1>5 DEF Owns

\* Nothing else owns it.
LEMMA OwnersDiffer ==
    ASSUME NEW S, NEW current \in Seq(S), NEW entries, NEW j,
           NEW a \in DOMAIN current, NEW b \in DOMAIN current,
           Owns(current, entries, a, j), Owns(current, entries, b, j)
    PROVE  a = b
<1>1. DOMAIN current = 1..Len(current) /\ Len(current) \in Nat
    BY LenProperties
<1>2. ~(a \in 1..b - 1) /\ ~(b \in 1..a - 1)
    BY DEF Owns
<1> QED
    BY <1>1, <1>2

\* When nothing is left to do, the next plan is empty.
LEMMA NothingLeft ==
    ASSUME Plainly, IInv, SettleInv
    PROVE  CleanRunSettles
<1> SUFFICES ASSUME run = Idle, clean.plan, Len(live) <= PageSize
             PROVE  LET plan == Planned(Listing, config, Plain) IN
                    /\ plan.ok /\ plan.patches = <<>>
                    /\ clean.values =>
                           \A i \in DOMAIN config : config[i].secret \notin {NoSecret, Dummy} =>
                               \E j \in DOMAIN live :
                                   /\ config[i].key = live[j].key
                                   /\ live[j].secret = Value(config[i].secret)
    BY DEF CleanRunSettles
<1>1. /\ Sound(live) /\ config \in Seq(Entry)
      /\ \A i \in DOMAIN config : IsConfigured(config[i])
    BY SoundIsInvariant DEF IInv, TypeOK, ConfigInv
<1>2. /\ NamesDiffer(config)
      /\ Settling(ToSet(live), ToSet(run.todo), ToSet(config), clean.values, kind, vault)
    BY DEF SettleInv, Sees
<1>3. ToSet(run.todo) = {}
    BY EmptySeq DEF Idle, ToSet
<1>4. PICK L, E : L = ToSet(live) /\ E = ToSet(config)
    OBVIOUS
<1>5. Settling(L, {}, E, clean.values, kind, vault)
    BY <1>2, <1>3, <1>4
<1>6. (\A i \in DOMAIN live : live[i] \in L) /\ \A c \in L : \E i \in DOMAIN live : c = live[i]
    BY <1>4 DEF ToSet
<1>7. (\A j \in DOMAIN config : config[j] \in E) /\ \A e \in E : \E j \in DOMAIN config : e = config[j]
    BY <1>4 DEF ToSet
<1>8. \A key : ~Goes({}, key)
    BY DEF Goes
<1>9. PICK current : current = Listing
    OBVIOUS
<1>10. /\ current \in Seq(LiveObject) /\ DOMAIN current = DOMAIN live
       /\ KeysDiffer(current)
       /\ \A a \in DOMAIN live :
              /\ current[a].key = live[a].key /\ current[a].data = live[a].data
              /\ current[a].secret = IF Tells(kind, live[a]) THEN Dummy ELSE NoSecret
    BY <1>1, <1>9, ListingPlain
<1>11. PICK plan : plan = Planned(current, config, Plain)
    OBVIOUS
<1>12. /\ plan.ok
       /\ plan.patches \in Seq(PlannedPatches)
       /\ \A p : p \in ToSet(plan.patches) <=> InPlan(current, config, Plain, p)
    <2>1. \A c \in LiveObject : c.key \in Words
        BY DEF LiveObject
    <2> QED
        BY <1>1, <1>2, <1>10, <1>11, <2>1, PlannedPlain
<1>13. \A j, k \in DOMAIN config : \A name :
           name \in Names(config[j]) /\ name \in Names(config[k]) => j = k
    BY <1>2 DEF NamesDiffer
\* Each live object is the one that an entry is about.
<1>14. ASSUME NEW a \in DOMAIN current
       PROVE  \E j \in DOMAIN config : Owns(current, config, a, j) /\ Settles(kind, config[j], live[a])
    <2>1. ObjectSettles({}, E, kind, live[a])
        BY <1>5, <1>6, <1>10 DEF Settling
    <2>2. PICK e \in E : live[a].key \in Names(e) /\ Settles(kind, e, live[a])
        BY <1>8, <2>1 DEF ObjectSettles
    <2>3. PICK j \in DOMAIN config : e = config[j]
        BY <1>7
    <2>4. PICK b \in DOMAIN current : Owns(current, config, b, j)
        BY <1>10, <2>2, <2>3, Owned
    <2>5. current[b].key \in Names(e)
        BY <2>3, <2>4 DEF Owns
    <2>6. Stays({}, live[a], e) /\ Stays({}, live[b], e)
        BY <1>8, <1>10, <2>2, <2>5 DEF Stays
    <2>7. live[a] = live[b]
        BY <1>5, <1>6, <1>10, <2>6 DEF Settling
    <2>8. a = b
        BY <1>1, <1>10, <2>7 DEF Sound, KeysDiffer
    <2> QED
        BY <2>2, <2>3, <2>4, <2>8
<1>15. ASSUME NEW p, InPlan(current, config, Plain, p)
       PROVE  FALSE
    <2>1. CASE \E a \in DOMAIN current : IsMatch(current, config, Plain, a, p)
        <3>1. PICK a \in DOMAIN current : IsMatch(current, config, Plain, a, p)
            BY <2>1
        <3>2. PICK j \in DOMAIN config : Owns(current, config, a, j) /\ Settles(kind, config[j], live[a])
            BY <1>14
        <3>3. PICK k \in DOMAIN config : Owns(current, config, a, k) /\ IsPatched(config[k], current[a], Plain)
            BY <3>1, <3>2 DEF IsMatch
        <3>4. k = j
            BY <1>13, <3>2, <3>3 DEF Owns
        <3>5. ~IsPatched(config[j], current[a], Plain)
            BY <1>10, <3>2, PatchedMeans, PlainForcesNothing
        <3> QED
            BY <3>3, <3>4, <3>5
    <2>2. CASE \E j \in DOMAIN config :
                   /\ config[j].secret # Dummy
                   /\ \A a \in DOMAIN current : current[a].key \notin Names(config[j])
        <3>1. PICK j \in DOMAIN config :
                  /\ config[j].secret # Dummy
                  /\ \A a \in DOMAIN current : current[a].key \notin Names(config[j])
            BY <2>2
        <3>2. EntrySettles(L, {}, config[j])
            BY <1>5, <1>7 DEF Settling
        <3>3. PICK c \in L : Stays({}, c, config[j])
            BY <3>1, <3>2 DEF EntrySettles
        <3> QED
            BY <1>6, <1>10, <3>1, <3>3 DEF Stays
    <2> QED
        BY <1>15, <2>1, <2>2 DEF InPlan
<1>16. plan.patches = <<>>
    <2>1. \A n \in DOMAIN plan.patches : plan.patches[n] \in ToSet(plan.patches)
        BY DEF ToSet
    <2>2. DOMAIN plan.patches = {}
        BY <1>12, <1>15, <2>1
    <2>3. DOMAIN plan.patches = 1..Len(plan.patches) /\ Len(plan.patches) \in Nat
        BY <1>12, LenProperties
    <2>4. Len(plan.patches) = 0
        <3>1. 1 \notin 1..Len(plan.patches)
            BY <2>2, <2>3
        <3> QED
            BY <2>3, <3>1
    <2> QED
        BY <1>12, <2>4, EmptySeq
<1>17. ASSUME clean.values, NEW i \in DOMAIN config, config[i].secret \notin {NoSecret, Dummy}
       PROVE  \E j \in DOMAIN live :
                  config[i].key = live[j].key /\ live[j].secret = Value(config[i].secret)
    <2>1. SecretSettles(L, {}, vault, config[i])
        BY <1>5, <1>7, <1>17 DEF Settling
    <2>2. PICK c \in L : c.key = config[i].key /\ c.secret = ValueOf(vault, config[i].secret)
        BY <1>17, <2>1 DEF SecretSettles
    <2> QED
        BY <1>6, <2>2 DEF Value, ValueOf
<1> QED
    BY <1>9, <1>11, <1>12, <1>16, <1>17

-----------------------------------------------------------------------------
(* Importing without wildcards.                                            *)

LEMMA ImportedPlain ==
    ASSUME Plainly, config \in Seq(Entry), \A i \in DOMAIN config : IsConfigured(config[i]),
           live \in Seq(LiveObject), \A i \in DOMAIN live : Suits(live[i])
    PROVE  Imported = [j \in DOMAIN Page(live) |-> ImportedEntry(live[j])]
<1> DEFINE first == [j \in DOMAIN Page(live) |-> ImportedEntry(live[j])]
<1>1. PICK f :
          /\ Imported = f[Len(config)]
          /\ f[0] = first
          /\ \A i \in 1..Len(config) : f[i] = Masked(f[i - 1], config[i])
    BY ImportedSteps
<1>2. PICK n \in Nat : n = Len(config) /\ DOMAIN config = 1..n
    BY LenProperties
<1> HIDE DEF first
<1> DEFINE Done == {i \in 0..n : f[i] = first}
<1>3. 0 \in Done
    BY <1>1
<1>4. ASSUME NEW i \in 1..n, i - 1 \in Done
      PROVE  i \in Done
    <2>1. ~IsWildcard(config[i].key)
        BY <1>2 DEF IsConfigured, SuitsEntry, Suits
    <2>2. Masked(f[i - 1], config[i]) = f[i - 1]
        BY <2>1 DEF Masked
    <2> QED
        BY <1>1, <1>2, <1>4, <2>2
<1>5. n \in Done
    <2> HIDE DEF Done
    <2>1. \A i \in 0..n : i \in Done
        BY <1>3, <1>4, Induction
    <2> QED
        BY <2>1
<1> QED
    BY <1>1, <1>2, <1>5 DEF first

\* An import writes down what is live, with secrets that are there where they are live.
LEMMA ImportSettles ==
    ASSUME Plainly, IInv, Import
    PROVE  SettleInv'
<1> SUFFICES ASSUME Sees'
             PROVE  (/\ NamesDiffer(config)
                     /\ run.by # "app"
                     /\ Once(run.todo)
                     /\ Settling(ToSet(live), ToSet(run.todo), ToSet(config), clean.values, kind, vault))'
    BY DEF SettleInv
<1>1. /\ run = Idle /\ config' = Imported
      /\ UNCHANGED <<kind, live, base, vault, run>>
    BY DEF Import
<1>2. PICK kept \in BOOLEAN :
          kept = (/\ Cardinality(Keys(Imported)) = Len(Imported)
                  /\ \A i \in DOMAIN Imported : Imported[i].secret = NoSecret => live[i].secret = NoSecret)
    BY Zenon
<1>3. clean' = [plan |-> kept, values |-> FALSE]
    BY <1>2, Zenon DEF Import
<1>4. kept /\ ~clean'.values /\ Len(live) <= PageSize
    BY <1>1, <1>3 DEF Sees
<1>5. /\ Sound(live) /\ config \in Seq(Entry) /\ live \in Seq(LiveObject)
      /\ (\A i \in DOMAIN config : IsConfigured(config[i])) /\ \A i \in DOMAIN live : Suits(live[i])
    BY SoundIsInvariant DEF IInv, TypeOK, ConfigInv, LiveInv
<1>6. DOMAIN Page(live) = DOMAIN live
    <2>1. DOMAIN Listing = DOMAIN live
        BY <1>4, <1>5, ListingPlain
    <2> QED
        BY <2>1 DEF Listing
<1>7. PICK new : new = Imported
    OBVIOUS
<1>8. new = [j \in DOMAIN live |-> ImportedEntry(live[j])]
    BY <1>5, <1>6, <1>7, ImportedPlain
<1>9. \A j \in DOMAIN live : new[j].secret = NoSecret => live[j].secret = NoSecret
    BY <1>2, <1>4, <1>7, <1>8
<1>10. ASSUME NEW j \in DOMAIN live
       PROVE  /\ Names(new[j]) = {live[j].key} /\ new[j].key = live[j].key /\ new[j].data = live[j].data
              /\ new[j].secret = NoSecret <=> live[j].secret = NoSecret
              /\ kind = "secret" => new[j].secret # NoSecret /\ live[j].secret # NoSecret
    <2>1. PICK e : e = new[j]
        OBVIOUS
    <2>2. e = [key |-> live[j].key, aliases |-> {}, secret |-> ImportedSecret(live[j]), data |-> live[j].data]
        BY <1>8, <2>1 DEF ImportedEntry
    <2>3. Fits(kind, live[j])
        BY <1>5 DEF Suits
    <2>4. /\ live[j].secret = NoSecret => e.secret = NoSecret
          /\ kind = "secret" => e.secret # NoSecret
        BY <1>5, <2>2, <2>3, ImportedSecretFacts
    <2>5. Names(e) = {live[j].key} /\ e.key = live[j].key /\ e.data = live[j].data
        BY <2>2 DEF Names
    <2>6. kind = "secret" => live[j].secret # NoSecret
        BY <2>3 DEF Fits
    <2> QED
        BY <1>9, <2>1, <2>4, <2>5, <2>6
<1>11. DOMAIN new = DOMAIN live
    BY <1>8
<1>12. KeysDiffer(live)
    BY <1>5 DEF Sound
<1>13. NamesDiffer(new)
    BY <1>10, <1>11, <1>12 DEF NamesDiffer, KeysDiffer
<1>14. PICK L, E : L = ToSet(live) /\ E = ToSet(new)
    OBVIOUS
<1>15. \A c : c \in L <=> \E j \in DOMAIN live : c = live[j]
    BY <1>14 DEF ToSet
<1>16. \A e : e \in E <=> \E j \in DOMAIN live : e = new[j]
    BY <1>11, <1>14 DEF ToSet
<1>17. \A key : ~Goes({}, key)
    BY DEF Goes
<1>18. Settling(L, {}, E, clean'.values, kind, vault)
    <2>1. \A c, d \in L : c.key = d.key => c = d
        BY <1>12, <1>15 DEF KeysDiffer
    <2>2. \A e, f \in E : e # f => Names(e) \cap Names(f) = {}
        BY <1>11, <1>13, <1>16 DEF NamesDiffer
    <2>3. kind = "secret" => \A e \in E : e.secret # NoSecret
        BY <1>10, <1>16
    <2>4. ASSUME NEW c \in L
          PROVE  ObjectSettles({}, E, kind, c)
        <3>1. PICK j \in DOMAIN live : c = live[j]
            BY <1>15
        <3>2. new[j] \in E /\ c.key \in Names(new[j])
            BY <1>10, <1>16, <3>1
        <3>3. Settles(kind, new[j], c)
            BY <1>10, <3>1 DEF Settles, Tells
        <3> QED
            BY <3>2, <3>3 DEF ObjectSettles
    <2>5. ASSUME NEW e \in E, NEW c \in L, NEW d \in L, Stays({}, c, e), Stays({}, d, e)
          PROVE  c = d
        <3>1. PICK j \in DOMAIN live : e = new[j]
            BY <1>16
        <3>2. c.key = d.key
            BY <1>10, <2>5, <3>1 DEF Stays
        <3> QED
            BY <2>1, <3>2
    <2>6. ASSUME NEW e \in E
          PROVE  EntrySettles(L, {}, e)
        <3>1. PICK j \in DOMAIN live : e = new[j]
            BY <1>16
        <3>2. live[j] \in L /\ Stays({}, live[j], e)
            BY <1>10, <1>15, <1>17, <3>1 DEF Stays
        <3> QED
            BY <3>2 DEF EntrySettles
    <2> QED
        BY <1>4, <2>1, <2>2, <2>3, <2>4, <2>5, <2>6 DEF Settling
<1>19. run'.by # "app" /\ run'.todo = <<>>
    BY <1>1 DEF Idle
<1>20. ToSet(run'.todo) = {} /\ Once(run'.todo)
    BY <1>19, EmptySeq DEF ToSet, Once
<1>21. config' = new
    BY <1>1, <1>7
<1> QED
    BY <1>1, <1>13, <1>14, <1>18, <1>19, <1>20, <1>21

-----------------------------------------------------------------------------
(* Planning without wildcards.                                             *)

\* Resolving its secret leaves a patch what it was.
LEMMA WithValuesKeeps ==
    ASSUME NEW p \in PlannedPatches, NEW options, ~options.app
    PROVE  /\ WithValues(p, options).op = p.op /\ WithValues(p, options).key = p.key
           /\ p.op # "remove" =>
                  /\ WithValues(p, options).entry.key = p.entry.key
                  /\ WithValues(p, options).entry.data = p.entry.data
                  /\ WithValues(p, options).entry.secret = Value(p.entry.secret)
<1>1. p \in Patches /\ (p.op # "remove" => p.entry \in Entry)
    BY DEF PlannedPatches, IsPlanned, GoesTo
<1>2. CASE p.op = "remove"
    BY <1>2 DEF WithValues
<1>3. CASE p.op # "remove"
    <2>1. PICK e : e = [p.entry EXCEPT !.secret = Value(p.entry.secret)]
        OBVIOUS
    <2>2. e.key = p.entry.key /\ e.data = p.entry.data /\ e.secret = Value(p.entry.secret)
        BY <1>1, <1>3, <2>1 DEF Entry
    <2>3. PICK q : q = [p EXCEPT !.entry = e]
        OBVIOUS
    <2>4. WithValues(p, options) = q
        BY <1>3, <2>1, <2>3 DEF WithValues
    <2>5. q.op = p.op /\ q.key = p.key /\ q.entry = e
        BY <1>1, <2>3 DEF Patches
    <2> QED
        BY <2>2, <2>4, <2>5
<1> QED
    BY <1>2, <1>3

\* No two patches of a plan are for the same object or the same entry.
LEMMA PlanDistinct ==
    ASSUME NEW S, NEW entries, NamesDiffer(entries), NEW current \in Seq(S), KeysDiffer(current),
           NEW options, NEW p, NEW q, p # q,
           InPlan(current, entries, options, p), InPlan(current, entries, options, q)
    PROVE  Distinct(p, q)
<1> DEFINE Matches(a, r) == IsMatch(current, entries, options, a, r)
           Adds(j, r) ==
               /\ \A a \in DOMAIN current : current[a].key \notin Names(entries[j])
               /\ r = Patch("add", entries[j], entries[j].key)
           Changes(a, j, r) ==
               Owns(current, entries, a, j) /\ r = Patch("change", entries[j], current[a].key)
           Removes(a, r) ==
               /\ r = Patch("remove", NoEntry, current[a].key)
               /\ \A j \in DOMAIN entries : ~Owns(current, entries, a, j)
<1>1. ASSUME NEW r, InPlan(current, entries, options, r)
      PROVE  /\ r.op # "add" => \E a \in DOMAIN current : r.key = current[a].key /\ Matches(a, r)
             /\ r.op = "change" => \E a \in DOMAIN current, j \in DOMAIN entries : Changes(a, j, r)
             /\ r.op = "add" => \E j \in DOMAIN entries : Adds(j, r)
             /\ r.op \in {"add", "change", "remove"}
    <2>1. CASE \E a \in DOMAIN current : IsMatch(current, entries, options, a, r)
        <3>1. PICK a \in DOMAIN current : IsMatch(current, entries, options, a, r)
            BY <2>1
        <3> QED
            BY <3>1 DEF IsMatch, Patch
    <2>2. CASE \E j \in DOMAIN entries : Adds(j, r)
        BY <2>2 DEF Patch
    <2> QED
        BY <1>1, <2>1, <2>2 DEF InPlan
<1>2. \A j, k \in DOMAIN entries : entries[j].key = entries[k].key => j = k
    <2>1. \A e : e.key \in Names(e)
        BY DEF Names
    <2> QED
        BY <2>1 DEF NamesDiffer
<1>3. ASSUME p.op # "add", q.op # "add", p.key = q.key
      PROVE  FALSE
    <2>1. PICK a \in DOMAIN current : p.key = current[a].key /\ Matches(a, p)
        BY <1>1, <1>3
    <2>2. PICK b \in DOMAIN current : q.key = current[b].key /\ Matches(b, q)
        BY <1>1, <1>3
    <2>3. a = b
        BY <1>3, <2>1, <2>2 DEF KeysDiffer
    <2>4. \A j, k \in DOMAIN entries : Owns(current, entries, a, j) /\ Owns(current, entries, a, k) => j = k
        BY DEF Owns, NamesDiffer
    <2>5. p = q
        BY <2>1, <2>2, <2>3, <2>4 DEF IsMatch
    <2> QED
        BY <2>5
<1>4. ASSUME p.op # "remove", q.op # "remove", p.entry.key = q.entry.key
      PROVE  FALSE
    <2>1. ASSUME NEW r, InPlan(current, entries, options, r), r.op # "remove"
          PROVE  \E j \in DOMAIN entries :
                     r.entry = entries[j] /\ (Adds(j, r) \/ \E a \in DOMAIN current : Changes(a, j, r))
        <3>1. CASE r.op = "add"
            <4>1. PICK j \in DOMAIN entries : Adds(j, r)
                BY <1>1, <2>1, <3>1
            <4> QED
                BY <4>1 DEF Patch
        <3>2. CASE r.op = "change"
            <4>1. PICK a \in DOMAIN current, j \in DOMAIN entries : Changes(a, j, r)
                BY <1>1, <2>1, <3>2
            <4> QED
                BY <4>1 DEF Patch
        <3> QED
            BY <1>1, <2>1, <3>1, <3>2
    <2>2. PICK j \in DOMAIN entries :
              p.entry = entries[j] /\ (Adds(j, p) \/ \E a \in DOMAIN current : Changes(a, j, p))
        BY <1>4, <2>1
    <2>3. PICK k \in DOMAIN entries :
              q.entry = entries[k] /\ (Adds(k, q) \/ \E a \in DOMAIN current : Changes(a, k, q))
        BY <1>4, <2>1
    <2>4. j = k
        BY <1>2, <1>4, <2>2, <2>3
    <2>5. CASE Adds(j, p)
        <3>1. Adds(j, q)
            BY <2>3, <2>4, <2>5 DEF Owns
        <3> QED
            BY <2>5, <3>1
    <2>6. CASE \E a \in DOMAIN current : Changes(a, j, p)
        <3>1. PICK a \in DOMAIN current : Changes(a, j, p)
            BY <2>6
        <3>2. ~Adds(j, q)
            BY <3>1 DEF Owns
        <3>3. PICK b \in DOMAIN current : Changes(b, j, q)
            BY <2>3, <2>4, <3>2
        <3>4. a = b
            BY <3>1, <3>3, OwnersDiffer
        <3> QED
            BY <3>1, <3>3, <3>4
    <2> QED
        BY <2>2, <2>5, <2>6
<1> QED
    BY <1>3, <1>4 DEF Distinct

\* A plan that sees everything leaves nothing undone.
LEMMA PlanSettles ==
    ASSUME Plainly, Sound(live), Len(live) <= PageSize, config \in Seq(Entry),
           \A i \in DOMAIN config : IsConfigured(config[i]), NamesDiffer(config),
           vault \in [References -> Credentials \cup {Missing}],
           NEW options, ~options.app, NEW T,
           \A q : q \in T <=> \E p \in PlannedPatches :
                                  InPlan(Listing, config, options, p) /\ q = WithValues(p, options),
           \A p : InPlan(Listing, config, options, p) =>
                      p \in PlannedPatches /\ (p.op # "remove" => Value(p.entry.secret) # Missing),
           NEW values, values => \A j \in DOMAIN config :
                                     config[j].secret \notin {NoSecret, Dummy} => IsForced(config[j], options)
    PROVE  Settling(ToSet(live), T, ToSet(config), values, kind, vault)
<1>1. PICK current : current = Listing
    OBVIOUS
<1>2. /\ current \in Seq(LiveObject) /\ DOMAIN current = DOMAIN live
      /\ KeysDiffer(current)
      /\ \A a \in DOMAIN live :
             /\ current[a].key = live[a].key /\ current[a].data = live[a].data
             /\ current[a].secret = IF Tells(kind, live[a]) THEN Dummy ELSE NoSecret
    BY <1>1, ListingPlain
<1>3. PICK L, E : L = ToSet(live) /\ E = ToSet(config)
    OBVIOUS
<1>4. (\A i \in DOMAIN live : live[i] \in L) /\ \A c \in L : \E i \in DOMAIN live : c = live[i]
    BY <1>3 DEF ToSet
<1>5. (\A j \in DOMAIN config : config[j] \in E) /\ \A e \in E : \E j \in DOMAIN config : e = config[j]
    BY <1>3 DEF ToSet
<1>6. ASSUME NEW p, InPlan(current, config, options, p)
      PROVE  /\ p \in PlannedPatches /\ WithValues(p, options) \in T
             /\ WithValues(p, options).op = p.op /\ WithValues(p, options).key = p.key
             /\ p.op # "remove" =>
                    /\ WithValues(p, options).entry.key = p.entry.key
                    /\ WithValues(p, options).entry.data = p.entry.data
                    /\ WithValues(p, options).entry.secret = ValueOf(vault, p.entry.secret)
                    /\ WithValues(p, options).entry.secret = NoSecret <=> p.entry.secret = NoSecret
    <2>1. p \in PlannedPatches /\ (p.op # "remove" => Value(p.entry.secret) # Missing)
        BY <1>1, <1>6
    <2>2. WithValues(p, options) \in T
        BY <1>1, <1>6, <2>1
    <2>3. p.op # "remove" => (Value(p.entry.secret) = NoSecret <=> p.entry.secret = NoSecret)
        <3>1. p.op # "remove" => p.entry.secret \in Given \ {Dummy}
            BY <2>1 DEF PlannedPatches, IsPlanned
        <3> QED
            BY <2>1, <3>1, ValueFacts
    <2>4. \A secret : Value(secret) = ValueOf(vault, secret)
        BY DEF Value, ValueOf
    <2> QED
        BY <2>1, <2>2, <2>3, <2>4, WithValuesKeeps
<1>7. ASSUME NEW q \in T
      PROVE  \E p : InPlan(current, config, options, p) /\ q = WithValues(p, options)
    BY <1>1
<1>8. \A j, k \in DOMAIN config : \A name :
          name \in Names(config[j]) /\ name \in Names(config[k]) => j = k
    BY DEF NamesDiffer
<1>9. \A a, b \in DOMAIN current : current[a].key = current[b].key => a = b
    BY <1>2 DEF KeysDiffer
\* What is going to be removed is what no entry has used up.
<1>10. ASSUME NEW a \in DOMAIN current
       PROVE  Goes(T, live[a].key) <=> \A j \in DOMAIN config : ~Owns(current, config, a, j)
    <2>1. ASSUME \A j \in DOMAIN config : ~Owns(current, config, a, j)
          PROVE  Goes(T, live[a].key)
        <3>1. PICK p : p = Patch("remove", NoEntry, current[a].key)
            OBVIOUS
        <3>2. InPlan(current, config, options, p)
            BY <2>1, <3>1 DEF InPlan, IsMatch
        <3>3. p.op = "remove" /\ p.key = live[a].key
            BY <1>2, <3>1 DEF Patch
        <3>4. PICK q : q = WithValues(p, options)
            OBVIOUS
        <3>5. q \in T /\ q.op = "remove" /\ q.key = live[a].key
            BY <1>6, <3>2, <3>3, <3>4
        <3> QED
            BY <3>5 DEF Goes
    <2>2. ASSUME Goes(T, live[a].key)
          PROVE  \A j \in DOMAIN config : ~Owns(current, config, a, j)
        <3>1. PICK q \in T : q.op = "remove" /\ q.key = live[a].key
            BY <2>2 DEF Goes
        <3>2. PICK p : InPlan(current, config, options, p) /\ q = WithValues(p, options)
            BY <1>7
        <3>3. p.op = "remove" /\ p.key = live[a].key
            BY <1>6, <3>1, <3>2
        <3>4. PICK b \in DOMAIN current : IsMatch(current, config, options, b, p)
            BY <3>2, <3>3 DEF InPlan, Patch
        <3>5. p.key = current[b].key /\ \A j \in DOMAIN config : ~Owns(current, config, b, j)
            BY <3>3, <3>4 DEF IsMatch, Patch
        <3>6. a = b
            BY <1>2, <1>9, <3>3, <3>5
        <3> QED
            BY <3>5, <3>6
    <2> QED
        BY <2>1, <2>2
\* What is patched is going to be changed.
<1>11. ASSUME NEW a \in DOMAIN current, NEW j \in DOMAIN config, Owns(current, config, a, j),
              IsPatched(config[j], current[a], options)
       PROVE  \E q \in T : q.op = "change" /\ q.key = live[a].key /\ q.entry.key = config[j].key
    <2>1. PICK p : p = Patch("change", config[j], current[a].key)
        OBVIOUS
    <2>2. InPlan(current, config, options, p)
        BY <1>11, <2>1 DEF InPlan, IsMatch
    <2>3. p.op = "change" /\ p.key = live[a].key /\ p.entry = config[j]
        BY <1>2, <2>1 DEF Patch
    <2>4. PICK q : q = WithValues(p, options)
        OBVIOUS
    <2>5. q \in T /\ q.op = "change" /\ q.key = live[a].key /\ q.entry.key = config[j].key
        BY <1>6, <2>2, <2>3, <2>4
    <2> QED
        BY <2>5
\* An entry is used up, or added, or left alone.
<1>12. ASSUME NEW j \in DOMAIN config, config[j].secret # Dummy
       PROVE  \/ \E a \in DOMAIN current : Owns(current, config, a, j)
              \/ \E q \in T : q.op = "add" /\ q.entry.key = config[j].key
    <2>1. CASE \E b \in DOMAIN current : current[b].key \in Names(config[j])
        BY <1>2, <2>1, Owned
    <2>2. CASE \A b \in DOMAIN current : current[b].key \notin Names(config[j])
        <3>1. PICK p : p = Patch("add", config[j], config[j].key)
            OBVIOUS
        <3>2. InPlan(current, config, options, p)
            BY <1>12, <2>2, <3>1 DEF InPlan
        <3>3. p.op = "add" /\ p.entry = config[j]
            BY <3>1 DEF Patch
        <3>4. PICK q : q = WithValues(p, options)
            OBVIOUS
        <3>5. q \in T /\ q.op = "add" /\ q.entry.key = config[j].key
            BY <1>6, <3>2, <3>3, <3>4
        <3> QED
            BY <3>5
    <2> QED
        BY <2>1, <2>2
<1>13. ASSUME NEW q \in T
       PROVE  q.op \in {"add", "change", "remove"} /\ Accurate(L, E, values, vault, q)
    <2>1. PICK p : InPlan(current, config, options, p) /\ q = WithValues(p, options)
        BY <1>7
    <2>2. /\ q.op = p.op /\ q.key = p.key
          /\ p.op # "remove" =>
                 /\ q.entry.key = p.entry.key /\ q.entry.data = p.entry.data
                 /\ q.entry.secret = ValueOf(vault, p.entry.secret)
                 /\ q.entry.secret = NoSecret <=> p.entry.secret = NoSecret
        BY <1>6, <2>1
    <2>3. CASE \E a \in DOMAIN current : IsMatch(current, config, options, a, p)
        <3>1. PICK a \in DOMAIN current : IsMatch(current, config, options, a, p)
            BY <2>3
        <3>2. p.key = live[a].key /\ live[a] \in L
            BY <1>2, <1>4, <3>1, MatchKey
        <3>3. CASE p = Patch("remove", NoEntry, current[a].key)
            <4>1. p.op = "remove"
                BY <3>3 DEF Patch
            <4> QED
                BY <2>2, <3>2, <4>1 DEF Accurate
        <3>4. CASE \E j \in DOMAIN config :
                       Owns(current, config, a, j) /\ p = Patch("change", config[j], current[a].key)
            <4>1. PICK j \in DOMAIN config :
                      Owns(current, config, a, j) /\ p = Patch("change", config[j], current[a].key)
                BY <3>4
            <4>2. p.op = "change" /\ p.entry = config[j]
                BY <4>1 DEF Patch
            <4>3. config[j] \in E /\ p.key \in Names(config[j])
                BY <1>2, <1>5, <3>2, <4>1 DEF Owns
            <4>4. IsFor(q, config[j]) /\ q.entry.secret = ValueOf(vault, config[j].secret)
                BY <2>2, <4>2 DEF IsFor
            <4> QED
                BY <2>2, <3>2, <4>2, <4>3, <4>4 DEF Accurate
        <3> QED
            BY <3>1, <3>3, <3>4 DEF IsMatch
    <2>4. CASE \E j \in DOMAIN config :
                   /\ \A a \in DOMAIN current : current[a].key \notin Names(config[j])
                   /\ p = Patch("add", config[j], config[j].key)
        <3>1. PICK j \in DOMAIN config :
                  /\ \A a \in DOMAIN current : current[a].key \notin Names(config[j])
                  /\ p = Patch("add", config[j], config[j].key)
            BY <2>4
        <3>2. p.op = "add" /\ p.entry = config[j]
            BY <3>1 DEF Patch
        <3>3. IsFor(q, config[j]) /\ q.entry.secret = ValueOf(vault, config[j].secret)
            BY <2>2, <3>2 DEF IsFor
        <3>4. \A c \in L : c.key \notin Names(config[j])
            BY <1>2, <1>4, <3>1
        <3>5. config[j] \in E
            BY <1>5
        <3> QED
            BY <2>2, <3>2, <3>3, <3>4, <3>5 DEF Accurate
    <2> QED
        BY <2>1, <2>3, <2>4 DEF InPlan
<1>14. ASSUME NEW q \in T, NEW r \in T, q # r
       PROVE  Distinct(q, r)
    <2>1. PICK p : InPlan(current, config, options, p) /\ q = WithValues(p, options)
        BY <1>7
    <2>2. PICK s : InPlan(current, config, options, s) /\ r = WithValues(s, options)
        BY <1>7
    <2>3. p # s
        BY <1>14, <2>1, <2>2
    <2>4. Distinct(p, s)
        BY <1>2, <2>1, <2>2, <2>3, PlanDistinct
    <2>5. q.op = p.op /\ q.key = p.key /\ (p.op # "remove" => q.entry.key = p.entry.key)
        BY <1>6, <2>1
    <2>6. r.op = s.op /\ r.key = s.key /\ (s.op # "remove" => r.entry.key = s.entry.key)
        BY <1>6, <2>2
    <2> QED
        BY <2>4, <2>5, <2>6 DEF Distinct
<1>15. ASSUME NEW c \in L
       PROVE  ObjectSettles(T, E, kind, c)
    <2>1. PICK a \in DOMAIN current : c = live[a]
        BY <1>2, <1>4
    <2>2. CASE \A j \in DOMAIN config : ~Owns(current, config, a, j)
        BY <1>10, <2>1, <2>2 DEF ObjectSettles
    <2>3. CASE \E j \in DOMAIN config : Owns(current, config, a, j)
        <3>1. PICK j \in DOMAIN config : Owns(current, config, a, j)
            BY <2>3
        <3>2. config[j] \in E /\ c.key \in Names(config[j])
            BY <1>2, <1>5, <2>1, <3>1 DEF Owns
        <3>3. CASE IsPatched(config[j], current[a], options)
            <4>1. \E q \in T : q.op = "change" /\ q.key = c.key
                BY <1>11, <2>1, <3>1, <3>3
            <4> QED
                BY <3>2, <4>1 DEF ObjectSettles
        <3>4. CASE ~IsPatched(config[j], current[a], options)
            <4>1. Settles(kind, config[j], c)
                BY <1>2, <2>1, <3>4, PatchedMeans
            <4> QED
                BY <3>2, <4>1 DEF ObjectSettles
        <3> QED
            BY <3>3, <3>4
    <2> QED
        BY <2>2, <2>3
<1>16. ASSUME NEW e \in E, NEW c \in L, NEW d \in L, Stays(T, c, e), Stays(T, d, e)
       PROVE  c = d
    <2>1. PICK j \in DOMAIN config : e = config[j]
        BY <1>5
    <2>2. ASSUME NEW a \in DOMAIN current, Stays(T, live[a], e)
          PROVE  Owns(current, config, a, j)
        <3>1. PICK k \in DOMAIN config : Owns(current, config, a, k)
            BY <1>10, <2>2 DEF Stays
        <3>2. k = j
            BY <1>2, <1>8, <2>1, <2>2, <3>1 DEF Stays, Owns
        <3> QED
            BY <3>1, <3>2
    <2>3. PICK a \in DOMAIN current : c = live[a]
        BY <1>2, <1>4
    <2>4. PICK b \in DOMAIN current : d = live[b]
        BY <1>2, <1>4
    <2>5. Owns(current, config, a, j) /\ Owns(current, config, b, j)
        BY <1>16, <2>2, <2>3, <2>4
    <2>6. a = b
        BY <1>2, <2>5, OwnersDiffer
    <2> QED
        BY <2>3, <2>4, <2>6
<1>17. ASSUME NEW e \in E
       PROVE  EntrySettles(L, T, e)
    <2>1. PICK j \in DOMAIN config : e = config[j]
        BY <1>5
    <2>2. CASE \E a \in DOMAIN current : Owns(current, config, a, j)
        <3>1. PICK a \in DOMAIN current : Owns(current, config, a, j)
            BY <2>2
        <3>2. ~Goes(T, live[a].key)
            BY <1>10, <3>1
        <3>3. live[a] \in L /\ Stays(T, live[a], e)
            BY <1>2, <1>4, <2>1, <3>1, <3>2 DEF Stays, Owns
        <3> QED
            BY <3>3 DEF EntrySettles
    <2>3. CASE ~ \E a \in DOMAIN current : Owns(current, config, a, j)
        BY <1>12, <2>1, <2>3 DEF EntrySettles
    <2> QED
        BY <2>2, <2>3
<1>18. ASSUME values, NEW e \in E
       PROVE  SecretSettles(L, T, vault, e)
    <2>1. SUFFICES ASSUME e.secret \notin {NoSecret, Dummy}
                   PROVE  \E q \in T : q.op # "remove" /\ q.entry.key = e.key
        BY DEF SecretSettles
    <2>2. PICK j \in DOMAIN config : e = config[j]
        BY <1>5
    <2>3. CASE \E a \in DOMAIN current : Owns(current, config, a, j)
        <3>1. PICK a \in DOMAIN current : Owns(current, config, a, j)
            BY <2>3
        <3>2. IsPatched(config[j], current[a], options)
            BY <1>18, <2>1, <2>2 DEF IsPatched
        <3> QED
            BY <1>11, <2>2, <3>1, <3>2
    <2>4. CASE ~ \E a \in DOMAIN current : Owns(current, config, a, j)
        BY <1>12, <2>1, <2>2, <2>4
    <2> QED
        BY <2>3, <2>4
<1>19. /\ \A c, d \in L : c.key = d.key => c = d
       /\ \A e, f \in E : e # f => Names(e) \cap Names(f) = {}
       /\ kind = "secret" => \A e \in E : e.secret # NoSecret
    <2>1. \A c, d \in L : c.key = d.key => c = d
        BY <1>4 DEF Sound, KeysDiffer
    <2>2. \A e, f \in E : e # f => Names(e) \cap Names(f) = {}
        BY <1>5 DEF NamesDiffer
    <2>3. kind = "secret" => \A e \in E : e.secret # NoSecret
        BY <1>5 DEF IsConfigured, SuitsEntry, FitsEntry, Fits
    <2> QED
        BY <2>1, <2>2, <2>3
<1>20. Settling(L, T, E, values, kind, vault)
    BY <1>13, <1>14, <1>15, <1>16, <1>17, <1>18, <1>19 DEF Settling
<1> QED
    BY <1>3, <1>20

\* The patches of a plan, resolved, and no two of them the same.
LEMMA ResolvedOnce ==
    ASSUME NEW patches \in Seq(PlannedPatches), Once(patches), NEW options, ~options.app,
           \A m, n \in DOMAIN patches : m # n => Distinct(patches[m], patches[n])
    PROVE  Once([i \in DOMAIN patches |-> WithValues(patches[i], options)])
<1> DEFINE t == [i \in DOMAIN patches |-> WithValues(patches[i], options)]
<1> SUFFICES ASSUME NEW m \in DOMAIN patches, NEW n \in DOMAIN patches, t[m] = t[n], m # n
             PROVE  FALSE
    BY DEF Once
<1>1. PICK p, q : p = patches[m] /\ q = patches[n]
    OBVIOUS
<1>2. p \in PlannedPatches /\ q \in PlannedPatches
    BY <1>1, LenProperties, ElementOfSeq
<1>3. Distinct(p, q) /\ WithValues(p, options) = WithValues(q, options)
    BY <1>1
<1>4. p.op = q.op /\ p.key = q.key /\ (p.op # "remove" => p.entry.key = q.entry.key)
    BY <1>2, <1>3, WithValuesKeeps
<1>5. p.op \in {"add", "change", "remove"}
    BY <1>2 DEF PlannedPatches, Patches
<1> QED
    BY <1>3, <1>4, <1>5 DEF Distinct

\* A user's run that is under way has all that it takes.
LEMMA UserSettles ==
    ASSUME Plainly, IInv, NEW options \in Options, NEW delete \in BOOLEAN, NEW twice \in BOOLEAN,
           NEW listed, UserPlans(options, delete, twice, listed)
    PROVE  SettleInv'
<1> SUFFICES ASSUME Sees'
             PROVE  (/\ NamesDiffer(config)
                     /\ run.by # "app"
                     /\ Once(run.todo)
                     /\ Settling(ToSet(live), ToSet(run.todo), ToSet(config), clean.values, kind, vault))'
    BY DEF SettleInv
<1> DEFINE plan == Planned(listed, config, options)
           todo == Selected(plan.patches, options)
           resolved == {p.entry.secret : p \in {q \in ToSet(todo) : q.op # "remove"}}
                       \cup (IF twice THEN {config[i].secret : i \in DOMAIN config} ELSE {})
           fails == ValidationFails \/ ~plan.ok \/ ResolvingFails(resolved, twice)
           applied == Chosen(todo, {p \in ToSet(todo) : delete \/ p.op # "remove"})
<1>1. /\ run' = IF fails THEN Idle
                ELSE [by |-> "user", delete |-> delete,
                      todo |-> [i \in DOMAIN applied |-> WithValues(applied[i], options)]]
      /\ clean' = IF fails \/ listed # Listing \/ Len(live) > PageSize \/ ~delete THEN Nothing
                  ELSE [plan |-> ~options.onlySecrets \/ kind = "secret",
                        values |-> IF kind = "secret" THEN options.secrets
                                   ELSE options.webhooks /\ ~options.onlySecrets]
      /\ UNCHANGED <<kind, live, config, base, vault>>
    BY DEF UserPlans
<1>2. clean'.plan
    BY DEF Sees
<1>3. ~(fails \/ listed # Listing \/ Len(live) > PageSize \/ ~delete)
    <2> HIDE DEF fails
    <2> QED
        BY <1>1, <1>2, Unclean
<1>4. PICK kept \in BOOLEAN : kept = (~options.onlySecrets \/ kind = "secret")
    BY Zenon
<1>5. PICK updated \in BOOLEAN : updated = IF kind = "secret" THEN options.secrets
                                           ELSE options.webhooks /\ ~options.onlySecrets
    <2>1. options.secrets \in BOOLEAN
        BY DEF Options
    <2>2. (options.webhooks /\ ~options.onlySecrets) \in BOOLEAN
        BY Zenon
    <2> QED
        BY <2>1, <2>2, Zenon
<1>6. clean' = [plan |-> kept, values |-> updated]
    <2> HIDE DEF fails
    <2> QED
        BY <1>1, <1>3, <1>4, <1>5, Zenon
<1>7. kept /\ clean'.values = updated
    BY <1>2, <1>6
<1>8. Len(live) <= PageSize
    <2>1. Len(live) \in Nat
        BY LenProperties DEF IInv, TypeOK
    <2> HIDE DEF fails
    <2> QED
        BY <1>3, <2>1, PageAssumption
<1>9. /\ Sound(live) /\ config \in Seq(Entry) /\ live \in Seq(LiveObject)
      /\ \A i \in DOMAIN config : IsConfigured(config[i])
      /\ vault \in [References -> Credentials \cup {Missing}]
    BY SoundIsInvariant DEF IInv, TypeOK, ConfigInv
<1>10. PICK current : current = Listing /\ current = listed
    <2> HIDE DEF fails
    <2> QED
        BY <1>3
<1>11. current \in Seq(LiveObject) /\ KeysDiffer(current)
    BY <1>8, <1>9, <1>10, ListingPlain
<1>12. PICK pl : pl = Planned(current, config, options)
    OBVIOUS
<1>13. pl.ok
    BY <1>3, <1>10, <1>12
<1>14. NamesDiffer(config)
    <2>1. PICK s : s = AllMatched(current, config, options)
        OBVIOUS
    <2>2. PICK t : t = WithAdditions(s.out, config, s.left)
        OBVIOUS
    <2>3. PICK ok \in BOOLEAN : ok = (NamesDiffer(config) /\ s.ok)
        BY Zenon
    <2>4. pl = [ok |-> ok, patches |-> t]
        BY <1>12, <2>1, <2>2, <2>3, Zenon DEF Planned
    <2>5. ok
        BY <1>13, <2>4
    <2> QED
        BY <2>3, <2>5
<1>15. PICK patches \in Seq(PlannedPatches) : patches = pl.patches /\ Once(patches)
           /\ \A p : p \in ToSet(patches) <=> InPlan(current, config, options, p)
    <2>1. \A c \in LiveObject : c.key \in Words
        BY DEF LiveObject
    <2>2. /\ pl.patches \in Seq(PlannedPatches)
          /\ \A m, n \in DOMAIN pl.patches : pl.patches[m] = pl.patches[n] => m = n
          /\ \A p : p \in ToSet(pl.patches) <=> InPlan(current, config, options, p)
        BY <1>9, <1>11, <1>12, <1>14, <2>1, PlannedPlain
    <2> QED
        BY <2>2 DEF Once
<1>16. ~options.app
    BY DEF Options
<1>17. \A i \in DOMAIN patches : patches[i] \in ToSet(patches) /\ patches[i] \in PlannedPatches
    <2>1. \A i \in DOMAIN patches : patches[i] \in ToSet(patches)
        BY DEF ToSet
    <2>2. \A i \in DOMAIN patches : patches[i] \in PlannedPatches
        BY LenProperties, ElementOfSeq
    <2> QED
        BY <2>1, <2>2
\* Nothing is left out of the plan.
<1>18. Selected(patches, options) = patches
    <2> DEFINE wanted == {p \in ToSet(patches) : Included(p, options)}
    <2>1. \A p : Included(p, options)
        BY <1>4, <1>7, <1>16 DEF Included
    <2>2. \A i \in DOMAIN patches : patches[i] \in wanted
        BY <1>17, <2>1
    <2>3. Selected(patches, options) = Chosen(patches, wanted)
        BY DEF Selected
    <2> HIDE DEF wanted
    <2> QED
        BY <2>2, <2>3, ChosenAll
<1>19. todo = patches
    BY <1>10, <1>12, <1>15, <1>18
<1>20. applied = patches
    <2> DEFINE meant == {p \in ToSet(patches) : delete \/ p.op # "remove"}
    <2>1. delete
        <3> HIDE DEF fails
        <3> QED
            BY <1>3
    <2>2. \A i \in DOMAIN patches : patches[i] \in meant
        BY <1>17, <2>1
    <2>3. applied = Chosen(patches, meant)
        BY <1>19
    <2> HIDE DEF meant, applied
    <2> QED
        BY <2>2, <2>3, ChosenAll
<1>21. ASSUME NEW p, InPlan(current, config, options, p)
       PROVE  p \in PlannedPatches /\ (p.op # "remove" => Value(p.entry.secret) # Missing)
    <2>1. p \in ToSet(patches)
        BY <1>15, <1>21
    <2>2. p \in PlannedPatches
        BY <1>17, <2>1 DEF ToSet
    <2>3. ASSUME p.op # "remove"
          PROVE  Value(p.entry.secret) # Missing
        <3>1. p.entry.secret \in resolved
            <4> HIDE DEF todo
            <4> QED
                BY <1>19, <2>1, <2>3
        <3>2. ~ResolvingFails(resolved, twice)
            BY <1>3
        <3> HIDE DEF resolved
        <3> QED
            BY <3>1, <3>2 DEF ResolvingFails
    <2> QED
        BY <2>2, <2>3
<1>22. PICK t : t = [i \in DOMAIN patches |-> WithValues(patches[i], options)]
    OBVIOUS
<1>23. run'.by = "user" /\ run'.todo = t
    <2>1. run' = [by |-> "user", delete |-> delete,
                  todo |-> [i \in DOMAIN applied |-> WithValues(applied[i], options)]]
        <3> HIDE DEF fails, applied
        <3> QED
            BY <1>1, <1>3
    <2> HIDE DEF applied
    <2> QED
        BY <1>20, <1>22, <2>1
<1>24. Once(t)
    <2>1. \A m, n \in DOMAIN patches : m # n => Distinct(patches[m], patches[n])
        <3> TAKE m, n \in DOMAIN patches
        <3> HAVE m # n
        <3>1. patches[m] # patches[n]
            BY <1>15 DEF Once
        <3>2. InPlan(current, config, options, patches[m]) /\ InPlan(current, config, options, patches[n])
            BY <1>15, <1>17
        <3> QED
            BY <1>11, <1>14, <3>1, <3>2, PlanDistinct
    <2> QED
        BY <1>15, <1>16, <1>22, <2>1, ResolvedOnce
<1>25. PICK T : T = ToSet(t)
    OBVIOUS
<1>26. \A q : q \in T <=> \E p \in PlannedPatches :
                              InPlan(Listing, config, options, p) /\ q = WithValues(p, options)
    <2>1. DOMAIN t = DOMAIN patches /\ \A i \in DOMAIN patches : t[i] = WithValues(patches[i], options)
        BY <1>22
    <2>2. ASSUME NEW q \in T
          PROVE  \E p \in PlannedPatches : InPlan(current, config, options, p) /\ q = WithValues(p, options)
        <3>1. PICK i \in DOMAIN patches : q = WithValues(patches[i], options)
            BY <1>25, <2>1, <2>2 DEF ToSet
        <3> QED
            BY <1>15, <1>17, <3>1
    <2>3. ASSUME NEW p \in PlannedPatches, InPlan(current, config, options, p)
          PROVE  WithValues(p, options) \in T
        <3>1. p \in ToSet(patches)
            BY <1>15, <2>3
        <3>2. PICK i \in DOMAIN patches : p = patches[i]
            BY <3>1 DEF ToSet
        <3>3. t[i] \in ToSet(t)
            BY <2>1 DEF ToSet
        <3> QED
            BY <1>25, <2>1, <3>2, <3>3
    <2> QED
        BY <1>10, <2>2, <2>3
\* If the secrets are to be updated, every entry that has one is forced.
<1>27. updated => \A j \in DOMAIN config :
                      config[j].secret \notin {NoSecret, Dummy} => IsForced(config[j], options)
    <2> SUFFICES ASSUME updated, NEW j \in DOMAIN config, config[j].secret \notin {NoSecret, Dummy}
                 PROVE  IsForced(config[j], options)
        OBVIOUS
    <2>1. kind \in {"webhook", "secret", "variable"}
        BY KindsAssumption DEF IInv, TypeOK
    <2>2. kind # "variable"
        BY <1>9 DEF IsConfigured, SuitsEntry, FitsEntry, Fits
    <2>3. CASE kind = "secret"
        BY <1>5, <2>3 DEF IsForced
    <2>4. CASE kind = "webhook"
        BY <1>5, <2>4 DEF IsForced
    <2> QED
        BY <2>1, <2>2, <2>3, <2>4
<1>28. Settling(ToSet(live), T, ToSet(config), updated, kind, vault)
    <2>1. \A p : InPlan(Listing, config, options, p) =>
                     p \in PlannedPatches /\ (p.op # "remove" => Value(p.entry.secret) # Missing)
        BY <1>10, <1>21
    <2> QED
        BY <1>8, <1>9, <1>14, <1>16, <1>26, <1>27, <2>1, PlanSettles
<1>29. ToSet(run'.todo) = T /\ Once(run'.todo) /\ run'.by # "app"
    BY <1>23, <1>24, <1>25
<1> QED
    BY <1>1, <1>7, <1>14, <1>28, <1>29

LEMMA InitSettleInv ==
    ASSUME Init
    PROVE  SettleInv
BY DEF Init, SettleInv, Sees, Nothing

LEMMA NextSettleInv ==
    ASSUME Plainly, IInv, SettleInv, [Next]_vars
    PROVE  SettleInv'
<1>1. clean' = Nothing => SettleInv'
    BY Unclean DEF SettleInv, Sees
<1>2. CASE UserApply
    <2>1. PICK options \in Options, delete \in BOOLEAN, twice \in BOOLEAN :
              \/ UserPlans(options, delete, twice, Listing)
              \/ UserPlans(options, delete, twice, <<>>)
        BY <1>2, Zenon DEF UserApply
    <2> QED
        BY <2>1, UserSettles
<1>3. CASE AppApply
    <2>1. clean' = Nothing
        BY <1>3 DEF AppApply
    <2> QED
        BY <1>1, <2>1
<1>4. CASE Apply
    BY <1>4, ApplySettles
<1>5. CASE Fail
    <2>1. clean' = Nothing
        BY <1>5 DEF Fail
    <2> QED
        BY <1>1, <2>1
<1>6. CASE Finish
    <2>1. run # Idle /\ run.todo = <<>> /\ run' = Idle /\ UNCHANGED <<kind, live, config, vault, clean>>
        BY <1>6 DEF Finish
    <2>2. run'.todo = run.todo /\ run'.by # "app"
        BY <2>1 DEF Idle
    <2> SUFFICES ASSUME Sees'
                 PROVE  (/\ NamesDiffer(config)
                         /\ run.by # "app"
                         /\ Once(run.todo)
                         /\ Settling(ToSet(live), ToSet(run.todo), ToSet(config), clean.values, kind, vault))'
        BY DEF SettleInv
    <2>3. Sees
        BY <2>1 DEF Sees
    <2> QED
        BY <2>1, <2>2, <2>3 DEF SettleInv
<1>7. CASE Import
    BY <1>7, ImportSettles
<1>8. CASE Merge
    <2>1. clean' = Nothing
        BY <1>8 DEF Merge
    <2> QED
        BY <1>1, <2>1
<1>9. CASE Rotate
    <2>1. UNCHANGED <<kind, live, config, run>> /\ clean' = [clean EXCEPT !.values = FALSE]
        BY <1>9 DEF Rotate
    <2>2. clean'.plan = clean.plan /\ ~clean'.values
        BY <2>1 DEF IInv, TypeOK
    <2> SUFFICES ASSUME Sees'
                 PROVE  (/\ NamesDiffer(config)
                         /\ run.by # "app"
                         /\ Once(run.todo)
                         /\ Settling(ToSet(live), ToSet(run.todo), ToSet(config), clean.values, kind, vault))'
        BY DEF SettleInv
    <2>3. Sees
        BY <2>1, <2>2 DEF Sees
    <2>4. PICK L, T, E : L = ToSet(live) /\ T = ToSet(run.todo) /\ E = ToSet(config)
        OBVIOUS
    <2>5. Settling(L, T, E, clean.values, kind, vault)
        BY <2>3, <2>4 DEF SettleInv
    <2>6. Settling(L, T, E, clean'.values, kind, vault')
        <3>1. \A p \in T : Accurate(L, E, clean.values, vault, p) => Accurate(L, E, clean'.values, vault', p)
            BY <2>2 DEF Accurate
        <3> QED
            BY <2>2, <2>5, <3>1 DEF Settling
    <2> QED
        BY <2>1, <2>3, <2>4, <2>6 DEF SettleInv
<1>10. CASE OthersChange
    <2>1. clean' = Nothing
        BY <1>10 DEF OthersChange
    <2> QED
        BY <1>1, <2>1
<1>11. CASE UNCHANGED vars
    BY <1>11 DEF vars, SettleInv, Sees
<1> QED
    BY <1>2, <1>3, <1>4, <1>5, <1>6, <1>7, <1>8, <1>9, <1>10, <1>11 DEF Next

\* What a run that nothing disturbed could see is settled: the next plan is empty, and
\* secrets that were to be updated are the current ones.  This is so for secrets and
\* variables, and for webhooks as long as no url is configured with a wildcard.
THEOREM CleanRunsSettle ==
    ASSUME Plainly
    PROVE  Spec => []CleanRunSettles
<1>1. Init => IInv /\ SettleInv
    BY InitIInv, InitSettleInv
<1>2. IInv /\ SettleInv /\ [Next]_vars => (IInv /\ SettleInv)'
    BY NextIInv, NextSettleInv
<1>3. IInv /\ SettleInv => CleanRunSettles
    BY NothingLeft
<1> QED
    BY <1>1, <1>2, <1>3, PTL DEF Spec

=============================================================================
