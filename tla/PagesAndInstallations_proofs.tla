--------------------- MODULE PagesAndInstallations_proofs ---------------------
(***************************************************************************)
(* What holds of the reads of paged lists for lists and pages of any size. *)
(*                                                                         *)
(* The pages of a list by number are a matter of places: what is on an     *)
(* earlier page has a lower place, and a removal lowers places where an    *)
(* addition raises them.  The pages by cursor are a matter of order: the   *)
(* cursor is the last item of a page, and everything up to it was read.    *)
(*                                                                         *)
(* And what holds of the database of the app, for any organizations and    *)
(* registries: a task that runs undisturbed goes through a few phases, and *)
(* in each of them it is known what is up to date and what is about to be. *)
(***************************************************************************)
EXTENDS PagedReads, Installations, FiniteSetTheorems, SequenceTheorems, TLAPS

-----------------------------------------------------------------------------
(* The inductive invariant.                                                *)

\* The request of a read that is under way is tried again, and its token outlives it.
TokenInv ==
    Active => /\ read.tries < Attempts
              /\ now <= read.began + MaxDuration
              /\ read.began + MaxDuration < read.expires

\* What stayed in the list is in the list.
StayedInv == Active => read.stayed \subseteq items

\* How many places the pages before this one have.
Passed == (read.page - 1) * PageSize

\* By number: unless something was removed, everything that has a place on a page
\* before this one was read, and unless something was added, nothing else was.
RestMisses == ~read.removed => \A i \in read.stayed : Place(items, i) <= Passed => i \in read.got

RestRepeats == ~read.added => /\ ~read.twice
                              /\ \A i \in read.got \cap items : Place(items, i) <= Passed

RestInv == (Active /\ read.how = "rest") => RestMisses /\ RestRepeats

\* By cursor: everything up to the cursor was read, and nothing after it, unless the
\* read started over.
CursorMisses == \A i \in read.stayed : i <= read.after => i \in read.got

CursorRepeats == (read.how = "actors" /\ read.page > 1)
                 \/ (~read.twice /\ \A i \in read.got : i <= read.after)

CursorInv == (Active /\ read.how \notin {"rest", "team"}) => CursorMisses /\ CursorRepeats

\* What a read by anything but the cursor of a team has read at its end.
ExactInv == read.how # "team" => ReadsAreExact

IInv ==
    /\ TypeOK
    /\ TokenInv
    /\ StayedInv
    /\ RestInv
    /\ CursorInv
    /\ ExactInv
    /\ FailuresHaveACause

-----------------------------------------------------------------------------
(* Least and greatest numbers.  That every set of numbers has a least one  *)
(* is an induction; the library states it for operators, which no prover   *)
(* instantiates, and for sets of finite sets, which serves as well.        *)

\* Every set of natural numbers that is not empty has a least element.
LEMMA LeastNumber ==
    ASSUME NEW T \in SUBSET Nat, T # {}
    PROVE  \E m \in T : \A k \in T : m <= k
<1> DEFINE F == {0..k : k \in T}
           R == StrictSubsetOrdering(Nat)
           S == FiniteSubsetsOf(Nat)
<1>1. \A k \in T : 0..k \in S
    <2> TAKE k \in T
    <2>1. IsFiniteSet(0..k)
        BY FS_Interval
    <2>2. 0..k \in SUBSET Nat
        OBVIOUS
    <2> QED
        BY <2>1, <2>2 DEF FiniteSubsetsOf
<1>2. F \subseteq S
    BY <1>1
<1>3. F # {}
    OBVIOUS
<1>4. IsWellFoundedOn(R, S)
    BY FS_StrictSubsetOrderingWellFounded
<1>5. PICK x \in F : \A y \in F : ~ (<<y, x>> \in R)
    <2> HIDE DEF F, R, S
    <2> QED
        BY <1>2, <1>3, <1>4, WFMin
<1>6. PICK m \in T : x = 0..m
    OBVIOUS
<1>7. ASSUME NEW k \in T
      PROVE  m <= k
    <2>1. SUFFICES ASSUME k < m
                   PROVE  FALSE
        OBVIOUS
    <2>2. 0..k \in F
        OBVIOUS
    <2>3. 0..k \subseteq 0..m /\ 0..k # 0..m
        BY <2>1
    <2>4. 0..k \in SUBSET Nat /\ 0..m \in SUBSET Nat
        OBVIOUS
    <2>5. <<0..k, 0..m>> \in R
        BY <2>3, <2>4 DEF StrictSubsetOrdering
    <2> QED
        BY <1>5, <1>6, <2>2, <2>5
<1> QED
    BY <1>7

\* Items of which there are any have a last one, and Max finds it.
LEMMA GreatestItem ==
    ASSUME NEW T \in SUBSET (1..MaxItem), T # {}
    PROVE  Max(T) \in T /\ \A i \in T : i <= Max(T)
<1> DEFINE D == {MaxItem - i : i \in T}
<1> USE SizesAssumption
<1>1. D \in SUBSET Nat /\ D # {}
    <2>1. \A i \in T : i \in Nat /\ i <= MaxItem
        OBVIOUS
    <2>2. \A i \in T : MaxItem - i \in Nat
        BY <2>1
    <2> QED
        BY <2>2
<1>2. PICK d \in D : \A k \in D : d <= k
    <2> HIDE DEF D
    <2> QED
        BY <1>1, LeastNumber
<1>3. PICK m \in T : d = MaxItem - m
    OBVIOUS
<1>4. \A i \in T : m >= i
    <2> TAKE i \in T
    <2>1. MaxItem - i \in D
        OBVIOUS
    <2>2. MaxItem - m <= MaxItem - i
        BY <1>2, <1>3, <2>1
    <2> QED
        BY <2>2
<1>5. Max(T) \in T /\ \A i \in T : Max(T) >= i
    BY <1>4, Zenon DEF Max
<1> QED
    BY <1>5

-----------------------------------------------------------------------------
(* Places.                                                                 *)

\* Any items are finitely many.
LEMMA ItemsAreFinite ==
    ASSUME NEW list \in SUBSET (1..MaxItem)
    PROVE  IsFiniteSet(list) /\ Cardinality(list) \in Nat
<1>1. IsFiniteSet(1..MaxItem)
    BY FS_Interval, SizesAssumption
<1>2. IsFiniteSet(list)
    BY <1>1, FS_Subset
<1> QED
    BY <1>2, FS_CardinalityType

\* A place is a number, and there are no more places than items.
LEMMA PlaceBound ==
    ASSUME NEW list \in SUBSET (1..MaxItem), NEW i
    PROVE  Place(list, i) \in Nat /\ Place(list, i) <= Cardinality(list)
<1> DEFINE T == {j \in list : j <= i}
<1>1. T \in SUBSET (1..MaxItem) /\ T \in SUBSET list
    OBVIOUS
<1>2. Cardinality(T) \in Nat
    BY <1>1, ItemsAreFinite
<1>3. Cardinality(T) <= Cardinality(list)
    BY <1>1, ItemsAreFinite, FS_Subset
<1> QED
    BY <1>2, <1>3 DEF Place

\* Items that come earlier, in a list that has fewer items, have lower places.
LEMMA PlaceMonotone ==
    ASSUME NEW list \in SUBSET (1..MaxItem), NEW longer \in SUBSET (1..MaxItem),
           list \subseteq longer, NEW i \in 1..MaxItem, NEW j \in 1..MaxItem, i <= j
    PROVE  Place(list, i) <= Place(longer, j)
<1> DEFINE T == {k \in list : k <= i}
           U == {k \in longer : k <= j}
<1>1. T \subseteq U
    <2> SUFFICES ASSUME NEW k \in list, k <= i
                 PROVE  k \in longer /\ k <= j
        OBVIOUS
    <2>1. k \in 1..MaxItem
        OBVIOUS
    <2> QED
        BY <2>1, SizesAssumption
<1>2. U \in SUBSET (1..MaxItem)
    OBVIOUS
<1>3. IsFiniteSet(U)
    BY <1>2, ItemsAreFinite
<1>4. Cardinality(T) <= Cardinality(U)
    BY <1>1, <1>3, FS_Subset
<1> QED
    BY <1>4 DEF Place

\* An item of the list has a place from 1 on, and the first item has the first.
LEMMA PlacePositive ==
    ASSUME NEW list \in SUBSET (1..MaxItem), NEW i \in list
    PROVE  /\ Place(list, i) >= 1
           /\ (\A k \in list : i <= k) => Place(list, i) = 1
<1> DEFINE T == {k \in list : k <= i}
<1>1. T \in SUBSET (1..MaxItem)
    OBVIOUS
<1>2. IsFiniteSet(T) /\ Cardinality(T) \in Nat
    BY <1>1, ItemsAreFinite
<1>3. i \in T
    BY SizesAssumption
<1>4. Cardinality(T) >= 1
    BY <1>2, <1>3, FS_EmptySet
<1>5. ASSUME \A k \in list : i <= k
      PROVE  Cardinality(T) = 1
    <2>1. ASSUME NEW k \in list, k <= i
          PROVE  k = i
        <3>1. k \in 1..MaxItem /\ i \in 1..MaxItem /\ i <= k
            BY <1>5
        <3> QED
            BY <2>1, <3>1, SizesAssumption
    <2>2. T = {i}
        BY <1>3, <2>1
    <2> QED
        BY <2>2, FS_Singleton
<1> QED
    BY <1>4, <1>5 DEF Place

-----------------------------------------------------------------------------
(* Pages.                                                                  *)

\* The page that a read gets now.
PageOf(r) == IF r.how = "rest" THEN ByNumber(r.page) ELSE ByCursor(r.after)

\* A page by number has the items with its places; what is not on it has a lower
\* place or there is another page.
LEMMA NumberPage ==
    ASSUME TypeOK, NEW n \in Nat \ {0}
    PROVE  /\ ByNumber(n).items \subseteq items
           /\ ByNumber(n).more \in BOOLEAN
           /\ \A i \in ByNumber(n).items : /\ Place(items, i) > (n - 1) * PageSize
                                           /\ Place(items, i) <= (n - 1) * PageSize + PageSize
           /\ \A i \in items : Place(items, i) <= (n - 1) * PageSize + PageSize
                    => \/ Place(items, i) <= (n - 1) * PageSize
                       \/ i \in ByNumber(n).items
           /\ ~ByNumber(n).more
                    => \A i \in items : Place(items, i) <= (n - 1) * PageSize + PageSize
<1> DEFINE from == (n - 1) * PageSize
<1>1. from \in Nat /\ PageSize \in Nat
    BY SizesAssumption
<1>2. Cardinality(items) \in Nat
    BY ItemsAreFinite DEF TypeOK
<1>3. \A i \in items : Place(items, i) \in Nat /\ Place(items, i) <= Cardinality(items)
    BY PlaceBound DEF TypeOK
<1>4. /\ ByNumber(n).items = {i \in items : Place(items, i) \in from + 1..from + PageSize}
      /\ ByNumber(n).more \in BOOLEAN
      /\ ByNumber(n).more <=> Cardinality(items) > from + PageSize
    <2>1. ByNumber(n).items = {i \in items : Place(items, i) \in from + 1..from + PageSize}
        BY DEF ByNumber
    <2>2. ByNumber(n).more = (Cardinality(items) > from + PageSize)
        BY Zenon DEF ByNumber
    <2>3. ByNumber(n).more \in BOOLEAN
        BY DEF ByNumber
    <2>4. ByNumber(n).more <=> Cardinality(items) > from + PageSize
        BY <2>2, Zenon
    <2> QED
        BY <2>1, <2>3, <2>4
<1> HIDE DEF from
<1>5. \A i \in items : i \in ByNumber(n).items
                          <=> Place(items, i) > from /\ Place(items, i) <= from + PageSize
    BY <1>1, <1>3, <1>4
<1>6. ByNumber(n).items \subseteq items
    BY <1>4
<1>7. \A i \in ByNumber(n).items : Place(items, i) > from /\ Place(items, i) <= from + PageSize
    BY <1>5, <1>6
<1>8. ~ByNumber(n).more => \A i \in items : Place(items, i) <= from + PageSize
    <2>1. ~ByNumber(n).more => Cardinality(items) <= from + PageSize
        BY <1>1, <1>2, <1>4
    <2> QED
        BY <1>1, <1>2, <1>3, <2>1
<1>9. \A i \in items : Place(items, i) <= from + PageSize
            => Place(items, i) <= from \/ i \in ByNumber(n).items
    BY <1>1, <1>3, <1>5
<1> QED
    BY <1>4, <1>6, <1>7, <1>8, <1>9 DEF from

\* A page by cursor has items after the cursor, and all of them up to its last one,
\* or all there are if there is no other page.
LEMMA CursorPage ==
    ASSUME TypeOK, NEW after \in 0..MaxItem
    PROVE  /\ ByCursor(after).items \subseteq items
           /\ ByCursor(after).more \in BOOLEAN
           /\ \A i \in ByCursor(after).items : i > after
           /\ ~ByCursor(after).more => \A i \in items : i > after => i \in ByCursor(after).items
           /\ ByCursor(after).more
                => /\ Max(ByCursor(after).items) \in 1..MaxItem
                   /\ Max(ByCursor(after).items) > after
                   /\ \A i \in ByCursor(after).items : i <= Max(ByCursor(after).items)
                   /\ \A i \in items : i > after /\ i <= Max(ByCursor(after).items)
                                          => i \in ByCursor(after).items
<1> DEFINE rest == {i \in items : i > after}
           page == ByCursor(after).items
<1>1. rest \in SUBSET (1..MaxItem) /\ rest \subseteq items
    BY DEF TypeOK
<1>2. page = {i \in rest : Place(rest, i) <= PageSize}
    BY DEF ByCursor
<1>3. ByCursor(after).more <=> Cardinality(rest) > PageSize
    BY DEF ByCursor
<1>4. Cardinality(rest) \in Nat
    BY <1>1, ItemsAreFinite
<1>5. \A i \in rest : Place(rest, i) \in Nat /\ Place(rest, i) <= Cardinality(rest)
    BY <1>1, PlaceBound
<1>6. \A i \in items : i > after => i \in rest
    OBVIOUS
<1>7. \A i \in rest : i > after
    OBVIOUS
<1> HIDE DEF rest, page
<1>8. page \subseteq items /\ \A i \in page : i > after
    BY <1>1, <1>2, <1>7
<1>9. ASSUME ~ByCursor(after).more
      PROVE  \A i \in items : i > after => i \in page
    <2>1. Cardinality(rest) <= PageSize
        BY <1>3, <1>4, <1>9, SizesAssumption
    <2>2. \A i \in rest : Place(rest, i) <= PageSize
        BY <1>4, <1>5, <2>1, SizesAssumption
    <2> QED
        BY <1>2, <1>6, <2>2
<1>10. ASSUME ByCursor(after).more
       PROVE  /\ Max(page) \in 1..MaxItem
              /\ Max(page) > after
              /\ \A i \in page : i <= Max(page)
              /\ \A i \in items : i > after /\ i <= Max(page) => i \in page
    <2>1. rest # {}
        <3>1. Cardinality(rest) > 0
            BY <1>3, <1>4, <1>10, SizesAssumption
        <3> QED
            BY <3>1, FS_EmptySet
    <2>2. rest \in SUBSET Nat
        BY <1>1
    <2>3. PICK m \in rest : \A k \in rest : m <= k
        BY <2>1, <2>2, LeastNumber
    <2>4. Place(rest, m) = 1
        BY <1>1, <2>3, PlacePositive
    <2>5. m \in page
        BY <1>2, <2>4, SizesAssumption
    <2>6. page \in SUBSET (1..MaxItem)
        BY <1>1, <1>2
    <2>7. Max(page) \in page /\ \A i \in page : i <= Max(page)
        BY <2>5, <2>6, GreatestItem
    <2>8. ASSUME NEW i \in items, i > after, i <= Max(page)
          PROVE  i \in page
        <3>1. i \in rest /\ Max(page) \in rest
            BY <1>2, <1>6, <2>7, <2>8
        <3>2. Place(rest, i) <= Place(rest, Max(page))
            BY <1>1, <2>8, <3>1, PlaceMonotone
        <3>3. Place(rest, Max(page)) <= PageSize
            BY <1>2, <2>7
        <3>4. Place(rest, i) <= PageSize
            BY <1>5, <3>1, <3>2, <3>3, SizesAssumption
        <3> QED
            BY <1>2, <3>1, <3>4
    <2> QED
        BY <1>8, <2>6, <2>7, <2>8
<1>11. ByCursor(after).more \in BOOLEAN
    BY DEF ByCursor
<1> QED
    BY <1>8, <1>9, <1>10, <1>11 DEF page

\* The cursor of the next page is a cursor.
LEMMA NextCursorType ==
    ASSUME TypeOK, PageOf(read).more, read.how # "rest"
    PROVE  /\ NextCursor(read, PageOf(read)) \in 0..MaxItem
           /\ read.how = "actors" /\ read.stage = "first" => NextCursor(read, PageOf(read)) = 0
           /\ read.how # "team" /\ ~(read.how = "actors" /\ read.stage = "first")
                => NextCursor(read, PageOf(read)) = Max(PageOf(read).items)
<1>1. read.after \in 0..MaxItem
    BY DEF TypeOK, Read
<1>2. PageOf(read) = ByCursor(read.after)
    BY DEF PageOf
<1>3. Max(PageOf(read).items) \in 0..MaxItem
    <2>1. Max(ByCursor(read.after).items) \in 1..MaxItem
        BY <1>1, <1>2, CursorPage
    <2> QED
        BY <1>2, <2>1, SizesAssumption
<1>4. 0 \in 0..MaxItem
    BY SizesAssumption
<1>5. CASE read.how = "actors" /\ read.stage = "first"
    BY <1>4, <1>5 DEF NextCursor, StartOver
<1>6. CASE read.how = "team" /\ read.stage = "more"
    BY <1>1, <1>6 DEF NextCursor, Given
<1>7. CASE ~(read.how = "actors" /\ read.stage = "first") /\ ~(read.how = "team" /\ read.stage = "more")
    BY <1>3, <1>7 DEF NextCursor
<1> QED
    BY <1>5, <1>6, <1>7

\* What a read is after a page of it has been answered.
LEMMA AnsweredFields ==
    ASSUME TypeOK
    PROVE  LET p == PageOf(read)  a == Answered(read)
           IN  /\ p.items \subseteq items
               /\ p.more \in BOOLEAN
               /\ a \in Read
               /\ a.how = read.how /\ a.stayed = read.stayed
               /\ a.added = read.added /\ a.removed = read.removed
               /\ a.began = read.began /\ a.expires = read.expires
               /\ a.got = read.got \cup p.items
               /\ a.twice <=> read.twice \/ p.items \cap read.got # {}
               /\ a.tries = 0
               /\ a.stage = IF p.more THEN "more" ELSE "done"
               /\ a.after = IF p.more /\ read.how # "rest" THEN NextCursor(read, p)
                                                           ELSE read.after
               /\ a.page = IF p.more THEN IF read.how = "rest" THEN read.page + 1 ELSE 2
                                     ELSE read.page
<1> DEFINE p == PageOf(read)
           s == [read EXCEPT !.got = read.got \cup p.items, !.tries = 0,
                             !.twice = read.twice \/ p.items \cap read.got # {}]
<1>1. p.items \subseteq items /\ p.more \in BOOLEAN
    <2>1. read.page \in Nat \ {0} /\ read.after \in 0..MaxItem
        BY DEF TypeOK, Read
    <2>2. CASE read.how = "rest"
        BY <2>1, <2>2, NumberPage DEF PageOf
    <2>3. CASE read.how # "rest"
        BY <2>1, <2>3, CursorPage DEF PageOf
    <2> QED
        BY <2>2, <2>3
<1>2. p = IF read.how = "rest" THEN ByNumber(read.page) ELSE ByCursor(read.after)
    BY DEF PageOf
<1>3. read \in Read /\ items \in SUBSET (1..MaxItem)
    BY DEF TypeOK
<1>4. Answered(read) = CASE ~p.more -> [s EXCEPT !.stage = "done"]
                         [] p.more /\ read.how = "rest" -> [s EXCEPT !.stage = "more",
                                                                    !.page = read.page + 1]
                         [] OTHER -> [s EXCEPT !.stage = "more", !.page = 2,
                                               !.after = NextCursor(read, p)]
    <2> HIDE DEF p
    <2> QED
        BY <1>2, <1>3 DEF Answered, Read
<1>5. p.more /\ read.how # "rest" => NextCursor(read, p) \in 0..MaxItem
    BY NextCursorType
<1> HIDE DEF p
<1>6. /\ s \in Read
      /\ s.how = read.how /\ s.stayed = read.stayed
      /\ s.added = read.added /\ s.removed = read.removed
      /\ s.began = read.began /\ s.expires = read.expires
      /\ s.got = read.got \cup p.items
      /\ s.tries = 0
      /\ s.after = read.after /\ s.page = read.page
    <2>1. read.got \cup p.items \in SUBSET (1..MaxItem)
        BY <1>1, <1>3 DEF Read
    <2>2. (read.twice \/ p.items \cap read.got # {}) \in BOOLEAN
        OBVIOUS
    <2>3. 0 \in 0..Attempts
        BY SizesAssumption
    <2> QED
        BY <1>3, <2>1, <2>2, <2>3 DEF Read
<1>7. s.twice <=> read.twice \/ p.items \cap read.got # {}
    BY <1>3 DEF Read
<1> HIDE DEF s
<1>8. CASE ~p.more
    <2>1. Answered(read) = [s EXCEPT !.stage = "done"]
        BY <1>4, <1>8
    <2> QED
        BY <1>1, <1>6, <1>7, <1>8, <2>1 DEF p, Read
<1>9. CASE p.more /\ read.how = "rest"
    <2>1. Answered(read) = [s EXCEPT !.stage = "more", !.page = read.page + 1]
        BY <1>4, <1>9
    <2>2. read.page + 1 \in Nat \ {0}
        BY <1>3 DEF Read
    <2> QED
        BY <1>1, <1>6, <1>7, <1>9, <2>1, <2>2 DEF p, Read
<1>10. CASE p.more /\ read.how # "rest"
    <2>1. Answered(read) = [s EXCEPT !.stage = "more", !.page = 2, !.after = NextCursor(read, p)]
        BY <1>4, <1>10
    <2>2. Answered(read) \in Read
        <3>1. PICK c \in 0..MaxItem : c = NextCursor(read, p)
            BY <1>5, <1>10
        <3>2. \A r \in Read, n \in Nat \ {0} :
                    [r EXCEPT !.stage = "more", !.page = n, !.after = c] \in Read
            BY DEF Read
        <3>3. 2 \in Nat \ {0}
            OBVIOUS
        <3>4. [s EXCEPT !.stage = "more", !.page = 2, !.after = c] \in Read
            BY <1>6, <3>2, <3>3
        <3> QED
            BY <2>1, <3>1, <3>4
    <2>3. /\ Answered(read).stage = "more"
          /\ Answered(read).page = 2
          /\ Answered(read).after = NextCursor(read, p)
          /\ Answered(read).twice = s.twice
        BY <1>6, <2>1 DEF Read
    <2> QED
        BY <1>1, <1>6, <1>7, <1>10, <2>1, <2>2, <2>3 DEF p, Read
<1> QED
    BY <1>8, <1>9, <1>10

-----------------------------------------------------------------------------
(* Every step preserves the invariant.                                     *)

LEMMA NoReadType == NoRead \in Read
<1>1. 1 \in Nat \ {0} /\ 0 \in 0..MaxItem /\ 0 \in 0..Attempts
    BY SizesAssumption
<1> QED
    BY <1>1 DEF NoRead, Read

LEMMA TypeStep ==
    ASSUME TypeOK, TokenInv, [Next]_vars
    PROVE  TypeOK'
<1> USE SizesAssumption, TimesAssumption, BoundsAssumption
<1>1. ASSUME NEW i \in 1..MaxItem, Add(i)
      PROVE  TypeOK'
    <2>1. items' \in SUBSET (1..MaxItem)
        BY <1>1 DEF Add, TypeOK
    <2>2. read' \in Read
        BY <1>1 DEF Add, TypeOK, Read
    <2>3. count' \in [reads : 0..MaxReads, changes : 0..MaxChanges, faults : 0..MaxFaults]
        BY <1>1 DEF Add, TypeOK
    <2> QED
        BY <1>1, <2>1, <2>2, <2>3 DEF Add, TypeOK
<1>2. ASSUME NEW i \in 1..MaxItem, Drop(i)
      PROVE  TypeOK'
    <2>1. items' \in SUBSET (1..MaxItem)
        BY <1>2 DEF Drop, TypeOK
    <2>2. read' \in Read
        <3>1. read.stayed \ {i} \in SUBSET (1..MaxItem)
            BY DEF TypeOK, Read
        <3>2. \A r \in Read, S \in SUBSET (1..MaxItem) :
                    [r EXCEPT !.removed = TRUE, !.stayed = S] \in Read
            BY DEF Read
        <3>3. read' = read \/ read' = [read EXCEPT !.removed = TRUE, !.stayed = read.stayed \ {i}]
            BY <1>2 DEF Drop, TypeOK, Read
        <3> QED
            BY <3>1, <3>2, <3>3 DEF TypeOK
    <2>3. count' \in [reads : 0..MaxReads, changes : 0..MaxChanges, faults : 0..MaxFaults]
        BY <1>2 DEF Drop, TypeOK
    <2> QED
        BY <1>2, <2>1, <2>2, <2>3 DEF Drop, TypeOK
<1>3. ASSUME NEW how \in Hows, Begin(how)
      PROVE  TypeOK'
    <2>1. cached' \in Nat
        BY <1>3 DEF Begin, TypeOK
    <2>2. read' \in Read
        <3>1. read' = [NoRead EXCEPT !.stage = "first", !.how = how, !.expires = cached',
                                     !.began = now, !.stayed = items]
            BY <1>3 DEF Begin
        <3>2. NoRead \in Read
            BY NoReadType
        <3>3. \A r \in Read, n \in Nat, t \in Nat, S \in SUBSET (1..MaxItem) :
                    [r EXCEPT !.stage = "first", !.how = how, !.expires = n,
                              !.began = t, !.stayed = S] \in Read
            BY DEF Read
        <3> QED
            BY <2>1, <3>1, <3>2, <3>3 DEF TypeOK
    <2>3. count' \in [reads : 0..MaxReads, changes : 0..MaxChanges, faults : 0..MaxFaults]
        BY <1>3 DEF Begin, TypeOK
    <2> QED
        BY <1>3, <2>1, <2>2, <2>3 DEF Begin, TypeOK
<1>4. CASE Tick
    BY <1>4 DEF Tick, TypeOK
<1>5. CASE Answer
    <2>1. read' \in Read
        <3>1. Answered(read) \in Read
            BY AnsweredFields
        <3>2. [read EXCEPT !.stage = "failed"] \in Read
            BY DEF TypeOK, Read
        <3> QED
            BY <1>5, <3>1, <3>2 DEF Answer
    <2> QED
        BY <1>5, <2>1 DEF Answer, TypeOK
<1>6. CASE Fault
    <2>1. read' \in Read
        <3>1. read.tries + 1 \in 0..Attempts
            BY <1>6 DEF Fault, TypeOK, Read, TokenInv
        <3>2. \A r \in Read, n \in 0..Attempts :
                    /\ [r EXCEPT !.tries = n, !.stage = "failed"] \in Read
                    /\ [r EXCEPT !.tries = n, !.stage = r.stage] \in Read
            BY DEF Read
        <3>3. \/ read' = [read EXCEPT !.tries = read.tries + 1, !.stage = "failed"]
              \/ read' = [read EXCEPT !.tries = read.tries + 1, !.stage = read.stage]
            BY <1>6 DEF Fault
        <3> QED
            BY <3>1, <3>2, <3>3 DEF TypeOK
    <2>2. count' \in [reads : 0..MaxReads, changes : 0..MaxChanges, faults : 0..MaxFaults]
        BY <1>6 DEF Fault, TypeOK
    <2> QED
        BY <1>6, <2>1, <2>2 DEF Fault, TypeOK
<1>7. CASE RateLimit
    <2>1. read' \in Read
        BY <1>7 DEF RateLimit, TypeOK, Read
    <2>2. count' \in [reads : 0..MaxReads, changes : 0..MaxChanges, faults : 0..MaxFaults]
        BY <1>7 DEF RateLimit, TypeOK
    <2> QED
        BY <1>7, <2>1, <2>2 DEF RateLimit, TypeOK
<1>8. CASE UNCHANGED vars
    BY <1>8 DEF vars, TypeOK
<1> QED
    BY <1>1, <1>2, <1>3, <1>4, <1>5, <1>6, <1>7, <1>8 DEF Next

\* A token is taken with the buffer to spare, or is new, and a read takes no longer.
LEMMA TokenStep ==
    ASSUME TypeOK, TokenInv, FailuresHaveACause, [Next]_vars
    PROVE  TokenInv' /\ FailuresHaveACause'
<1> USE SizesAssumption, TimesAssumption
<1>1. ASSUME NEW i \in 1..MaxItem, Add(i)
      PROVE  TokenInv' /\ FailuresHaveACause'
    BY <1>1 DEF Add, TypeOK, Read, TokenInv, FailuresHaveACause, Active
<1>2. ASSUME NEW i \in 1..MaxItem, Drop(i)
      PROVE  TokenInv' /\ FailuresHaveACause'
    BY <1>2 DEF Drop, TypeOK, Read, TokenInv, FailuresHaveACause, Active
<1>3. ASSUME NEW how \in Hows, Begin(how)
      PROVE  TokenInv' /\ FailuresHaveACause'
    <2>1. /\ read'.stage = "first" /\ read'.tries = 0 /\ read'.began = now
          /\ read'.expires = (IF IsUsable(cached) THEN cached ELSE now + Lifetime)
        BY <1>3 DEF Begin, NoRead
    <2>2. now' = now
        BY <1>3 DEF Begin
    <2>3. read'.expires > now + MaxDuration
        BY <2>1 DEF IsUsable, TypeOK
    <2> QED
        BY <2>1, <2>2, <2>3 DEF TokenInv, FailuresHaveACause, Active, TypeOK
<1>4. CASE Tick
    BY <1>4 DEF Tick, TypeOK, Read, TokenInv, FailuresHaveACause, Active
<1>5. CASE Answer
    <2>1. read' = Answered(read)
        BY <1>5 DEF Answer, Unauthorized, TypeOK, Read, TokenInv
    <2>2. /\ read'.tries = 0 /\ read'.began = read.began /\ read'.expires = read.expires
          /\ read'.stage \in {"more", "done"}
        BY <2>1, AnsweredFields
    <2>3. Active /\ now' = now
        BY <1>5 DEF Answer
    <2> QED
        BY <2>2, <2>3 DEF TokenInv, FailuresHaveACause, Active, TypeOK, Read
<1>6. CASE Fault
    <2>1. /\ read'.tries = read.tries + 1
          /\ read'.stage = IF read.tries + 1 >= Attempts THEN "failed" ELSE read.stage
          /\ read'.began = read.began /\ read'.expires = read.expires
          /\ now' = now /\ Active
        BY <1>6 DEF Fault, TypeOK, Read
    <2> QED
        BY <2>1 DEF TypeOK, Read, TokenInv, FailuresHaveACause, Active
<1>7. CASE RateLimit
    BY <1>7 DEF RateLimit, TypeOK, Read, TokenInv, FailuresHaveACause, Active
<1>8. CASE UNCHANGED vars
    BY <1>8 DEF vars, TokenInv, FailuresHaveACause, Active
<1> QED
    BY <1>1, <1>2, <1>3, <1>4, <1>5, <1>6, <1>7, <1>8 DEF Next

LEMMA StayedStep ==
    ASSUME TypeOK, StayedInv, [Next]_vars
    PROVE  StayedInv'
<1>1. ASSUME NEW i \in 1..MaxItem, Add(i)
      PROVE  StayedInv'
    BY <1>1 DEF Add, TypeOK, Read, StayedInv, Active
<1>2. ASSUME NEW i \in 1..MaxItem, Drop(i)
      PROVE  StayedInv'
    BY <1>2 DEF Drop, TypeOK, Read, StayedInv, Active
<1>3. ASSUME NEW how \in Hows, Begin(how)
      PROVE  StayedInv'
    BY <1>3 DEF Begin, NoRead, StayedInv
<1>4. CASE Answer
    BY <1>4, AnsweredFields DEF Answer, TypeOK, Read, StayedInv, Active
<1>5. CASE Tick
    BY <1>5 DEF Tick, StayedInv, Active
<1>6. CASE Fault
    BY <1>6 DEF Fault, TypeOK, Read, StayedInv, Active
<1>7. CASE RateLimit
    BY <1>7 DEF RateLimit, TypeOK, Read, StayedInv, Active
<1>8. CASE UNCHANGED vars
    BY <1>8 DEF vars, StayedInv, Active
<1> QED
    BY <1>1, <1>2, <1>3, <1>4, <1>5, <1>6, <1>7, <1>8 DEF Next

LEMMA PassedType ==
    ASSUME TypeOK
    PROVE  /\ Passed \in Nat
           /\ \A n \in Nat \ {0} : (n + 1 - 1) * PageSize = (n - 1) * PageSize + PageSize
<1>1. read.page - 1 \in Nat /\ PageSize \in Nat
    BY SizesAssumption DEF TypeOK, Read
<1>2. Passed \in Nat
    BY <1>1 DEF Passed
<1>3. ASSUME NEW n \in Nat \ {0}
      PROVE  (n + 1 - 1) * PageSize = (n - 1) * PageSize + PageSize
    <2>1. PICK m \in Nat : n = m + 1
        <3>1. n - 1 \in Nat /\ n = (n - 1) + 1
            OBVIOUS
        <3> QED
            BY <3>1
    <2>2. (m + 1) * PageSize = m * PageSize + PageSize
        BY <1>1
    <2>3. n + 1 - 1 = m + 1 /\ n - 1 = m
        BY <2>1
    <2> QED
        BY <2>2, <2>3
<1> QED
    BY <1>2, <1>3

\* What a page by number adds to what was read.
LEMMA NumberAnswer ==
    ASSUME TypeOK, StayedInv, RestInv, Active, read.how = "rest"
    PROVE  LET p == PageOf(read)
           IN  /\ ~read.removed => \A i \in read.stayed : Place(items, i) <= Passed + PageSize
                                        => i \in read.got \cup p.items
               /\ ~read.added => /\ ~read.twice
                                 /\ p.items \cap read.got = {}
                                 /\ \A i \in (read.got \cup p.items) \cap items :
                                        Place(items, i) <= Passed + PageSize
               /\ ~p.more => \A i \in items : Place(items, i) <= Passed + PageSize
<1> DEFINE p == PageOf(read)
<1>1. p = ByNumber(read.page) /\ read.page \in Nat \ {0}
    BY DEF PageOf, TypeOK, Read
<1>2. /\ p.items \subseteq items
      /\ \A i \in p.items : Place(items, i) > Passed /\ Place(items, i) <= Passed + PageSize
      /\ \A i \in items : Place(items, i) <= Passed + PageSize
                => Place(items, i) <= Passed \/ i \in p.items
      /\ ~p.more => \A i \in items : Place(items, i) <= Passed + PageSize
    <2> HIDE DEF p
    <2> QED
        BY <1>1, NumberPage DEF Passed
<1>3. Passed \in Nat /\ PageSize \in Nat
    BY PassedType, SizesAssumption
<1>4. \A i \in items : Place(items, i) \in Nat
    BY PlaceBound DEF TypeOK
<1>5. read.stayed \subseteq items
    BY DEF StayedInv
<1>6. RestMisses /\ RestRepeats
    BY DEF RestInv
<1> HIDE DEF p
<1>7. ASSUME ~read.removed, NEW i \in read.stayed, Place(items, i) <= Passed + PageSize
      PROVE  i \in read.got \cup p.items
    BY <1>2, <1>5, <1>6, <1>7 DEF RestMisses
<1>8. ASSUME ~read.added
      PROVE  /\ ~read.twice
             /\ p.items \cap read.got = {}
             /\ \A i \in (read.got \cup p.items) \cap items : Place(items, i) <= Passed + PageSize
    <2>1. ~read.twice /\ \A i \in read.got \cap items : Place(items, i) <= Passed
        BY <1>6, <1>8 DEF RestRepeats
    <2>2. ASSUME NEW i \in p.items, i \in read.got
          PROVE  FALSE
        BY <1>2, <1>3, <1>4, <2>1, <2>2
    <2>3. ASSUME NEW i \in read.got \cap items
          PROVE  Place(items, i) <= Passed + PageSize
        BY <1>3, <1>4, <2>1, <2>3
    <2> QED
        BY <1>2, <2>1, <2>2, <2>3
<1> QED
    BY <1>2, <1>7, <1>8 DEF p

LEMMA RestStep ==
    ASSUME TypeOK, TypeOK', StayedInv, RestInv, [Next]_vars
    PROVE  RestInv'
<1> SUFFICES ASSUME Active', read'.how = "rest"
             PROVE  RestMisses' /\ RestRepeats'
    BY DEF RestInv
<1>1. ASSUME NEW i \in 1..MaxItem, Add(i)
      PROVE  RestMisses' /\ RestRepeats'
    <2>1. /\ Active /\ read.how = "rest" /\ read'.added
          /\ read'.stayed = read.stayed /\ read'.got = read.got
          /\ read'.page = read.page /\ read'.removed = read.removed
        BY <1>1 DEF Add, Active, TypeOK, Read
    <2>2. RestMisses /\ read.stayed \subseteq items
        BY <2>1 DEF RestInv, StayedInv
    <2>3. ASSUME NEW j \in read.stayed
          PROVE  Place(items, j) <= Place(items', j)
        <3>1. items \subseteq items' /\ items' \in SUBSET (1..MaxItem) /\ items \in SUBSET (1..MaxItem)
            BY <1>1 DEF Add, TypeOK
        <3>2. j \in 1..MaxItem
            BY <2>2, <3>1
        <3>3. j <= j
            BY <3>2, SizesAssumption
        <3> QED
            BY <3>1, <3>2, <3>3, PlaceMonotone
    <2>4. \A j \in read.stayed : Place(items, j) \in Nat /\ Place(items', j) \in Nat
        BY PlaceBound DEF TypeOK
    <2>5. Passed' = Passed /\ Passed \in Nat
        BY <2>1, PassedType DEF Passed
    <2> QED
        BY <2>1, <2>2, <2>3, <2>4, <2>5 DEF RestMisses, RestRepeats
<1>2. ASSUME NEW i \in 1..MaxItem, Drop(i)
      PROVE  RestMisses' /\ RestRepeats'
    <2>1. /\ Active /\ read.how = "rest" /\ read'.removed
          /\ read'.got = read.got /\ read'.twice = read.twice
          /\ read'.page = read.page /\ read'.added = read.added
        BY <1>2 DEF Drop, Active, TypeOK, Read
    <2>2. RestRepeats
        BY <2>1 DEF RestInv
    <2>3. items' \subseteq items /\ items' \in SUBSET (1..MaxItem) /\ items \in SUBSET (1..MaxItem)
        BY <1>2 DEF Drop, TypeOK
    <2>4. ASSUME NEW j \in read.got \cap items'
          PROVE  Place(items', j) <= Place(items, j)
        <3>1. j \in 1..MaxItem
            BY <2>3
        <3>2. j <= j
            BY <3>1, SizesAssumption
        <3> QED
            BY <2>3, <3>1, <3>2, PlaceMonotone
    <2>5. \A j \in read.got : Place(items, j) \in Nat /\ Place(items', j) \in Nat
        BY PlaceBound DEF TypeOK
    <2>6. Passed' = Passed /\ Passed \in Nat
        BY <2>1, PassedType DEF Passed
    <2>7. ASSUME ~read.added
          PROVE  ~read.twice /\ \A j \in read.got \cap items' : Place(items', j) <= Passed
        <3>1. ~read.twice /\ \A j \in read.got \cap items : Place(items, j) <= Passed
            BY <2>2, <2>7 DEF RestRepeats
        <3>2. ASSUME NEW j \in read.got \cap items'
              PROVE  Place(items', j) <= Passed
            <4>1. Place(items, j) <= Passed
                BY <2>3, <3>1
            <4> QED
                BY <2>4, <2>5, <2>6, <4>1
        <3> QED
            BY <3>1, <3>2
    <2> QED
        BY <2>1, <2>6, <2>7 DEF RestMisses, RestRepeats
<1>3. ASSUME NEW how \in Hows, Begin(how)
      PROVE  RestMisses' /\ RestRepeats'
    <2>1. /\ read'.stayed = items /\ items' = items /\ read'.got = {}
          /\ ~read'.twice /\ read'.page = 1
        BY <1>3 DEF Begin, NoRead
    <2>2. Passed' = 0
        BY <2>1, SizesAssumption DEF Passed
    <2>3. \A i \in items : Place(items, i) \in Nat /\ Place(items, i) >= 1
        BY PlaceBound, PlacePositive DEF TypeOK
    <2>4. \A i \in items : ~(Place(items, i) <= 0)
        BY <2>3
    <2> QED
        BY <2>1, <2>2, <2>4 DEF RestMisses, RestRepeats
<1>4. CASE Answer
    <2> DEFINE p == PageOf(read)
    <2>1. Active /\ items' = items /\ read' = Answered(read)
        BY <1>4 DEF Answer, Active, TypeOK, Read
    <2>2. /\ read.how = "rest"
          /\ read'.stayed = read.stayed /\ read'.added = read.added
          /\ read'.removed = read.removed
          /\ read'.got = read.got \cup p.items
          /\ read'.twice <=> read.twice \/ p.items \cap read.got # {}
          /\ p.more
          /\ read'.page = read.page + 1
        BY <2>1, AnsweredFields DEF Active
    <2>3. Passed' = Passed + PageSize
        BY <2>2, PassedType DEF Passed, TypeOK, Read
    <2>4. /\ ~read.removed => \A i \in read.stayed : Place(items, i) <= Passed + PageSize
                                   => i \in read.got \cup p.items
          /\ ~read.added => /\ ~read.twice
                            /\ p.items \cap read.got = {}
                            /\ \A i \in (read.got \cup p.items) \cap items :
                                   Place(items, i) <= Passed + PageSize
        BY <2>1, <2>2, NumberAnswer
    <2> HIDE DEF p
    <2> QED
        BY <2>1, <2>2, <2>3, <2>4 DEF RestMisses, RestRepeats
<1>5. CASE Tick
    BY <1>5 DEF Tick, RestInv, RestMisses, RestRepeats, Passed, Active
<1>6. CASE Fault \/ RateLimit
    <2>1. /\ Active /\ items' = items /\ read.how = "rest"
          /\ read'.stayed = read.stayed /\ read'.added = read.added
          /\ read'.removed = read.removed /\ read'.got = read.got
          /\ read'.twice = read.twice /\ read'.page = read.page
        BY <1>6 DEF Fault, RateLimit, TypeOK, Read
    <2> QED
        BY <2>1 DEF RestInv, RestMisses, RestRepeats, Passed
<1>7. CASE UNCHANGED vars
    BY <1>7 DEF vars, RestInv, RestMisses, RestRepeats, Passed, Active
<1> QED
    BY <1>1, <1>2, <1>3, <1>4, <1>5, <1>6, <1>7 DEF Next

\* What a page by cursor adds to what was read.
LEMMA CursorAnswer ==
    ASSUME TypeOK, StayedInv, CursorInv, Active, read.how \notin {"rest", "team"}
    PROVE  LET p == PageOf(read)
           IN  /\ ~p.more => read.stayed \subseteq read.got \cup p.items
               /\ p.more => /\ Max(p.items) \in 1..MaxItem
                            /\ \A i \in read.stayed : i <= Max(p.items) => i \in read.got \cup p.items
               /\ \/ read.how = "actors" /\ read.page > 1
                  \/ /\ ~read.twice
                     /\ p.items \cap read.got = {}
                     /\ p.more => \A i \in read.got \cup p.items : i <= Max(p.items)
<1> DEFINE p == PageOf(read)
<1>1. p = ByCursor(read.after) /\ read.after \in 0..MaxItem
    BY DEF PageOf, TypeOK, Read
<1>2. /\ p.items \subseteq items
      /\ \A i \in p.items : i > read.after
      /\ ~p.more => \A i \in items : i > read.after => i \in p.items
      /\ p.more => /\ Max(p.items) \in 1..MaxItem
                   /\ Max(p.items) > read.after
                   /\ \A i \in p.items : i <= Max(p.items)
                   /\ \A i \in items : i > read.after /\ i <= Max(p.items) => i \in p.items
    <2> HIDE DEF p
    <2> QED
        BY <1>1, CursorPage
<1>3. \A i \in items : i \in 1..MaxItem
    BY DEF TypeOK
<1>4. read.stayed \subseteq items /\ read.got \subseteq 1..MaxItem
    BY DEF StayedInv, TypeOK, Read
<1>5. CursorMisses /\ CursorRepeats
    BY DEF CursorInv
<1> HIDE DEF p
<1>6. ASSUME NEW i \in read.stayed
      PROVE  i \in read.got \/ i > read.after
    <2>1. i \in 1..MaxItem
        BY <1>3, <1>4
    <2>2. i <= read.after => i \in read.got
        BY <1>5 DEF CursorMisses
    <2> QED
        BY <1>1, <2>1, <2>2, SizesAssumption
<1>7. ~p.more => read.stayed \subseteq read.got \cup p.items
    BY <1>2, <1>4, <1>6
<1>8. p.more => /\ Max(p.items) \in 1..MaxItem
                /\ \A i \in read.stayed : i <= Max(p.items) => i \in read.got \cup p.items
    BY <1>2, <1>4, <1>6
<1>9. ASSUME ~(read.how = "actors" /\ read.page > 1)
      PROVE  /\ ~read.twice
             /\ p.items \cap read.got = {}
             /\ p.more => \A i \in read.got \cup p.items : i <= Max(p.items)
    <2>1. ~read.twice /\ \A i \in read.got : i <= read.after
        BY <1>5, <1>9 DEF CursorRepeats
    <2>2. ASSUME NEW i \in p.items, i \in read.got
          PROVE  FALSE
        <3>1. i \in 1..MaxItem /\ i > read.after /\ i <= read.after
            BY <1>2, <1>3, <2>1, <2>2
        <3> QED
            BY <1>1, <3>1, SizesAssumption
    <2>3. ASSUME p.more, NEW i \in read.got
          PROVE  i <= Max(p.items)
        <3>1. i \in 1..MaxItem /\ i <= read.after /\ Max(p.items) > read.after
            BY <1>2, <1>4, <2>1, <2>3
        <3>2. Max(p.items) \in 1..MaxItem
            BY <1>2, <2>3
        <3> QED
            BY <1>1, <3>1, <3>2, SizesAssumption
    <2> QED
        BY <1>2, <2>1, <2>2, <2>3
<1> QED
    BY <1>7, <1>8, <1>9 DEF p

LEMMA CursorStep ==
    ASSUME TypeOK, TypeOK', StayedInv, CursorInv, [Next]_vars
    PROVE  CursorInv'
<1> SUFFICES ASSUME Active', read'.how \notin {"rest", "team"}
             PROVE  CursorMisses' /\ CursorRepeats'
    BY DEF CursorInv
<1>1. ASSUME NEW i \in 1..MaxItem, Add(i) \/ Drop(i)
      PROVE  CursorMisses' /\ CursorRepeats'
    <2>1. /\ Active /\ read'.how = read.how /\ read'.stayed \subseteq read.stayed
          /\ read'.got = read.got /\ read'.twice = read.twice
          /\ read'.page = read.page /\ read'.after = read.after
        <3>1. CASE Add(i)
            BY <3>1 DEF Add, Active, TypeOK, Read
        <3>2. CASE Drop(i)
            BY <3>2 DEF Drop, Active, TypeOK, Read
        <3> QED
            BY <1>1, <3>1, <3>2
    <2>2. CursorMisses /\ CursorRepeats
        BY <2>1 DEF CursorInv
    <2> QED
        BY <2>1, <2>2 DEF CursorMisses, CursorRepeats
<1>2. ASSUME NEW how \in Hows, Begin(how)
      PROVE  CursorMisses' /\ CursorRepeats'
    <2>1. /\ read'.stayed = items /\ read'.got = {} /\ ~read'.twice /\ read'.after = 0
        BY <1>2 DEF Begin, NoRead
    <2>2. \A j \in items : j \in 1..MaxItem
        BY DEF TypeOK
    <2>3. \A j \in items : ~(j <= 0)
        BY <2>2, SizesAssumption
    <2> QED
        BY <2>1, <2>3 DEF CursorMisses, CursorRepeats
<1>3. CASE Answer
    <2> DEFINE p == PageOf(read)
    <2>1. Active /\ read' = Answered(read)
        BY <1>3 DEF Answer, Active, TypeOK, Read
    <2>2. /\ read.how \notin {"rest", "team"}
          /\ read'.how = read.how
          /\ read'.stayed = read.stayed
          /\ read'.got = read.got \cup p.items
          /\ read'.twice <=> read.twice \/ p.items \cap read.got # {}
          /\ p.more
          /\ read'.page = 2
          /\ read'.after = NextCursor(read, p)
        BY <2>1, AnsweredFields DEF Active
    <2>3. /\ Max(p.items) \in 1..MaxItem
          /\ \A i \in read.stayed : i <= Max(p.items) => i \in read.got \cup p.items
          /\ \/ read.how = "actors" /\ read.page > 1
             \/ /\ ~read.twice
                /\ p.items \cap read.got = {}
                /\ \A i \in read.got \cup p.items : i <= Max(p.items)
        BY <2>1, <2>2, CursorAnswer
    <2>4. CASE read.how = "actors" /\ read.stage = "first"
        <3>1. read'.after = 0
            BY <2>2, <2>4, NextCursorType
        <3>2. \A i \in read'.stayed : i \in 1..MaxItem
            BY DEF TypeOK, Read
        <3>3. \A i \in read'.stayed : ~(i <= 0)
            BY <3>2, SizesAssumption
        <3> QED
            BY <2>2, <2>4, <3>1, <3>3 DEF CursorMisses, CursorRepeats
    <2>5. CASE ~(read.how = "actors" /\ read.stage = "first")
        <3>1. read'.after = Max(p.items)
            BY <2>2, <2>5, NextCursorType
        <3> HIDE DEF p
        <3>2. CursorMisses'
            BY <2>2, <2>3, <3>1 DEF CursorMisses
        <3>3. CASE read.how = "actors"
            <4>1. read'.how = "actors" /\ read'.page > 1
                BY <2>2, <3>3
            <4> QED
                BY <3>2, <4>1 DEF CursorRepeats
        <3>4. CASE read.how # "actors"
            <4>1. ~read'.twice /\ p.items \cap read.got = {}
                BY <2>2, <2>3, <3>4
            <4>2. \A i \in read'.got : i <= read'.after
                BY <2>2, <2>3, <3>1, <3>4
            <4> QED
                BY <3>2, <4>1, <4>2 DEF CursorRepeats
        <3> QED
            BY <3>3, <3>4
    <2> QED
        BY <2>4, <2>5
<1>4. CASE Tick
    BY <1>4 DEF Tick, CursorInv, CursorMisses, CursorRepeats, Active
<1>5. CASE Fault \/ RateLimit
    <2>1. /\ Active /\ read'.how = read.how
          /\ read'.stayed = read.stayed /\ read'.got = read.got /\ read'.after = read.after
          /\ read'.twice = read.twice /\ read'.page = read.page
        BY <1>5 DEF Fault, RateLimit, TypeOK, Read
    <2> QED
        BY <2>1 DEF CursorInv, CursorMisses, CursorRepeats
<1>6. CASE UNCHANGED vars
    BY <1>6 DEF vars, CursorInv, CursorMisses, CursorRepeats, Active
<1> QED
    BY <1>1, <1>2, <1>3, <1>4, <1>5, <1>6 DEF Next

LEMMA ExactStep ==
    ASSUME TypeOK, StayedInv, RestInv, CursorInv, ExactInv, [Next]_vars
    PROVE  ExactInv'
<1> SUFFICES ASSUME read'.stage = "done", read'.how # "team"
             PROVE  ReadsAreExact'
    BY DEF ExactInv, ReadsAreExact, Done
<1>1. CASE Answer
    <2> DEFINE p == PageOf(read)
    <2>1. Active /\ read' = Answered(read)
        BY <1>1 DEF Answer, TypeOK, Read
    <2>2. /\ p.items \subseteq items
          /\ ~p.more
          /\ read'.how = read.how
          /\ read'.stayed = read.stayed
          /\ read'.added = read.added
          /\ read'.removed = read.removed
          /\ read'.page = read.page
          /\ read'.got = read.got \cup p.items
          /\ read'.twice <=> read.twice \/ p.items \cap read.got # {}
        BY <2>1, AnsweredFields DEF Active
    <2>3. CASE read.how = "rest"
        <3>1. /\ ~read.removed => \A i \in read.stayed : Place(items, i) <= Passed + PageSize
                                       => i \in read.got \cup p.items
              /\ ~read.added => ~read.twice /\ p.items \cap read.got = {}
              /\ \A i \in items : Place(items, i) <= Passed + PageSize
            BY <2>1, <2>2, <2>3, NumberAnswer
        <3>2. read.stayed \subseteq items
            BY <2>1 DEF StayedInv
        <3> HIDE DEF p
        <3> QED
            BY <2>2, <2>3, <3>1, <3>2 DEF ReadsAreExact
    <2>4. CASE read.how # "rest"
        <3>1. /\ read.stayed \subseteq read.got \cup p.items
              /\ \/ read.how = "actors" /\ read.page > 1
                 \/ ~read.twice /\ p.items \cap read.got = {}
            BY <2>1, <2>2, <2>4, CursorAnswer
        <3> HIDE DEF p
        <3> QED
            BY <2>2, <3>1 DEF ReadsAreExact
    <2> QED
        BY <2>3, <2>4
<1>2. ASSUME NEW i \in 1..MaxItem, Add(i) \/ Drop(i)
      PROVE  ReadsAreExact'
    <2>1. read' = read
        BY <1>2 DEF Add, Drop, Active, TypeOK, Read
    <2> QED
        BY <2>1 DEF ExactInv, ReadsAreExact, Done
<1>3. ASSUME NEW how \in Hows, Begin(how)
      PROVE  FALSE
    BY <1>3 DEF Begin, NoRead
<1>4. CASE Fault
    BY <1>4 DEF Fault, Active, TypeOK, Read
<1>5. CASE RateLimit
    BY <1>5 DEF RateLimit, TypeOK, Read
<1>6. CASE Tick \/ UNCHANGED vars
    BY <1>6 DEF Tick, vars, ExactInv, ReadsAreExact, Done
<1> QED
    BY <1>1, <1>2, <1>3, <1>4, <1>5, <1>6 DEF Next

-----------------------------------------------------------------------------
(* The theorems.                                                           *)

LEMMA Initially == Init => IInv
<1> SUFFICES ASSUME Init
             PROVE  IInv
    OBVIOUS
<1>1. ~Active /\ read.stage = "idle"
    BY DEF Init, NoRead, Active
<1>2. TypeOK
    BY NoReadType, BoundsAssumption DEF Init, TypeOK
<1> QED
    BY <1>1, <1>2 DEF IInv, TokenInv, StayedInv, RestInv, CursorInv, ExactInv, ReadsAreExact, Done,
                      FailuresHaveACause

\* The invariant holds of every state of a behaviour.
THEOREM Invariance == Spec => []IInv
<1>1. IInv /\ [Next]_vars => IInv'
    <2> SUFFICES ASSUME IInv, [Next]_vars
                 PROVE  IInv'
        OBVIOUS
    <2>1. TypeOK'
        BY TypeStep DEF IInv
    <2>2. TokenInv' /\ FailuresHaveACause'
        BY TokenStep DEF IInv
    <2>3. StayedInv'
        BY StayedStep DEF IInv
    <2>4. RestInv'
        BY <2>1, RestStep DEF IInv
    <2>5. CursorInv'
        BY <2>1, CursorStep DEF IInv
    <2>6. ExactInv'
        BY ExactStep DEF IInv
    <2> QED
        BY <2>1, <2>2, <2>3, <2>4, <2>5, <2>6 DEF IInv
<1> QED
    BY Initially, <1>1, PTL DEF Spec

\* A list is read as it was: nothing that stayed in it is missed, and nothing is read
\* twice, whatever others add and remove meanwhile, except as far as ReadsAreExact says.
\* Only the repositories of a team are read otherwise, see Given.
THEOREM ReadsExact ==
    ASSUME "team" \notin Hows
    PROVE  Spec => []ReadsAreExact
<1>1. IInv => ReadsAreExact
    BY DEF IInv, TypeOK, Read, ExactInv, ReadsAreExact, Done
<1> QED
    BY <1>1, Invariance, PTL

\* No read fails because its token has expired, as long as reads take no longer than the
\* buffer that is kept when a token is taken from the cache.
THEOREM FailuresCaused == Spec => []FailuresHaveACause
<1>1. IInv => FailuresHaveACause
    BY DEF IInv
<1> QED
    BY <1>1, Invariance, PTL

-----------------------------------------------------------------------------
(* Tasks of the app are a bag; what matters is which tasks are in it.       *)

LEMMA WithFacts ==
    ASSUME NEW b, IsABag(b), NEW t
    PROVE  IsABag(With(b, t)) /\ BagToSet(With(b, t)) = BagToSet(b) \cup {t}
<1>1. /\ DOMAIN With(b, t) = DOMAIN b \cup {t}
      /\ \A u \in DOMAIN b \cup {t} :
             With(b, t)[u] = (IF u \in DOMAIN b THEN b[u] ELSE 0) + (IF u \in {t} THEN 1 ELSE 0)
    BY DEF With, SetToBag, (+)
<1>2. \A u \in DOMAIN b : b[u] \in Nat /\ b[u] > 0
    BY DEF IsABag
<1>3. \A u \in DOMAIN b \cup {t} : With(b, t)[u] \in {n \in Nat : n > 0}
    BY <1>1, <1>2
<1>4. With(b, t) = [u \in DOMAIN With(b, t) |-> With(b, t)[u]]
    BY DEF With, (+)
<1>5. With(b, t) \in [DOMAIN With(b, t) -> {n \in Nat : n > 0}]
    BY <1>1, <1>3, <1>4, Zenon
<1> QED
    BY <1>1, <1>5 DEF IsABag, BagToSet

LEMMA WithAllFacts ==
    ASSUME NEW b, IsABag(b), NEW ts
    PROVE  IsABag(WithAll(b, ts)) /\ BagToSet(WithAll(b, ts)) = BagToSet(b) \cup ts
<1>1. /\ DOMAIN WithAll(b, ts) = DOMAIN b \cup ts
      /\ \A u \in DOMAIN b \cup ts :
             WithAll(b, ts)[u] = (IF u \in DOMAIN b THEN b[u] ELSE 0) + (IF u \in ts THEN 1 ELSE 0)
    BY DEF WithAll, SetToBag, (+)
<1>2. \A u \in DOMAIN b : b[u] \in Nat /\ b[u] > 0
    BY DEF IsABag
<1>3. \A u \in DOMAIN b \cup ts : WithAll(b, ts)[u] \in {n \in Nat : n > 0}
    BY <1>1, <1>2
<1>4. WithAll(b, ts) = [u \in DOMAIN WithAll(b, ts) |-> WithAll(b, ts)[u]]
    BY DEF WithAll, (+)
<1>5. WithAll(b, ts) \in [DOMAIN WithAll(b, ts) -> {n \in Nat : n > 0}]
    BY <1>1, <1>3, <1>4, Zenon
<1> QED
    BY <1>1, <1>5 DEF IsABag, BagToSet

\* A task that ends may be there once more.
LEMMA WithoutFacts ==
    ASSUME NEW b, IsABag(b), NEW t
    PROVE  /\ IsABag(Without(b, t))
           /\ BagToSet(Without(b, t)) \subseteq BagToSet(b)
           /\ BagToSet(b) \ {t} \subseteq BagToSet(Without(b, t))
<1> DEFINE left == [e \in DOMAIN b |-> IF e \in {t} THEN b[e] - 1 ELSE b[e]]
<1>1. Without(b, t) = [e \in {d \in DOMAIN b : left[d] > 0} |-> left[e]]
    BY DEF Without, SetToBag, (-)
<1>2. \A u \in DOMAIN b : b[u] \in Nat /\ b[u] > 0
    BY DEF IsABag
<1>3. \A u \in DOMAIN b : left[u] \in Nat /\ (u # t => left[u] > 0)
    BY <1>2
<1>4. DOMAIN Without(b, t) = {d \in DOMAIN b : left[d] > 0}
    BY <1>1
<1>5. \A u \in DOMAIN Without(b, t) : Without(b, t)[u] \in {n \in Nat : n > 0}
    BY <1>1, <1>3, <1>4
<1>6. Without(b, t) \in [DOMAIN Without(b, t) -> {n \in Nat : n > 0}]
    <2> HIDE DEF left
    <2>1. Without(b, t) = [u \in DOMAIN Without(b, t) |-> Without(b, t)[u]]
        BY <1>1
    <2> QED
        BY <1>5, <2>1, Zenon
<1> QED
    BY <1>3, <1>4, <1>6 DEF IsABag, BagToSet

\* The only task there is goes on, or ends.
Only(t) == tasks = SetToBag({t})

LEMMA EmptyFacts ==
    /\ IsABag(EmptyBag) /\ BagToSet(EmptyBag) = {}
    /\ \A b : IsABag(b) /\ BagToSet(b) = {} => b = EmptyBag
<1>1. IsABag(EmptyBag) /\ BagToSet(EmptyBag) = {}
    BY DEF EmptyBag, SetToBag, IsABag, BagToSet
<1>2. ASSUME NEW b, IsABag(b), BagToSet(b) = {}
      PROVE  b = EmptyBag
    <2>1. b = [e \in DOMAIN b |-> b[e]]
        BY <1>2 DEF IsABag
    <2>2. b = [e \in {} |-> b[e]]
        BY <1>2, <2>1 DEF BagToSet
    <2> QED
        BY <2>2 DEF EmptyBag, SetToBag
<1> QED
    BY <1>1, <1>2

LEMMA OnlyFacts ==
    ASSUME NEW t
    PROVE  /\ IsABag(SetToBag({t})) /\ BagToSet(SetToBag({t})) = {t}
           /\ With(EmptyBag, t) = SetToBag({t})
           /\ Without(SetToBag({t}), t) = EmptyBag
           /\ \A u : With(Without(SetToBag({t}), t), u) = SetToBag({u})
<1>1. IsABag(SetToBag({t})) /\ BagToSet(SetToBag({t})) = {t}
    BY DEF SetToBag, IsABag, BagToSet
<1>2. \A u : With(EmptyBag, u) = SetToBag({u})
    <2> TAKE u
    <2>1. With(EmptyBag, u) = [e \in {} \cup {u} |-> (IF e \in {} THEN EmptyBag[e] ELSE 0) + (IF e \in {u} THEN 1 ELSE 0)]
        BY DEF With, EmptyBag, SetToBag, (+)
    <2>2. \A e \in {} \cup {u} : (IF e \in {} THEN EmptyBag[e] ELSE 0) + (IF e \in {u} THEN 1 ELSE 0) = 1
        OBVIOUS
    <2>3. {} \cup {u} = {u}
        OBVIOUS
    <2> QED
        BY <2>1, <2>2, <2>3 DEF SetToBag
<1>3. Without(SetToBag({t}), t) = EmptyBag
    <2>1. BagToSet(Without(SetToBag({t}), t)) = {}
        BY DEF Without, SetToBag, (-), BagToSet
    <2> QED
        BY <1>1, <2>1, EmptyFacts, WithoutFacts
<1> QED
    BY <1>1, <1>2, <1>3

-----------------------------------------------------------------------------
(* Recursion over 0 .. n.                                                  *)

\* What holds at the beginning, and of each step when it held before it, holds of all.
LEMMA Steps ==
    ASSUME NEW S, NEW n \in Nat, NEW f, f[0] \in S,
           \A i \in 1..n : f[i - 1] \in S => f[i] \in S
    PROVE  \A i \in 0..n : f[i] \in S
<1> DEFINE Bad == {k \in 0..n : f[k] \notin S}
<1>1. SUFFICES ASSUME Bad # {}
               PROVE  FALSE
    OBVIOUS
<1>2. Bad \in SUBSET Nat
    OBVIOUS
<1>3. PICK k \in Bad : \A j \in Bad : k <= j
    <2> HIDE DEF Bad
    <2> QED
        BY <1>1, <1>2, LeastNumber
<1>4. k \in 1..n /\ k - 1 \in 0..n /\ ~(k <= k - 1)
    OBVIOUS
<1>5. k - 1 \notin Bad
    <2> HIDE DEF Bad
    <2> QED
        BY <1>3, <1>4
<1>6. f[k - 1] \in S
    BY <1>4, <1>5
<1> QED
    BY <1>4, <1>6

\* The values of a recursion that begins with base and goes on with step.
IsFolded(g, n, base0, step) == g[0] = base0 /\ \A i \in 1..n : g[i] = step[<<g[i - 1], i>>]

\* A recursion has a solution.
LEMMA Folding ==
    ASSUME NEW S, NEW n \in Nat, NEW base0 \in S, NEW step \in [S \X (1..n) -> S]
    PROVE  \E g \in [0..n -> S] : IsFolded(g, n, base0, step)
<1> DEFINE Bad == {k \in 0..n : ~ \E g \in [0..k -> S] : IsFolded(g, k, base0, step)}
<1>1. SUFFICES ASSUME Bad # {}
               PROVE  FALSE
    <2>1. n \in 0..n
        OBVIOUS
    <2> QED
        BY <2>1
<1>2. Bad \in SUBSET Nat
    OBVIOUS
<1>3. PICK k \in Bad : \A j \in Bad : k <= j
    <2> HIDE DEF Bad
    <2> QED
        BY <1>1, <1>2, LeastNumber
<1>4. k \in 0..n
    OBVIOUS
<1>5. CASE k = 0
    <2> DEFINE g == [i \in 0..0 |-> base0]
    <2>1. g \in [0..0 -> S]
        OBVIOUS
    <2>2. IsFolded(g, 0, base0, step)
        BY DEF IsFolded
    <2> QED
        BY <1>5, <2>1, <2>2
<1>6. CASE k # 0
    <2>1. k - 1 \in 0..n /\ k \in 1..n /\ ~(k <= k - 1)
        BY <1>4, <1>6
    <2>2. k - 1 \notin Bad
        <3> HIDE DEF Bad
        <3> QED
            BY <1>3, <2>1
    <2>3. PICK g \in [0..k - 1 -> S] : IsFolded(g, k - 1, base0, step)
        BY <2>1, <2>2
    <2> DEFINE next == step[<<g[k - 1], k>>]
               h == [i \in 0..k |-> IF i = k THEN next ELSE g[i]]
    <2>4. k - 1 \in 0..k - 1 /\ g[k - 1] \in S
        BY <2>1
    <2>5. next \in S
        BY <2>1, <2>4
    <2>6. \A i \in 0..k : i # k => i \in 0..k - 1
        BY <1>4
    <2>7. h \in [0..k -> S]
        <3> HIDE DEF next
        <3> QED
            BY <2>5, <2>6
    <2>8. h[0] = base0
        <3>1. 0 \in 0..k /\ 0 # k
            BY <1>4, <1>6
        <3> QED
            BY <2>3, <3>1 DEF IsFolded
    <2>9. ASSUME NEW i \in 1..k
          PROVE  h[i] = step[<<h[i - 1], i>>]
        <3>1. CASE i = k
            <4>1. k \in 0..k /\ k - 1 \in 0..k /\ k - 1 # k
                BY <2>1
            <4>2. h[k] = next /\ h[k - 1] = g[k - 1]
                BY <4>1
            <4> HIDE DEF h
            <4> QED
                BY <3>1, <4>2
        <3>2. CASE i # k
            <4>1. /\ i \in 0..k /\ i \in 1..k - 1
                  /\ i - 1 \in 0..k /\ i - 1 # k
                BY <1>4, <3>2
            <4>2. h[i] = g[i] /\ h[i - 1] = g[i - 1]
                BY <3>2, <4>1
            <4> HIDE DEF h
            <4> QED
                BY <2>3, <4>1, <4>2 DEF IsFolded
        <3> QED
            BY <3>1, <3>2
    <2>10. IsFolded(h, k, base0, step)
        <3> HIDE DEF h
        <3> QED
            BY <2>8, <2>9 DEF IsFolded
    <2> QED
        BY <2>7, <2>10
<1> QED
    BY <1>5, <1>6

LEMMA Induction ==
    ASSUME NEW n \in Nat, NEW T, 0 \in T, \A i \in 1..n : i - 1 \in T => i \in T
    PROVE  \A i \in 0..n : i \in T
<1>1. PICK f : f = [i \in 0..n |-> i]
    OBVIOUS
<1>2. f[0] \in T
    BY <1>1
<1>3. \A i \in 1..n : f[i - 1] \in T => f[i] \in T
    <2>1. \A i \in 1..n : i \in 0..n /\ i - 1 \in 0..n
        OBVIOUS
    <2> QED
        BY <1>1, <2>1
<1>4. \A i \in 0..n : f[i] \in T
    BY <1>2, <1>3, Steps
<1> QED
    BY <1>1, <1>4

-----------------------------------------------------------------------------
(* What the database and GitHub have.                                      *)

AllEntries == UNION {Entries(r) : r \in Registries}
Projects == {e.project : e \in AllEntries}
Templates == {e.template : e \in AllEntries}
States == {"absent", "installed", "suspended"}

\* An installation has an id as long as the app is installed, and a new one each time.
Docs == {d \in [project : Projects, template : Templates, id : Nat, status : States] :
             d.id = 0 <=> d.status = "absent"}
Accounts == {g \in [state : States, id : Nat, head : Nat] : g.id = 0 <=> g.state = "absent"}
Fetched == [project : Projects \cup {"any"}, template : Templates \cup {"any"},
            version : Nat, head : Nat]

LEMMA SomeAreNotNone ==
    /\ \A d \in Docs : d # None
    /\ \A d \in Fetched : d # None
    /\ \A g \in Accounts : g # None
<1>1. DOMAIN None = {"none"}
    BY DEF None
<1>2. \A d \in Docs : DOMAIN d = {"project", "template", "id", "status"}
    BY DEF Docs
<1>3. \A d \in Fetched : DOMAIN d = {"project", "template", "version", "head"}
    BY DEF Fetched
<1>4. \A g \in Accounts : DOMAIN g = {"state", "id", "head"}
    BY DEF Accounts
<1> QED
    BY <1>1, <1>2, <1>3, <1>4

LEMMA RegistryFacts ==
    ASSUME NEW r \in Registries
    PROVE  /\ Len(r) \in Nat /\ DOMAIN r = 1..Len(r)
           /\ \A i \in 1..Len(r) :
                  /\ r[i].org \in Orgs /\ r[i].project \in Projects /\ r[i].template \in Templates
                  /\ r[i] \in Entries(r)
           /\ \A i, j \in 1..Len(r) :
                  i # j => r[i].org # r[j].org /\ r[i].project # r[j].project
           /\ \A o : Registered(o, r) <=> \E i \in 1..Len(r) : r[i].org = o
           /\ \A i \in 1..Len(r) : EntryOf(r[i].org, r) = r[i]
<1>1. r \in Seq(Entries(r))
    BY RegistriesAssumption
<1>2. Len(r) \in Nat /\ DOMAIN r = 1..Len(r)
    BY <1>1, LenProperties
<1>3. \A i \in 1..Len(r) : r[i] \in Entries(r)
    BY <1>2 DEF Entries
<1>4. \A e \in Entries(r) : e.project \in Projects /\ e.template \in Templates
    BY DEF Projects, Templates, AllEntries
<1>5. \A e \in Entries(r) : \E i \in 1..Len(r) : e = r[i]
    BY <1>2 DEF Entries
<1>6. \A i, j \in 1..Len(r) :
          /\ r[i].org \in Orgs
          /\ i # j => r[i].org # r[j].org /\ r[i].project # r[j].project
    BY <1>2, RegistriesAssumption
<1>7. ASSUME NEW i \in 1..Len(r)
      PROVE  EntryOf(r[i].org, r) = r[i]
    <2>1. \A e \in Entries(r) : e.org = r[i].org => e = r[i]
        BY <1>5, <1>6
    <2> QED
        BY <1>3, <2>1 DEF EntryOf
<1>8. \A o : Registered(o, r) <=> \E i \in 1..Len(r) : r[i].org = o
    BY <1>3, <1>5 DEF Registered
<1> QED
    BY <1>2, <1>3, <1>4, <1>6, <1>7, <1>8

-----------------------------------------------------------------------------
(* What an update from the registry makes of the documents.                *)

DocsOrNone == Docs \cup {None}
Unique(docs) ==
    \A o, p \in Orgs : o # p /\ docs[o] # None /\ docs[p] # None => docs[o].project # docs[p].project

\* A document is new, or what it says of the installation it said before.
Stems(d, before) ==
    \/ d.id = 0 /\ d.status = "absent"
    \/ before # None /\ d.id = before.id /\ d.status = before.status

UpdateStates == [docs : [Orgs -> DocsOrNone], force : SUBSET Projects, ok : BOOLEAN]

Says(d, e) == d # None /\ d.project = e.project /\ d.template = e.template

\* After i entries: the documents of those say what they say, and what is different from
\* before is fetched again.
Updated(s, registry, i) ==
    /\ s \in UpdateStates
    /\ Unique(s.docs)
    /\ \A o \in Orgs : s.docs[o] # None => Stems(s.docs[o], doc[o])
    /\ s.ok => \A j \in 1..i : Says(s.docs[registry[j].org], registry[j])
    /\ s.ok => \A o \in Orgs :
           s.docs[o] # None => s.docs[o] = doc[o] \/ s.docs[o].project \in s.force

LEMMA EnteredFacts ==
    ASSUME NEW registry \in Registries, NEW i \in 1..Len(registry),
           NEW s, Updated(s, registry, i - 1)
    PROVE  Updated(Entered(s, registry[i]), registry, i)
<1> DEFINE e == registry[i]
           holders == {o \in Orgs \ {e.org} : s.docs[o] # None /\ s.docs[o].project = e.project}
           d == s.docs[e.org]
<1>1. /\ s.docs \in [Orgs -> DocsOrNone] /\ s.force \in SUBSET Projects /\ s.ok \in BOOLEAN
      /\ s = [docs |-> s.docs, force |-> s.force, ok |-> s.ok]
      /\ Unique(s.docs)
      /\ \A o \in Orgs : s.docs[o] # None => Stems(s.docs[o], doc[o])
    BY DEF Updated, UpdateStates
<1>2. /\ e.org \in Orgs /\ e.project \in Projects /\ e.template \in Templates
      /\ \A j \in 1..i - 1 : j \in 1..Len(registry) /\ j # i
      /\ \A j \in 1..i - 1 : registry[j].org # e.org /\ registry[j].project # e.project
                             /\ registry[j].org \in Orgs
      /\ \A j \in 1..i : j = i \/ j \in 1..i - 1
    BY RegistryFacts
<1>3. s.ok => /\ \A j \in 1..i - 1 : Says(s.docs[registry[j].org], registry[j])
              /\ \A o \in Orgs : s.docs[o] # None => s.docs[o] = doc[o] \/ s.docs[o].project \in s.force
    BY DEF Updated
<1> HIDE DEF e
<1>4. CASE ~s.ok
    <2>1. Entered(s, e) = s
        BY <1>4 DEF Entered
    <2> QED
        BY <1>1, <1>4, <2>1 DEF Updated, e, UpdateStates
<1>5. CASE s.ok /\ d = None
    <2> DEFINE docs == [o \in Orgs |-> IF o \in holders THEN None
                                       ELSE IF o = e.org THEN New(e) ELSE s.docs[o]]
               t == [docs |-> docs, force |-> s.force \cup {e.project}, ok |-> TRUE]
    <2>1. Entered(s, e) = t
        BY <1>1, <1>5 DEF Entered
    <2>2. New(e) \in Docs /\ New(e) # None /\ New(e).project = e.project
          /\ New(e).template = e.template /\ New(e).id = 0 /\ New(e).status = "absent"
        BY <1>2, SomeAreNotNone DEF New, Docs, States
    <2> HIDE DEF d
    <2>3. docs \in [Orgs -> DocsOrNone]
        BY <1>1, <2>2 DEF DocsOrNone
    <2>4. /\ e.org \notin holders /\ docs[e.org] = New(e)
          /\ \A o \in Orgs \ {e.org} : docs[o] = IF o \in holders THEN None ELSE s.docs[o]
        BY <1>2
    <2>5. \A o \in Orgs \ {e.org} : docs[o] # None => docs[o] = s.docs[o] /\ docs[o].project # e.project
        BY <2>4
    <2>6. \A j \in 1..i - 1 : docs[registry[j].org] = s.docs[registry[j].org]
        BY <1>2, <1>3, <1>5, <2>4 DEF Says
    <2>7. docs[registry[i].org] = New(e) /\ registry[i] = e
        BY <2>4 DEF e
    <2> HIDE DEF docs
    <2>8. Unique(docs)
        BY <1>1, <2>2, <2>4, <2>5 DEF Unique
    <2>9. \A o \in Orgs : docs[o] # None => Stems(docs[o], doc[o])
        BY <1>1, <2>2, <2>4, <2>5 DEF Stems
    <2>10. \A j \in 1..i : Says(docs[registry[j].org], registry[j])
        BY <1>2, <1>3, <1>5, <2>2, <2>6, <2>7 DEF Says
    <2>11. \A o \in Orgs : docs[o] # None => docs[o] = doc[o] \/ docs[o].project \in t.force
        BY <1>3, <1>5, <2>2, <2>4, <2>5
    <2>12. t \in UpdateStates
        BY <1>1, <1>2, <2>3 DEF UpdateStates
    <2>13. t.docs = docs /\ t.ok
        OBVIOUS
    <2> HIDE DEF t
    <2>14. Updated(t, registry, i)
        BY <2>8, <2>9, <2>10, <2>11, <2>12, <2>13 DEF Updated
    <2> QED
        BY <2>1, <2>14 DEF e
<1>6. CASE s.ok /\ d # None /\ holders # {}
    <2>1. Entered(s, e) = [docs |-> s.docs, force |-> s.force, ok |-> FALSE]
        BY <1>1, <1>6 DEF Entered
    <2> QED
        BY <1>1, <2>1 DEF Updated, UpdateStates, e
<1>7. CASE s.ok /\ d # None /\ holders = {}
    <2> DEFINE new == [d EXCEPT !.project = e.project, !.template = e.template]
               docs == [s.docs EXCEPT ![e.org] = new]
               force == s.force \cup (IF HasChanged(d, e) THEN {e.project} ELSE {})
               t == [docs |-> docs, force |-> force, ok |-> TRUE]
    <2>1. Entered(s, e) = t
        BY <1>1, <1>7 DEF Entered
    <2>2. d \in Docs
        BY <1>1, <1>2, <1>7 DEF DocsOrNone
    <2>3. new \in Docs /\ new # None /\ new.project = e.project /\ new.template = e.template
          /\ new.id = d.id /\ new.status = d.status
        <3>1. new \in Docs /\ new.project = e.project /\ new.template = e.template
              /\ new.id = d.id /\ new.status = d.status
            BY <1>2, <2>2 DEF Docs
        <3> QED
            BY <3>1, SomeAreNotNone
    <2>4. ~HasChanged(d, e) => new = d
        BY <2>2 DEF HasChanged, Docs
    <2>5. docs[e.org] = new /\ \A o \in Orgs \ {e.org} : docs[o] = s.docs[o]
        BY <1>1, <1>2
    <2>6. docs \in [Orgs -> DocsOrNone]
        BY <1>1, <2>3 DEF DocsOrNone
    <2>7. \A o \in Orgs \ {e.org} : docs[o] # None => docs[o].project # e.project
        BY <1>7, <2>5
    <2>8. registry[i] = e /\ Stems(new, doc[e.org])
        BY <1>1, <1>2, <1>7, <2>3 DEF e, Stems
    <2>9. force \in SUBSET Projects /\ s.force \subseteq force
        BY <1>1, <1>2
    <2>10. new = doc[e.org] \/ new.project \in force
        <3>1. d = doc[e.org] \/ d.project \in s.force
            BY <1>2, <1>3, <1>7
        <3>2. HasChanged(d, e) => e.project \in force
            OBVIOUS
        <3> HIDE DEF d, new, force
        <3> QED
            BY <2>3, <2>4, <2>9, <3>1, <3>2
    <2> HIDE DEF new, docs, force, d
    <2>11. Unique(docs)
        BY <1>1, <2>3, <2>5, <2>7 DEF Unique
    <2>12. \A o \in Orgs : docs[o] # None => Stems(docs[o], doc[o])
        BY <1>1, <2>5, <2>8
    <2>13. \A j \in 1..i : Says(docs[registry[j].org], registry[j])
        BY <1>2, <1>3, <1>7, <2>3, <2>5, <2>8 DEF Says
    <2>14. \A o \in Orgs : docs[o] # None => docs[o] = doc[o] \/ docs[o].project \in force
        BY <1>3, <1>7, <2>5, <2>9, <2>10
    <2>15. t \in UpdateStates /\ t.docs = docs /\ t.force = force /\ t.ok
        BY <2>6, <2>9 DEF UpdateStates
    <2> HIDE DEF t
    <2>16. Updated(t, registry, i)
        BY <2>11, <2>12, <2>13, <2>14, <2>15 DEF Updated
    <2> QED
        BY <2>1, <2>16 DEF e
<1> QED
    BY <1>1, <1>4, <1>5, <1>6, <1>7 DEF e

\* The whole update, for documents of which no two have the same project.
LEMMA UpdateFacts ==
    ASSUME NEW registry \in Registries, doc \in [Orgs -> DocsOrNone], Unique(doc)
    PROVE  Updated(Update(registry), registry, Len(registry))
<1> DEFINE n == Len(registry)
           first == [docs |-> doc, force |-> {}, ok |-> TRUE]
           after == CHOOSE a : a = [i \in 0..n |-> IF i = 0 THEN first
                                                   ELSE Entered(a[i - 1], registry[i])]
<1>1. n \in Nat
    BY RegistryFacts
<1>2. first \in UpdateStates /\ Updated(first, registry, 0)
    BY DEF Updated, UpdateStates, Stems, DocsOrNone
<1> DEFINE step == [x \in UpdateStates \X (1..n) |->
                        IF Updated(x[1], registry, x[2] - 1) THEN Entered(x[1], registry[x[2]])
                                                            ELSE first]
<1>3. \A s \in UpdateStates, i \in 1..n :
          Updated(s, registry, i - 1) => Updated(Entered(s, registry[i]), registry, i)
    BY EnteredFacts
<1>4. step \in [UpdateStates \X (1..n) -> UpdateStates]
    <2> HIDE DEF first, n
    <2> QED
        BY <1>2, <1>3 DEF Updated
<1>5. PICK g \in [0..n -> UpdateStates] : IsFolded(g, n, first, step)
    <2> HIDE DEF n, first, step
    <2> QED
        BY <1>1, <1>2, <1>4, Folding
<1>6. g[0] = first /\ \A i \in 1..n : g[i] = step[<<g[i - 1], i>>]
    BY <1>5 DEF IsFolded
<1>7. \A i \in 1..n : g[i - 1] \in UpdateStates /\ i - 1 \in 0..n
    BY <1>1, <1>5
<1>8. \A i \in 1..n : Updated(g[i - 1], registry, i - 1) =>
          g[i] = Entered(g[i - 1], registry[i]) /\ Updated(g[i], registry, i)
    <2> TAKE i \in 1..n
    <2>1. g[i] = step[<<g[i - 1], i>>] /\ <<g[i - 1], i>> \in UpdateStates \X (1..n)
        BY <1>6, <1>7
    <2>2. Updated(g[i - 1], registry, i - 1) => g[i] = Entered(g[i - 1], registry[i])
        <3> HIDE DEF n, first
        <3> QED
            BY <2>1
    <2> QED
        BY <1>3, <1>7, <2>2
<1>9. \A i \in 0..n : Updated(g[i], registry, i)
    <2> DEFINE I == {i \in 0..n : Updated(g[i], registry, i)}
    <2>1. 0 \in I
        <3> HIDE DEF n, first
        <3> QED
            BY <1>1, <1>2, <1>6
    <2>2. \A i \in 1..n : i - 1 \in I => i \in I
        <3> HIDE DEF n
        <3> QED
            BY <1>8
    <2>3. \A i \in 0..n : i \in I
        <3> HIDE DEF I, n
        <3> QED
            BY <1>1, <2>1, <2>2, Induction
    <2> QED
        BY <2>3
<1>10. g = [i \in 0..n |-> IF i = 0 THEN first ELSE Entered(g[i - 1], registry[i])]
    <2>1. ASSUME NEW i \in 0..n
          PROVE  g[i] = IF i = 0 THEN first ELSE Entered(g[i - 1], registry[i])
        <3>1. CASE i = 0
            BY <1>6, <3>1
        <3>2. CASE i # 0
            <4>1. i \in 1..n
                BY <1>1, <3>2
            <4>2. g[i] = Entered(g[i - 1], registry[i])
                BY <1>7, <1>8, <1>9, <4>1
            <4> HIDE DEF n, first
            <4> QED
                BY <3>2, <4>2
        <3> QED
            BY <3>1, <3>2
    <2> HIDE DEF n, first
    <2> QED
        BY <1>5, <2>1
<1>11. after = [i \in 0..n |-> IF i = 0 THEN first ELSE Entered(after[i - 1], registry[i])]
    <2> HIDE DEF n, first
    <2>1. \E a : a = [i \in 0..n |-> IF i = 0 THEN first ELSE Entered(a[i - 1], registry[i])]
        BY <1>10
    <2> QED
        BY <2>1
<1> HIDE DEF after
<1>12. \A i \in 1..n : after[i] = Entered(after[i - 1], registry[i]) /\ i \in 0..n
    <2> HIDE DEF n, first
    <2>1. \A i \in 0..n : after[i] = IF i = 0 THEN first ELSE Entered(after[i - 1], registry[i])
        BY <1>11
    <2>2. \A i \in 1..n : i \in 0..n /\ i # 0
        BY <1>1
    <2> QED
        BY <2>1, <2>2
<1>13. after[0] = first
    <2>1. 0 \in 0..n
        BY <1>1
    <2> HIDE DEF n, first
    <2> QED
        BY <1>11, <2>1
<1>14. \A i \in 0..n : Updated(after[i], registry, i)
    <2> DEFINE I == {i \in 0..n : Updated(after[i], registry, i)}
    <2>1. 0 \in I
        BY <1>1, <1>2, <1>13
    <2>2. \A i \in 1..n : i - 1 \in I => i \in I
        <3> HIDE DEF n
        <3> QED
            BY <1>12, EnteredFacts DEF n
    <2>3. \A i \in 0..n : i \in I
        <3> HIDE DEF I, n
        <3> QED
            BY <1>1, <2>1, <2>2, Induction
    <2> QED
        BY <2>3
<1>15. Update(registry) = after[n]
    BY DEF Update, after
<1> QED
    BY <1>1, <1>14, <1>15

-----------------------------------------------------------------------------
(* The invariant of the database.                                          *)

\* An installation id belongs to one organization for good.
Owns(owner, o, id) == id # 0 => id \in DOMAIN owner /\ owner[id] = o

Notices == {"deleted", "suspend", "unsuspend", "push"}
Whats == Notices \cup {"created", "init", "registry", "fetch"}
Moments == {"begin", "read", "apply", "list", "save"}

IsTask(t) ==
    t \in [what : Whats, org : Orgs \cup {"none"}, id : Nat, stage : Moments, version : Nat, seen : {t.seen}]

IsEvent(owner, t) ==
    /\ t.what \in Notices \cup {"created"}
    /\ t.org \in Orgs /\ t.id # 0 /\ Owns(owner, t.org, t.id)
    /\ \/ t.stage = "begin"
       \/ t.what = "created" /\ t.stage = "read"
       \/ t.what = "created" /\ t.stage = "save" /\ t.seen \in Accounts /\ t.seen.id = t.id

IsUpdate(owner, t) ==
    /\ t.what \in {"init", "registry"}
    /\ \/ t.what = "init" /\ t.stage = "begin"
       \/ t.stage = "apply" /\ t.version \in DOMAIN versions
       \/ t.stage = "list" /\ t.seen \in SUBSET Projects
       \/ /\ t.stage = "save"
          /\ t.seen \in [force : SUBSET Projects, github : [Orgs -> Accounts]]
          /\ \A o \in Orgs : Owns(owner, o, t.seen.github[o].id)

IsFetch(owner, t) ==
    /\ t.what = "fetch"
    /\ t.org \in Orgs /\ t.id # 0 /\ Owns(owner, t.org, t.id)
    /\ \/ t.stage = "begin"
       \/ t.stage = "read" /\ t.seen \in Docs
       \/ t.stage = "save" /\ t.seen \in Fetched

Shape(owner, t) == IsTask(t) /\ (IsEvent(owner, t) \/ IsUpdate(owner, t) \/ IsFetch(owner, t))

Sound(owner) ==
    /\ owner \in [1..happened.changes -> Orgs]
    /\ \A o \in Orgs : Owns(owner, o, github[o].id)
    /\ \A o \in Orgs : doc[o] # None => Owns(owner, o, doc[o].id)
    /\ \A t \in BagToSet(tasks) : Shape(owner, t)

Counts == [changes : Nat, pushes : Nat, versions : Nat, inits : Nat, overlaps : Nat, failures : Nat]

Types ==
    /\ kind \in {"config", "policies"}
    /\ github \in [Orgs -> Accounts]
    /\ versions \in Seq(Registries) /\ versions # <<>>
    /\ doc \in [Orgs -> DocsOrNone]
    /\ stored \in [Orgs -> Fetched \cup {None}]
    /\ IsABag(tasks)
    /\ happened \in Counts
    /\ orderly \in BOOLEAN /\ alone \in BOOLEAN
    /\ missed \in SUBSET Orgs

UniqueStored == kind = "config" => Unique(stored)

\* What a fetch that is under way brings is up to date when it is saved.
Current(o) == Data(doc[o], Len(versions), github[o].head)
Installed(o) == doc[o] # None /\ github[o].state = "installed"
Listable == {o \in Orgs : github[o].state # "absent"}

Brings(t) ==
    /\ t.what = "fetch"
    /\ doc[t.org] # None /\ doc[t.org].id = t.id
    /\ t.version = IF kind = "config" THEN 0 ELSE Len(versions)
    /\ t.stage = "read" => t.seen = doc[t.org]
    /\ t.stage = "save" => t.seen = Current(t.org) /\ github[t.org].state = "installed"

\* Nothing but fetches is left, and whatever is not up to date is going to be.
Fetching(orgs) ==
    /\ \A t \in BagToSet(tasks) : Brings(t)
    /\ \A o \in orgs : Installed(o) => stored[o] = Current(o) \/ \E t \in BagToSet(tasks) : t.org = o

Stages == {"begin", "apply", "list", "save"}

\* An init by itself: what it has brought in line at each stage.
InitRuns(t) ==
    /\ Only(t) /\ t.what = "init" /\ t.stage \in Stages
    /\ t.stage # "begin" => t.version = Len(versions)
    /\ t.stage \in {"list", "save"} => FollowsRegistry
    /\ t.stage = "save" => t.seen.github = github

AloneInv == alone =>
    \/ FollowsRegistry /\ FollowsGitHub(Listable) /\ Fetching(Orgs)
    \/ \E t \in BagToSet(tasks) : InitRuns(t)

\* The organizations of which nothing is missed.
Due == IF kind = "policies" THEN Orgs \ missed ELSE Orgs

\* An event by itself: the database is up to date but for the organization it is about.
EventRuns(t) ==
    /\ Only(t) /\ t.what \in Notices \cup {"created"}
    /\ FollowsRegistry /\ FollowsGitHub(Orgs \ {t.org}) /\ FollowsRepositories(Due \ {t.org})
    /\ t.what # "created" /\ doc[t.org] # None => doc[t.org].id = t.id
    /\ t.what = "push" => FollowsGitHub({t.org})
    /\ t.what = "created" /\ t.stage \in {"read", "save"} => t.version = Len(versions)
    /\ t.what = "created" /\ t.stage = "save" => t.seen = github[t.org]
    /\ t.what = "deleted" => github[t.org].state = "absent"
    /\ t.what = "suspend" => github[t.org].state = "suspended"
    /\ t.what \in {"created", "unsuspend", "push"} => github[t.org].state = "installed"
    /\ t.what # "deleted" => github[t.org].id = t.id
    /\ t.what = "unsuspend" => t.org \in missed

\* An update by itself, after events that came one at a time: it fetches whatever the
\* registry has changed, and everything else is up to date.
Kept(force) ==
    kind = "config" => \A o \in Orgs :
        Installed(o) => stored[o] = None \/ stored[o] = Current(o) \/ doc[o].project \in force

UpdateRuns(t) ==
    /\ Only(t) /\ t.what \in {"init", "registry"} /\ t.stage \in Stages
    /\ t.stage # "begin" => t.version = Len(versions)
    /\ \A o \in Orgs : doc[o] = None => stored[o] = None
    /\ t.stage \in {"begin", "apply"} =>
           FollowsGitHub(Orgs) /\ (kind = "config" => FollowsRepositories(Orgs))
    /\ t.stage \in {"list", "save"} =>
           /\ FollowsRegistry
           /\ \A o \in Orgs : doc[o] # None =>
                  \/ doc[o].id = 0 /\ doc[o].status = "absent"
                  \/ doc[o].id = github[o].id /\ doc[o].status = github[o].state
    /\ t.stage = "list" => Kept(t.seen)
    /\ t.stage = "save" => Kept(t.seen.force) /\ t.seen.github = github

OrderlyInv == orderly =>
    /\ \A o \in Orgs : github[o].state = "suspended" => o \in missed
    /\ \/ FollowsRegistry /\ FollowsGitHub(Orgs) /\ Fetching(Due)
       \/ \E t \in BagToSet(tasks) : EventRuns(t) \/ UpdateRuns(t)

DataInv ==
    /\ Types
    /\ Unique(doc) /\ UniqueStored
    /\ \E owner : Sound(owner)

AppIInv == DataInv /\ AloneInv /\ OrderlyInv

-----------------------------------------------------------------------------
(* What the invariant says of a state.                                     *)

LEMMA OnlyIs ==
    ASSUME NEW t, Only(t)
    PROVE  IsABag(tasks) /\ BagToSet(tasks) = {t} /\ tasks # EmptyBag
BY OnlyFacts, EmptyFacts DEF Only

LEMMA QuietOrderly ==
    ASSUME AppIInv, orderly, tasks = EmptyBag
    PROVE  /\ FollowsRegistry /\ FollowsGitHub(Orgs) /\ FollowsRepositories(Due)
           /\ \A o \in Orgs : github[o].state = "suspended" => o \in missed
<1>1. BagToSet(tasks) = {}
    BY EmptyFacts
<1>2. FollowsRegistry /\ FollowsGitHub(Orgs) /\ Fetching(Due)
      /\ \A o \in Orgs : github[o].state = "suspended" => o \in missed
    BY <1>1 DEF AppIInv, OrderlyInv
<1>3. FollowsRepositories(Due)
    BY <1>1, <1>2 DEF Fetching, FollowsRepositories, Installed, Current
<1> QED
    BY <1>2, <1>3

LEMMA QuietAlone ==
    ASSUME AppIInv, alone, tasks = EmptyBag
    PROVE  FollowsRegistry /\ FollowsGitHub(Listable) /\ FollowsRepositories(Orgs)
<1>1. BagToSet(tasks) = {}
    BY EmptyFacts
<1>2. FollowsRegistry /\ FollowsGitHub(Listable) /\ Fetching(Orgs)
    BY <1>1 DEF AppIInv, AloneInv
<1> QED
    BY <1>1, <1>2 DEF Fetching, FollowsRepositories, Installed, Current

LEMMA Phases ==
    ASSUME AppIInv, NEW t \in BagToSet(tasks)
    PROVE  /\ alone => \/ FollowsRegistry /\ FollowsGitHub(Listable) /\ Fetching(Orgs)
                       \/ InitRuns(t)
           /\ orderly =>
                  /\ \A o \in Orgs : github[o].state = "suspended" => o \in missed
                  /\ \/ FollowsRegistry /\ FollowsGitHub(Orgs) /\ Fetching(Due)
                     \/ EventRuns(t) \/ UpdateRuns(t)
<1>1. \A u \in BagToSet(tasks) : Only(u) => u = t
    BY OnlyIs
<1>2. \A u : InitRuns(u) \/ EventRuns(u) \/ UpdateRuns(u) => Only(u)
    BY DEF InitRuns, EventRuns, UpdateRuns
<1> HIDE DEF InitRuns, EventRuns, UpdateRuns
<1> QED
    BY <1>1, <1>2 DEF AppIInv, AloneInv, OrderlyInv

\* An installation id finds no other organization.
LEMMA FoundFacts ==
    ASSUME NEW owner, Sound(owner), NEW o \in Orgs, NEW id \in Nat \ {0}, Owns(owner, o, id)
    PROVE  Found(id) = IF doc[o] # None /\ doc[o].id = id THEN {o} ELSE {}
BY DEF Found, Sound, Owns

LEMMA TaskFacts ==
    ASSUME NEW owner, Sound(owner), NEW t \in BagToSet(tasks)
    PROVE  IsTask(t) /\ Shape(owner, t)
BY DEF Sound, Shape

\* A step of a task keeps what is known of data and ids.
LEMMA SoundStep ==
    ASSUME NEW owner, Sound(owner), UNCHANGED <<github, versions>>, happened'.changes = happened.changes,
           \A u \in BagToSet(tasks') : u \in BagToSet(tasks) \/ Shape(owner, u),
           \A o \in Orgs : doc'[o] # None => Owns(owner, o, doc'[o].id)
    PROVE  Sound(owner)'
<1>1. \A u : Shape(owner, u)' <=> Shape(owner, u)
    BY DEF Shape, IsTask, IsEvent, IsUpdate, IsFetch, Owns
<1> QED
    BY <1>1 DEF Sound, Owns

\* The tasks after a step.
LEMMA GoesOn ==
    ASSUME IsABag(tasks), NEW t \in BagToSet(tasks), NEW u, Continue(t, u)
    PROVE  /\ IsABag(tasks') /\ u \in BagToSet(tasks')
           /\ \A x \in BagToSet(tasks') : x = u \/ x \in BagToSet(tasks)
           /\ \A x \in BagToSet(tasks) : x = t \/ x \in BagToSet(tasks')
           /\ Only(t) => tasks' = SetToBag({u}) /\ BagToSet(tasks') = {u}
<1>1. PICK left : left = Without(tasks, t)
    OBVIOUS
<1>2. /\ IsABag(left) /\ BagToSet(left) \subseteq BagToSet(tasks)
      /\ BagToSet(tasks) \ {t} \subseteq BagToSet(left)
    BY <1>1, WithoutFacts
<1>3. tasks' = With(left, u)
    BY <1>1 DEF Continue
<1>4. IsABag(tasks') /\ BagToSet(tasks') = BagToSet(left) \cup {u}
    BY <1>2, <1>3, WithFacts
<1>5. Only(t) => tasks' = SetToBag({u}) /\ BagToSet(tasks') = {u}
    BY <1>1, <1>3, OnlyFacts DEF Only
<1> QED
    BY <1>2, <1>4, <1>5

LEMMA Stops ==
    ASSUME IsABag(tasks), NEW t \in BagToSet(tasks), Ends(t)
    PROVE  /\ IsABag(tasks')
           /\ BagToSet(tasks') \subseteq BagToSet(tasks)
           /\ \A x \in BagToSet(tasks) : x = t \/ x \in BagToSet(tasks')
           /\ Only(t) => BagToSet(tasks') = {}
BY WithoutFacts, OnlyFacts, EmptyFacts DEF Ends, Only

LEMMA Spawns ==
    ASSUME IsABag(tasks), NEW t \in BagToSet(tasks), NEW ts, tasks' = WithAll(Without(tasks, t), ts)
    PROVE  /\ IsABag(tasks') /\ ts \subseteq BagToSet(tasks')
           /\ \A x \in BagToSet(tasks') : x \in ts \/ x \in BagToSet(tasks)
           /\ \A x \in BagToSet(tasks) : x = t \/ x \in BagToSet(tasks')
           /\ Only(t) => BagToSet(tasks') = ts
<1>1. PICK left : left = Without(tasks, t)
    OBVIOUS
<1>2. /\ IsABag(left) /\ BagToSet(left) \subseteq BagToSet(tasks)
      /\ BagToSet(tasks) \ {t} \subseteq BagToSet(left)
    BY <1>1, WithoutFacts
<1>3. Only(t) => BagToSet(left) = {}
    BY <1>1, OnlyFacts, EmptyFacts DEF Only
<1>4. IsABag(tasks') /\ BagToSet(tasks') = BagToSet(left) \cup ts
    BY <1>1, <1>2, WithAllFacts
<1> QED
    BY <1>2, <1>3, <1>4

LEMMA Begins ==
    ASSUME IsABag(tasks), NEW t, tasks' = With(tasks, t)
    PROVE  /\ IsABag(tasks') /\ BagToSet(tasks') = BagToSet(tasks) \cup {t}
           /\ tasks = EmptyBag => tasks' = SetToBag({t})
BY WithFacts, OnlyFacts

-----------------------------------------------------------------------------
(* What GitHub and its users do.                                           *)

LEMMA HappensFacts ==
    ASSUME AppIInv, NEW what \in {"changes", "pushes", "versions", "inits"}, Happens(what)
    PROVE  /\ happened' \in Counts
           /\ happened'.changes = IF what = "changes" THEN happened.changes + 1 ELSE happened.changes
           /\ orderly' \in BOOLEAN /\ alone' \in BOOLEAN
           /\ orderly' => orderly /\ tasks = EmptyBag
           /\ alone' => what = "inits" /\ tasks = EmptyBag
           /\ what = "inits" /\ tasks = EmptyBag => alone'
<1>1. happened \in Counts /\ orderly \in BOOLEAN
    BY DEF AppIInv, DataInv, Types
<1>2. PICK more : more = happened.overlaps + (IF tasks = EmptyBag THEN 0 ELSE 1)
    OBVIOUS
<1>3. more \in Nat
    BY <1>1, <1>2 DEF Counts
<1>31. happened' = [happened EXCEPT ![what] = @ + 1, !.overlaps = more]
    BY <1>2 DEF Happens
<1>4. happened' \in Counts /\ happened'.changes = IF what = "changes" THEN happened.changes + 1 ELSE happened.changes
    <2>1. CASE what = "changes"
        <3>1. PICK n : n = happened.changes + 1
            OBVIOUS
        <3>2. n \in Nat
            BY <1>1, <3>1 DEF Counts
        <3>3. happened' = [happened EXCEPT !.changes = n, !.overlaps = more]
            BY <1>31, <2>1, <3>1
        <3> QED
            BY <1>1, <1>3, <2>1, <3>1, <3>2, <3>3 DEF Counts
    <2>2. CASE what = "pushes"
        <3>1. PICK n : n = happened.pushes + 1
            OBVIOUS
        <3>2. n \in Nat
            BY <1>1, <3>1 DEF Counts
        <3>3. happened' = [happened EXCEPT !.pushes = n, !.overlaps = more]
            BY <1>31, <2>2, <3>1
        <3> QED
            BY <1>1, <1>3, <2>2, <3>1, <3>2, <3>3 DEF Counts
    <2>3. CASE what = "versions"
        <3>1. PICK n : n = happened.versions + 1
            OBVIOUS
        <3>2. n \in Nat
            BY <1>1, <3>1 DEF Counts
        <3>3. happened' = [happened EXCEPT !.versions = n, !.overlaps = more]
            BY <1>31, <2>3, <3>1
        <3> QED
            BY <1>1, <1>3, <2>3, <3>1, <3>2, <3>3 DEF Counts
    <2>4. CASE what = "inits"
        <3>1. PICK n : n = happened.inits + 1
            OBVIOUS
        <3>2. n \in Nat
            BY <1>1, <3>1 DEF Counts
        <3>3. happened' = [happened EXCEPT !.inits = n, !.overlaps = more]
            BY <1>31, <2>4, <3>1
        <3> QED
            BY <1>1, <1>3, <2>4, <3>1, <3>2, <3>3 DEF Counts
    <2> QED
        BY <2>1, <2>2, <2>3, <2>4
<1>5. /\ orderly' = (orderly /\ tasks = EmptyBag)
      /\ alone' = (what = "inits" /\ tasks = EmptyBag)
    BY DEF Happens
<1> QED
    BY <1>1, <1>4, <1>5

\* An installation changes: who owns which id stays, and a new id is of this organization.
LEMMA ChangeData ==
    ASSUME AppIInv, NEW o \in Orgs, NEW from \in States, NEW to \in States, from # to,
           NEW event \in Notices \cup {"created"}, event # "push",
           event = "created" <=> from = "absent", Change(o, from, to, event)
    PROVE  DataInv'
<1>0. PICK n, id, t : n = happened.changes /\ id = (IF event = "created" THEN n + 1 ELSE github[o].id)
                  /\ t = Task(event, o, id)
    OBVIOUS
<1>1. /\ Types /\ Unique(doc) /\ UniqueStored
    BY DEF AppIInv, DataInv
<1>2. PICK owner : Sound(owner)
    BY DEF AppIInv, DataInv
<1>3. /\ github[o].state = from
      /\ github' = [github EXCEPT ![o].state = to, ![o].id = IF to = "absent" THEN 0 ELSE id]
      /\ tasks' = With(tasks, t)
      /\ missed' = IF to = "suspended" THEN missed \cup {o} ELSE missed
      /\ UNCHANGED <<kind, versions, doc, stored>>
      /\ Happens("changes")
    BY <1>0 DEF Change
<1>4. /\ happened' \in Counts
      /\ happened'.changes = n + 1
      /\ orderly' \in BOOLEAN /\ alone' \in BOOLEAN
    BY <1>0, <1>3, HappensFacts
<1>5. n \in Nat /\ github[o] \in Accounts /\ github \in [Orgs -> Accounts]
    BY <1>0, <1>1 DEF Types, Counts
<1>6. id \in Nat /\ id # 0
    BY <1>0, <1>3, <1>5 DEF Accounts
<1>61. PICK wider : wider = [i \in 1..n + 1 |-> IF i \in 1..n THEN owner[i] ELSE o]
    OBVIOUS
<1>7. owner \in [1..n -> Orgs] /\ wider \in [1..n + 1 -> Orgs]
    BY <1>0, <1>2, <1>5, <1>61 DEF Sound
<1>8. \A p, i : i \in Nat /\ Owns(owner, p, i) => Owns(wider, p, i)
    BY <1>5, <1>61, <1>7 DEF Owns
<1>9. Owns(wider, o, id)
    <2>1. CASE event = "created"
        BY <1>0, <1>5, <1>61, <2>1 DEF Owns
    <2>2. CASE event # "created"
        <3>1. Owns(owner, o, github[o].id) /\ github[o].id \in Nat
            BY <1>2, <1>5 DEF Sound, Accounts
        <3> QED
            BY <1>0, <1>8, <2>2, <3>1
    <2> QED
        BY <2>1, <2>2
<1>10. github'[o] = [github[o] EXCEPT !.state = to, !.id = IF to = "absent" THEN 0 ELSE id]
       /\ \A p \in Orgs : p # o => github'[p] = github[p]
       /\ DOMAIN github' = Orgs
    BY <1>3, <1>5
<1>11. github'[o] \in Accounts /\ github'[o].id \in {0, id}
    <2>1. github[o] \in [state : States, id : Nat, head : Nat]
        BY <1>5 DEF Accounts
    <2>2. CASE to = "absent"
        <3>1. github'[o] = [github[o] EXCEPT !.state = to, !.id = 0]
            BY <1>10, <2>2
        <3> QED
            <4>0. github'[o] = [state |-> to, id |-> 0, head |-> github[o].head] /\ github[o].head \in Nat
                BY <2>1, <3>1
            <4>1. github'[o] \in [state : States, id : Nat, head : Nat]
                BY <4>0
            <4>2. github'[o].state = "absent" /\ github'[o].id = 0
                BY <2>1, <2>2, <3>1
            <4> QED
                BY <4>1, <4>2 DEF Accounts
    <2>3. CASE to # "absent"
        <3>1. github'[o] = [github[o] EXCEPT !.state = to, !.id = id]
            BY <1>10, <2>3
        <3> QED
            BY <1>6, <2>1, <2>3, <3>1 DEF Accounts
    <2> QED
        BY <2>2, <2>3
<1>12. github' \in [Orgs -> Accounts]
    BY <1>3, <1>5, <1>10, <1>11
<1>13. IsABag(tasks') /\ BagToSet(tasks') = BagToSet(tasks) \cup {t}
    BY <1>1, <1>3, Begins DEF Types
<1>14. Types'
    BY <1>1, <1>3, <1>4, <1>12, <1>13 DEF Types
<1>15. \A u \in BagToSet(tasks) : Shape(wider, u)
    <2> TAKE u \in BagToSet(tasks)
    <2>1. Shape(owner, u)
        BY <1>2 DEF Sound
    <2>2. u.id \in Nat /\ (u.stage = "save" /\ u.what \in {"init", "registry"} =>
              \A p \in Orgs : u.seen.github[p].id \in Nat)
        BY <2>1 DEF Shape, IsTask, IsEvent, IsUpdate, IsFetch, Accounts
    <2>3. IsEvent(owner, u) => IsEvent(wider, u)
        BY <1>8, <2>2 DEF IsEvent
    <2>4. IsUpdate(owner, u) => IsUpdate(wider, u)
        BY <1>8, <2>2 DEF IsUpdate
    <2>5. IsFetch(owner, u) => IsFetch(wider, u)
        BY <1>8, <2>2 DEF IsFetch
    <2>6. Shape(wider, u)
        BY <2>1, <2>3, <2>4, <2>5 DEF Shape
    <2> QED
        BY <2>6
<1>16. Shape(wider, t)
    <2>1. t.what = event /\ t.org = o /\ t.id = id /\ t.stage = "begin"
        BY <1>0 DEF Task
    <2>2. IsTask(t)
        <3>1. t = [what |-> event, org |-> o, id |-> id, stage |-> "begin", version |-> 0, seen |-> t.seen]
            BY <1>0 DEF Task
        <3>2. event \in Whats /\ "begin" \in Moments
            BY DEF Notices, Whats, Moments
        <3> QED
            BY <1>6, <3>1, <3>2 DEF IsTask
    <2> QED
        BY <1>6, <1>9, <2>1, <2>2 DEF Shape, IsEvent
<1>17. \A p \in Orgs : Owns(wider, p, github'[p].id)
    <2> TAKE p \in Orgs
    <2>1. CASE p = o
        BY <1>9, <1>11, <2>1 DEF Owns
    <2>2. CASE p # o
        <3>1. Owns(owner, p, github[p].id) /\ github[p].id \in Nat
            BY <1>2, <1>5 DEF Sound, Accounts
        <3> QED
            BY <1>8, <1>10, <2>2, <3>1
    <2> QED
        BY <2>1, <2>2
<1>18. \A p \in Orgs : doc'[p] # None => Owns(wider, p, doc'[p].id)
    <2> TAKE p \in Orgs
    <2>1. doc[p] # None => Owns(owner, p, doc[p].id) /\ doc[p].id \in Nat
        BY <1>1, <1>2 DEF Sound, Types, DocsOrNone, Docs
    <2> QED
        BY <1>3, <1>8, <2>1
<1>19. Sound(wider)'
    <2>2. \A u : Shape(wider, u)' <=> Shape(wider, u)
        BY <1>3 DEF Shape, IsTask, IsEvent, IsUpdate, IsFetch
    <2>3. \A u \in BagToSet(tasks') : Shape(wider, u)'
        BY <1>13, <1>15, <1>16, <2>2
    <2> QED
        BY <1>4, <1>7, <1>17, <1>18, <2>3 DEF Sound
<1>20. Unique(doc)' /\ UniqueStored'
    BY <1>1, <1>3 DEF Unique, UniqueStored
<1> QED
    BY <1>14, <1>19, <1>20 DEF DataInv

LEMMA ChangeStep ==
    ASSUME AppIInv, NEW o \in Orgs, NEW from \in States, NEW to \in States, from # to,
           NEW event \in Notices \cup {"created"}, event # "push",
           event = "created" <=> from = "absent", event = "deleted" <=> to = "absent",
           event = "suspend" <=> to = "suspended", Change(o, from, to, event)
    PROVE  AppIInv'
<1>0. PICK id, t : id = (IF event = "created" THEN happened.changes + 1 ELSE github[o].id)
                   /\ t = Task(event, o, id)
    OBVIOUS
<1>1. DataInv'
    BY ChangeData
<1>2. /\ github[o].state = from
      /\ github' = [github EXCEPT ![o].state = to, ![o].id = IF to = "absent" THEN 0 ELSE id]
      /\ tasks' = With(tasks, t)
      /\ missed' = IF to = "suspended" THEN missed \cup {o} ELSE missed
      /\ UNCHANGED <<kind, versions, doc, stored>>
      /\ Happens("changes")
    BY <1>0 DEF Change
<1>3. (orderly' => orderly /\ tasks = EmptyBag) /\ ~alone'
    BY <1>2, HappensFacts
<1>4. AloneInv'
    BY <1>3 DEF AloneInv
<1>5. SUFFICES ASSUME orderly'
               PROVE  OrderlyInv'
    BY <1>1, <1>4 DEF AppIInv, OrderlyInv
<1>6. /\ FollowsRegistry /\ FollowsGitHub(Orgs) /\ FollowsRepositories(Due)
      /\ \A p \in Orgs : github[p].state = "suspended" => p \in missed
    BY <1>3, <1>5, QuietOrderly
<1>7. github \in [Orgs -> Accounts] /\ IsABag(tasks)
    BY DEF AppIInv, DataInv, Types
<1>8. github'[o] = [github[o] EXCEPT !.state = to, !.id = IF to = "absent" THEN 0 ELSE id]
      /\ \A p \in Orgs : p # o => github'[p] = github[p]
    BY <1>2, <1>7
<1>9. github'[o].state = to /\ github'[o].id = IF to = "absent" THEN 0 ELSE id
    BY <1>7, <1>8 DEF Accounts
<1>10. Only(t)' /\ t \in BagToSet(tasks)'
    <2>1. tasks' = SetToBag({t}) /\ BagToSet(tasks') = BagToSet(tasks) \cup {t}
        BY <1>2, <1>3, <1>5, <1>7, Begins
    <2> QED
        BY <2>1 DEF Only
<1>11. \A p \in Orgs : github'[p].state = "suspended" => p \in missed'
    BY <1>2, <1>6, <1>8, <1>9
<1>12. t.what = event /\ t.org = o /\ t.id = id /\ t.stage = "begin"
    BY <1>0 DEF Task
<1>13. FollowsRegistry'
    BY <1>2, <1>6 DEF FollowsRegistry, Latest
<1>14. FollowsGitHub(Orgs \ {o})'
    BY <1>2, <1>6, <1>8 DEF FollowsGitHub
<1>15. FollowsRepositories(Due \ {o})'
    BY <1>2, <1>6, <1>8 DEF FollowsRepositories, Due, Data
<1>16. event # "created" /\ doc[o] # None => doc[o].id = id
    BY <1>0, <1>6 DEF FollowsGitHub
<1>17. event = "unsuspend" => o \in missed' /\ to = "installed"
    <2>1. from \in {"installed", "suspended"} \/ event = "created"
        BY DEF States
    <2>2. event = "unsuspend" => from = "suspended" /\ to = "installed"
        BY <2>1 DEF States
    <2> QED
        BY <1>2, <1>6, <2>2
<1>18. event = "created" => to = "installed"
    BY DEF States
<1>19. EventRuns(t)'
    BY <1>2, <1>9, <1>10, <1>12, <1>13, <1>14, <1>15, <1>16, <1>17, <1>18 DEF EventRuns, Notices
<1> QED
    BY <1>10, <1>11, <1>19 DEF OrderlyInv


LEMMA SoundEvent ==
    ASSUME NEW owner, Sound(owner), happened'.changes = happened.changes, UNCHANGED doc,
           \A o \in Orgs : github'[o].id = github[o].id, DOMAIN versions \subseteq DOMAIN versions',
           \A u \in BagToSet(tasks') : u \in BagToSet(tasks) \/ Shape(owner, u)'
    PROVE  Sound(owner)'
<1>1. \A u : Shape(owner, u) => Shape(owner, u)'
    <2> TAKE u
    <2>1. IsUpdate(owner, u) => IsUpdate(owner, u)'
        BY DEF IsUpdate, Owns
    <2>2. IsEvent(owner, u) => IsEvent(owner, u)'
        BY DEF IsEvent, Owns
    <2>3. IsFetch(owner, u) => IsFetch(owner, u)'
        BY DEF IsFetch, Owns
    <2>4. IsTask(u) => IsTask(u)'
        BY DEF IsTask
    <2> QED
        BY <2>1, <2>2, <2>3, <2>4 DEF Shape
<1>2. \A u \in BagToSet(tasks') : Shape(owner, u)'
    BY <1>1 DEF Sound
<1>3. \A o \in Orgs : Owns(owner, o, github[o].id)' /\ (doc[o] # None => Owns(owner, o, doc[o].id))'
    BY DEF Sound, Owns
<1> QED
    BY <1>2, <1>3 DEF Sound

LEMMA PushStep ==
    ASSUME AppIInv, NEW o \in Orgs, Push(o)
    PROVE  AppIInv'
<1>1. PICK t : t = Task("push", o, github[o].id)
    OBVIOUS
<1>2. PICK head : head = github[o].head + 1
    OBVIOUS
<1>3. Types /\ Unique(doc) /\ UniqueStored
    BY DEF AppIInv, DataInv
<1>4. PICK owner : Sound(owner)
    BY DEF AppIInv, DataInv
<1>5. /\ github' = [github EXCEPT ![o].head = head]
      /\ tasks' = IF github[o].state = "installed" THEN With(tasks, t) ELSE tasks
      /\ Happens("pushes")
      /\ UNCHANGED <<kind, versions, doc, stored, missed>>
    BY <1>1, <1>2 DEF Push
<1>6. github \in [Orgs -> Accounts] /\ IsABag(tasks)
    BY <1>3 DEF Types
<1>7. /\ happened' \in Counts
      /\ happened'.changes = happened.changes
      /\ orderly' \in BOOLEAN /\ alone' \in BOOLEAN /\ ~alone'
      /\ orderly' => orderly /\ tasks = EmptyBag
    BY <1>5, HappensFacts
<1>8. head \in Nat
    BY <1>2, <1>6 DEF Accounts
<1>9. github'[o] = [github[o] EXCEPT !.head = head]
      /\ \A p \in Orgs : p # o => github'[p] = github[p]
      /\ DOMAIN github' = Orgs
    BY <1>5, <1>6
<1>10. github'[o] \in Accounts /\ github'[o].id = github[o].id /\ github'[o].state = github[o].state
    <2>1. github[o] \in [state : States, id : Nat, head : Nat] /\ (github[o].id = 0 <=> github[o].state = "absent")
        BY <1>6 DEF Accounts
    <2>2. github'[o] \in [state : States, id : Nat, head : Nat]
          /\ github'[o].id = github[o].id /\ github'[o].state = github[o].state
        BY <1>8, <1>9, <2>1
    <2> QED
        BY <2>1, <2>2 DEF Accounts
<1>11. github' \in [Orgs -> Accounts]
    BY <1>5, <1>6, <1>9, <1>10
<1>12. \A p \in Orgs : github'[p].id = github[p].id /\ github'[p].state = github[p].state
    BY <1>9, <1>10
<1>13. /\ github[o].state = "installed" =>
              IsABag(tasks') /\ BagToSet(tasks') = BagToSet(tasks) \cup {t}
              /\ (tasks = EmptyBag => tasks' = SetToBag({t}))
       /\ github[o].state # "installed" => tasks' = tasks
    BY <1>5, <1>6, Begins
<1>14. Types'
    BY <1>3, <1>5, <1>6, <1>7, <1>11, <1>13 DEF Types
<1>15. t.what = "push" /\ t.org = o /\ t.id = github[o].id /\ t.stage = "begin"
    BY <1>1 DEF Task
<1>16. github[o].state = "installed" => Shape(owner, t)'
    <2>1. github[o].id \in Nat /\ (github[o].state = "installed" => github[o].id # 0)
        BY <1>6 DEF Accounts
    <2>2. t = [what |-> "push", org |-> o, id |-> t.id, stage |-> "begin", version |-> 0, seen |-> t.seen]
        BY <1>1 DEF Task
    <2>3. IsTask(t)
        BY <1>15, <2>1, <2>2 DEF IsTask, Whats, Notices, Moments
    <2>4. Owns(owner, o, t.id)
        BY <1>4, <1>15 DEF Sound
    <2> QED
        BY <1>15, <2>1, <2>3, <2>4 DEF Shape, IsEvent, Notices, IsTask
<1>17. Sound(owner)'
    <2>1. \A u \in BagToSet(tasks') : u \in BagToSet(tasks) \/ Shape(owner, u)'
        BY <1>13, <1>16
    <2> QED
        BY <1>4, <1>5, <1>7, <1>12, <2>1, SoundEvent
<1>18. DataInv'
    BY <1>3, <1>5, <1>14, <1>17 DEF DataInv, Unique, UniqueStored
<1>19. AloneInv'
    BY <1>7 DEF AloneInv
<1>20. SUFFICES ASSUME orderly'
                PROVE  OrderlyInv'
    BY <1>18, <1>19 DEF AppIInv, OrderlyInv
<1>21. /\ FollowsRegistry /\ FollowsGitHub(Orgs) /\ FollowsRepositories(Due)
       /\ \A p \in Orgs : github[p].state = "suspended" => p \in missed
       /\ tasks = EmptyBag
    BY <1>7, <1>20, QuietOrderly
<1>22. \A p \in Orgs : github'[p].state = "suspended" => p \in missed'
    BY <1>5, <1>12, <1>21
<1>23. FollowsRegistry'
    BY <1>5, <1>21 DEF FollowsRegistry, Latest
<1>24. FollowsGitHub(Orgs)'
    BY <1>5, <1>12, <1>21 DEF FollowsGitHub
<1>25. FollowsRepositories(Due \ {o})'
    BY <1>5, <1>9, <1>21 DEF FollowsRepositories, Due, Data
<1>26. CASE github[o].state = "installed"
    <2>1. Only(t)' /\ t \in BagToSet(tasks')
        BY <1>13, <1>21, <1>26 DEF Only
    <2>2. FollowsGitHub(Orgs \ {o})' /\ FollowsGitHub({o})'
        BY <1>24 DEF FollowsGitHub
    <2>3. (doc[o] # None => doc[o].id = t.id)'
        BY <1>5, <1>12, <1>15, <1>24 DEF FollowsGitHub
    <2>4. EventRuns(t)'
        BY <1>12, <1>15, <1>23, <1>25, <1>26, <2>1, <2>2, <2>3 DEF EventRuns, Notices
    <2> QED
        BY <1>22, <2>1, <2>4 DEF OrderlyInv
<1>27. CASE github[o].state # "installed"
    <2>1. BagToSet(tasks') = {}
        BY <1>13, <1>21, <1>27, EmptyFacts
    <2>2. Fetching(Due)'
        BY <1>12, <1>25, <1>27, <2>1 DEF Fetching, FollowsRepositories, Installed, Current, Due
    <2> QED
        BY <1>22, <1>23, <1>24, <2>2 DEF OrderlyInv
<1> QED
    BY <1>26, <1>27

LEMMA PublishStep ==
    ASSUME AppIInv, NEW registry \in Registries, Publish(registry)
    PROVE  AppIInv'
<1>1. Types /\ Unique(doc) /\ UniqueStored
    BY DEF AppIInv, DataInv
<1>2. PICK owner : Sound(owner)
    BY DEF AppIInv, DataInv
<1>3. PICK t : t = [Task("registry", "none", 0) EXCEPT !.version = Len(versions) + 1, !.stage = "apply"]
    OBVIOUS
<1>31. t = [what |-> "registry", org |-> "none", id |-> 0, stage |-> "apply",
           version |-> Len(versions) + 1, seen |-> None]
    BY <1>3 DEF Task
<1>4. /\ versions' = Append(versions, registry)
      /\ tasks' = With(tasks, t)
      /\ Happens("versions")
      /\ UNCHANGED <<kind, github, doc, stored, missed>>
    BY <1>3 DEF Publish
<1>5. versions \in Seq(Registries) /\ IsABag(tasks)
    BY <1>1 DEF Types
<1>6. /\ versions' \in Seq(Registries) /\ versions' # <<>>
      /\ Len(versions) \in Nat /\ Len(versions') = Len(versions) + 1
      /\ DOMAIN versions \subseteq DOMAIN versions' /\ Len(versions') \in DOMAIN versions'
    <2>1. versions' \in Seq(Registries) /\ Len(versions') = Len(versions) + 1
        BY <1>4, <1>5, AppendProperties
    <2>2. Len(versions) \in Nat /\ DOMAIN versions = 1..Len(versions)
        BY <1>5, LenProperties
    <2>3. DOMAIN versions' = 1..Len(versions')
        BY <2>1, LenProperties
    <2>4. versions' # <<>>
        BY <2>1, <2>2, EmptySeq
    <2> QED
        BY <2>1, <2>2, <2>3, <2>4
<1>7. /\ happened' \in Counts
      /\ happened'.changes = happened.changes
      /\ orderly' \in BOOLEAN /\ alone' \in BOOLEAN /\ ~alone'
      /\ orderly' => orderly /\ tasks = EmptyBag
    BY <1>4, HappensFacts
<1>8. /\ IsABag(tasks') /\ BagToSet(tasks') = BagToSet(tasks) \cup {t}
      /\ (tasks = EmptyBag => tasks' = SetToBag({t}))
    BY <1>4, <1>5, Begins
<1>9. Types'
    BY <1>1, <1>4, <1>6, <1>7, <1>8 DEF Types
<1>10. t.what = "registry" /\ t.org = "none" /\ t.stage = "apply" /\ t.version = Len(versions')
    BY <1>31, <1>6
<1>11. Shape(owner, t)'
    <2>1. t = [what |-> "registry", org |-> "none", id |-> 0, stage |-> "apply",
               version |-> Len(versions'), seen |-> t.seen]
        BY <1>31, <1>6
    <2>2. IsTask(t)
        BY <1>6, <2>1 DEF IsTask, Whats, Moments
    <2> QED
        BY <1>6, <1>10, <2>2 DEF Shape, IsTask, IsUpdate
<1>12. Sound(owner)'
    <2>1. \A u \in BagToSet(tasks') : u \in BagToSet(tasks) \/ Shape(owner, u)'
        BY <1>8, <1>11
    <2> QED
        BY <1>2, <1>4, <1>6, <1>7, <2>1, SoundEvent
<1>13. DataInv'
    BY <1>1, <1>4, <1>9, <1>12 DEF DataInv, Unique, UniqueStored
<1>14. AloneInv'
    BY <1>7 DEF AloneInv
<1>15. SUFFICES ASSUME orderly'
                PROVE  OrderlyInv'
    BY <1>13, <1>14 DEF AppIInv, OrderlyInv
<1>16. /\ FollowsRegistry /\ FollowsGitHub(Orgs) /\ FollowsRepositories(Due)
       /\ \A p \in Orgs : github[p].state = "suspended" => p \in missed
       /\ tasks = EmptyBag
    BY <1>7, <1>15, QuietOrderly
<1>17. Only(t)' /\ t \in BagToSet(tasks')
    BY <1>8, <1>16 DEF Only
<1>18. (\A o \in Orgs : doc[o] = None => stored[o] = None)'
    BY <1>4, <1>16 DEF FollowsRegistry
<1>19. FollowsGitHub(Orgs)' /\ (kind = "config" => FollowsRepositories(Orgs))'
    BY <1>4, <1>16 DEF FollowsGitHub, FollowsRepositories, Due, Data
<1>20. UpdateRuns(t)'
    BY <1>10, <1>17, <1>18, <1>19 DEF UpdateRuns, Stages
<1> QED
    BY <1>4, <1>16, <1>17, <1>20 DEF OrderlyInv

LEMMA InitializeStep ==
    ASSUME AppIInv, Initialize
    PROVE  AppIInv'
<1>1. Types /\ Unique(doc) /\ UniqueStored
    BY DEF AppIInv, DataInv
<1>2. PICK owner : Sound(owner)
    BY DEF AppIInv, DataInv
<1>3. PICK t : t = [what |-> "init", org |-> "none", id |-> 0, stage |-> "begin", version |-> 0, seen |-> None]
    OBVIOUS
<1>4. /\ tasks' = With(tasks, t)
      /\ Happens("inits")
      /\ UNCHANGED <<kind, github, versions, doc, stored, missed>>
    BY <1>3 DEF Initialize, Task
<1>5. IsABag(tasks)
    BY <1>1 DEF Types
<1>6. /\ happened' \in Counts
      /\ happened'.changes = happened.changes
      /\ orderly' \in BOOLEAN /\ alone' \in BOOLEAN
      /\ orderly' => orderly /\ tasks = EmptyBag
      /\ alone' => tasks = EmptyBag
    BY <1>4, HappensFacts
<1>7. /\ IsABag(tasks') /\ BagToSet(tasks') = BagToSet(tasks) \cup {t}
      /\ (tasks = EmptyBag => tasks' = SetToBag({t}))
    BY <1>4, <1>5, Begins
<1>8. Types'
    BY <1>1, <1>4, <1>6, <1>7 DEF Types
<1>9. t.what = "init" /\ t.org = "none" /\ t.stage = "begin"
    BY <1>3
<1>10. Shape(owner, t)'
    <2>1. t = [what |-> "init", org |-> "none", id |-> 0, stage |-> "begin", version |-> 0, seen |-> t.seen]
        BY <1>3
    <2>2. IsTask(t)
        BY <2>1 DEF IsTask, Whats, Moments
    <2> QED
        BY <1>9, <2>2 DEF Shape, IsTask, IsUpdate
<1>11. Sound(owner)'
    <2>1. \A u \in BagToSet(tasks') : u \in BagToSet(tasks) \/ Shape(owner, u)'
        BY <1>7, <1>10
    <2> QED
        BY <1>2, <1>4, <1>6, <2>1, SoundEvent
<1>12. DataInv'
    BY <1>1, <1>4, <1>8, <1>11 DEF DataInv, Unique, UniqueStored
<1>13. tasks = EmptyBag => Only(t)' /\ t \in BagToSet(tasks')
    BY <1>7 DEF Only
<1>14. AloneInv'
    BY <1>6, <1>9, <1>13 DEF AloneInv, InitRuns, Stages
<1>15. SUFFICES ASSUME orderly'
                PROVE  OrderlyInv'
    BY <1>12, <1>14 DEF AppIInv, OrderlyInv
<1>16. /\ FollowsRegistry /\ FollowsGitHub(Orgs) /\ FollowsRepositories(Due)
       /\ \A p \in Orgs : github[p].state = "suspended" => p \in missed
       /\ tasks = EmptyBag
    BY <1>6, <1>15, QuietOrderly
<1>17. (\A o \in Orgs : doc[o] = None => stored[o] = None)'
    BY <1>4, <1>16 DEF FollowsRegistry
<1>18. FollowsGitHub(Orgs)' /\ (kind = "config" => FollowsRepositories(Orgs))'
    BY <1>4, <1>16 DEF FollowsGitHub, FollowsRepositories, Due, Data
<1>19. UpdateRuns(t)'
    BY <1>9, <1>13, <1>16, <1>17, <1>18 DEF UpdateRuns, Stages
<1> QED
    BY <1>4, <1>13, <1>16, <1>19 DEF OrderlyInv


-----------------------------------------------------------------------------
(* The steps of a task: what they have in common.                          *)

LEMMA DataStep ==
    ASSUME AppIInv, UNCHANGED <<kind, github, versions>>,
           happened' \in Counts, happened'.changes = happened.changes,
           orderly' \in BOOLEAN, alone' \in BOOLEAN, missed' \in SUBSET Orgs,
           doc' \in [Orgs -> DocsOrNone], Unique(doc'),
           stored' \in [Orgs -> Fetched \cup {None}], UniqueStored', IsABag(tasks'),
           NEW owner, Sound(owner), \A o \in Orgs : doc'[o] # None => Owns(owner, o, doc'[o].id),
           \A u \in BagToSet(tasks') : u \in BagToSet(tasks) \/ Shape(owner, u)
    PROVE  DataInv'
<1>1. Types'
    BY DEF AppIInv, DataInv, Types, Counts
<1>2. Sound(owner)'
    BY SoundStep
<1> QED
    BY <1>1, <1>2 DEF DataInv, Unique

\* Only the tasks change.
LEMMA TasksStep ==
    ASSUME AppIInv, UNCHANGED <<kind, github, versions, doc, stored>>,
           happened' \in Counts, happened'.changes = happened.changes,
           Undisturbed \/ Broken, IsABag(tasks'), NEW owner, Sound(owner),
           \A u \in BagToSet(tasks') : u \in BagToSet(tasks) \/ Shape(owner, u)
    PROVE  DataInv'
<1>1. Types /\ Unique(doc) /\ UniqueStored
    BY DEF AppIInv, DataInv
<1>2. orderly' \in BOOLEAN /\ alone' \in BOOLEAN /\ missed' \in SUBSET Orgs
    BY <1>1 DEF Types, Undisturbed, Broken
<1>3. doc' \in [Orgs -> DocsOrNone] /\ Unique(doc') /\ UniqueStored'
      /\ stored' \in [Orgs -> Fetched \cup {None}]
    BY <1>1 DEF Types, Unique, UniqueStored
<1>4. \A o \in Orgs : doc'[o] # None => Owns(owner, o, doc'[o].id)
    BY DEF Sound
<1> QED
    BY <1>2, <1>3, <1>4, DataStep

LEMMA BrokenStep ==
    ASSUME DataInv', Broken
    PROVE  AppIInv'
BY DEF Broken, AppIInv, AloneInv, OrderlyInv

LEMMA CountFacts ==
    ASSUME AppIInv, UNCHANGED happened
    PROVE  happened' \in Counts /\ happened'.changes = happened.changes
BY DEF AppIInv, DataInv, Types, Counts

\* What the formulas are about does not change.
LEMMA Same ==
    ASSUME UNCHANGED <<kind, github, versions, doc, stored, missed>>
    PROVE  /\ FollowsRegistry' <=> FollowsRegistry
           /\ \A os : FollowsGitHub(os)' <=> FollowsGitHub(os)
           /\ \A os : FollowsRepositories(os)' <=> FollowsRepositories(os)
           /\ \A force : Kept(force)' <=> Kept(force)
           /\ \A o : Current(o)' = Current(o) /\ (Installed(o)' <=> Installed(o))
           /\ Due' = Due /\ Listable' = Listable
BY DEF FollowsRegistry, Latest, FollowsGitHub, FollowsRepositories, Kept, Current, Installed,
       Due, Listable, Data

\* Which phase a task is in shows by what it does.
LEMMA EventPhase ==
    ASSUME AppIInv, NEW t \in BagToSet(tasks), t.what \in Notices \cup {"created"}
    PROVE  /\ ~alone
           /\ orderly => /\ \A o \in Orgs : github[o].state = "suspended" => o \in missed
                         /\ EventRuns(t)
<1>1. \A orgs : ~Fetching(orgs)
    BY DEF Fetching, Brings, Notices
<1>2. ~InitRuns(t) /\ ~UpdateRuns(t)
    BY DEF InitRuns, UpdateRuns, Notices
<1>3. alone \in BOOLEAN
    BY DEF AppIInv, DataInv, Types
<1> QED
    BY <1>1, <1>2, <1>3, Phases

LEMMA UpdatePhase ==
    ASSUME AppIInv, NEW t \in BagToSet(tasks), t.what \in {"init", "registry"}
    PROVE  /\ alone => InitRuns(t)
           /\ orderly => /\ \A o \in Orgs : github[o].state = "suspended" => o \in missed
                         /\ UpdateRuns(t)
<1>1. \A orgs : ~Fetching(orgs)
    BY DEF Fetching, Brings
<1>2. ~EventRuns(t)
    BY DEF EventRuns, Notices
<1> QED
    BY <1>1, <1>2, Phases

LEMMA FetchPhase ==
    ASSUME AppIInv, NEW t \in BagToSet(tasks), t.what = "fetch"
    PROVE  /\ alone => FollowsRegistry /\ FollowsGitHub(Listable) /\ Fetching(Orgs)
           /\ orderly => /\ \A o \in Orgs : github[o].state = "suspended" => o \in missed
                         /\ FollowsRegistry /\ FollowsGitHub(Orgs) /\ Fetching(Due)
<1>1. ~EventRuns(t) /\ ~InitRuns(t) /\ ~UpdateRuns(t)
    BY DEF EventRuns, InitRuns, UpdateRuns, Notices
<1> QED
    BY <1>1, Phases

\* The orders to fetch.
LEMMA FetchFacts ==
    ASSUME NEW o \in Orgs, NEW id \in Nat \ {0}, NEW version \in Nat, kind \in {"config", "policies"}
    PROVE  /\ IsTask(Fetch(o, id, version))
           /\ Fetch(o, id, version).what = "fetch" /\ Fetch(o, id, version).org = o
           /\ Fetch(o, id, version).id = id /\ Fetch(o, id, version).stage = "begin"
           /\ Fetch(o, id, version).version = IF kind = "config" THEN 0 ELSE version
           /\ \A owner : Owns(owner, o, id) => Shape(owner, Fetch(o, id, version))
<1>1. PICK u : u = Fetch(o, id, version)
    OBVIOUS
<1>2. u = [what |-> "fetch", org |-> o, id |-> id, stage |-> "begin",
           version |-> IF kind = "config" THEN 0 ELSE version, seen |-> u.seen]
    BY <1>1 DEF Fetch, Task
<1>3. u.what = "fetch" /\ u.org = o /\ u.id = id /\ u.stage = "begin"
      /\ u.version = IF kind = "config" THEN 0 ELSE version
    BY <1>2
<1>4. u.version \in Nat
    BY <1>3
<1>5. u = [what |-> "fetch", org |-> o, id |-> id, stage |-> "begin", version |-> u.version, seen |-> u.seen]
    BY <1>2, <1>3
<1>6. IsTask(u)
    BY <1>4, <1>5 DEF IsTask, Whats, Moments
<1>7. \A owner : Owns(owner, o, id) => Shape(owner, u)
    BY <1>3, <1>6 DEF Shape, IsFetch
<1> QED
    BY <1>1, <1>3, <1>6, <1>7


-----------------------------------------------------------------------------
(* Events.                                                                 *)

\* An event that has not been dealt with yet.
LEMMA EventFacts ==
    ASSUME AppIInv, NEW t \in BagToSet(tasks), t.what \in Notices \cup {"created"},
           NEW owner, Sound(owner)
    PROVE  /\ IsTask(t) /\ t.org \in Orgs /\ t.id \in Nat \ {0} /\ t.version \in Nat
           /\ Owns(owner, t.org, t.id)
           /\ Found(t.id) = IF doc[t.org] # None /\ doc[t.org].id = t.id THEN {t.org} ELSE {}
           /\ t.stage = "save" => t.seen \in Accounts /\ t.seen.id = t.id
<1>1. IsTask(t) /\ Shape(owner, t)
    BY TaskFacts
<1>2. IsEvent(owner, t) /\ t.id \in Nat /\ t.version \in Nat
    BY <1>1 DEF Shape, IsUpdate, IsFetch, Notices, IsTask
<1>3. t.org \in Orgs /\ t.id # 0 /\ Owns(owner, t.org, t.id)
    BY <1>2 DEF IsEvent
<1>4. t.stage = "save" => t.seen \in Accounts /\ t.seen.id = t.id
    BY <1>2 DEF IsEvent
<1> QED
    BY <1>1, <1>2, <1>3, <1>4, FoundFacts

LEMMA CreatedBeginsStep ==
    ASSUME AppIInv, NEW t \in BagToSet(tasks), CreatedBegins(t)
    PROVE  AppIInv'
<1>1. Types
    BY DEF AppIInv, DataInv
<1>2. PICK owner : Sound(owner)
    BY DEF AppIInv, DataInv
<1>3. PICK u : u = [t EXCEPT !.stage = "read", !.version = Len(versions)]
    OBVIOUS
<1>4. /\ t.what = "created" /\ t.stage = "begin"
      /\ Continue(t, u) /\ Undisturbed
      /\ UNCHANGED <<kind, github, versions, doc, stored, happened>>
    BY <1>3 DEF CreatedBegins, Step
<1>5. /\ IsTask(t) /\ t.org \in Orgs /\ t.id \in Nat \ {0} /\ Owns(owner, t.org, t.id)
    BY <1>2, <1>4, EventFacts
<1>6. Len(versions) \in Nat
    BY <1>1, LenProperties DEF Types
<1>7. /\ u.what = "created" /\ u.org = t.org /\ u.id = t.id /\ u.stage = "read"
      /\ u.version = Len(versions) /\ IsTask(u)
    <2>1. u = [what |-> "created", org |-> t.org, id |-> t.id, stage |-> "read",
               version |-> Len(versions), seen |-> t.seen]
        BY <1>3, <1>4, <1>5 DEF IsTask
    <2>2. t.org \in Orgs \cup {"none"} /\ t.id \in Nat
        BY <1>5
    <2> QED
        BY <1>6, <2>1, <2>2 DEF IsTask, Whats, Moments
<1>8. Shape(owner, u)
    BY <1>5, <1>7 DEF Shape, IsEvent
<1>9. /\ IsABag(tasks') /\ u \in BagToSet(tasks')
      /\ \A x \in BagToSet(tasks') : x = u \/ x \in BagToSet(tasks)
      /\ Only(t) => tasks' = SetToBag({u})
    BY <1>1, <1>4, GoesOn DEF Types
<1>10. DataInv'
    BY <1>2, <1>4, <1>8, <1>9, CountFacts, TasksStep
<1>11. ~alone' /\ (orderly' => orderly)
    BY <1>4, EventPhase DEF Undisturbed
<1>12. SUFFICES ASSUME orderly'
                PROVE  OrderlyInv'
    BY <1>10, <1>11 DEF AppIInv, OrderlyInv, AloneInv
<1>13. (\A o \in Orgs : github[o].state = "suspended" => o \in missed) /\ EventRuns(t)
    BY <1>4, <1>11, <1>12, EventPhase
<1>14. Only(u)'
    BY <1>9, <1>13 DEF EventRuns, Only
<1>15. EventRuns(u)'
    BY <1>4, <1>7, <1>13, <1>14, Same DEF EventRuns, Undisturbed, Notices
<1> QED
    BY <1>4, <1>9, <1>13, <1>15 DEF OrderlyInv, Undisturbed

LEMMA CreatedReadsStep ==
    ASSUME AppIInv, NEW t \in BagToSet(tasks), CreatedReads(t)
    PROVE  AppIInv'
<1>1. Types
    BY DEF AppIInv, DataInv
<1>2. PICK owner : Sound(owner)
    BY DEF AppIInv, DataInv
<1>3. PICK u : u = [t EXCEPT !.stage = "save", !.seen = github[t.org]]
    OBVIOUS
<1>4. /\ t.what = "created" /\ t.stage = "read"
      /\ UNCHANGED <<kind, github, versions, doc, stored, happened>>
    BY DEF CreatedReads, Step
<1>5. /\ IsTask(t) /\ t.org \in Orgs /\ t.id \in Nat \ {0} /\ Owns(owner, t.org, t.id)
    BY <1>2, <1>4, EventFacts
<1>6. CASE github[t.org].id # t.id
    <2>1. Ends(t) /\ Broken
        BY <1>6 DEF CreatedReads
    <2>2. IsABag(tasks') /\ BagToSet(tasks') \subseteq BagToSet(tasks)
        BY <1>1, <2>1, Stops DEF Types
    <2> QED
        BY <1>2, <1>4, <2>1, <2>2, CountFacts, TasksStep, BrokenStep
<1>7. CASE github[t.org].id = t.id
    <2>1. Continue(t, u) /\ Undisturbed
        BY <1>3, <1>7 DEF CreatedReads
    <2>2. github[t.org] \in Accounts
        BY <1>1, <1>5 DEF Types
    <2>3. /\ u.what = "created" /\ u.org = t.org /\ u.id = t.id /\ u.stage = "save"
          /\ u.version = t.version /\ u.seen = github[t.org] /\ IsTask(u)
        BY <1>3, <1>4, <1>5 DEF IsTask, Moments
    <2>4. Shape(owner, u)
        BY <1>5, <1>7, <2>2, <2>3 DEF Shape, IsEvent
    <2>5. /\ IsABag(tasks') /\ u \in BagToSet(tasks')
          /\ \A x \in BagToSet(tasks') : x = u \/ x \in BagToSet(tasks)
          /\ Only(t) => tasks' = SetToBag({u})
        BY <1>1, <2>1, GoesOn DEF Types
    <2>6. DataInv'
        BY <1>2, <1>4, <2>1, <2>4, <2>5, CountFacts, TasksStep
    <2>7. ~alone' /\ (orderly' => orderly)
        BY <1>4, <2>1, EventPhase DEF Undisturbed
    <2>8. SUFFICES ASSUME orderly'
                   PROVE  OrderlyInv'
        BY <2>6, <2>7 DEF AppIInv, OrderlyInv, AloneInv
    <2>9. (\A o \in Orgs : github[o].state = "suspended" => o \in missed) /\ EventRuns(t)
        BY <1>4, <2>7, <2>8, EventPhase
    <2>10. Only(u)'
        BY <2>5, <2>9 DEF EventRuns, Only
    <2>11. EventRuns(u)'
        BY <1>4, <2>1, <2>3, <2>9, <2>10, Same DEF EventRuns, Undisturbed, Notices
    <2> QED
        BY <1>4, <2>1, <2>5, <2>9, <2>11 DEF OrderlyInv, Undisturbed
<1> QED
    BY <1>6, <1>7

\* What GitHub reported of an installation makes a document of the organization again.
LEMMA ReportedFacts ==
    ASSUME NEW d \in Docs, NEW seen \in Accounts
    PROVE  /\ Reported(d, seen) \in Docs /\ Reported(d, seen) # None
           /\ Reported(d, seen).project = d.project /\ Reported(d, seen).template = d.template
           /\ Reported(d, seen).id = seen.id /\ Reported(d, seen).status = seen.state
<1>1. seen.id \in Nat /\ seen.state \in States /\ (seen.id = 0 <=> seen.state = "absent")
    BY DEF Accounts
<1>2. PICK r : r = [d EXCEPT !.id = seen.id, !.status = seen.state]
    OBVIOUS
<1>3. r \in Docs /\ r.project = d.project /\ r.template = d.template
      /\ r.id = seen.id /\ r.status = seen.state
    BY <1>1, <1>2 DEF Docs
<1> QED
    BY <1>2, <1>3, SomeAreNotNone DEF Reported


LEMMA CreatedSavesStep ==
    ASSUME AppIInv, NEW t \in BagToSet(tasks), CreatedSaves(t)
    PROVE  AppIInv'
<1>1. Types /\ Unique(doc) /\ UniqueStored
    BY DEF AppIInv, DataInv
<1>2. PICK owner : Sound(owner)
    BY DEF AppIInv, DataInv
<1>3. /\ t.what = "created" /\ t.stage = "save"
      /\ Undisturbed
      /\ UNCHANGED <<kind, github, versions, stored, happened>>
    BY DEF CreatedSaves, Step
<1>4. /\ t.org \in Orgs /\ t.id \in Nat \ {0} /\ t.version \in Nat /\ Owns(owner, t.org, t.id)
      /\ t.seen \in Accounts /\ t.seen.id = t.id
    BY <1>2, <1>3, EventFacts
<1>5. ~alone' /\ (orderly' => orderly)
    BY <1>3, EventPhase DEF Undisturbed
<1>6. orderly' => (\A o \in Orgs : github[o].state = "suspended" => o \in missed) /\ EventRuns(t)
    BY <1>3, <1>5, EventPhase
<1>7. CASE doc[t.org] = None
    <2>1. Ends(t) /\ UNCHANGED doc
        BY <1>7 DEF CreatedSaves
    <2>2. IsABag(tasks') /\ BagToSet(tasks') \subseteq BagToSet(tasks)
          /\ (Only(t) => BagToSet(tasks') = {})
        BY <1>1, <2>1, Stops DEF Types
    <2>3. DataInv'
        BY <1>2, <1>3, <2>1, <2>2, CountFacts, TasksStep
    <2>4. SUFFICES ASSUME orderly'
                   PROVE  OrderlyInv'
        BY <1>5, <2>3 DEF AppIInv, OrderlyInv, AloneInv
    <2>5. FollowsRegistry' /\ FollowsGitHub(Orgs)'
        BY <1>3, <1>6, <1>7, <2>1, <2>4, Same DEF EventRuns, FollowsGitHub, Undisturbed
    <2>6. BagToSet(tasks') = {}
        BY <1>6, <2>2, <2>4 DEF EventRuns
    <2>7. Fetching(Due)'
        BY <1>3, <1>6, <1>7, <2>1, <2>4, <2>6, Same
           DEF EventRuns, Fetching, FollowsRepositories, Installed, Current, Undisturbed
    <2> QED
        BY <1>3, <1>6, <2>4, <2>5, <2>7 DEF OrderlyInv, Undisturbed
<1>8. CASE doc[t.org] # None
    <2>1. PICK u : u = Fetch(t.org, t.id, t.version)
        OBVIOUS
    <2>2. PICK d : d = Reported(doc[t.org], t.seen)
        OBVIOUS
    <2>3. doc' = [doc EXCEPT ![t.org] = d] /\ Continue(t, u)
        BY <1>8, <2>1, <2>2 DEF CreatedSaves
    <2>4. doc \in [Orgs -> DocsOrNone] /\ doc[t.org] \in Docs
        BY <1>1, <1>4, <1>8 DEF Types, DocsOrNone
    <2>5. /\ d \in Docs /\ d # None /\ d.id = t.id /\ d.status = t.seen.state
          /\ d.project = doc[t.org].project /\ d.template = doc[t.org].template
        BY <1>4, <2>2, <2>4, ReportedFacts
    <2>6. /\ doc' \in [Orgs -> DocsOrNone] /\ doc'[t.org] = d
          /\ \A o \in Orgs : o # t.org => doc'[o] = doc[o]
        BY <1>4, <2>3, <2>4, <2>5 DEF DocsOrNone
    <2>7. Unique(doc')
        BY <1>1, <1>8, <2>5, <2>6 DEF Unique
    <2>8. \A o \in Orgs : doc'[o] # None => Owns(owner, o, doc'[o].id)
        BY <1>2, <1>4, <2>5, <2>6 DEF Sound
    <2>9. /\ Shape(owner, u) /\ u.what = "fetch" /\ u.org = t.org /\ u.id = t.id /\ u.stage = "begin"
          /\ u.version = IF kind = "config" THEN 0 ELSE t.version
        BY <1>1, <1>4, <2>1, FetchFacts DEF Types
    <2>10. /\ IsABag(tasks')
           /\ \A x \in BagToSet(tasks') : x = u \/ x \in BagToSet(tasks)
           /\ Only(t) => BagToSet(tasks') = {u}
        BY <1>1, <2>3, GoesOn DEF Types
    <2>11. DataInv'
        <3>1. orderly' \in BOOLEAN /\ alone' \in BOOLEAN /\ missed' \in SUBSET Orgs
              /\ stored' \in [Orgs -> Fetched \cup {None}] /\ UniqueStored'
            BY <1>1, <1>3 DEF Types, Undisturbed, UniqueStored, Unique
        <3> QED
            BY <1>2, <1>3, <2>6, <2>7, <2>8, <2>9, <2>10, <3>1, CountFacts, DataStep
    <2>12. SUFFICES ASSUME orderly'
                    PROVE  OrderlyInv'
        BY <1>5, <2>11 DEF AppIInv, OrderlyInv, AloneInv
    <2>13. EventRuns(t) /\ BagToSet(tasks') = {u}
        BY <1>6, <2>10, <2>12 DEF EventRuns
    <2>14. FollowsRegistry'
        BY <1>3, <1>4, <1>8, <2>5, <2>6, <2>13 DEF EventRuns, FollowsRegistry, Latest
    <2>15. FollowsGitHub(Orgs)'
        BY <1>3, <2>5, <2>6, <2>13 DEF EventRuns, FollowsGitHub
    <2>16. Brings(u)'
        BY <1>3, <2>5, <2>6, <2>9, <2>13 DEF Brings, EventRuns
    <2>17. FollowsRepositories(Due \ {t.org})'
        BY <1>3, <2>6, <2>13 DEF EventRuns, FollowsRepositories, Due, Data, Undisturbed
    <2>18. Fetching(Due)'
        BY <2>9, <2>13, <2>16, <2>17 DEF Fetching, FollowsRepositories, Installed, Current
    <2> QED
        BY <1>3, <1>6, <2>12, <2>14, <2>15, <2>18 DEF OrderlyInv, Undisturbed
<1> QED
    BY <1>7, <1>8

LEMMA NotInstalledFacts ==
    ASSUME NEW d \in Docs
    PROVE  /\ NotInstalled(d) \in Docs /\ NotInstalled(d) # None
           /\ NotInstalled(d).project = d.project /\ NotInstalled(d).template = d.template
           /\ NotInstalled(d).id = 0 /\ NotInstalled(d).status = "absent"
<1>1. PICK r : r = [d EXCEPT !.id = 0, !.status = "absent"]
    OBVIOUS
<1>2. r \in Docs /\ r.project = d.project /\ r.template = d.template
      /\ r.id = 0 /\ r.status = "absent"
    BY <1>1 DEF Docs, States
<1> QED
    BY <1>1, <1>2, SomeAreNotNone DEF NotInstalled

\* What is kept is what was there, of organizations that still have a document.
LEMMA CleanedUpFacts ==
    ASSUME Types, UniqueStored, NEW docs
    PROVE  /\ CleanedUp(docs) \in [Orgs -> Fetched \cup {None}]
           /\ kind = "config" => Unique(CleanedUp(docs))
           /\ \A o \in Orgs : CleanedUp(docs)[o] = IF docs[o] = None THEN None ELSE stored[o]
BY DEF Types, UniqueStored, Unique, CleanedUp

LEMMA DeletedStep ==
    ASSUME AppIInv, NEW t \in BagToSet(tasks), Deleted(t)
    PROVE  AppIInv'
<1>1. Types /\ Unique(doc) /\ UniqueStored
    BY DEF AppIInv, DataInv
<1>2. PICK owner : Sound(owner)
    BY DEF AppIInv, DataInv
<1>3. /\ t.what = "deleted" /\ t.stage = "begin"
      /\ doc' = [o \in Orgs |-> IF o \in Found(t.id) THEN NotInstalled(doc[o]) ELSE doc[o]]
      /\ stored' = IF Found(t.id) = {} THEN stored ELSE CleanedUp(doc)
      /\ Ends(t) /\ Undisturbed
      /\ UNCHANGED <<kind, github, versions, happened>>
    BY DEF Deleted, Step
<1>4. t.org \in Orgs /\ t.what \in Notices
      /\ Found(t.id) = IF doc[t.org] # None /\ doc[t.org].id = t.id THEN {t.org} ELSE {}
    BY <1>2, <1>3, EventFacts DEF Notices
<1>5. doc \in [Orgs -> DocsOrNone]
    BY <1>1 DEF Types
<1>6. \A o \in Orgs : doc[o] # None =>
          /\ doc[o] \in Docs
          /\ NotInstalled(doc[o]) \in Docs /\ NotInstalled(doc[o]) # None
          /\ NotInstalled(doc[o]).project = doc[o].project
          /\ NotInstalled(doc[o]).template = doc[o].template
          /\ NotInstalled(doc[o]).id = 0 /\ NotInstalled(doc[o]).status = "absent"
    BY <1>5, NotInstalledFacts DEF DocsOrNone
<1>7. \A o \in Orgs : doc'[o] = IF o \in Found(t.id) THEN NotInstalled(doc[o]) ELSE doc[o]
    BY <1>3
<1>8. doc' \in [Orgs -> DocsOrNone]
    BY <1>3, <1>4, <1>5, <1>6 DEF DocsOrNone
<1>9. \A o \in Orgs : /\ doc'[o] = None <=> doc[o] = None
                      /\ doc[o] # None => doc'[o].project = doc[o].project
                                          /\ doc'[o].template = doc[o].template
    BY <1>4, <1>6, <1>7
<1>10. Unique(doc')
    BY <1>1, <1>9 DEF Unique
<1>11. \A o \in Orgs : doc'[o] # None => Owns(owner, o, doc'[o].id)
    BY <1>2, <1>4, <1>6, <1>7 DEF Sound, Owns
<1>12. stored' \in [Orgs -> Fetched \cup {None}] /\ UniqueStored'
    BY <1>1, <1>3, CleanedUpFacts DEF Types, UniqueStored, Unique
<1>13. IsABag(tasks') /\ BagToSet(tasks') \subseteq BagToSet(tasks)
       /\ (Only(t) => BagToSet(tasks') = {})
    BY <1>1, <1>3, Stops DEF Types
<1>14. DataInv'
    <2>1. orderly' \in BOOLEAN /\ alone' \in BOOLEAN /\ missed' \in SUBSET Orgs
        BY <1>1, <1>3 DEF Types, Undisturbed
    <2> QED
        BY <1>2, <1>3, <1>8, <1>10, <1>11, <1>12, <1>13, <2>1, CountFacts, DataStep
<1>15. ~alone' /\ (orderly' => orderly)
    BY <1>3, <1>4, EventPhase DEF Undisturbed
<1>16. SUFFICES ASSUME orderly'
                PROVE  OrderlyInv'
    BY <1>14, <1>15 DEF AppIInv, OrderlyInv, AloneInv
<1>17. (\A o \in Orgs : github[o].state = "suspended" => o \in missed) /\ EventRuns(t)
    BY <1>4, <1>15, <1>16, EventPhase
<1>18. /\ FollowsRegistry /\ FollowsGitHub(Orgs \ {t.org}) /\ FollowsRepositories(Due \ {t.org})
       /\ doc[t.org] # None => doc[t.org].id = t.id
       /\ github[t.org].state = "absent"
       /\ BagToSet(tasks') = {}
    BY <1>3, <1>13, <1>17 DEF EventRuns
<1>19. \A o \in Orgs : stored'[o] = stored[o]
    BY <1>1, <1>3, <1>18, CleanedUpFacts DEF FollowsRegistry
<1>20. FollowsRegistry'
    BY <1>3, <1>9, <1>18, <1>19 DEF FollowsRegistry, Latest
<1>21. FollowsGitHub(Orgs)'
    <2>1. github[t.org].id = 0
        BY <1>1, <1>4, <1>18 DEF Types, Accounts
    <2> QED
        BY <1>3, <1>4, <1>6, <1>7, <1>9, <1>18, <2>1 DEF FollowsGitHub
<1>22. Fetching(Due)'
    <2>1. \A o \in Due : o \in Orgs
        BY DEF Due
    <2>2. \A o \in Orgs : o # t.org => doc'[o] = doc[o]
        BY <1>4, <1>7
    <2> QED
        BY <1>3, <1>18, <1>19, <2>1, <2>2
           DEF Fetching, FollowsRepositories, Installed, Current, Due, Data, Undisturbed
<1> QED
    BY <1>3, <1>17, <1>20, <1>21, <1>22 DEF OrderlyInv, Undisturbed


\* The status of an installation that is known changes, not its id.
LEMMA StatusFacts ==
    ASSUME NEW d \in Docs, d.id # 0, NEW status \in {"installed", "suspended"}
    PROVE  /\ [d EXCEPT !.status = status] \in Docs /\ [d EXCEPT !.status = status] # None
           /\ [d EXCEPT !.status = status].project = d.project
           /\ [d EXCEPT !.status = status].template = d.template
           /\ [d EXCEPT !.status = status].id = d.id
           /\ [d EXCEPT !.status = status].status = status
<1>1. PICK r : r = [d EXCEPT !.status = status]
    OBVIOUS
<1>2. r \in Docs /\ r.project = d.project /\ r.template = d.template
      /\ r.id = d.id /\ r.status = status
    BY <1>1 DEF Docs, States
<1> QED
    BY <1>1, <1>2, SomeAreNotNone

\* The document of the organization an event is about gets another status.
LEMMA StatusStep ==
    ASSUME AppIInv, NEW t \in BagToSet(tasks), t.what \in Notices \cup {"created"},
           NEW owner, Sound(owner), NEW status \in {"installed", "suspended"},
           doc' = [o \in Orgs |-> IF o \in Found(t.id) THEN [doc[o] EXCEPT !.status = status]
                                                      ELSE doc[o]]
    PROVE  /\ doc' \in [Orgs -> DocsOrNone] /\ Unique(doc')
           /\ \A o \in Orgs :
                  /\ doc'[o] = None <=> doc[o] = None
                  /\ doc[o] # None => /\ doc'[o].project = doc[o].project
                                      /\ doc'[o].template = doc[o].template
                                      /\ doc'[o].id = doc[o].id
                                      /\ Owns(owner, o, doc'[o].id)
                  /\ o # t.org => doc'[o] = doc[o]
           /\ doc[t.org] # None /\ doc[t.org].id = t.id => doc'[t.org].status = status
<1>1. Types /\ Unique(doc)
    BY DEF AppIInv, DataInv
<1>2. /\ t.org \in Orgs /\ t.id \in Nat \ {0}
      /\ Found(t.id) = IF doc[t.org] # None /\ doc[t.org].id = t.id THEN {t.org} ELSE {}
    BY EventFacts
<1>3. doc \in [Orgs -> DocsOrNone]
    BY <1>1 DEF Types
<1>4. \A o \in Orgs : doc'[o] = IF o \in Found(t.id) THEN [doc[o] EXCEPT !.status = status] ELSE doc[o]
    OBVIOUS
<1>5. \A o \in Orgs : o \in Found(t.id) => o = t.org /\ doc[o] \in Docs /\ doc[o].id # 0 /\ doc[o] # None
    BY <1>2, <1>3 DEF DocsOrNone
<1>6. \A o \in Orgs : o \in Found(t.id) =>
          /\ doc'[o] \in Docs /\ doc'[o] # None
          /\ doc'[o].project = doc[o].project /\ doc'[o].template = doc[o].template
          /\ doc'[o].id = doc[o].id /\ doc'[o].status = status
    BY <1>4, <1>5, StatusFacts
<1>7. \A o \in Orgs :
          /\ doc'[o] = None <=> doc[o] = None
          /\ doc[o] # None => /\ doc'[o].project = doc[o].project
                              /\ doc'[o].template = doc[o].template
                              /\ doc'[o].id = doc[o].id
          /\ o # t.org => doc'[o] = doc[o]
    BY <1>4, <1>5, <1>6
<1>8. doc' \in [Orgs -> DocsOrNone]
    <2>1. \A o \in Orgs : doc'[o] \in DocsOrNone
        BY <1>3, <1>4, <1>6 DEF DocsOrNone
    <2> QED
        BY <2>1
<1>9. Unique(doc')
    BY <1>1, <1>7 DEF Unique
<1>10. doc[t.org] # None /\ doc[t.org].id = t.id => doc'[t.org].status = status
    BY <1>2, <1>6
<1>11. \A o \in Orgs : doc[o] # None => Owns(owner, o, doc'[o].id)
    BY <1>7 DEF Sound
<1> QED
    BY <1>7, <1>8, <1>9, <1>10, <1>11

LEMMA SuspendedStep ==
    ASSUME AppIInv, NEW t \in BagToSet(tasks), Suspended(t)
    PROVE  AppIInv'
<1>1. Types /\ Unique(doc) /\ UniqueStored
    BY DEF AppIInv, DataInv
<1>2. PICK owner : Sound(owner)
    BY DEF AppIInv, DataInv
<1>3. /\ t.what = "suspend" /\ t.stage = "begin"
      /\ doc' = [o \in Orgs |-> IF o \in Found(t.id) THEN [doc[o] EXCEPT !.status = "suspended"]
                                                     ELSE doc[o]]
      /\ Ends(t) /\ Undisturbed
      /\ UNCHANGED <<kind, github, versions, stored, happened>>
    BY DEF Suspended, Step
<1>4. t.org \in Orgs /\ t.what \in Notices
    BY <1>2, <1>3, EventFacts DEF Notices
<1>5. /\ doc' \in [Orgs -> DocsOrNone] /\ Unique(doc')
      /\ \A o \in Orgs :
             /\ doc'[o] = None <=> doc[o] = None
             /\ doc[o] # None => /\ doc'[o].project = doc[o].project
                                 /\ doc'[o].template = doc[o].template
                                 /\ doc'[o].id = doc[o].id
                                 /\ Owns(owner, o, doc'[o].id)
             /\ o # t.org => doc'[o] = doc[o]
      /\ doc[t.org] # None /\ doc[t.org].id = t.id => doc'[t.org].status = "suspended"
    BY <1>2, <1>3, <1>4, StatusStep
<1>6. IsABag(tasks') /\ BagToSet(tasks') \subseteq BagToSet(tasks)
      /\ (Only(t) => BagToSet(tasks') = {})
    BY <1>1, <1>3, Stops DEF Types
<1>7. DataInv'
    <2>1. orderly' \in BOOLEAN /\ alone' \in BOOLEAN /\ missed' \in SUBSET Orgs
          /\ stored' \in [Orgs -> Fetched \cup {None}] /\ UniqueStored'
        BY <1>1, <1>3 DEF Types, Undisturbed, UniqueStored, Unique
    <2> QED
        BY <1>2, <1>3, <1>5, <1>6, <2>1, CountFacts, DataStep
<1>8. ~alone' /\ (orderly' => orderly)
    BY <1>3, <1>4, EventPhase DEF Undisturbed
<1>9. SUFFICES ASSUME orderly'
               PROVE  OrderlyInv'
    BY <1>7, <1>8 DEF AppIInv, OrderlyInv, AloneInv
<1>10. (\A o \in Orgs : github[o].state = "suspended" => o \in missed) /\ EventRuns(t)
    BY <1>4, <1>8, <1>9, EventPhase
<1>11. /\ FollowsRegistry /\ FollowsGitHub(Orgs \ {t.org}) /\ FollowsRepositories(Due \ {t.org})
       /\ doc[t.org] # None => doc[t.org].id = t.id
       /\ github[t.org].state = "suspended" /\ github[t.org].id = t.id
       /\ BagToSet(tasks') = {}
    BY <1>3, <1>6, <1>10 DEF EventRuns
<1>12. FollowsRegistry'
    BY <1>3, <1>5, <1>11 DEF FollowsRegistry, Latest
<1>13. FollowsGitHub(Orgs)'
    <2>1. doc'[t.org] # None => doc'[t.org].id = t.id /\ doc'[t.org].status = "suspended"
        BY <1>4, <1>5, <1>11
    <2>2. \A o \in Orgs \ {t.org} : doc'[o] # None => doc'[o].id = github[o].id /\ doc'[o].status = github[o].state
        BY <1>5, <1>11 DEF FollowsGitHub
    <2> QED
        BY <1>3, <1>11, <2>1, <2>2 DEF FollowsGitHub
<1>14. Fetching(Due)'
    <2>1. \A o \in Due : o \in Orgs
        BY DEF Due
    <2> QED
        BY <1>3, <1>5, <1>11, <2>1
           DEF Fetching, FollowsRepositories, Installed, Current, Due, Data, Undisturbed
<1> QED
    BY <1>3, <1>10, <1>12, <1>13, <1>14 DEF OrderlyInv, Undisturbed

LEMMA UnsuspendedStep ==
    ASSUME AppIInv, NEW t \in BagToSet(tasks), Unsuspended(t)
    PROVE  AppIInv'
<1>1. Types /\ Unique(doc) /\ UniqueStored
    BY DEF AppIInv, DataInv
<1>2. PICK owner : Sound(owner)
    BY DEF AppIInv, DataInv
<1>3. PICK ts : ts = {Fetch(o, t.id, 0) : o \in {p \in Found(t.id) : kind = "config"}}
    OBVIOUS
<1>4. /\ t.what = "unsuspend" /\ t.stage = "begin"
      /\ doc' = [o \in Orgs |-> IF o \in Found(t.id) THEN [doc[o] EXCEPT !.status = "installed"]
                                                     ELSE doc[o]]
      /\ tasks' = WithAll(Without(tasks, t), ts) /\ Undisturbed
      /\ UNCHANGED <<kind, github, versions, stored, happened>>
    BY <1>3 DEF Unsuspended, Step
<1>5. t.org \in Orgs /\ t.id \in Nat \ {0} /\ t.what \in Notices /\ Owns(owner, t.org, t.id)
      /\ Found(t.id) = IF doc[t.org] # None /\ doc[t.org].id = t.id THEN {t.org} ELSE {}
    BY <1>2, <1>4, EventFacts DEF Notices
<1>6. /\ doc' \in [Orgs -> DocsOrNone] /\ Unique(doc')
      /\ \A o \in Orgs :
             /\ doc'[o] = None <=> doc[o] = None
             /\ doc[o] # None => /\ doc'[o].project = doc[o].project
                                 /\ doc'[o].template = doc[o].template
                                 /\ doc'[o].id = doc[o].id
                                 /\ Owns(owner, o, doc'[o].id)
             /\ o # t.org => doc'[o] = doc[o]
      /\ doc[t.org] # None /\ doc[t.org].id = t.id => doc'[t.org].status = "installed"
    BY <1>2, <1>4, <1>5, StatusStep
<1>7. PICK u : u = Fetch(t.org, t.id, 0)
    OBVIOUS
<1>8. /\ Shape(owner, u) /\ u.what = "fetch" /\ u.org = t.org /\ u.id = t.id /\ u.stage = "begin"
      /\ kind = "config" => u.version = 0
    BY <1>1, <1>5, <1>7, FetchFacts DEF Types
<1>9. ts = IF kind = "config" /\ doc[t.org] # None /\ doc[t.org].id = t.id THEN {u} ELSE {}
    BY <1>3, <1>5, <1>7
<1>10. /\ IsABag(tasks')
       /\ \A x \in BagToSet(tasks') : x = u \/ x \in BagToSet(tasks)
       /\ Only(t) => BagToSet(tasks') = ts
    <2>1. /\ IsABag(tasks')
          /\ \A x \in BagToSet(tasks') : x \in ts \/ x \in BagToSet(tasks)
          /\ Only(t) => BagToSet(tasks') = ts
        BY <1>1, <1>4, Spawns DEF Types
    <2>2. \A x \in ts : x = u
        BY <1>9
    <2> QED
        BY <2>1, <2>2
<1>11. DataInv'
    <2>1. orderly' \in BOOLEAN /\ alone' \in BOOLEAN /\ missed' \in SUBSET Orgs
          /\ stored' \in [Orgs -> Fetched \cup {None}] /\ UniqueStored'
        BY <1>1, <1>4 DEF Types, Undisturbed, UniqueStored, Unique
    <2> QED
        BY <1>2, <1>4, <1>6, <1>8, <1>10, <2>1, CountFacts, DataStep
<1>12. ~alone' /\ (orderly' => orderly)
    BY <1>4, <1>5, EventPhase DEF Undisturbed
<1>13. SUFFICES ASSUME orderly'
                PROVE  OrderlyInv'
    BY <1>11, <1>12 DEF AppIInv, OrderlyInv, AloneInv
<1>14. (\A o \in Orgs : github[o].state = "suspended" => o \in missed) /\ EventRuns(t)
    BY <1>5, <1>12, <1>13, EventPhase
<1>15. /\ FollowsRegistry /\ FollowsGitHub(Orgs \ {t.org}) /\ FollowsRepositories(Due \ {t.org})
       /\ doc[t.org] # None => doc[t.org].id = t.id
       /\ github[t.org].state = "installed" /\ github[t.org].id = t.id
       /\ t.org \in missed
       /\ BagToSet(tasks') = ts
    BY <1>4, <1>10, <1>14 DEF EventRuns
<1>16. FollowsRegistry'
    BY <1>4, <1>6, <1>15 DEF FollowsRegistry, Latest
<1>17. FollowsGitHub(Orgs)'
    BY <1>4, <1>5, <1>6, <1>15 DEF FollowsGitHub
<1>18. FollowsRepositories(Due \ {t.org})'
    <2>1. \A o \in Due : o \in Orgs
        BY DEF Due
    <2> QED
        BY <1>4, <1>6, <1>15, <2>1 DEF FollowsRepositories, Due, Data, Undisturbed
<1>19. \A x \in BagToSet(tasks') : Brings(x)'
    <2>1. ts # {} => doc'[t.org] # None /\ doc'[t.org].id = t.id /\ kind = "config"
        BY <1>5, <1>6, <1>9
    <2> QED
        BY <1>4, <1>8, <1>9, <1>15, <2>1 DEF Brings
<1>20. t.org \in Due' /\ Installed(t.org)' => u \in BagToSet(tasks')
    BY <1>4, <1>5, <1>6, <1>9, <1>15, <1>1 DEF Due, Installed, Undisturbed, Types
<1>21. Fetching(Due)'
    BY <1>8, <1>18, <1>19, <1>20 DEF Fetching, FollowsRepositories, Installed, Current
<1> QED
    BY <1>4, <1>14, <1>16, <1>17, <1>21 DEF OrderlyInv, Undisturbed

LEMMA PushedStep ==
    ASSUME AppIInv, NEW t \in BagToSet(tasks), Pushed(t)
    PROVE  AppIInv'
<1>1. Types
    BY DEF AppIInv, DataInv
<1>2. PICK owner : Sound(owner)
    BY DEF AppIInv, DataInv
<1>3. PICK ts : ts = {Fetch(t.org, t.id, Len(versions)) : o \in Found(t.id)}
    OBVIOUS
<1>4. /\ t.what = "push" /\ t.stage = "begin"
      /\ tasks' = WithAll(Without(tasks, t), ts) /\ Undisturbed
      /\ UNCHANGED <<kind, github, versions, doc, stored, happened>>
    BY <1>3 DEF Pushed, Step
<1>5. t.org \in Orgs /\ t.id \in Nat \ {0} /\ t.what \in Notices /\ Owns(owner, t.org, t.id)
      /\ Found(t.id) = IF doc[t.org] # None /\ doc[t.org].id = t.id THEN {t.org} ELSE {}
    BY <1>2, <1>4, EventFacts DEF Notices
<1>6. PICK u : u = Fetch(t.org, t.id, Len(versions))
    OBVIOUS
<1>7. Len(versions) \in Nat
    BY <1>1, LenProperties DEF Types
<1>8. /\ Shape(owner, u) /\ u.what = "fetch" /\ u.org = t.org /\ u.id = t.id /\ u.stage = "begin"
      /\ u.version = IF kind = "config" THEN 0 ELSE Len(versions)
    BY <1>1, <1>5, <1>6, <1>7, FetchFacts DEF Types
<1>9. ts = IF doc[t.org] # None /\ doc[t.org].id = t.id THEN {u} ELSE {}
    BY <1>3, <1>5, <1>6
<1>10. /\ IsABag(tasks')
       /\ \A x \in BagToSet(tasks') : x = u \/ x \in BagToSet(tasks)
       /\ Only(t) => BagToSet(tasks') = ts
    <2>1. /\ IsABag(tasks')
          /\ \A x \in BagToSet(tasks') : x \in ts \/ x \in BagToSet(tasks)
          /\ Only(t) => BagToSet(tasks') = ts
        BY <1>1, <1>4, Spawns DEF Types
    <2>2. \A x \in ts : x = u
        BY <1>9
    <2> QED
        BY <2>1, <2>2
<1>11. DataInv'
    BY <1>2, <1>4, <1>8, <1>10, CountFacts, TasksStep
<1>12. ~alone' /\ (orderly' => orderly)
    BY <1>4, <1>5, EventPhase DEF Undisturbed
<1>13. SUFFICES ASSUME orderly'
                PROVE  OrderlyInv'
    BY <1>11, <1>12 DEF AppIInv, OrderlyInv, AloneInv
<1>14. (\A o \in Orgs : github[o].state = "suspended" => o \in missed) /\ EventRuns(t)
    BY <1>5, <1>12, <1>13, EventPhase
<1>15. /\ FollowsRegistry /\ FollowsGitHub(Orgs \ {t.org}) /\ FollowsRepositories(Due \ {t.org})
       /\ FollowsGitHub({t.org})
       /\ doc[t.org] # None => doc[t.org].id = t.id
       /\ BagToSet(tasks') = ts
    BY <1>4, <1>10, <1>14 DEF EventRuns
<1>16. FollowsRegistry' /\ FollowsRepositories(Due \ {t.org})'
    BY <1>4, <1>15, Same DEF Undisturbed
<1>17. FollowsGitHub(Orgs)'
    BY <1>4, <1>15 DEF FollowsGitHub
<1>18. \A x \in BagToSet(tasks') : Brings(x)'
    BY <1>4, <1>8, <1>9, <1>15 DEF Brings
<1>19. Installed(t.org)' => u \in BagToSet(tasks')
    BY <1>4, <1>9, <1>15 DEF Installed
<1>20. Fetching(Due)'
    BY <1>8, <1>16, <1>18, <1>19 DEF Fetching, FollowsRepositories, Installed, Current
<1> QED
    BY <1>4, <1>14, <1>16, <1>17, <1>20 DEF OrderlyInv, Undisturbed


-----------------------------------------------------------------------------
(* An update from the registry.                                            *)

\* An update that is under way.
LEMMA UpdateTaskFacts ==
    ASSUME AppIInv, NEW t \in BagToSet(tasks),
           t.what \in {"init", "registry"} \/ t.stage \in {"apply", "list"},
           NEW owner, Sound(owner)
    PROVE  /\ IsTask(t) /\ t.what \in {"init", "registry"} /\ t.version \in Nat
           /\ t.stage = "apply" => t.version \in DOMAIN versions
           /\ t.stage = "list" => t.seen \in SUBSET Projects
           /\ t.stage = "save" =>
                  /\ t.seen \in [force : SUBSET Projects, github : [Orgs -> Accounts]]
                  /\ \A o \in Orgs : Owns(owner, o, t.seen.github[o].id)
<1>1. IsTask(t) /\ Shape(owner, t)
    BY TaskFacts
<1>2. IsUpdate(owner, t)
    BY <1>1 DEF Shape, IsEvent, IsFetch, Notices
<1>3. t.version \in Nat
    BY <1>1 DEF IsTask
<1> QED
    BY <1>1, <1>2, <1>3 DEF IsUpdate

LEMMA InitBeginsStep ==
    ASSUME AppIInv, NEW t \in BagToSet(tasks), InitBegins(t)
    PROVE  AppIInv'
<1>1. Types
    BY DEF AppIInv, DataInv
<1>2. PICK owner : Sound(owner)
    BY DEF AppIInv, DataInv
<1>3. PICK u : u = [t EXCEPT !.stage = "apply", !.version = Len(versions)]
    OBVIOUS
<1>4. /\ t.what = "init" /\ t.stage = "begin"
      /\ Continue(t, u) /\ Undisturbed
      /\ UNCHANGED <<kind, github, versions, doc, stored, happened>>
    BY <1>3 DEF InitBegins, Step
<1>5. IsTask(t)
    BY <1>2, <1>4, UpdateTaskFacts
<1>6. Len(versions) \in Nat /\ Len(versions) \in DOMAIN versions
    BY <1>1, LenProperties, EmptySeq DEF Types
<1>7. /\ u.what = "init" /\ u.stage = "apply" /\ u.version = Len(versions) /\ IsTask(u)
    BY <1>3, <1>4, <1>5, <1>6 DEF IsTask, Moments
<1>8. Shape(owner, u)
    BY <1>6, <1>7 DEF Shape, IsUpdate
<1>9. /\ IsABag(tasks') /\ u \in BagToSet(tasks')
      /\ \A x \in BagToSet(tasks') : x = u \/ x \in BagToSet(tasks)
      /\ Only(t) => tasks' = SetToBag({u})
    BY <1>1, <1>4, GoesOn DEF Types
<1>10. DataInv'
    BY <1>2, <1>4, <1>8, <1>9, CountFacts, TasksStep
<1>11. Only(t) => Only(u)'
    BY <1>9 DEF Only
<1>12. AloneInv'
    <2>1. SUFFICES ASSUME alone'
                   PROVE  AloneInv'
        BY DEF AloneInv
    <2>2. InitRuns(t)
        BY <1>4, <2>1, UpdatePhase DEF Undisturbed
    <2>3. InitRuns(u)'
        BY <1>4, <1>7, <1>11, <2>2 DEF InitRuns, Stages
    <2> QED
        BY <1>9, <2>3 DEF AloneInv
<1>13. OrderlyInv'
    <2>1. SUFFICES ASSUME orderly'
                   PROVE  OrderlyInv'
        BY DEF OrderlyInv
    <2>2. (\A o \in Orgs : github[o].state = "suspended" => o \in missed) /\ UpdateRuns(t)
        BY <1>4, <2>1, UpdatePhase DEF Undisturbed
    <2>3. UpdateRuns(u)'
        BY <1>4, <1>7, <1>11, <2>2, Same DEF UpdateRuns, Stages, Undisturbed
    <2> QED
        BY <1>4, <1>9, <2>2, <2>3 DEF OrderlyInv, Undisturbed
<1> QED
    BY <1>10, <1>12, <1>13 DEF AppIInv

LEMMA ListsStep ==
    ASSUME AppIInv, NEW t \in BagToSet(tasks), Lists(t)
    PROVE  AppIInv'
<1>1. Types
    BY DEF AppIInv, DataInv
<1>2. PICK owner : Sound(owner)
    BY DEF AppIInv, DataInv
<1>3. PICK seen : seen = [force |-> t.seen, github |-> github]
    OBVIOUS
<1>4. PICK u : u = [t EXCEPT !.stage = "save", !.seen = seen]
    OBVIOUS
<1>5. /\ t.stage = "list" /\ Continue(t, u) /\ Undisturbed
      /\ UNCHANGED <<kind, github, versions, doc, stored, happened>>
    BY <1>3, <1>4 DEF Lists
<1>6. IsTask(t) /\ t.what \in {"init", "registry"} /\ t.seen \in SUBSET Projects
    BY <1>2, <1>5, UpdateTaskFacts
<1>7. /\ u.what = t.what /\ u.stage = "save" /\ u.version = t.version /\ u.seen = seen /\ IsTask(u)
    BY <1>4, <1>6 DEF IsTask, Moments
<1>8. /\ seen \in [force : SUBSET Projects, github : [Orgs -> Accounts]]
      /\ seen.force = t.seen /\ seen.github = github
      /\ \A o \in Orgs : Owns(owner, o, seen.github[o].id)
    BY <1>1, <1>2, <1>3, <1>6 DEF Types, Sound
<1>9. Shape(owner, u)
    BY <1>6, <1>7, <1>8 DEF Shape, IsUpdate
<1>10. /\ IsABag(tasks') /\ u \in BagToSet(tasks')
       /\ \A x \in BagToSet(tasks') : x = u \/ x \in BagToSet(tasks)
       /\ Only(t) => tasks' = SetToBag({u})
    BY <1>1, <1>5, GoesOn DEF Types
<1>11. DataInv'
    BY <1>2, <1>5, <1>9, <1>10, CountFacts, TasksStep
<1>12. Only(t) => Only(u)'
    BY <1>10 DEF Only
<1>13. AloneInv'
    <2>1. SUFFICES ASSUME alone'
                   PROVE  AloneInv'
        BY DEF AloneInv
    <2>2. InitRuns(t)
        BY <1>5, <1>6, <2>1, UpdatePhase DEF Undisturbed
    <2>3. InitRuns(u)'
        BY <1>5, <1>7, <1>8, <1>12, <2>2, Same DEF InitRuns, Stages, Undisturbed
    <2> QED
        BY <1>10, <2>3 DEF AloneInv
<1>14. OrderlyInv'
    <2>1. SUFFICES ASSUME orderly'
                   PROVE  OrderlyInv'
        BY DEF OrderlyInv
    <2>2. (\A o \in Orgs : github[o].state = "suspended" => o \in missed) /\ UpdateRuns(t)
        BY <1>5, <1>6, <2>1, UpdatePhase DEF Undisturbed
    <2>3. UpdateRuns(u)'
        BY <1>5, <1>6, <1>7, <1>8, <1>12, <2>2, Same DEF UpdateRuns, Stages, Undisturbed
    <2> QED
        BY <1>5, <1>10, <2>2, <2>3 DEF OrderlyInv, Undisturbed
<1> QED
    BY <1>11, <1>13, <1>14 DEF AppIInv


LEMMA AppliesStep ==
    ASSUME AppIInv, NEW t \in BagToSet(tasks), Applies(t)
    PROVE  AppIInv'
<1>1. Types /\ Unique(doc) /\ UniqueStored
    BY DEF AppIInv, DataInv
<1>2. PICK owner : Sound(owner)
    BY DEF AppIInv, DataInv
<1>3. /\ t.stage = "apply"
      /\ UNCHANGED <<kind, github, versions, happened>>
    BY DEF Applies
<1>4. IsTask(t) /\ t.what \in {"init", "registry"} /\ t.version \in Nat /\ t.version \in DOMAIN versions
    BY <1>2, <1>3, UpdateTaskFacts
<1>5. PICK registry, s : registry = versions[t.version] /\ s = Update(registry)
    OBVIOUS
<1>6. PICK docs : docs = [o \in Orgs |-> IF Registered(o, registry) THEN s.docs[o] ELSE None]
    OBVIOUS
<1>7. PICK u : u = [t EXCEPT !.stage = "list", !.seen = s.force]
    OBVIOUS
<1>8. registry \in Registries /\ doc \in [Orgs -> DocsOrNone]
    <2>1. versions \in [DOMAIN versions -> Registries]
        BY <1>1, LenProperties DEF Types
    <2> QED
        BY <1>1, <1>4, <1>5, <2>1 DEF Types
<1>9. Updated(s, registry, Len(registry))
    BY <1>1, <1>5, <1>8, UpdateFacts
<1>10. /\ s.docs \in [Orgs -> DocsOrNone] /\ s.force \in SUBSET Projects /\ s.ok \in BOOLEAN
       /\ Unique(s.docs)
       /\ \A o \in Orgs : s.docs[o] # None => Stems(s.docs[o], doc[o])
    BY <1>9 DEF Updated, UpdateStates
<1>11. \A o \in Orgs : s.docs[o] # None => Owns(owner, o, s.docs[o].id)
    BY <1>2, <1>10 DEF Sound, Stems, Owns
<1>12. CASE ~s.ok
    <2>1. doc' = s.docs /\ Ends(t) /\ Broken /\ UNCHANGED stored
        BY <1>5, <1>12 DEF Applies
    <2>2. IsABag(tasks') /\ BagToSet(tasks') \subseteq BagToSet(tasks)
        BY <1>1, <2>1, Stops DEF Types
    <2>3. orderly' \in BOOLEAN /\ alone' \in BOOLEAN /\ missed' \in SUBSET Orgs
          /\ stored' \in [Orgs -> Fetched \cup {None}] /\ UniqueStored'
        BY <1>1, <1>3, <2>1 DEF Types, Broken, UniqueStored, Unique
    <2>4. DataInv'
        BY <1>2, <1>3, <1>10, <1>11, <2>1, <2>2, <2>3, CountFacts, DataStep
    <2> QED
        BY <2>1, <2>4, BrokenStep
<1>13. CASE s.ok
    <2>1. doc' = docs /\ stored' = CleanedUp(docs) /\ Continue(t, u) /\ Undisturbed
        BY <1>5, <1>6, <1>7, <1>13 DEF Applies
    <2>2. /\ u.what = t.what /\ u.stage = "list" /\ u.version = t.version /\ u.seen = s.force
          /\ IsTask(u)
        BY <1>4, <1>7 DEF IsTask, Moments
    <2>3. Shape(owner, u)
        BY <1>4, <1>10, <2>2 DEF Shape, IsUpdate
    <2>4. /\ IsABag(tasks') /\ u \in BagToSet(tasks')
          /\ \A x \in BagToSet(tasks') : x = u \/ x \in BagToSet(tasks)
          /\ Only(t) => tasks' = SetToBag({u})
        BY <1>1, <2>1, GoesOn DEF Types
    <2>5. \A o \in Orgs : docs[o] = IF Registered(o, registry) THEN s.docs[o] ELSE None
        BY <1>6
    <2>6. docs \in [Orgs -> DocsOrNone]
        BY <1>6, <1>10 DEF DocsOrNone
    <2>7. Unique(docs) /\ \A o \in Orgs : docs[o] # None => Owns(owner, o, docs[o].id)
        BY <1>10, <1>11, <2>5 DEF Unique
    <2>8. stored' \in [Orgs -> Fetched \cup {None}] /\ UniqueStored'
          /\ \A o \in Orgs : stored'[o] = IF docs[o] = None THEN None ELSE stored[o]
        BY <1>1, <1>3, <2>1, CleanedUpFacts DEF UniqueStored
    <2>9. DataInv'
        <3>1. orderly' \in BOOLEAN /\ alone' \in BOOLEAN /\ missed' \in SUBSET Orgs
            BY <1>1, <2>1 DEF Types, Undisturbed
        <3> QED
            BY <1>2, <1>3, <2>1, <2>3, <2>4, <2>6, <2>7, <2>8, <3>1, CountFacts, DataStep
    <2>10. \A o \in Orgs :
               /\ (docs[o] # None) = Registered(o, registry)
               /\ docs[o] # None => docs[o].project = EntryOf(o, registry).project
                                    /\ docs[o].template = EntryOf(o, registry).template
        <3> TAKE o \in Orgs
        <3>1. ASSUME Registered(o, registry)
              PROVE  Says(s.docs[o], EntryOf(o, registry))
            <4>1. PICK i \in 1..Len(registry) : registry[i].org = o
                BY <1>8, <3>1, RegistryFacts
            <4>2. EntryOf(o, registry) = registry[i]
                BY <1>8, <4>1, RegistryFacts
            <4> QED
                BY <1>9, <1>13, <4>1, <4>2 DEF Updated
        <3>2. Registered(o, registry) \in BOOLEAN
            BY DEF Registered
        <3> QED
            BY <2>5, <3>1, <3>2 DEF Says
    <2>11. Only(t) => Only(u)'
        BY <2>4 DEF Only
    <2>12. t.version = Len(versions) => FollowsRegistry'
        BY <1>3, <1>5, <2>1, <2>8, <2>10 DEF FollowsRegistry, Latest
    <2>13. AloneInv'
        <3>1. SUFFICES ASSUME alone'
                       PROVE  AloneInv'
            BY DEF AloneInv
        <3>2. InitRuns(t)
            BY <1>4, <2>1, <3>1, UpdatePhase DEF Undisturbed
        <3>3. InitRuns(u)'
            BY <1>3, <2>2, <2>11, <2>12, <3>2 DEF InitRuns, Stages
        <3> QED
            BY <2>4, <3>3 DEF AloneInv
    <2>14. OrderlyInv'
        <3>1. SUFFICES ASSUME orderly'
                       PROVE  OrderlyInv'
            BY DEF OrderlyInv
        <3>2. (\A o \in Orgs : github[o].state = "suspended" => o \in missed) /\ UpdateRuns(t)
            BY <1>4, <2>1, <3>1, UpdatePhase DEF Undisturbed
        <3>3. /\ Only(t) /\ t.version = Len(versions) /\ FollowsGitHub(Orgs)
              /\ kind = "config" => FollowsRepositories(Orgs)
            BY <1>3, <3>2 DEF UpdateRuns
        <3>4. \A o \in Orgs : doc'[o] = None => stored'[o] = None
            BY <2>1, <2>8
        <3>5. ASSUME NEW o \in Orgs, doc'[o] # None
              PROVE  \/ doc'[o].id = 0 /\ doc'[o].status = "absent"
                     \/ doc'[o].id = github'[o].id /\ doc'[o].status = github'[o].state
            <4>1. doc'[o] = s.docs[o]
                BY <2>1, <2>5, <3>5
            <4>2. Stems(doc'[o], doc[o])
                BY <1>10, <3>5, <4>1
            <4> QED
                BY <1>3, <3>3, <4>2 DEF Stems, FollowsGitHub
        <3>6. Kept(s.force)'
            <4>1. SUFFICES ASSUME kind' = "config", NEW o \in Orgs, Installed(o)'
                           PROVE  \/ stored'[o] = None \/ stored'[o] = Current(o)'
                                  \/ doc'[o].project \in s.force
                BY DEF Kept
            <4>2. doc'[o] # None /\ github[o].state = "installed" /\ doc'[o] = s.docs[o]
                BY <1>3, <2>1, <2>5, <4>1 DEF Installed
            <4>3. doc'[o] = doc[o] \/ doc'[o].project \in s.force
                BY <1>9, <1>13, <4>2 DEF Updated
            <4>4. doc'[o] = doc[o] => stored'[o] = Current(o)'
                <5>1. SUFFICES ASSUME doc'[o] = doc[o]
                               PROVE  stored'[o] = Current(o)'
                    OBVIOUS
                <5>2. stored'[o] = stored[o] /\ stored[o] = Data(doc[o], Len(versions), github[o].head)
                    BY <1>3, <2>1, <2>8, <3>3, <4>1, <4>2, <5>1 DEF FollowsRepositories
                <5> QED
                    BY <1>3, <5>1, <5>2 DEF Current, Data
            <4> QED
                BY <4>3, <4>4
        <3>7. UpdateRuns(u)'
            BY <1>3, <1>4, <2>2, <2>11, <2>12, <3>3, <3>4, <3>5, <3>6 DEF UpdateRuns, Stages
        <3> QED
            BY <1>3, <2>1, <2>4, <3>2, <3>7 DEF OrderlyInv, Undisturbed
    <2> QED
        BY <2>9, <2>13, <2>14 DEF AppIInv
<1> QED
    BY <1>10, <1>12, <1>13

LEMMA SavesStep ==
    ASSUME AppIInv, NEW t \in BagToSet(tasks), Saves(t)
    PROVE  AppIInv'
<1>1. Types /\ Unique(doc) /\ UniqueStored
    BY DEF AppIInv, DataInv
<1>2. PICK owner : Sound(owner)
    BY DEF AppIInv, DataInv
<1>3. PICK docs : docs = Listed(t)
    OBVIOUS
<1>4. PICK active : active = {o \in Orgs : docs[o] # None /\ docs[o].status = "installed"}
    OBVIOUS
<1>5. PICK due : due = {o \in active : \/ kind = "policies" \/ stored[o] = None
                                       \/ docs[o].project \in t.seen.force}
    OBVIOUS
<1>6. PICK again : again = {o \in active : t.what = "init" /\ kind = "config"}
    OBVIOUS
<1>7. PICK fetch : fetch = [o \in Orgs |-> Fetch(o, docs[o].id, t.version)]
    OBVIOUS
<1>8. PICK first, second : /\ first = {Fetch(o, docs[o].id, t.version) : o \in due}
                           /\ second = {Fetch(o, docs[o].id, t.version) : o \in again}
    OBVIOUS
<1>9. /\ t.stage = "save" /\ t.what \in {"registry", "init"}
      /\ doc' = docs
      /\ tasks' = WithAll(WithAll(Without(tasks, t), first), second)
      /\ Undisturbed
      /\ UNCHANGED <<kind, github, versions, stored, happened>>
    BY <1>3, <1>4, <1>5, <1>6, <1>8 DEF Saves
<1>10. /\ t.version \in Nat
       /\ t.seen \in [force : SUBSET Projects, github : [Orgs -> Accounts]]
       /\ \A o \in Orgs : Owns(owner, o, t.seen.github[o].id)
    BY <1>2, <1>9, UpdateTaskFacts
<1>11. doc \in [Orgs -> DocsOrNone]
    BY <1>1 DEF Types
<1>12. \A o \in Orgs : docs[o] = IF doc[o] # None /\ t.seen.github[o].state # "absent"
                                 THEN Reported(doc[o], t.seen.github[o]) ELSE doc[o]
    BY <1>3 DEF Listed
<1>13. \A o \in Orgs : doc[o] # None =>
           /\ doc[o] \in Docs
           /\ Reported(doc[o], t.seen.github[o]) \in Docs /\ Reported(doc[o], t.seen.github[o]) # None
           /\ Reported(doc[o], t.seen.github[o]).project = doc[o].project
           /\ Reported(doc[o], t.seen.github[o]).template = doc[o].template
           /\ Reported(doc[o], t.seen.github[o]).id = t.seen.github[o].id
           /\ Reported(doc[o], t.seen.github[o]).status = t.seen.github[o].state
    BY <1>10, <1>11, ReportedFacts DEF DocsOrNone
<1>14. \A o \in Orgs :
           /\ docs[o] = None <=> doc[o] = None
           /\ doc[o] # None => docs[o] \in Docs /\ docs[o].project = doc[o].project
                               /\ docs[o].template = doc[o].template
           /\ doc[o] # None /\ t.seen.github[o].state # "absent" =>
                  docs[o].id = t.seen.github[o].id /\ docs[o].status = t.seen.github[o].state
           /\ t.seen.github[o].state = "absent" => docs[o] = doc[o]
    BY <1>12, <1>13
<1>15. docs \in [Orgs -> DocsOrNone]
    <2>1. docs = [o \in Orgs |-> docs[o]]
        BY <1>3 DEF Listed
    <2>2. \A o \in Orgs : docs[o] \in DocsOrNone
        BY <1>14 DEF DocsOrNone
    <2> QED
        BY <2>1, <2>2
<1>16. Unique(docs)
    BY <1>1, <1>14 DEF Unique
<1>17. \A o \in Orgs : docs[o] # None => Owns(owner, o, docs[o].id)
    BY <1>2, <1>10, <1>14 DEF Sound
<1>18. \A o \in active : o \in Orgs /\ docs[o] # None /\ docs[o].id \in Nat \ {0}
    BY <1>4, <1>14 DEF Docs
<1>19. \A o \in active :
           /\ Shape(owner, fetch[o]) /\ fetch[o].what = "fetch" /\ fetch[o].org = o
           /\ fetch[o].id = docs[o].id /\ fetch[o].stage = "begin"
           /\ fetch[o].version = IF kind = "config" THEN 0 ELSE t.version
    <2> TAKE o \in active
    <2>1. PICK id : id = docs[o].id
        OBVIOUS
    <2>2. o \in Orgs /\ id \in Nat \ {0} /\ Owns(owner, o, id) /\ kind \in {"config", "policies"}
        BY <1>1, <1>17, <1>18, <2>1 DEF Types
    <2>3. fetch[o] = Fetch(o, id, t.version)
        BY <1>7, <2>1, <2>2
    <2>4. /\ Shape(owner, Fetch(o, id, t.version)) /\ Fetch(o, id, t.version).what = "fetch"
          /\ Fetch(o, id, t.version).org = o /\ Fetch(o, id, t.version).id = id
          /\ Fetch(o, id, t.version).stage = "begin"
          /\ Fetch(o, id, t.version).version = IF kind = "config" THEN 0 ELSE t.version
        BY <1>10, <2>2, FetchFacts
    <2> QED
        BY <2>1, <2>3, <2>4
<1>20. due \subseteq active /\ again \subseteq active
       /\ first = {fetch[o] : o \in due} /\ second = {fetch[o] : o \in again}
    BY <1>5, <1>6, <1>7, <1>8, <1>18
<1>21. /\ IsABag(tasks')
       /\ \A x \in BagToSet(tasks') : x \in BagToSet(tasks) \/ \E o \in active : x = fetch[o]
       /\ first \subseteq BagToSet(tasks') /\ second \subseteq BagToSet(tasks')
       /\ Only(t) => BagToSet(tasks') = first \cup second
    <2>1. PICK left, more : left = Without(tasks, t) /\ more = WithAll(left, first)
        OBVIOUS
    <2>2. IsABag(left) /\ BagToSet(left) \subseteq BagToSet(tasks)
        BY <1>1, <2>1, WithoutFacts DEF Types
    <2>3. IsABag(more) /\ BagToSet(more) = BagToSet(left) \cup first
        BY <2>1, <2>2, WithAllFacts
    <2>4. tasks' = WithAll(more, second)
        BY <1>9, <2>1
    <2>5. IsABag(tasks') /\ BagToSet(tasks') = BagToSet(more) \cup second
        BY <2>3, <2>4, WithAllFacts
    <2>6. Only(t) => BagToSet(left) = {}
        BY <2>1, OnlyFacts, EmptyFacts DEF Only
    <2> QED
        BY <1>20, <2>2, <2>3, <2>5, <2>6
<1>22. DataInv'
    <2>1. orderly' \in BOOLEAN /\ alone' \in BOOLEAN /\ missed' \in SUBSET Orgs
          /\ stored' \in [Orgs -> Fetched \cup {None}] /\ UniqueStored'
        BY <1>1, <1>9 DEF Types, Undisturbed, UniqueStored, Unique
    <2>2. \A x \in BagToSet(tasks') : x \in BagToSet(tasks) \/ Shape(owner, x)
        BY <1>19, <1>21
    <2> QED
        BY <1>2, <1>9, <1>15, <1>16, <1>17, <1>21, <2>1, <2>2, CountFacts, DataStep
\* What an update by itself leaves: the fetches of what has to be fetched.
<1>23. ASSUME t.version = Len(versions), Only(t), FollowsRegistry, t.seen.github = github
       PROVE  /\ FollowsRegistry' /\ FollowsGitHub(Listable)'
              /\ \A x \in BagToSet(tasks') : Brings(x)'
              /\ \A o \in Orgs : Installed(o)' => o \in active /\ Installed(o)
              /\ \A o \in due \cup again : \E x \in BagToSet(tasks') : x.org = o
    <2>1. FollowsRegistry'
        BY <1>9, <1>14, <1>23 DEF FollowsRegistry, Latest
    <2>2. FollowsGitHub(Listable)'
        BY <1>9, <1>14, <1>23 DEF FollowsGitHub, Listable
    <2>3. \A o \in active : Brings(fetch[o])'
        BY <1>9, <1>18, <1>19, <1>23 DEF Brings
    <2>4. \A x \in BagToSet(tasks') : \E o \in active : x = fetch[o]
        BY <1>20, <1>21, <1>23
    <2>5. \A o \in Orgs : Installed(o)' => o \in active /\ Installed(o)
        BY <1>4, <1>9, <1>14, <1>23 DEF Installed
    <2>6. \A o \in due \cup again : fetch[o] \in BagToSet(tasks') /\ fetch[o].org = o
        BY <1>19, <1>20, <1>21
    <2> QED
        BY <2>1, <2>2, <2>3, <2>4, <2>5, <2>6
<1>24. AloneInv'
    <2>1. SUFFICES ASSUME alone'
                   PROVE  AloneInv'
        BY DEF AloneInv
    <2>2. InitRuns(t)
        BY <1>9, <2>1, UpdatePhase DEF Undisturbed
    <2>3. t.version = Len(versions) /\ Only(t) /\ FollowsRegistry /\ t.seen.github = github /\ t.what = "init"
        BY <1>9, <2>2 DEF InitRuns
    <2>4. kind \in {"config", "policies"}
        BY <1>1 DEF Types
    <2>5. active \subseteq due \cup again
        BY <1>5, <1>6, <2>3, <2>4
    <2>6. Fetching(Orgs)'
        BY <1>23, <2>3, <2>5 DEF Fetching
    <2> QED
        BY <1>23, <2>3, <2>6 DEF AloneInv
<1>25. OrderlyInv'
    <2>1. SUFFICES ASSUME orderly'
                   PROVE  OrderlyInv'
        BY DEF OrderlyInv
    <2>2. (\A o \in Orgs : github[o].state = "suspended" => o \in missed) /\ UpdateRuns(t)
        BY <1>9, <2>1, UpdatePhase DEF Undisturbed
    <2>3. /\ t.version = Len(versions) /\ Only(t) /\ FollowsRegistry /\ t.seen.github = github
          /\ Kept(t.seen.force)
          /\ \A o \in Orgs : doc[o] # None =>
                 \/ doc[o].id = 0 /\ doc[o].status = "absent"
                 \/ doc[o].id = github[o].id /\ doc[o].status = github[o].state
        BY <1>9, <2>2 DEF UpdateRuns
    <2>4. kind \in {"config", "policies"}
        BY <1>1 DEF Types
    <2>5. FollowsGitHub(Orgs)'
        <3>1. \A o \in Orgs : github[o].state = "absent" => github[o].id = 0
            BY <1>1 DEF Types, Accounts
        <3> QED
            BY <1>9, <1>14, <2>3, <3>1 DEF FollowsGitHub
    <2>6. ASSUME NEW o \in Orgs, Installed(o)'
          PROVE  stored'[o] = Current(o)' \/ \E x \in BagToSet(tasks') : x.org = o
        <3>1. o \in active /\ Installed(o) /\ doc[o] # None
            BY <1>23, <2>3, <2>6 DEF Installed
        <3>2. CASE o \in due
            BY <1>23, <2>3, <3>2
        <3>3. CASE o \notin due
            <4>1. kind = "config" /\ stored[o] # None /\ docs[o].project \notin t.seen.force
                BY <1>5, <2>4, <3>1, <3>3
            <4>2. stored[o] = Current(o)
                BY <1>14, <2>3, <3>1, <4>1 DEF Kept
            <4>3. Current(o)' = Current(o)
                BY <1>9, <1>14, <3>1, <4>1 DEF Current, Data
            <4> QED
                BY <1>9, <4>2, <4>3
        <3> QED
            BY <3>2, <3>3
    <2>7. Fetching(Due)'
        BY <1>23, <2>3, <2>6 DEF Fetching, Due
    <2> QED
        BY <1>9, <1>23, <2>2, <2>3, <2>5, <2>7 DEF OrderlyInv, Undisturbed
<1> QED
    BY <1>22, <1>24, <1>25 DEF AppIInv


-----------------------------------------------------------------------------
(* Fetching from the repository of an organization.                        *)

\* A fetch that is under way.
LEMMA FetchTaskFacts ==
    ASSUME AppIInv, NEW t \in BagToSet(tasks), t.what = "fetch", NEW owner, Sound(owner)
    PROVE  /\ IsTask(t) /\ t.org \in Orgs /\ t.id \in Nat \ {0} /\ t.version \in Nat
           /\ Owns(owner, t.org, t.id)
           /\ Found(t.id) = IF doc[t.org] # None /\ doc[t.org].id = t.id THEN {t.org} ELSE {}
           /\ t.stage = "read" => t.seen \in Docs
           /\ t.stage = "save" => t.seen \in Fetched
<1>1. IsTask(t) /\ Shape(owner, t)
    BY TaskFacts
<1>2. IsFetch(owner, t) /\ t.id \in Nat /\ t.version \in Nat
    BY <1>1 DEF Shape, IsUpdate, IsEvent, Notices, IsTask
<1>3. t.org \in Orgs /\ t.id # 0 /\ Owns(owner, t.org, t.id)
    BY <1>2 DEF IsFetch
<1>4. (t.stage = "read" => t.seen \in Docs) /\ (t.stage = "save" => t.seen \in Fetched)
    BY <1>2 DEF IsFetch
<1> QED
    BY <1>1, <1>2, <1>3, <1>4, FoundFacts

\* A fetch goes on, and nothing but the tasks changes.
LEMMA FetchGoesOn ==
    ASSUME AppIInv, NEW t \in BagToSet(tasks), t.what = "fetch", NEW u, u.org = t.org,
           Continue(t, u), Undisturbed, DataInv',
           UNCHANGED <<kind, github, versions, doc, stored, happened>>,
           Brings(t) => Brings(u)
    PROVE  AppIInv'
<1>1. IsABag(tasks)
    BY DEF AppIInv, DataInv, Types
<1>2. /\ u \in BagToSet(tasks')
      /\ \A x \in BagToSet(tasks') : x = u \/ x \in BagToSet(tasks)
      /\ \A x \in BagToSet(tasks) : x = t \/ x \in BagToSet(tasks')
    BY <1>1, GoesOn
<1>3. \A x : Brings(x)' <=> Brings(x)
    BY DEF Brings, Current, Data
<1>4. ASSUME NEW orgs, Fetching(orgs)
      PROVE  /\ \A x \in BagToSet(tasks') : Brings(x)'
             /\ \A o \in orgs : Installed(o) => stored[o] = Current(o) \/ \E x \in BagToSet(tasks') : x.org = o
    BY <1>2, <1>3, <1>4 DEF Fetching
<1>5. AloneInv'
    <2>1. SUFFICES ASSUME alone'
                   PROVE  AloneInv'
        BY DEF AloneInv
    <2>2. FollowsRegistry /\ FollowsGitHub(Listable) /\ Fetching(Orgs)
        BY <2>1, FetchPhase DEF Undisturbed
    <2>3. Fetching(Orgs)'
        BY <1>4, <2>2, Same DEF Fetching, Undisturbed
    <2>4. FollowsRegistry' /\ FollowsGitHub(Listable)'
        BY <2>2 DEF FollowsRegistry, FollowsGitHub, Listable, Latest
    <2> QED
        BY <2>3, <2>4 DEF AloneInv
<1>6. OrderlyInv'
    <2>1. SUFFICES ASSUME orderly'
                   PROVE  OrderlyInv'
        BY DEF OrderlyInv
    <2>2. /\ \A o \in Orgs : github[o].state = "suspended" => o \in missed
          /\ FollowsRegistry /\ FollowsGitHub(Orgs) /\ Fetching(Due)
        BY <2>1, FetchPhase DEF Undisturbed
    <2>3. Fetching(Due)'
        BY <1>4, <2>2, Same DEF Fetching, Undisturbed
    <2>4. FollowsRegistry' /\ FollowsGitHub(Orgs)'
        BY <2>2, Same DEF Undisturbed
    <2> QED
        BY <2>2, <2>3, <2>4 DEF OrderlyInv, Undisturbed
<1> QED
    BY <1>5, <1>6 DEF AppIInv

LEMMA FetchBeginsStep ==
    ASSUME AppIInv, NEW t \in BagToSet(tasks), FetchBegins(t)
    PROVE  AppIInv'
<1>1. Types
    BY DEF AppIInv, DataInv
<1>2. PICK owner : Sound(owner)
    BY DEF AppIInv, DataInv
<1>3. /\ t.what = "fetch" /\ t.stage = "begin"
      /\ UNCHANGED <<kind, github, versions, doc, stored, happened>>
    BY DEF FetchBegins, Step
<1>4. /\ IsTask(t) /\ t.org \in Orgs /\ t.id \in Nat \ {0} /\ Owns(owner, t.org, t.id)
      /\ Found(t.id) = IF doc[t.org] # None /\ doc[t.org].id = t.id THEN {t.org} ELSE {}
    BY <1>2, <1>3, FetchTaskFacts
<1>5. CASE Found(t.id) = {}
    <2>1. Ends(t) /\ Broken
        BY <1>5 DEF FetchBegins
    <2>2. IsABag(tasks') /\ BagToSet(tasks') \subseteq BagToSet(tasks)
        BY <1>1, <2>1, Stops DEF Types
    <2> QED
        BY <1>2, <1>3, <2>1, <2>2, CountFacts, TasksStep, BrokenStep
<1>6. CASE Found(t.id) # {}
    <2>1. PICK u : u = [t EXCEPT !.stage = "read", !.seen = doc[t.org]]
        OBVIOUS
    <2>2. doc[t.org] # None /\ Continue(t, u) /\ Undisturbed
        BY <1>4, <1>6, <2>1 DEF FetchBegins
    <2>3. doc[t.org] \in Docs
        BY <1>1, <1>4, <2>2 DEF Types, DocsOrNone
    <2>4. /\ u.what = "fetch" /\ u.org = t.org /\ u.id = t.id /\ u.stage = "read"
          /\ u.version = t.version /\ u.seen = doc[t.org] /\ IsTask(u)
        BY <1>3, <1>4, <2>1 DEF IsTask, Moments
    <2>5. Shape(owner, u)
        BY <1>4, <2>3, <2>4 DEF Shape, IsFetch
    <2>6. /\ IsABag(tasks')
          /\ \A x \in BagToSet(tasks') : x = u \/ x \in BagToSet(tasks)
        BY <1>1, <2>2, GoesOn DEF Types
    <2>7. DataInv'
        BY <1>2, <1>3, <2>2, <2>5, <2>6, CountFacts, TasksStep
    <2>8. Brings(t) => Brings(u)
        BY <1>3, <2>4 DEF Brings
    <2> QED
        BY <1>3, <2>2, <2>4, <2>7, <2>8, FetchGoesOn
<1> QED
    BY <1>5, <1>6

LEMMA FetchReadsStep ==
    ASSUME AppIInv, NEW t \in BagToSet(tasks), FetchReads(t)
    PROVE  AppIInv'
<1>1. Types
    BY DEF AppIInv, DataInv
<1>2. PICK owner : Sound(owner)
    BY DEF AppIInv, DataInv
<1>3. /\ t.what = "fetch" /\ t.stage = "read"
      /\ UNCHANGED <<kind, github, versions, doc, stored, happened>>
    BY DEF FetchReads, Step
<1>4. /\ IsTask(t) /\ t.org \in Orgs /\ t.id \in Nat \ {0} /\ t.version \in Nat
      /\ Owns(owner, t.org, t.id) /\ t.seen \in Docs
    BY <1>2, <1>3, FetchTaskFacts
<1>5. CASE ~(github[t.org].state = "installed" /\ github[t.org].id = t.id)
    <2>1. Ends(t) /\ Broken
        BY <1>5 DEF FetchReads
    <2>2. IsABag(tasks') /\ BagToSet(tasks') \subseteq BagToSet(tasks)
        BY <1>1, <2>1, Stops DEF Types
    <2> QED
        BY <1>2, <1>3, <2>1, <2>2, CountFacts, TasksStep, BrokenStep
<1>6. CASE github[t.org].state = "installed" /\ github[t.org].id = t.id
    <2>1. PICK data : data = Data(t.seen, t.version, github[t.org].head)
        OBVIOUS
    <2>2. PICK u : u = [t EXCEPT !.stage = "save", !.seen = data]
        OBVIOUS
    <2>3. Continue(t, u) /\ Undisturbed
        BY <1>6, <2>1, <2>2 DEF FetchReads
    <2>4. data \in Fetched
        <3>1. t.seen.project \in Projects /\ t.seen.template \in Templates /\ github[t.org].head \in Nat
            BY <1>1, <1>4 DEF Docs, Types, Accounts
        <3> QED
            BY <1>4, <2>1, <3>1 DEF Data, Fetched
    <2>5. /\ u.what = "fetch" /\ u.org = t.org /\ u.id = t.id /\ u.stage = "save"
          /\ u.version = t.version /\ u.seen = data /\ IsTask(u)
        BY <1>3, <1>4, <2>2 DEF IsTask, Moments
    <2>6. Shape(owner, u)
        BY <1>4, <2>4, <2>5 DEF Shape, IsFetch
    <2>7. /\ IsABag(tasks')
          /\ \A x \in BagToSet(tasks') : x = u \/ x \in BagToSet(tasks)
        BY <1>1, <2>3, GoesOn DEF Types
    <2>8. DataInv'
        BY <1>2, <1>3, <2>3, <2>6, <2>7, CountFacts, TasksStep
    <2>9. Brings(t) => Brings(u)
        BY <1>3, <1>6, <2>1, <2>5 DEF Brings, Current, Data
    <2> QED
        BY <1>3, <2>3, <2>5, <2>8, <2>9, FetchGoesOn
<1> QED
    BY <1>5, <1>6

LEMMA FetchSavesStep ==
    ASSUME AppIInv, NEW t \in BagToSet(tasks), FetchSaves(t)
    PROVE  AppIInv'
<1>1. Types /\ Unique(doc) /\ UniqueStored
    BY DEF AppIInv, DataInv
<1>2. PICK owner : Sound(owner)
    BY DEF AppIInv, DataInv
<1>3. /\ t.what = "fetch" /\ t.stage = "save" /\ Ends(t)
      /\ UNCHANGED <<kind, github, versions, doc, happened>>
    BY DEF FetchSaves, Step
<1>4. t.org \in Orgs /\ t.seen \in Fetched
    BY <1>2, <1>3, FetchTaskFacts
<1>5. /\ IsABag(tasks') /\ BagToSet(tasks') \subseteq BagToSet(tasks)
      /\ \A x \in BagToSet(tasks) : x = t \/ x \in BagToSet(tasks')
    BY <1>1, <1>3, Stops DEF Types
<1>6. CASE NameTaken(t.org, t.seen.project)
    <2>1. Broken /\ UNCHANGED stored
        BY <1>6 DEF FetchSaves
    <2> QED
        BY <1>2, <1>3, <1>5, <2>1, CountFacts, TasksStep, BrokenStep
<1>7. CASE ~NameTaken(t.org, t.seen.project)
    <2>1. /\ stored' = [stored EXCEPT ![t.org] = t.seen] /\ missed' = missed \ {t.org}
          /\ UNCHANGED <<orderly, alone>>
        BY <1>7 DEF FetchSaves
    <2>2. /\ stored' \in [Orgs -> Fetched \cup {None}] /\ stored'[t.org] = t.seen
          /\ \A o \in Orgs : o # t.org => stored'[o] = stored[o]
        BY <1>1, <1>4, <2>1 DEF Types
    <2>3. UniqueStored'
        BY <1>1, <1>3, <1>7, <2>2 DEF UniqueStored, Unique, NameTaken
    <2>4. DataInv'
        <3>1. orderly' \in BOOLEAN /\ alone' \in BOOLEAN /\ missed' \in SUBSET Orgs
              /\ doc' \in [Orgs -> DocsOrNone] /\ Unique(doc')
              /\ \A o \in Orgs : doc'[o] # None => Owns(owner, o, doc'[o].id)
            BY <1>1, <1>2, <1>3, <2>1 DEF Types, Unique, Sound
        <3> QED
            BY <1>2, <1>3, <1>5, <2>2, <2>3, <3>1, CountFacts, DataStep
    <2>5. \A x : Brings(x)' <=> Brings(x)
        BY <1>3 DEF Brings, Current, Data
    <2>6. \A o \in Orgs : Current(o)' = Current(o) /\ (Installed(o)' <=> Installed(o))
        BY <1>3 DEF Current, Installed, Data
    <2>7. ASSUME NEW orgs, orgs \subseteq Orgs, Fetching(orgs)
          PROVE  /\ \A x \in BagToSet(tasks') : Brings(x)'
                 /\ \A o \in orgs \cup {t.org} : Installed(o)' =>
                        stored'[o] = Current(o)' \/ \E x \in BagToSet(tasks') : x.org = o
                 /\ doc[t.org] # None /\ github[t.org].state = "installed"
        <3>1. Brings(t) /\ \A x \in BagToSet(tasks') : Brings(x)'
            BY <1>5, <2>5, <2>7 DEF Fetching
        <3>2. t.seen = Current(t.org) /\ doc[t.org] # None /\ github[t.org].state = "installed"
            BY <1>3, <3>1 DEF Brings
        <3>3. ASSUME NEW o \in orgs, o # t.org, Installed(o)'
              PROVE  stored'[o] = Current(o)' \/ \E x \in BagToSet(tasks') : x.org = o
            <4>1. o \in Orgs /\ Installed(o)
                BY <2>6, <2>7, <3>3
            <4>2. stored[o] = Current(o) \/ \E x \in BagToSet(tasks) : x.org = o
                BY <2>7, <3>3, <4>1 DEF Fetching
            <4> QED
                BY <1>5, <2>2, <2>6, <3>3, <4>1, <4>2
        <3>4. stored'[t.org] = Current(t.org)'
            BY <1>4, <2>2, <2>6, <3>2
        <3> QED
            BY <3>1, <3>2, <3>3, <3>4
    <2>8. FollowsRegistry /\ doc[t.org] # None => FollowsRegistry'
        BY <1>3, <2>2 DEF FollowsRegistry, Latest
    <2>9. AloneInv'
        <3>1. SUFFICES ASSUME alone'
                       PROVE  AloneInv'
            BY DEF AloneInv
        <3>2. FollowsRegistry /\ FollowsGitHub(Listable) /\ Fetching(Orgs)
            BY <1>3, <2>1, <3>1, FetchPhase
        <3>3. Fetching(Orgs)' /\ FollowsRegistry'
            BY <2>7, <2>8, <3>2 DEF Fetching
        <3>4. FollowsGitHub(Listable)'
            BY <1>3, <3>2 DEF FollowsGitHub, Listable
        <3> QED
            BY <3>3, <3>4 DEF AloneInv
    <2>10. OrderlyInv'
        <3>1. SUFFICES ASSUME orderly'
                       PROVE  OrderlyInv'
            BY DEF OrderlyInv
        <3>2. /\ \A o \in Orgs : github[o].state = "suspended" => o \in missed
              /\ FollowsRegistry /\ FollowsGitHub(Orgs) /\ Fetching(Due)
            BY <1>3, <2>1, <3>1, FetchPhase
        <3>3. Due \subseteq Orgs /\ Due' \subseteq Due \cup {t.org}
            BY <1>3, <2>1 DEF Due
        <3>4. Fetching(Due)' /\ FollowsRegistry'
            BY <2>7, <2>8, <3>2, <3>3 DEF Fetching
        <3>5. FollowsGitHub(Orgs)'
            BY <1>3, <3>2 DEF FollowsGitHub
        <3>6. \A o \in Orgs : github'[o].state = "suspended" => o \in missed'
            BY <1>3, <2>1, <2>7, <3>2, <3>3
        <3> QED
            BY <3>4, <3>5, <3>6 DEF OrderlyInv
    <2> QED
        BY <2>4, <2>9, <2>10 DEF AppIInv
<1> QED
    BY <1>6, <1>7

LEMMA FailsStep ==
    ASSUME AppIInv, NEW t \in BagToSet(tasks), Fails(t)
    PROVE  AppIInv'
<1>1. Types
    BY DEF AppIInv, DataInv
<1>2. PICK owner : Sound(owner)
    BY DEF AppIInv, DataInv
<1>3. /\ Ends(t) /\ Broken
      /\ happened' = [happened EXCEPT !.failures = @ + 1]
      /\ UNCHANGED <<kind, github, versions, doc, stored>>
    BY DEF Fails
<1>4. IsABag(tasks') /\ BagToSet(tasks') \subseteq BagToSet(tasks)
    BY <1>1, <1>3, Stops DEF Types
<1>5. happened' \in Counts /\ happened'.changes = happened.changes
    <2>1. PICK n : n = happened.failures + 1
        OBVIOUS
    <2>2. n \in Nat /\ happened \in Counts
        BY <1>1, <2>1 DEF Types, Counts
    <2>3. happened' = [happened EXCEPT !.failures = n]
        BY <1>3, <2>1
    <2> QED
        BY <2>2, <2>3 DEF Counts
<1> QED
    BY <1>2, <1>3, <1>4, <1>5, TasksStep, BrokenStep


-----------------------------------------------------------------------------
(* The invariant holds of every reachable state.                           *)

LEMMA InitAppIInv ==
    ASSUME AppInit
    PROVE  AppIInv
<1>1. PICK t : t = [what |-> "init", org |-> "none", id |-> 0, stage |-> "begin", version |-> 0, seen |-> None]
    OBVIOUS
<1>2. PICK registry \in Registries : versions = <<registry>>
    BY DEF AppInit
<1>3. /\ kind \in {"config", "policies"}
      /\ github = [o \in Orgs |-> [state |-> "absent", id |-> 0, head |-> 0]]
      /\ doc = [o \in Orgs |-> None] /\ stored = [o \in Orgs |-> None]
      /\ tasks = SetToBag({t})
      /\ happened = [changes |-> 0, pushes |-> 0, versions |-> 0, inits |-> 0, overlaps |-> 0, failures |-> 0]
      /\ orderly = TRUE /\ alone = TRUE /\ missed = {}
    BY <1>1, KindsAssumption DEF AppInit, Task
<1>4. Only(t) /\ IsABag(tasks) /\ BagToSet(tasks) = {t}
    BY <1>3, OnlyFacts DEF Only
<1>5. versions \in Seq(Registries) /\ versions # <<>>
    BY <1>2
<1>6. \A o \in Orgs : github[o].id = 0 /\ github[o].state = "absent" /\ doc[o] = None /\ stored[o] = None
    BY <1>3
<1>7. Types
    <2>1. github \in [Orgs -> Accounts]
        BY <1>3 DEF Accounts, States
    <2>2. doc \in [Orgs -> DocsOrNone] /\ stored \in [Orgs -> Fetched \cup {None}]
        BY <1>3 DEF DocsOrNone
    <2>3. happened \in Counts
        BY <1>3 DEF Counts
    <2> QED
        BY <1>3, <1>4, <1>5, <2>1, <2>2, <2>3 DEF Types
<1>8. t.what = "init" /\ t.stage = "begin"
    BY <1>1
<1>9. IsTask(t) /\ \A owner : Shape(owner, t)
    <2>1. t = [what |-> "init", org |-> "none", id |-> 0, stage |-> "begin", version |-> 0, seen |-> t.seen]
        BY <1>1
    <2>2. IsTask(t)
        BY <2>1 DEF IsTask, Whats, Moments
    <2> QED
        BY <1>8, <2>2 DEF Shape, IsUpdate
<1>10. \E owner : Sound(owner)
    <2>1. PICK owner : owner = [i \in 1..0 |-> CHOOSE o \in Orgs : TRUE]
        OBVIOUS
    <2>2. owner \in [1..0 -> Orgs] /\ happened.changes = 0
        BY <1>3, <2>1
    <2>3. Sound(owner)
        BY <1>4, <1>6, <1>9, <2>2 DEF Sound, Owns
    <2> QED
        BY <2>3
<1>11. DataInv
    BY <1>6, <1>7, <1>10 DEF DataInv, Unique, UniqueStored
<1>12. AloneInv
    BY <1>4, <1>8 DEF AloneInv, InitRuns, Stages
<1>13. OrderlyInv
    <2>1. FollowsGitHub(Orgs) /\ FollowsRepositories(Orgs)
        BY <1>6 DEF FollowsGitHub, FollowsRepositories
    <2>2. UpdateRuns(t)
        BY <1>4, <1>6, <1>8, <2>1 DEF UpdateRuns, Stages
    <2> QED
        BY <1>4, <1>6, <2>2 DEF OrderlyInv
<1> QED
    BY <1>11, <1>12, <1>13 DEF AppIInv

LEMMA EnvironmentStep ==
    ASSUME AppIInv, Environment
    PROVE  AppIInv'
<1>1. ASSUME NEW o \in Orgs, Install(o)
      PROVE  AppIInv'
    BY <1>1, ChangeStep DEF Install, States, Notices
<1>2. ASSUME NEW o \in Orgs, Unsuspend(o)
      PROVE  AppIInv'
    BY <1>2, ChangeStep DEF Unsuspend, States, Notices
<1>3. ASSUME NEW o \in Orgs, Uninstall(o)
      PROVE  AppIInv'
    BY <1>3, ChangeStep DEF Uninstall, States, Notices
<1>4. ASSUME NEW o \in Orgs, Suspend(o)
      PROVE  AppIInv'
    BY <1>4, ChangeStep DEF Suspend, States, Notices
<1> QED
    BY <1>1, <1>2, <1>3, <1>4, PushStep, PublishStep, InitializeStep DEF Environment

LEMMA NextAppIInv ==
    ASSUME AppIInv, [AppNext]_appVars
    PROVE  AppIInv'
<1>1. CASE UNCHANGED appVars
    <2>1. UNCHANGED <<kind, github, versions, doc, stored, missed>> /\ UNCHANGED <<tasks, happened, orderly, alone>>
        BY <1>1 DEF appVars
    <2>2. DataInv'
        <3>1. PICK owner : Sound(owner)
            BY DEF AppIInv, DataInv
        <3>2. IsABag(tasks')
            BY <2>1 DEF AppIInv, DataInv, Types
        <3> QED
            BY <2>1, <3>1, <3>2, CountFacts, TasksStep DEF Undisturbed
    <2>3. \A x : Brings(x)' <=> Brings(x)
        BY <2>1 DEF Brings, Current, Data
    <2>4. \A orgs : Fetching(orgs)' <=> Fetching(orgs)
        BY <2>1, <2>3, Same DEF Fetching
    <2>5. \A x : (InitRuns(x)' <=> InitRuns(x)) /\ (EventRuns(x)' <=> EventRuns(x)) /\ (UpdateRuns(x)' <=> UpdateRuns(x))
        BY <2>1, Same DEF InitRuns, EventRuns, UpdateRuns, Only
    <2>6. AloneInv'
        BY <2>1, <2>4, <2>5, Same DEF AppIInv, AloneInv
    <2>7. OrderlyInv'
        BY <2>1, <2>4, <2>5, Same DEF AppIInv, OrderlyInv
    <2> QED
        BY <2>2, <2>6, <2>7 DEF AppIInv
<1>2. ASSUME NEW t \in BagToSet(tasks), Runs(t)
      PROVE  AppIInv'
    BY <1>2, CreatedBeginsStep, CreatedReadsStep, CreatedSavesStep, DeletedStep, SuspendedStep,
       UnsuspendedStep, PushedStep, InitBeginsStep, AppliesStep, ListsStep, SavesStep,
       FetchBeginsStep, FetchReadsStep, FetchSavesStep, FailsStep DEF Runs
<1> QED
    BY <1>1, <1>2, EnvironmentStep DEF AppNext

-----------------------------------------------------------------------------
(* What follows.                                                           *)

\* Tasks, documents, installation ids and what is fetched keep fitting together, however
\* the tasks interleave, and nothing is left out of date by a task that runs undisturbed.
THEOREM AppInvariance == AppSpec => []AppIInv
<1>1. AppInit => AppIInv
    BY InitAppIInv
<1>2. AppIInv /\ [AppNext]_appVars => AppIInv'
    BY NextAppIInv
<1> QED
    BY <1>1, <1>2, PTL DEF AppSpec

\* The documents are well formed: an id goes with an installation, and names are unique.
THEOREM AppTypeCorrect == AppSpec => []AppTypeOK
<1>1. ASSUME AppIInv
      PROVE  AppTypeOK
    <2>1. /\ kind \in {"config", "policies"} /\ doc \in [Orgs -> DocsOrNone]
          /\ Unique(doc) /\ UniqueStored
        BY <1>1 DEF AppIInv, DataInv, Types
    <2>2. \A o \in Orgs : doc[o] # None => doc[o].status \in States /\ (doc[o].id = 0) = (doc[o].status = "absent")
        BY <2>1 DEF DocsOrNone, Docs
    <2> QED
        BY <2>1, <2>2 DEF AppTypeOK, States, Unique, UniqueStored
<1> QED
    BY <1>1, AppInvariance, PTL

\* Events that come one at a time are enough to follow the registry, GitHub and the
\* repositories.
THEOREM EventsAreEnough == AppSpec => []EventsSuffice
<1>1. AppIInv => EventsSuffice
    BY QuietOrderly DEF EventsSuffice, Quiet, Due
<1> QED
    BY <1>1, AppInvariance, PTL

\* An init by itself puts right whatever went wrong before.
THEOREM InitPutsRight == AppSpec => []InitRepairs
<1>1. ASSUME AppIInv, Quiet, alone
      PROVE  FollowsRegistry /\ FollowsGitHub({o \in Orgs : github[o].state # "absent"})
             /\ FollowsRepositories({o \in Orgs : github[o].state # "absent"})
    <2>1. FollowsRegistry /\ FollowsGitHub(Listable) /\ FollowsRepositories(Orgs)
        BY <1>1, QuietAlone DEF Quiet
    <2> QED
        BY <2>1 DEF FollowsGitHub, FollowsRepositories, Listable
<1>2. AppIInv => InitRepairs
    BY <1>1 DEF InitRepairs
<1> QED
    BY <1>2, AppInvariance, PTL
=============================================================================
