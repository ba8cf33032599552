----------------------------- MODULE PagedReads -----------------------------
(***************************************************************************)
(* How the REST and GraphQL clients read a list from GitHub: one page      *)
(* after the other, each request tried again when it fails, with the token *)
(* of an installation that the web app caches until shortly before it      *)
(* expires, while somebody else adds and removes items.                    *)
(*                                                                         *)
(* Items are numbers, and GitHub lists them in their order.                *)
(***************************************************************************)
EXTENDS Naturals, FiniteSets, FiniteSetsExt

CONSTANTS
    MaxItem,     \* the list may have any of the items 1..MaxItem
    Hows,        \* the ways of reading that are used, see Answered
    PageSize,    \* how many items a page has
    Attempts,    \* how often a request is tried
    Lifetime,    \* how long a token is valid
    Buffer,      \* how much of that is never used when a token is taken from the cache
    MaxDuration, \* bound: the time that a read takes
    MaxTime,     \* bound: the time that passes altogether
    MaxReads,    \* bound: reads
    MaxChanges,  \* bound: items added or removed
    MaxFaults    \* bound: attempts that fail

ASSUME SizesAssumption == MaxItem \in Nat /\ PageSize \in Nat \ {0} /\ Attempts \in Nat \ {0}

\* What the web app relies on: GitHub issues tokens that are valid for longer than the
\* buffer, and no read takes longer than that.
ASSUME TimesAssumption ==
    /\ Lifetime \in Nat /\ Buffer \in Nat /\ MaxDuration \in Nat
    /\ MaxDuration <= Buffer /\ Buffer < Lifetime

ASSUME BoundsAssumption ==
    MaxTime \in Nat /\ MaxReads \in Nat /\ MaxChanges \in Nat /\ MaxFaults \in Nat

VARIABLES
    items,   \* GitHub: what is in the list
    now,     \* the time
    cached,  \* when the cached token expires, 0 if there is none
    read,    \* the read under way, or the last one
    count    \* how often each bounded event happened

vars == <<items, now, cached, read, count>>

NoRead == [stage |-> "idle", how |-> "none", page |-> 1, after |-> 0, got |-> {}, twice |-> FALSE,
           tries |-> 0, expires |-> 0, began |-> 0, stayed |-> {}, added |-> FALSE, removed |-> FALSE]

\* What a read may be.
Read ==
    [stage : {"idle", "first", "more", "done", "failed", "limited"}, how : Hows \cup {"none"},
     page : Nat \ {0}, after : 0..MaxItem, got : SUBSET (1..MaxItem), twice : BOOLEAN,
     tries : 0..Attempts, expires : Nat, began : Nat, stayed : SUBSET (1..MaxItem),
     added : BOOLEAN, removed : BOOLEAN]

Active == read.stage \in {"first", "more"}

-----------------------------------------------------------------------------
(* Others change the list.  What stayed in it during the whole read, and   *)
(* whether something came or went, is kept for the properties.             *)

Add(i) ==
    /\ count.changes < MaxChanges /\ i \notin items
    /\ items' = items \cup {i}
    /\ read' = IF Active THEN [read EXCEPT !.added = TRUE] ELSE read
    /\ count' = [count EXCEPT !.changes = @ + 1]
    /\ UNCHANGED <<now, cached>>

Drop(i) ==
    /\ count.changes < MaxChanges /\ i \in items
    /\ items' = items \ {i}
    /\ read' = IF Active THEN [read EXCEPT !.removed = TRUE, !.stayed = @ \ {i}] ELSE read
    /\ count' = [count EXCEPT !.changes = @ + 1]
    /\ UNCHANGED <<now, cached>>

Tick ==
    /\ now < MaxTime
    /\ Active => now < read.began + MaxDuration
    /\ now' = now + 1
    /\ UNCHANGED <<items, cached, read, count>>

-----------------------------------------------------------------------------
(* The token of the installation, and the start of a read with it.         *)

\* Mutant: a token is taken from the cache as long as it is valid.
StillValid(expires) == expires > now

IsUsable(expires) == expires > now + Buffer

Begin(how) ==
    LET expires == IF IsUsable(cached) THEN cached ELSE now + Lifetime IN
    /\ ~Active /\ count.reads < MaxReads
    /\ cached' = expires
    /\ read' = [NoRead EXCEPT !.stage = "first", !.how = how, !.expires = expires,
                              !.began = now, !.stayed = items]
    /\ count' = [count EXCEPT !.reads = @ + 1]
    /\ UNCHANGED <<items, now>>

-----------------------------------------------------------------------------
(* Pages.                                                                  *)

\* The place of an item in a list.
Place(list, i) == Cardinality({j \in list : j <= i})

\* By number: what is on the page now.
ByNumber(page) ==
    LET from == (page - 1) * PageSize
    IN [items |-> {i \in items : Place(items, i) \in from + 1..from + PageSize},
        more |-> Cardinality(items) > from + PageSize]

\* By cursor: what follows the last item of the page before.
ByCursor(after) ==
    LET rest == {i \in items : i > after}
    IN [items |-> {i \in rest : Place(rest, i) <= PageSize},
        more |-> Cardinality(rest) > PageSize]

\* Mutant: the next page begins after the first item of this one.
FromFirst(r, page) == Min(page.items)

\* Mutant: every page is the one before.
SamePage(r, page) == r.after

\* The actors of a branch protection rule come with a first page, and are then read once
\* more from the beginning if there are more.
StartOver == 0

\* The repositories of a team continue after the first page, again and again: the cursor
\* that the caller gives takes the place of every later one.
Given(r) == r.after

NextCursor(r, page) ==
    CASE r.how = "actors" /\ r.stage = "first" -> StartOver
      [] r.how = "team" /\ r.stage = "more" -> Given(r)
      [] OTHER -> Max(page.items)

Answered(r) ==
    LET page == IF r.how = "rest" THEN ByNumber(r.page) ELSE ByCursor(r.after)
        s == [r EXCEPT !.got = @ \cup page.items, !.tries = 0,
                       !.twice = @ \/ page.items \cap r.got # {}]
    IN CASE ~page.more -> [s EXCEPT !.stage = "done"]
         [] page.more /\ r.how = "rest" -> [s EXCEPT !.stage = "more", !.page = @ + 1]
         [] OTHER -> [s EXCEPT !.stage = "more", !.page = 2, !.after = NextCursor(r, page)]

Unauthorized == read.expires <= now

Answer ==
    /\ Active
    /\ read' = IF Unauthorized THEN [read EXCEPT !.stage = "failed"] ELSE Answered(read)
    /\ UNCHANGED <<items, now, cached, count>>

\* An attempt fails, by an exception or an error of the server, and is repeated as
\* it was, up to the last one.
Fault ==
    /\ Active /\ count.faults < MaxFaults
    /\ read' = [read EXCEPT !.tries = @ + 1,
                            !.stage = IF read.tries + 1 >= Attempts THEN "failed" ELSE @]
    /\ count' = [count EXCEPT !.faults = @ + 1]
    /\ UNCHANGED <<items, now, cached>>

\* GitHub refuses a request because there were too many: that is not repeated.
RateLimit ==
    /\ Active /\ count.faults < MaxFaults
    /\ read' = [read EXCEPT !.stage = "limited"]
    /\ count' = [count EXCEPT !.faults = @ + 1]
    /\ UNCHANGED <<items, now, cached>>

-----------------------------------------------------------------------------
Init ==
    /\ items \in SUBSET (1..MaxItem)
    /\ now = 0
    /\ cached = 0
    /\ read = NoRead
    /\ count = [reads |-> 0, changes |-> 0, faults |-> 0]

Next ==
    \/ \E i \in 1..MaxItem : Add(i) \/ Drop(i)
    \/ \E how \in Hows : Begin(how)
    \/ Tick \/ Answer \/ Fault \/ RateLimit

\* GitHub or the network answers every request at last: the clients themselves give
\* no limit to the time an answer takes once the connection is there.
Fairness == WF_vars(Answer)

Spec == Init /\ [][Next]_vars /\ Fairness

-----------------------------------------------------------------------------
(* Properties.                                                             *)

TypeOK ==
    /\ items \in SUBSET (1..MaxItem)
    /\ now \in Nat
    /\ cached \in Nat
    /\ read \in Read
    /\ count \in [reads : 0..MaxReads, changes : 0..MaxChanges, faults : 0..MaxFaults]

Done == read.stage = "done"

\* What is in the list during the whole read is read, except that the pages of a REST
\* list move up when something is removed, and nothing is read twice, except that they
\* move down when something is added, and that actors are read again.
ReadsAreExact ==
    Done => /\ \/ read.how = "rest" /\ read.removed
               \/ read.stayed \subseteq read.got
            /\ \/ read.how = "rest" /\ read.added
               \/ read.how = "actors" /\ read.page > 1
               \/ ~read.twice

\* A read only fails when one of its requests has used up its attempts: the token
\* outlives every read that takes no longer than the buffer.
FailuresHaveACause == read.stage = "failed" => read.tries = Attempts

\* Every read comes to its end: no page leads back to an earlier one.
ReadsEnd == Active ~> ~Active

\* All the repositories that a team has permissions for are read in the end.
PermissionsAreRead == (Active /\ read.how = "team") ~> ~Active
=============================================================================
