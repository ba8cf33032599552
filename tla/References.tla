----------------------------- MODULE References -----------------------------
(***************************************************************************)
(* The objects of an organization that name other objects: teams and their *)
(* members, the teams that manage security, secrets and variables for      *)
(* selected repositories, rulesets with the actors that bypass them, and,  *)
(* within a repository, the permissions of teams, an environment with its  *)
(* reviewers and branch policies, a branch protection rule and a ruleset.  *)
(*                                                                         *)
(* A configuration names things; GitHub stores identities.  Names are      *)
(* resolved when a patch is applied, one patch after the other, and an     *)
(* identity that no longer belongs to anybody is skipped when it is read.  *)
(*                                                                         *)
(* An object is a record: `refs` what it names, `checks` its own entries   *)
(* (status checks, branch policies, levels of permission), `data` the rest.*)
(***************************************************************************)
EXTENDS Naturals, Sequences, FiniteSets, SequencesExt

CONSTANTS
    Teams, Users, Apps,   \* names; all the users and all the apps exist
    Creator,              \* the user that otterdog acts for
    Cases,                \* the situations a behaviour may start in, see RefInit
    MaxApplies,           \* bound: applies one after the other
    MaxFailures,          \* bound: requests that fail for no reason of their own
    MaxOthers             \* bound: changes by somebody else

ASSUME CreatorAssumption == Creator \in Users
ASSUME BoundsAssumption == MaxApplies \in Nat /\ MaxFailures \in Nat /\ MaxOthers \in Nat

VARIABLES
    live,      \* GitHub: [Objects -> what there is, or None]
    ids,       \* GitHub: the identity of each team, 0 when there is no such team
    installed, \* GitHub: the apps that are installed in the organization
    config,    \* [Objects -> what is configured, or None]
    pc,        \* "idle", "applying" or "done"
    todo,      \* the patches still to be applied
    steps,     \* the requests of the patch that is being applied
    happened,  \* how often each bounded event happened
    hist       \* history, never read by an action

refVars == <<live, ids, installed, config, pc, todo, steps, happened, hist>>

None == [refs |-> {}, checks |-> {}, data |-> {"absent"}]

\* The order of generate_live_patch: teams, settings, secrets, variables, rulesets,
\* repositories, and what belongs to a repository after the repository itself.
\* "repo" is one of the two repositories; the other one has all that follows it.
Others == <<"managers", "secret", "variable", "orgrule", "repo", "perms", "env", "pages", "branch", "rule">>
Order == SetToSeq(Teams) \o Others
Objects == Teams \cup ToSet(Others)
Rules == {"orgrule", "rule"}
Selective == {"secret", "variable"}
Environments == {"env", "pages"}       \* "pages" is made for the pages of the repository
Permanent == {"managers", "perms"}     \* lists that are always there, if empty
Roles == {"role", "custom"}            \* a predefined role, one of the organization
HasActors == Rules \cup Environments \cup {"branch"}
Fields == {"refs", "checks", "data"}

\* The names of teams, "@organization/team", are like no other names.
ASSUME TeamsAssumption ==
    /\ IsFiniteSet(Teams)
    /\ Teams \cap (Users \cup Apps \cup Roles \cup {"first", "second"} \cup ToSet(Others)) = {}

IsObject(x) ==
    /\ DOMAIN x = Fields /\ IsFiniteSet(x.refs) /\ IsFiniteSet(x.checks)
    /\ x # None => x.data # None.data

\* GitHub gives every team an identity of its own, stores no actor without an identity,
\* nor a selection of what is not visible to selected repositories only.
ASSUME CasesAssumption ==
    \A c \in Cases :
        /\ DOMAIN c.live = Objects /\ DOMAIN c.config = Objects
        /\ \A o \in Objects : IsObject(c.live[o]) /\ IsObject(c.config[o])
        /\ \A o \in Permanent : c.live[o] # None /\ c.config[o] # None
        /\ c.ids \in [Teams -> 0 .. Cardinality(Teams)] /\ c.installed \subseteq Apps
        /\ \A t \in Teams : c.live[t] = None <=> c.ids[t] = 0
        /\ \A t, u \in Teams : t # u /\ c.ids[t] # 0 => c.ids[t] # c.ids[u]
        /\ \A o \in HasActors, t \in Teams : <<t, 0>> \notin c.live[o].refs
        /\ \A o \in Selective : "selected" \notin c.live[o].data => c.live[o].refs = {}

\* Names of one kind are not names of another; the app of a status check may be any, none,
\* the one of the actions, or one that is known by its number only.
ASSUME NamesAssumption ==
    /\ (Users \cup Apps) \cap (Roles \cup {"second"}) = {}
    /\ Apps \cap {"any", "none", "actions", "number"} = {}

\* Whom an object can name.
Mentions(o) ==
    CASE o \in Teams        -> Users
      [] o = "managers"     -> Teams
      [] o \in Selective    -> {"first", "second"}
      [] o \in Rules        -> Teams \cup Apps \cup Roles
      [] o \in Environments -> Teams \cup Users
      [] o = "branch"       -> Teams \cup Users \cup Apps
      [] OTHER              -> {}

HasEntries(o) == o \in HasActors \cup {"perms"}
TeamsIn(permissions) == {p[1] : p \in permissions}
OneLevelEach(permissions) == \A p, q \in permissions : p[1] = q[1] => p = q

IsConfiguration(c) ==
    /\ \A o \in Objects : c[o].refs \subseteq Mentions(o) /\ (HasEntries(o) \/ c[o].checks = {})
    /\ TeamsIn(c["perms"].checks) \subseteq Teams /\ OneLevelEach(c["perms"].checks)
    /\ \A o \in Permanent : c[o].data = {}

\* What is stored of names: identities are given one after the other, `next` is the first
\* that nobody ever had.
Stored(o, next) == IF o \in HasActors THEN Mentions(o) \X (0 .. next - 1) ELSE Mentions(o)

\* A ruleset has no check of any app; lists are of teams and repositories that exist.
IsStored(l, i, next) ==
    /\ \A o \in Objects : l[o].refs \subseteq Stored(o, next) /\ (HasEntries(o) \/ l[o].checks = {})
    /\ l["managers"].refs \cup TeamsIn(l["perms"].checks) \subseteq {t \in Teams : i[t] # 0}
    /\ OneLevelEach(l["perms"].checks)
    /\ \A o \in Selective : "second" \in l[o].refs => l["repo"] # None
    /\ \A o \in Rules : "any" \notin l[o].checks
    /\ \A o \in Environments : "selected" \notin l[o].data => l[o].checks = {}
    /\ \A o \in Permanent : l[o].data = {}

ASSUME ContentsAssumption ==
    \A c \in Cases : IsConfiguration(c.config) /\ IsStored(c.live, c.ids, Cardinality(Teams) + 1)

-----------------------------------------------------------------------------
(* Names and identities.                                                   *)

\* Somebody who bypasses or reviews, as GitHub stores it: a team by its identity.
Identity(n) == IF n \in Teams THEN <<n, ids[n]>> ELSE <<n, 0>>

\* Mutant: who does not exist is a reason to give up, whoever names it.
AlwaysRequired(o) == TRUE

\* Rulesets and selections insist on everything that they name; reviewers and
\* allowances of which nobody knows are left out.
IsRequired(o) == o \in Rules \cup Selective

Exists(n) == n \in Users \cup Apps \cup Roles \cup {"first"} \/ (n \in Teams /\ ids[n] # 0)
                 \/ (n = "second" /\ live["repo"] # None)

\* Who is required and does not exist.
Misses(o, c) == IsRequired(o) /\ \E n \in c.refs : ~Exists(n)

\* The app of a status check: a ruleset takes its number as well.
Checkable(o) ==
    Apps \cup {"any", "none", "actions"} \cup IF o \in Rules THEN {"number"} ELSE {}

Resolvable(o, c) ==
    /\ ~Misses(o, c)
    /\ o \in Rules \cup {"branch"} => c.checks \subseteq Checkable(o)

\* A role of the organization has no identity that the code knows of: to look it up is a
\* KeyError, which nobody expects.
Unforeseen(o, c) == o \in Rules /\ "custom" \in c.refs

\* Bypasses are all there when they are resolved, see Resolvable.
BypassIds(names) == {Identity(n) : n \in names}
AllowanceIds(names) == {Identity(n) : n \in {x \in names : Exists(x)}}
ReviewerIds(names) == {Identity(n) : n \in {x \in names : Exists(x)}}
Resolved(o, names) ==
    CASE o \in Rules        -> BypassIds(names)
      [] o = "branch"       -> AllowanceIds(names)
      [] o \in Environments -> ReviewerIds(names)
      [] OTHER              -> names

\* The app of a status check as it is stored.
StoredRuleCheck(c) == IF c = "any" THEN "none" ELSE c
StoredBranchCheck(c) == IF c = "none" THEN "actions" ELSE c
StoredCheck(o, c) ==
    CASE o \in Rules -> StoredRuleCheck(c) [] o = "branch" -> StoredBranchCheck(c) [] OTHER -> c
StoredChecks(o, checks) == {StoredCheck(o, c) : c \in checks}

-----------------------------------------------------------------------------
(* What is read back.                                                      *)

\* A role of the organization has no name in a ruleset; a ruleset of the
\* organization is read without the names of teams and apps.
Readable(o, n) ==
    /\ n # "custom"
    /\ o = "rule" => n \notin Apps \ installed
    /\ o = "orgrule" => n \in Roles

\* The app of a status check is known by its number, or by its name if installed.
ReadRuleCheck(c) == IF c \in Apps \ installed THEN "number" ELSE c
ReadBranchCheck(c) == IF c = "actions" THEN "none" ELSE c
ReadCheck(o, c) ==
    CASE o \in Rules -> ReadRuleCheck(c) [] o = "branch" -> ReadBranchCheck(c) [] OTHER -> c

\* Those who are stored and still are who they were.
Known(o) == {n \in {r[1] : r \in live[o].refs} : Identity(n) \in live[o].refs /\ Exists(n)}

ReadMembers(o) == live[o].refs
ReadManagers == live["managers"].refs
ReadSelectionOfSecret == IF "selected" \in live["secret"].data THEN live["secret"].refs ELSE {}
ReadSelectionOfVariable == IF "selected" \in live["variable"].data THEN live["variable"].refs ELSE {}
ReadBypasses(o) == {n \in Known(o) : Readable(o, n)}
ReadAllowances == Known("branch")
ReadReviewers(o) == Known(o)

\* The repositories of each team make the teams of each repository.
ReadPermissions ==
    UNION {{p \in live["perms"].checks : p[1] = t} : t \in {u \in Teams : ids[u] # 0}}

\* The policies are read of an environment that selects branches.
ReadPolicies(o) == IF "selected" \in live[o].data THEN live[o].checks ELSE {}

ReadRefs(o) ==
    CASE o \in Teams        -> ReadMembers(o)
      [] o = "managers"     -> ReadManagers
      [] o = "secret"       -> ReadSelectionOfSecret
      [] o = "variable"     -> ReadSelectionOfVariable
      [] o \in Rules        -> ReadBypasses(o)
      [] o = "branch"       -> ReadAllowances
      [] o \in Environments -> ReadReviewers(o)
      [] OTHER              -> {}

ReadChecks(o) ==
    CASE o = "perms"        -> ReadPermissions
      [] o \in Environments -> ReadPolicies(o)
      [] OTHER              -> {ReadCheck(o, c) : c \in live[o].checks}

AsRead(o) ==
    IF live[o] = None THEN None
    ELSE [refs |-> ReadRefs(o), checks |-> ReadChecks(o), data |-> live[o].data]

-----------------------------------------------------------------------------
(* The plan.                                                               *)

\* Mutant: every field is compared, whatever it is good for.
EveryField(o) == Fields

\* Without required reviews nobody has to bypass them; an environment has
\* branch policies when it selects branches.
Included(o) ==
    {f \in Fields : /\ f = "refs" /\ o = "branch" => "reviewed" \in config[o].data
                    /\ f = "checks" /\ o \in Environments => "selected" \in config[o].data}

Differing(o) == {f \in Included(o) : config[o][f] # AsRead(o)[f]}

\* The environment of the pages comes and goes by itself.
ComesByItself(o) == o = "pages" /\ config[o] = None

Patch(o) ==
    CASE config[o] = None /\ live[o] # None /\ ~ComesByItself(o) ->
             <<[of |-> o, kind |-> "remove", changed |-> {}]>>
      [] config[o] # None /\ live[o] = None -> <<[of |-> o, kind |-> "add", changed |-> Fields]>>
      [] config[o] # None /\ live[o] # None /\ Differing(o) # {} ->
             <<[of |-> o, kind |-> "change", changed |-> Differing(o)]>>
      [] OTHER -> <<>>

Patches == FlattenSeq([i \in DOMAIN Order |-> Patch(Order[i])])

-----------------------------------------------------------------------------
(* The requests of a patch.                                                *)

Update(data) == [op |-> "put", field |-> "data", item |-> data]
Entry(op, field, item) == [op |-> op, field |-> field, item |-> item]
Each(op, field, items) == LET s == SetToSeq(items) IN [i \in DOMAIN s |-> Entry(op, field, s[i])]

\* Mutant: all are removed that are there, before those that are wanted are added.
FromScratch(field, current, wanted) == Each("exclude", field, current) \o Each("include", field, wanted)

\* Entries of a list that has one request for each: first, those that are
\* missing are added; second, those that are not wanted are removed.
AddThenRemove(field, current, wanted) ==
    Each("include", field, wanted \ current) \o Each("exclude", field, current \ wanted)

\* A ruleset is sent as a whole, but an empty list of rules is not sent.
PartsOfRule(c) ==
    IF c.checks = {} /\ c.data = {} THEN [refs |-> c.refs]
                                    ELSE [refs |-> c.refs, checks |-> c.checks, data |-> c.data]

AddTeam(c) ==
    <<Update([refs |-> {Creator}, checks |-> {}, data |-> c.data])>>
    \o Each("exclude", "refs", {Creator}) \o Each("include", "refs", c.refs)

ChangeTeam(o, p, c) ==
    <<Update([f \in p.changed \ {"refs"} |-> c[f]])>>
    \o (IF "refs" \in p.changed THEN AddThenRemove("refs", live[o].refs, c.refs) ELSE <<>>)

TeamSteps(o, p, c) == IF p.kind = "add" THEN AddTeam(c) ELSE ChangeTeam(o, p, c)

ManagerSteps(c) == AddThenRemove("refs", ReadManagers, c.refs)

\* A secret or a variable is sent as a whole, a ruleset as well; of other
\* objects only what changed.
AddSecret(c) == <<Update(c)>>
ChangeSecret(c) == <<Update(c)>>
SecretSteps(p, c) == IF p.kind = "add" THEN AddSecret(c) ELSE ChangeSecret(c)

AddVariable(c) == <<Update(c)>>
\* A variable has a request of its own for its selection.
ChangeVariable(c) ==
    <<Update([data |-> c.data])>> \o (IF "selected" \in c.data THEN <<Update([refs |-> c.refs])>> ELSE <<>>)
VariableSteps(p, c) == IF p.kind = "add" THEN AddVariable(c) ELSE ChangeVariable(c)

OrgRuleSteps(c) == <<Update(PartsOfRule(c))>>
RepoRuleSteps(c) == <<Update(PartsOfRule(c))>>
AddBranch(c) == <<Update(c)>>
ChangeBranch(p, c) == <<Update([f \in p.changed |-> c[f]])>>
BranchSteps(p, c) == IF p.kind = "add" THEN AddBranch(c) ELSE ChangeBranch(p, c)
RepoSteps(p, c) == <<Update([f \in p.changed |-> c[f]])>>

\* A permission is a pair of a team and a level: those of teams that lose all
\* are removed first, a level that changes is overwritten.
PermissionSteps(c) ==
    LET from == ReadPermissions
        kept == {p[1] : p \in c.checks}
    IN  Each("exclude", "checks", {p \in from : p[1] \notin kept}) \o Each("include", "checks", c.checks \ from)

PolicySteps(o, c) == AddThenRemove("checks", live[o].checks, c.checks)
EnvironmentSteps(o, p, c) ==
    <<Update([f \in p.changed \ {"checks"} |-> c[f]])>>
    \o (IF "checks" \in p.changed THEN PolicySteps(o, c) ELSE <<>>)

StepsOf(p) ==
    LET o == p.of
        c == [config[o] EXCEPT !.refs = Resolved(o, @), !.checks = StoredChecks(o, @)]
    IN  IF p.kind = "remove" THEN <<Entry("delete", "data", {})>>
        ELSE CASE o \in Teams        -> TeamSteps(o, p, c)
               [] o = "managers"     -> ManagerSteps(c)
               [] o = "secret"       -> SecretSteps(p, c)
               [] o = "variable"     -> VariableSteps(p, c)
               [] o = "orgrule"      -> OrgRuleSteps(c)
               [] o = "repo"         -> RepoSteps(p, c)
               [] o = "perms"        -> PermissionSteps(c)
               [] o \in Environments -> EnvironmentSteps(o, p, c)
               [] o = "branch"       -> BranchSteps(p, c)
               [] o = "rule"         -> RepoRuleSteps(c)

-----------------------------------------------------------------------------
(* GitHub (external).                                                      *)

Blank(o) == [refs |-> {}, checks |-> {}, data |-> {}]

\* What a request leaves of the object.
After(o, s) ==
    LET old == IF live[o] = None THEN Blank(o) ELSE live[o] IN
    CASE s.op = "delete" -> None
      [] s.op = "put" ->
             LET new == [f \in Fields |-> IF f \in DOMAIN s.item THEN s.item[f] ELSE old[f]]
             IN  IF "selected" \in new.data THEN new
                 ELSE CASE o \in Environments -> [new EXCEPT !.checks = {}]
                        [] o \in Selective     -> [new EXCEPT !.refs = {}]
                        [] OTHER               -> new
      [] s.op = "include" /\ o = "perms" ->
             [old EXCEPT !.checks = {p \in @ : p[1] # s.item[1]} \cup {s.item}]
      [] s.op = "include" /\ o # "perms" -> [old EXCEPT ![s.field] = @ \cup {s.item}]
      [] s.op = "exclude" -> [old EXCEPT ![s.field] = @ \ {s.item}]

\* The team that an entry of a list is about.
TeamOf(o, s) == IF o = "perms" THEN s.item[1] ELSE IF o = "managers" THEN s.item ELSE o

Accepted(o, s) ==
    /\ s.op \in {"include", "exclude"} /\ o \in Permanent \cup Teams => ids[TeamOf(o, s)] # 0
    /\ s.op = "include" /\ o \in Environments => live[o] # None /\ "selected" \in live[o].data
    /\ s.op = "exclude" => live[o] # None /\ s.item \in live[o][s.field]
    /\ s.op = "delete" => live[o] # None
    /\ o = "rule" /\ s.op = "put" /\ "data" \in DOMAIN s.item /\ "deployment" \in s.item.data =>
           live["env"] # None

\* A role that cannot be given to a team is a warning, not a failure.
Tolerated(o, s) == o = "managers" /\ s.op = "include"

\* A team that is gone manages nothing and has no permissions, a repository that
\* is gone is not selected; identities stay where they are stored.
Without(l, n) ==
    [l EXCEPT !["managers"].refs = @ \ {n},
              !["perms"].checks = {p \in @ : p[1] # n},
              !["secret"].refs = @ \ {n}, !["variable"].refs = @ \ {n}]

-----------------------------------------------------------------------------
Current == Head(todo)

Plan ==
    /\ pc = "idle" /\ happened.runs < MaxApplies
    /\ pc' = "applying" /\ todo' = Patches
    /\ happened' = [happened EXCEPT !.runs = @ + 1]
    /\ hist' = [hist EXCEPT !.failed = FALSE]
    /\ UNCHANGED <<live, ids, installed, config, steps>>

\* Whom an object is to name: what is selected of something that everybody sees is ignored.
Named(o) ==
    IF o \in Selective /\ "selected" \notin config[o].data THEN {} ELSE config[o].refs

\* The names of a patch are resolved; when one is missing that is required,
\* or a status check is of an app that does not exist, the patch fails.
Begin ==
    /\ pc = "applying" /\ todo # <<>> /\ steps = <<>>
    /\ Current.kind # "remove" => /\ Resolvable(Current.of, config[Current.of])
                                 /\ ~Unforeseen(Current.of, config[Current.of])
    /\ IF StepsOf(Current) = <<>> THEN todo' = Tail(todo) /\ UNCHANGED steps
                                   ELSE steps' = StepsOf(Current) /\ UNCHANGED todo
    /\ UNCHANGED <<live, ids, installed, config, pc, happened, hist>>

Unresolved ==
    /\ pc = "applying" /\ todo # <<>> /\ steps = <<>>
    /\ Current.kind # "remove" /\ ~Resolvable(Current.of, config[Current.of])
    /\ Unforeseen(Current.of, config[Current.of]) => Misses(Current.of, config[Current.of])
    /\ todo' = Tail(todo)
    /\ hist' = [hist EXCEPT !.failed = TRUE]
    /\ UNCHANGED <<live, ids, installed, config, pc, steps, happened>>

\* Only a RuntimeError is a patch that fails; a KeyError ends the run.  Actors are looked up
\* one after the other, and before the status checks: one that is missing may come first.
BreakOff ==
    /\ pc = "applying" /\ todo # <<>> /\ steps = <<>>
    /\ Current.kind # "remove" /\ Unforeseen(Current.of, config[Current.of])
    /\ pc' = "done" /\ todo' = <<>>
    /\ hist' = [hist EXCEPT !.failed = TRUE, !.calm = 0, !.disturbed = FALSE]
    /\ UNCHANGED <<live, ids, installed, config, steps, happened>>

\* The next request of the patch is done.
Advance ==
    /\ steps' = Tail(steps)
    /\ todo' = IF Len(steps) = 1 THEN Tail(todo) ELSE todo

Step ==
    /\ steps # <<>> /\ Accepted(Current.of, Head(steps))
    /\ LET o == Current.of
           l == [live EXCEPT ![o] = After(o, Head(steps))]
       IN  /\ live' = IF o \in Teams /\ l[o] = None THEN Without(l, o)
                      ELSE IF o = "repo" /\ l[o] = None THEN Without(l, "second") ELSE l
           /\ ids' = IF o \in Teams THEN [ids EXCEPT ![o] = IF l[o] = None THEN 0
                                                            ELSE IF @ = 0 THEN hist.next ELSE @] ELSE ids
           /\ hist' = IF o \in Teams /\ live[o] = None THEN [hist EXCEPT !.next = @ + 1] ELSE hist
    /\ Advance
    /\ UNCHANGED <<installed, config, pc, happened>>

Warn ==
    /\ steps # <<>> /\ ~Accepted(Current.of, Head(steps)) /\ Tolerated(Current.of, Head(steps))
    /\ Advance
    /\ UNCHANGED <<live, ids, installed, config, pc, happened, hist>>

\* A patch ends with the first request that fails.
GiveUp == steps' = <<>> /\ todo' = Tail(todo) /\ UNCHANGED <<live, ids, installed, config, pc>>

Refuse ==
    /\ steps # <<>> /\ ~Accepted(Current.of, Head(steps)) /\ ~Tolerated(Current.of, Head(steps))
    /\ GiveUp
    /\ hist' = [hist EXCEPT !.failed = TRUE]
    /\ UNCHANGED happened

StepFails ==
    /\ steps # <<>> /\ happened.failures < MaxFailures
    /\ GiveUp
    /\ happened' = [happened EXCEPT !.failures = @ + 1]
    /\ hist' = [hist EXCEPT !.failed = TRUE, !.calm = 0, !.disturbed = TRUE]

\* A change of a branch protection rule that is refused is answered like one
\* that is done, with nothing in it: nobody looks.
Overlook ==
    /\ steps # <<>> /\ Current.of = "branch" /\ happened.failures < MaxFailures
    /\ Advance
    /\ happened' = [happened EXCEPT !.failures = @ + 1]
    /\ hist' = [hist EXCEPT !.calm = 0, !.disturbed = TRUE]
    /\ UNCHANGED <<live, ids, installed, config, pc>>

Complete ==
    /\ pc = "applying" /\ todo = <<>>
    /\ pc' = "done"
    /\ hist' = [hist EXCEPT !.calm = IF hist.disturbed THEN 0 ELSE @ + 1, !.disturbed = FALSE]
    /\ UNCHANGED <<live, ids, installed, config, todo, steps, happened>>

Again ==
    /\ pc = "done" /\ happened.runs < MaxApplies
    /\ pc' = "idle"
    /\ UNCHANGED <<live, ids, installed, config, todo, steps, happened, hist>>

\* Somebody else removes a team or an app, or gives a bypass to somebody.
Disturb ==
    /\ happened.changes < MaxOthers
    /\ happened' = [happened EXCEPT !.changes = @ + 1]
    /\ hist' = [hist EXCEPT !.calm = 0, !.disturbed = TRUE]
    /\ UNCHANGED <<config, pc, todo, steps>>

OtherRemovesTeam(t) ==
    /\ Disturb
    /\ ids[t] # 0 /\ ids' = [ids EXCEPT ![t] = 0]
    /\ live' = Without([live EXCEPT ![t] = None], t)
    /\ UNCHANGED installed

OtherUninstalls(a) ==
    /\ Disturb
    /\ a \in installed /\ installed' = installed \ {a}
    /\ UNCHANGED <<live, ids>>

OtherGrants(o, n) ==
    /\ Disturb
    /\ live[o] # None /\ Exists(n) /\ n \in Mentions(o)
    /\ live' = [live EXCEPT ![o].refs = @ \cup {Identity(n)}]
    /\ UNCHANGED <<ids, installed>>

RefInit ==
    /\ \E c \in Cases :
          /\ live = c.live /\ ids = c.ids /\ installed = c.installed /\ config = c.config
    /\ pc = "idle" /\ todo = <<>> /\ steps = <<>>
    /\ happened = [runs |-> 0, failures |-> 0, changes |-> 0]
    /\ hist = [failed |-> FALSE, disturbed |-> FALSE, calm |-> 0, next |-> Cardinality(Teams) + 1]

RefNext ==
    \/ Plan \/ Begin \/ Unresolved \/ BreakOff \/ Step \/ Warn \/ Refuse \/ StepFails \/ Overlook \/ Complete \/ Again
    \/ \E t \in Teams : OtherRemovesTeam(t)
    \/ \E a \in Apps : OtherUninstalls(a)
    \/ \E o \in HasActors, n \in Teams \cup Users \cup Apps \cup Roles : OtherGrants(o, n)

RefSpec == RefInit /\ [][RefNext]_refVars

-----------------------------------------------------------------------------
\* The values of the variables; a team has an identity as long as it exists.
RefTypeOK ==
    /\ DOMAIN live = Objects /\ DOMAIN config = Objects
    /\ \A o \in Permanent : live[o] # None
    /\ \A t \in Teams : ids[t] \in 0 .. hist.next - 1 /\ (live[t] = None <=> ids[t] = 0)
    /\ \A t, u \in Teams : t # u /\ ids[t] # 0 => ids[t] # ids[u]
    /\ installed \subseteq Apps
    /\ steps # <<>> => todo # <<>> /\ pc = "applying"
    /\ happened.runs <= MaxApplies /\ happened.failures <= MaxFailures /\ happened.changes <= MaxOthers

\* Extra actors that nobody sees: they stay as long as their object needs no
\* other change.
Unseen(o) == {r \in live[o].refs : o \in HasActors /\
                  (~Readable(o, r[1]) \/ r # Identity(r[1]) \/ ~Exists(r[1]))}

\* All rules of a ruleset are taken away.
NoRules(o) == o \in Rules /\ config[o].checks = {} /\ config[o].data = {}

\* GitHub has what is configured.  Rules that are all taken away from a
\* ruleset stay, see PartsOfRule; a permission is never checked against a team
\* that does not exist.
Settled(o) ==
    LET c == config[o] IN
    IF c = None \/ live[o] = None THEN c = None /\ (live[o] = None \/ ComesByItself(o))
    ELSE /\ "refs" \in Included(o) =>
               Resolved(o, {n \in Named(o) : Exists(n)}) = live[o].refs \ (Unseen(o) \ Resolved(o, Named(o)))
         /\ ~NoRules(o) /\ "checks" \in Included(o) =>
               {ReadCheck(o, StoredCheck(o, x)) : x \in c.checks} = AsRead(o).checks
         /\ ~NoRules(o) => c.data = live[o].data

\* What is deployed to is an environment of the repository.
Deployable == "deployment" \in config["rule"].data => config["env"] # None

\* The configuration has all that it insists on, and nothing that the code cannot look up;
\* what it names otherwise may be gone.
Coherent ==
    LET there == {t \in Teams : config[t] # None} IN
    /\ \A o \in Rules \cup {"managers"} : config[o].refs \cap Teams \subseteq there
    /\ {p[1] : p \in config["perms"].checks} \subseteq there
    /\ \A o \in Selective : "second" \in config[o].refs => config["repo"] # None
    /\ Deployable
    /\ \A o \in Rules \cup {"branch"} : config[o].checks \subseteq Checkable(o)
    /\ \A o \in Rules : ~Unforeseen(o, config[o])

\* After a run in which nothing fails and nobody interferes each object names
\* whom the configuration names.  A run of which a patch is refused because it is
\* too early (what it names is created after it) or too late (the team is gone
\* already) is mended by the next one.
\* Not Coherent: a ruleset that names a role of the organization, which no run can apply
\* and none gets beyond, see BreakOff.
SettlesInTwo ==
    pc = "done" /\ Coherent /\ (hist.calm >= 2 \/ (hist.calm >= 1 /\ ~hist.failed)) =>
        \A o \in Objects : Settled(o)

\* What is never the same when read back: checks of any app of a ruleset,
\* checks of the actions app of a branch protection rule, actors that cannot
\* be read or do not exist, selections that are ignored.
Restless(o) ==
    config[o] # None /\
    \/ \E c \in config[o].checks : ReadCheck(o, StoredCheck(o, c)) # c
    \/ o \in HasActors /\ \E n \in config[o].refs : ~Readable(o, n) \/ ~Exists(n)
    \/ Named(o) # config[o].refs
    \/ NoRules(o)

\* Once two calm runs are done a further one changes nothing, but for those.
ThirdRunIsEmpty ==
    pc = "applying" /\ hist.calm >= 2 /\ ~hist.disturbed /\ Coherent => \A i \in DOMAIN todo : Restless(todo[i].of)

\* Whoever an object names before and is to name after its patch is named all
\* the time, whichever request fails; a new team loses its creator for a moment.
NobodyLosesInBetween ==
    [][Step => LET o == Current.of IN
           live[o] # None /\ config[o] # None =>
               (live[o].refs \cap Resolved(o, Named(o))) \ (IF o \in Teams THEN {Creator} ELSE {}) \subseteq live'[o].refs]_refVars
=============================================================================
