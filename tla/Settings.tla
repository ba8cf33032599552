----------------------------- MODULE Settings -----------------------------
(***************************************************************************)
(* The settings of an organization, of one of its repositories and of one  *)
(* branch protection rule there: what a configuration may say of them (the *)
(* validation rules), which of them the organization decides (coercion),   *)
(* which differ from what GitHub reports, and the requests that bring them *)
(* up to date, one after the other, each of which may fail.                *)
(*                                                                         *)
(* The plan compares the configuration either with what GitHub reports     *)
(* (otterdog apply) or with an earlier configuration that was applied      *)
(* before (the apply of a merged pull request).                            *)
(*                                                                         *)
(* A setting has a value of a small set of strings; "unset" says that it is*)
(* not to be touched, or not reported; "malformed" stands for a value that *)
(* is outside of the set, or of the length, that GitHub allows.  Being     *)
(* archived is left to ApplyOperation, and removals need no flag here.     *)
(***************************************************************************)
EXTENDS Naturals, Sequences

CONSTANTS
    Cases,         \* the situations a behaviour may start in, see SetInit
    MaxRuns,       \* bound: applies one after the other
    MaxFailures    \* bound: requests that fail for no reason of their own

ASSUME BoundsAssumption == MaxRuns \in Nat /\ MaxFailures \in Nat

VARIABLES
    org, repo,     \* GitHub: the own settings of the organization, of the repository
    branches,      \* GitHub: of the repository
    config,        \* [org, repo]: the configuration
    base,          \* [org, repo]: the configuration that was applied before
    local,         \* is the plan made from base instead of from what GitHub reports?
    pc,            \* "idle", "applying" or "done"
    todo,          \* the patches: sequences of requests still to be sent
    times,         \* how often each bounded event happened
    past           \* history, never read by an action

setVars == <<org, repo, branches, config, base, local, pc, todo, times, past>>

Unset == "unset"

-----------------------------------------------------------------------------
(* The fields.                                                             *)

\* Settings of an organization: those of the REST API, those that only its web
\* pages can change, those of its workflows.  Its `plan` cannot be changed, and
\* `property`, the definition of a custom property, is an object of its own.
OrgRest == {"signoff", "projects", "fork", "private_pages", "configs"}
OrgWeb == {"discussions"}
OrgFlow == {"repositories", "picked", "allowed", "patterns", "permissions", "approve", "policy"}
OrgFields == OrgRest \cup OrgWeb \cup OrgFlow

\* Settings of a repository: those of its PATCH request, those that have a
\* request of their own, and those of its workflows.
RepoPatch == {"private", "signoff", "projects", "discussions", "forking", "description",
              "title", "message", "scanning", "push"}
Pages == {"build", "branch", "path", "visibility"}
Scan == {"setup", "suite"}
RepoOwn == {"reporting", "topics", "properties", "default"} \cup Pages \cup Scan
RepoFlow == {"enabled", "allowed", "patterns", "permissions", "approve", "policy"}

\* Settings of a branch protection rule of the repository: some switch others on
\* or off.  "dismissal" stands for all that belongs to the reviews of pull requests.
RuleFields == {"reviews", "count", "dismissal", "dismissers", "force", "forcers", "status", "checks",
               "deploy", "target", "restricted", "pushers", "creations", "lock", "fetch"}
RuleLists == {"count", "dismissers", "forcers", "checks", "target", "pushers"}
RepoFields == RepoPatch \cup RepoOwn \cup RepoFlow \cup RuleFields

Level(allowed) == CASE allowed = "all" -> 1 [] allowed = "selected" -> 2
                    [] allowed = "local_only" -> 3 [] OTHER -> 0

\* The organization lets this repository run workflows.
Admits(o) == o.repositories = "all" \/ (o.repositories = "selected" /\ o.picked = "on")

-----------------------------------------------------------------------------
(* Validation: the errors of a configuration.                              *)

FlowErrors(s) == {f \in {"allowed", "permissions", "policy"} : s[f] = "malformed"}

OrgFlowErrors(o) == FlowErrors(o) \cup (IF o.repositories = "malformed" THEN {"repositories"} ELSE {})

\* A definition of a property lacks its default value, or has one it does not need.
PropertyErrors(o) == IF o.property = "malformed" THEN {"property"} ELSE {}

SettingsErrors(o) ==
    {f \in OrgRest \cup OrgWeb : o[f] = "malformed"}
    \cup OrgFlowErrors(o) \cup PropertyErrors(o)
    \cup (IF o.discussions = "sourceless" THEN {"discussions"} ELSE {})
    \cup (IF o.private_pages = "on" /\ o.plan # "enterprise" THEN {"private_pages"} ELSE {})

\* Mutant: any two values that are allowed on their own go together.
AnyPair(r) == TRUE

MessageFitsTitle(r) == r.title = "COMMIT_OR_PR_TITLE" => r.message = "COMMIT_MESSAGES"

PagesErrors(o, r) ==
    {f \in Pages : r[f] = "malformed"}
    \cup (IF /\ r.build # "disabled" /\ r.visibility = "private"
             /\ r.private # "on" \/ o.private_pages # "on"
          THEN {"visibility"} ELSE {})

ActionsDisabled(o, r) == r.enabled = "off" \/ (r.enabled = "on" /\ ~Admits(o))

RepoFlowErrors(o, r) ==
    FlowErrors(r) \cup (IF r.setup = "on" /\ ActionsDisabled(o, r) THEN {"setup"} ELSE {})

\* Values of which only some are allowed, or only together.
ChoiceErrors(r) ==
    {f \in {"suite", "title", "message"} : r[f] = "malformed"}
    \cup (IF MessageFitsTitle(r) THEN {} ELSE {"message"})

\* What a rule has that makes no difference: the validation says that it is ignored.
Ignored(r) ==
    {f \in RuleFields :
        \/ f \in {"count", "dismissal", "dismissers"} /\ r.reviews = "off"
        \/ f = "dismissers" /\ r.dismissal = "off"
        \/ f = "forcers" /\ r.force = "on"
        \/ f = "checks" /\ r.status = "off"
        \/ f = "target" /\ r.deploy = "off"
        \/ f \in {"pushers", "creations"} /\ r.restricted = "off"
        \/ f = "fetch" /\ r.lock = "off"}

\* Reviews need a number; what is deployed to is an environment of the repository.
RuleErrors(r) ==
    {f \in {"count", "target"} \ Ignored(r) : r[f] = "malformed" \/ (f = "count" /\ r[f] = "none")}

RepositoryErrors(o, r) ==
    {f \in {"description", "topics"} : r[f] = "malformed"}
    \cup PagesErrors(o, r) \cup ChoiceErrors(r) \cup RepoFlowErrors(o, r) \cup RuleErrors(r)
    \cup (IF r.discussions = "off" /\ o.discussions = "on" THEN {"discussions"} ELSE {})
    \cup (IF r.private = "on" /\ o.fork = "off" /\ r.forking = "on" THEN {"forking"} ELSE {})
    \cup (IF r.scanning = "off" /\ r.push = "on" THEN {"push"} ELSE {})
    \cup (IF r.properties # "none" /\ o.property = "undefined" THEN {"properties"} ELSE {})

-----------------------------------------------------------------------------
(* Coercion: what the organization decides.                                *)

CoercedRepo(o, r) ==
    [f \in DOMAIN r |->
        CASE f = "projects"   /\ o.projects = "off"       -> Unset
          [] f = "signoff"    /\ o.signoff = "on"         -> Unset
          [] f = "visibility" /\ o.plan # "enterprise"    -> Unset
          [] f = "properties" /\ o.property = "required" /\ r[f] = "none" -> "usual"
          [] f = "discussions" /\ o.discussions = "on"    -> "on"
          [] OTHER -> r[f]]

\* All of a configuration is validated, whatever is found.
Errors(c) == SettingsErrors(c.org) \cup RepositoryErrors(c.org, c.repo)

\* A repository is coerced when it is loaded, before it is validated.
IsValid(c) == Errors([c EXCEPT !.repo = CoercedRepo(c.org, @)]) = {}

Restricts(o, allowed) == Level(o.allowed) >= Level(allowed)

CoercedFlow(o, r) ==
    [f \in DOMAIN r |->
        CASE f = "enabled" /\ ~Admits(o) -> Unset
          [] f \in {"allowed", "patterns"} /\ Restricts(o, r.allowed) -> Unset
          [] f = "permissions" /\ o.permissions = "read" -> Unset
          [] f = "approve" /\ o.approve = "off" -> Unset
          [] OTHER -> r[f]]

-----------------------------------------------------------------------------
(* GitHub (external): what holds when both levels have a say, and what it  *)
(* reports.                                                                *)

OrgEffective(o) ==
    [f \in DOMAIN o |->
        IF \/ f \in OrgFlow \ {"repositories"} /\ o.repositories = "none"
           \/ f = "picked" /\ o.repositories # "selected"
           \/ f = "patterns" /\ o.allowed # "selected"
        THEN Unset ELSE o[f]]

Strictest(o, r) == IF Restricts(o, r.allowed) THEN o ELSE r

FlowEffective(o, r, f) ==
    LET on == Admits(o) /\ r.enabled = "on" IN
    CASE f = "enabled" -> IF on THEN "on" ELSE "off"
      [] f = "policy"  -> IF on /\ r.private = "off" THEN r.policy ELSE Unset
      [] f = "allowed" /\ on -> Strictest(o, r).allowed
      [] f = "patterns" /\ on ->
           IF Strictest(o, r).allowed = "selected" THEN Strictest(o, r).patterns ELSE Unset
      [] f = "permissions" /\ on -> IF o.permissions = "read" THEN "read" ELSE r.permissions
      [] f = "approve" /\ on -> IF o.approve = "off" THEN "off" ELSE r.approve
      [] OTHER -> Unset

RepoEffective(o, r) ==
    [f \in DOMAIN r |->
        CASE f = "signoff" -> IF o.signoff = "on" THEN "on" ELSE r.signoff
          [] f = "projects" -> IF o.projects = "off" THEN "off" ELSE r.projects
          [] f = "discussions" -> IF o.discussions = "on" THEN "on" ELSE r.discussions
          [] f = "forking" -> IF r.private = "off" THEN "on" ELSE IF o.fork = "off" THEN "off" ELSE r.forking
          [] f \in {"scanning", "push", "reporting"} /\ r.private = "on" -> Unset
          [] f = "properties" -> CASE o.property = "undefined" -> "none"
                                   [] o.property = "required" /\ r.properties = "none" -> "usual"
                                   [] OTHER -> r.properties
          [] f = "visibility" /\ (o.plan # "enterprise" \/ r.build = "disabled") -> Unset
          [] f \in {"branch", "path"} /\ r.build # "legacy" -> Unset
          [] f = "suite" /\ r.setup = "off" -> Unset
          [] f \in RepoFlow -> FlowEffective(o, r, f)
          [] f \in Ignored(r) -> Unset
          [] OTHER -> r[f]]

\* What the clients make of the answers: workflows that are not restricted have
\* no patterns, without pages there are no branch and no path.
FlowRead(f, v) == IF f = "patterns" /\ v = Unset THEN "none" ELSE v

PickedRead == IF org.repositories = "selected" THEN org.picked ELSE "off"

OrgRead == [f \in DOMAIN org |->
    CASE f = "picked" -> PickedRead
      [] f = "policy" -> org.policy
      [] OTHER -> FlowRead(f, OrgEffective(org)[f])]

RepoFlowRead(f) ==
    IF f = "policy" THEN (IF repo.private = "off" THEN repo.policy ELSE Unset)
    ELSE FlowRead(f, RepoEffective(org, repo)[f])

\* A private repository is not asked for what it cannot have.
IsAsked(f) == f = "reporting" => repo.private = "off"

PagesRead(f, v) == IF f \in {"branch", "path"} /\ v = Unset THEN "none" ELSE v
ScanRead(f, v) == IF f = "suite" /\ v = Unset THEN "none" ELSE v

\* Of a rule everything is reported, as off or empty if it makes no difference.
RuleRead(f, v) == IF v # Unset THEN v ELSE IF f \in RuleLists THEN "none" ELSE "off"

RepoRead == [f \in DOMAIN repo |->
    LET v == RepoEffective(org, repo)[f] IN
    CASE ~IsAsked(f) -> Unset
      [] f \in Pages -> PagesRead(f, v)
      [] f \in Scan -> ScanRead(f, v)
      [] f \in RepoFlow -> RepoFlowRead(f)
      [] f \in RuleFields -> RuleRead(f, v)
      [] OTHER -> v]

-----------------------------------------------------------------------------
(* Differences.                                                            *)

\* Patterns are for actions that are selected.
FlowIncluded(s, f) == f = "patterns" => s.allowed \notin {"all", "local_only"}

OrgIncluded(o) ==
    {f \in OrgFields :
        /\ f \in OrgFlow => o.repositories # "none" \/ f = "repositories"
        /\ f = "picked" => o.repositories = "selected"
        /\ FlowIncluded(o, f)}

\* Mutant: nothing is compared of workflows that are disabled.
IncludedIfEnabled(r) ==
    {f \in RepoFields :
        /\ f \in {"scanning", "push", "reporting"} => r.private # "on"
        /\ f \in RepoFlow => r.enabled = "on"}

\* Of workflows that are disabled only that is compared.
RepoFlowIncluded(r, f) ==
    /\ r.enabled = "on" \/ (r.enabled = "off" /\ f = "enabled")
    /\ FlowIncluded(r, f)

\* What is ignored is not compared either, with two exceptions.
RuleIncluded(r, f) == f \in {"creations", "fetch"} \/ f \notin Ignored(r)

RepoIncluded(r) ==
    {f \in RepoFields :
        /\ f \in {"scanning", "push", "reporting"} => r.private # "on"
        /\ f \in Pages \ {"build"} => r.build # "disabled"
        /\ f \in {"branch", "path"} => r.build # "workflow"
        /\ f = "suite" => r.setup # "off"
        /\ f \in RepoFlow => RepoFlowIncluded(r, f)
        /\ f \in RuleFields => RuleIncluded(r, f)}

Differing(expected, current, included) ==
    {f \in included : expected[f] # Unset /\ current[f] # Unset /\ expected[f] # current[f]}

\* The workflow settings go out as a whole as soon as one differs.
FlowSent(expected, included, differing) ==
    IF differing = {} THEN {} ELSE {f \in included : expected[f] # Unset}

-----------------------------------------------------------------------------
(* The requests of a patch: the fields that each carries.                  *)

Request(at, op, values, fields) == [at |-> at, op |-> op, data |-> [f \in fields |-> values[f]]]
Unless(fields, request) == IF fields = {} THEN <<>> ELSE <<request>>
Part(at, op, values, fields) == Unless(fields, Request(at, op, values, fields))

FlowRequests(at, values, sent) ==
    Part(at, "permissions", values, sent \cap {"repositories", "enabled", "allowed"})
    \o Part(at, "repositories", values, sent \cap {"picked"})
    \o (IF at = "org" \/ "allowed" \notin sent \/ values.allowed = "selected"
        THEN Part(at, "actions", values, sent \cap {"patterns"}) ELSE <<>>)
    \o Part(at, "defaults", values, sent \cap {"permissions", "approve"})
    \o (IF at = "org" \/ values.private = "off"
        THEN Part(at, "approval", values, sent \cap {"policy"}) ELSE <<>>)

OrgChanges(current) ==
    LET differing == Differing(config.org, current, OrgIncluded(config.org))
    IN  IF config.org.configs = "off" THEN differing \ {"configs"} ELSE differing

\* Settings that the web pages change follow those of the API.
OrgRequests(differing) ==
    Part("org", "settings", config.org, differing \cap OrgRest)
    \o Part("org", "disable", config.org, differing \cap {"configs"})
    \o Part("org", "web", config.org, differing \cap OrgWeb)
    \o FlowRequests("org", config.org,
           FlowSent(config.org, OrgIncluded(config.org) \cap OrgFlow, differing \cap OrgFlow))

PropertyRequests(current) ==
    IF config.org.property = current.property THEN <<>>
    ELSE <<Request("org", "property", config.org, {"property"})>>

\* What the repository is to become.
Expected == CoercedFlow(config.org, CoercedRepo(config.org, config.repo))

\* Mutant: an organization that no longer requires sign-offs is not looked at.
NothingReleased(changes) == {}

\* A sign-off that the organization no longer requires is set in any case.
Released(changes) ==
    IF "signoff" \in changes /\ config.org.signoff = "off" THEN {"signoff"} ELSE {}

\* Mutant: the message is sent without its title.
NoCompanions(differing) == {}

\* Two settings that GitHub takes only together.
Companions(differing) ==
    (IF differing \cap {"title", "message"} # {} THEN {"title", "message"} ELSE {})
    \cup (IF differing \cap {"branch", "path"} # {} THEN {"branch", "path"} ELSE {})

\* Sent values: what is expected, and of a companion what there is.
Values(current, differing) ==
    [f \in DOMAIN Expected |-> IF f \in differing THEN Expected[f] ELSE current[f]]

RepoRequests(current, released) ==
    LET differing == Differing(Expected, current, RepoIncluded(Expected)) \cup released
        all == differing \cup Companions(differing)
        values == Values(current, differing)
    IN  Part("repo", "settings", values, all \cap RepoPatch)
        \o Part("repo", "reporting", values, all \cap {"reporting"})
        \o Part("repo", "topics", values, all \cap {"topics"})
        \o Part("repo", "properties", values, all \cap {"properties"})
        \o Part("repo", "pages", values, all \cap Pages)
        \o Part("repo", "scanning", values, all \cap Scan)
        \o Part("repo", "default", values, all \cap {"default"})
        \o FlowRequests("repo", Expected,
               FlowSent(Expected, RepoIncluded(Expected) \cap RepoFlow, differing \cap RepoFlow))

\* A rule is changed by one mutation.
RuleRequests(current) ==
    Part("rule", "rule", Expected, Differing(Expected, current, RepoIncluded(Expected)) \cap RuleFields)

IfAny(requests) == IF requests = <<>> THEN <<>> ELSE <<requests>>

\* The organization comes first, then its properties, the repository and its rule.
Patches(currentOrg, currentRepo) ==
    LET changes == OrgChanges(currentOrg)
    IN  IfAny(OrgRequests(changes)) \o IfAny(PropertyRequests(currentOrg))
        \o IfAny(RepoRequests(currentRepo, Released(changes))) \o IfAny(RuleRequests(currentRepo))

-----------------------------------------------------------------------------
(* GitHub (external): what it refuses, and what a request does.            *)

\* The settings of the repository after the request.
After(r) == [f \in DOMAIN repo |-> IF f \in DOMAIN r.data THEN r.data[f] ELSE repo[f]]

\* Reviews whose number is not given get the usual one.
RuleAfter(r) == LET new == After(r) IN
    [new EXCEPT !.count = IF new.reviews = "on" /\ @ = "none" THEN "usual" ELSE @]

Malformed(r) == \E f \in DOMAIN r.data : r.data[f] = "malformed"

SettingsAccepted(new, fields) ==
    /\ "signoff" \in fields /\ org.signoff = "on" => new.signoff = "on"
    /\ "forking" \in fields /\ new.private = "on" /\ org.fork = "off" => new.forking = "off"
    /\ fields \cap {"title", "message"} # {} =>
           {"title", "message"} \subseteq fields /\ (new.title = "COMMIT_OR_PR_TITLE" => new.message = "COMMIT_MESSAGES")
    /\ "push" \in fields /\ new.push = "on" => new.scanning = "on"

PagesAccepted(new, fields) ==
    /\ "visibility" \in fields /\ new.visibility = "private" => new.private = "on" /\ org.private_pages = "on"
    /\ fields \cap {"branch", "path"} # {} => {"branch", "path"} \subseteq fields

FlowAccepted(new, fields) ==
    /\ "enabled" \in fields /\ new.enabled = "on" => Admits(org)
    /\ "allowed" \in fields => Level(new.allowed) >= Level(org.allowed)
    /\ "patterns" \in fields => new.allowed = "selected"
    /\ "permissions" \in fields /\ org.permissions = "read" => new.permissions = "read"
    /\ "approve" \in fields /\ org.approve = "off" => new.approve = "off"

Accepted(r) ==
    /\ ~Malformed(r)
    /\ r.at = "org" =>
           /\ r.op = "actions" => org.allowed = "selected"
           /\ "discussions" \in DOMAIN r.data => r.data.discussions # "sourceless"
    /\ r.at = "repo" =>
           /\ SettingsAccepted(After(r), DOMAIN r.data)
           /\ PagesAccepted(After(r), DOMAIN r.data)
           /\ FlowAccepted(After(r), DOMAIN r.data)
           /\ r.op = "scanning" /\ After(r).setup = "on" => RepoEffective(org, repo).enabled = "on"
           /\ r.op = "reporting" => repo.private = "off"
           /\ r.op = "properties" /\ r.data.properties # "none" => org.property # "undefined"

-----------------------------------------------------------------------------
(* Where a behaviour may start.                                            *)

IsSettings(s) ==
    /\ DOMAIN s.org = OrgFields \cup {"plan", "property"} /\ DOMAIN s.repo = RepoFields
    /\ \A f \in DOMAIN s.org : s.org[f] # Unset
    /\ \A f \in DOMAIN s.repo : s.repo[f] # Unset

\* Some settings are on or off, others lists, or names of what exists; the rest is
\* text, of which only some is allowed.
Switches == {"private", "forking", "scanning", "setup", "enabled"}
Levels == {"all", "selected", "local_only"}
OrgText == OrgRest \cup OrgWeb \cup {"repositories", "allowed", "permissions", "policy", "property"}
RepoText == {"description", "topics", "suite", "title", "message", "allowed", "permissions", "policy",
             "count", "target"} \cup Pages

\* The templates give every setting a value.
IsConfiguration(c) ==
    /\ IsSettings(c)
    /\ \A f \in DOMAIN c.org \ OrgText : c.org[f] # "malformed"
    /\ \A f \in DOMAIN c.repo \ RepoText : c.repo[f] # "malformed"
    /\ \A f \in Switches : c.repo[f] \in {"on", "off"}
    /\ c.org.signoff \in {"on", "off"}
    /\ {c.org.allowed, c.repo.allowed} \subseteq Levels \cup {"malformed"}

\* GitHub does what the configuration says.
Behaves(l, c) ==
    OrgEffective(l.org) = OrgEffective(c.org) /\ RepoEffective(l.org, l.repo) = RepoEffective(c.org, c.repo)

\* What was merged before has been applied.
ASSUME CasesAssumption ==
    \A c \in Cases :
        /\ IsSettings(c) /\ IsConfiguration(c.config) /\ IsSettings(c.base)
        /\ c.local \in BOOLEAN /\ (c.local => Behaves(c, c.base))
        /\ c.branches # {} => c.repo.default \in c.branches

-----------------------------------------------------------------------------
\* A run plans from what GitHub reports, or from base.
PlanRun ==
    /\ pc = "idle"
    /\ times.runs < MaxRuns
    /\ pc' = "applying"
    /\ todo' = IF local THEN Patches(base.org, CoercedRepo(base.org, base.repo))
                        ELSE Patches(OrgRead, RepoRead)
    /\ times' = [times EXCEPT !.runs = @ + 1]
    /\ past' = [past EXCEPT !.failed = FALSE, !.before = org,
                             !.unseen = {f \in RepoFields : RepoRead[f] # repo[f]}]
    /\ UNCHANGED <<org, repo, branches, config, base, local>>

Sending == pc = "applying" /\ todo # <<>>
Now == Head(Head(todo))

\* The patch goes on with its next request, or the next patch begins.
Advance == todo' = IF Len(Head(todo)) = 1 THEN Tail(todo) ELSE [todo EXCEPT ![1] = Tail(@)]

Sent == Sending /\ Accepted(Now) /\ Advance
        /\ UNCHANGED <<config, base, local, pc, times, past>>

UpdateOrg ==
    /\ Sent /\ Now.at = "org" /\ Now.op # "property"
    /\ org' = [f \in DOMAIN org |-> IF f \in DOMAIN Now.data THEN Now.data[f] ELSE org[f]]
    /\ UNCHANGED <<repo, branches>>

\* A custom property is added, changed or deleted.
UpdateProperty ==
    /\ Sent /\ Now.op = "property"
    /\ org' = [org EXCEPT !.property = Now.data.property]
    /\ UNCHANGED <<repo, branches>>

UpdateRepo ==
    /\ Sent /\ Now.at = "repo" /\ Now.op \notin {"scanning", "pages", "default"}
    /\ repo' = After(Now)
    /\ UNCHANGED <<org, branches>>

UpdateScanning ==
    /\ Sent /\ Now.op = "scanning"
    /\ repo' = After(Now)
    /\ UNCHANGED <<org, branches>>

UpdateRule ==
    /\ Sent /\ Now.at = "rule"
    /\ repo' = RuleAfter(Now)
    /\ UNCHANGED <<org, branches>>

\* Pages that do not exist yet are created on a branch that exists, and moved;
\* a repository that is empty is skipped.
UpdatePages ==
    /\ Sent /\ Now.op = "pages"
    /\ repo' = IF repo.build = "disabled" /\ "branch" \in DOMAIN Now.data /\ branches = {}
               THEN repo ELSE After(Now)
    /\ UNCHANGED <<org, branches>>

\* A branch that exists becomes the default one; otherwise the default branch
\* is renamed; a repository that is empty is skipped.
UpdateDefaultBranch ==
    /\ Sent /\ Now.op = "default"
    /\ IF branches = {} THEN UNCHANGED <<repo, branches>>
       ELSE /\ repo' = After(Now)
            /\ branches' = IF Now.data.default \in branches THEN branches
                           ELSE (branches \ {repo.default}) \cup {Now.data.default}
    /\ UNCHANGED org

\* What is refused or fails is the end of its patch, not of the run.
Refuse ==
    /\ Sending /\ Now.at # "rule" /\ ~Accepted(Now)
    /\ todo' = Tail(todo)
    /\ past' = [past EXCEPT !.refused = @ \cup {Now}, !.failed = TRUE]
    /\ UNCHANGED <<org, repo, branches, config, base, local, pc, times>>

\* A mutation that is refused is answered with success and without data: the run
\* takes it for done.
Overlook ==
    /\ Sending /\ Now.at = "rule" /\ ~Accepted(Now)
    /\ Advance
    /\ past' = [past EXCEPT !.refused = @ \cup {Now}]
    /\ UNCHANGED <<org, repo, branches, config, base, local, pc, times>>

\* What goes wrong in a browser is no RuntimeError and ends the run.
GoesWrong ==
    /\ Sending
    /\ times.failures < MaxFailures
    /\ times' = [times EXCEPT !.failures = @ + 1]
    /\ todo' = IF Now.op = "web" THEN <<>> ELSE Tail(todo)
    /\ past' = [past EXCEPT !.failed = TRUE, !.disturbed = TRUE]
    /\ UNCHANGED <<org, repo, branches, config, base, local, pc>>

Finish ==
    /\ pc = "applying" /\ todo = <<>>
    /\ pc' = "done"
    /\ past' = [past EXCEPT !.clean = IF past.failed THEN 0 ELSE @ + 1]
    /\ UNCHANGED <<org, repo, branches, config, base, local, todo, times>>

\* A further run; base is not applied again.
Again ==
    /\ pc = "done" /\ ~local /\ times.runs < MaxRuns
    /\ pc' = "idle"
    /\ UNCHANGED <<org, repo, branches, config, base, local, todo, times, past>>

SetInit ==
    /\ \E c \in Cases :
          /\ org = c.org /\ repo = c.repo /\ branches = c.branches
          /\ config = c.config /\ base = c.base /\ local = c.local
    /\ pc = "idle" /\ todo = <<>>
    /\ times = [runs |-> 0, failures |-> 0]
    /\ past = [failed |-> FALSE, disturbed |-> FALSE, clean |-> 0, refused |-> {},
            before |-> org, unseen |-> {}]

SetNext == PlanRun \/ UpdateOrg \/ UpdateProperty \/ UpdateRepo \/ UpdateScanning \/ UpdatePages \/ UpdateDefaultBranch
        \/ UpdateRule \/ Refuse \/ Overlook \/ GoesWrong \/ Finish \/ Again

SetSpec == SetInit /\ [][SetNext]_setVars

-----------------------------------------------------------------------------
\* The values of the variables; only known fields are ever written.
SetTypeOK ==
    /\ DOMAIN org = OrgFields \cup {"plan", "property"} /\ DOMAIN repo = RepoFields
    /\ \A f \in DOMAIN org : org[f] # Unset
    /\ \A f \in DOMAIN repo : repo[f] # Unset
    /\ branches # {} => repo.default \in branches
    /\ \A i \in DOMAIN todo : todo[i] # <<>> /\ \A j \in DOMAIN todo[i] : DOMAIN todo[i][j].data # {}
    /\ times.runs <= MaxRuns /\ times.failures <= MaxFailures

\* What the organization o decides for the repository.
Decided(o) ==
    {f \in RepoFields :
        \/ f = "projects" /\ o.projects = "off"
        \/ f = "signoff" /\ o.signoff = "on"
        \/ f = "discussions" /\ o.discussions = "on"
        \/ f = "forking" /\ o.fork = "off"
        \/ f = "properties" /\ o.property # config.org.property
        \/ f \in RepoFlow /\ ~Admits(o)
        \/ f \in {"allowed", "patterns"} /\ o.allowed # "all"
        \/ f = "permissions" /\ o.permissions = "read"
        \/ f = "approve" /\ o.approve = "off"}

\* An empty repository has no pages from a branch and no default branch; default
\* code security configurations can be disabled, but not enabled; and where the
\* organization allows no more actions than the configuration of the repository,
\* the repository may live on with even fewer.  What a rule
\* makes ignored need not agree: what makes it ignored has to.  The plan has to be
\* configured as it is for the visibility of pages to be compared.
OrgSettled ==
    \A f \in DOMAIN org \ {"plan"} :
        OrgEffective(org)[f] = OrgEffective(config.org)[f] \/ (f = "configs" /\ config.org.configs = "off")
RepoSettled(f) ==
    \/ RepoEffective(org, repo)[f] = RepoEffective(config.org, config.repo)[f]
    \/ branches = {} /\ f \in Pages \cup {"default"}
    \/ f \in Ignored(repo) \cup Ignored(config.repo)
    \/ f = "visibility" /\ org.plan # config.org.plan
    \/ f \in {"allowed", "patterns"} /\ Restricts(config.org, config.repo.allowed)

\* What made no difference in the earlier configuration, and is the same in the new
\* one: the apply of a merge takes it for applied, although it need never have been.
TakenForApplied ==
    {f \in RepoFields : local /\ base.repo[f] = config.repo[f] /\ RepoEffective(base.org, base.repo)[f] # base.repo[f]}

\* What GitHub did not report as it is, what the organization no longer decides, and
\* what is taken for applied.  The sign-off is no such exception: it is sent whenever the
\* organization stops to require it.  Workflow settings are sent as a whole, but for the
\* policy, of which a private repository reports nothing.
Excepted ==
    (Decided(past.before) \ {"signoff"}) \cup (past.unseen \ (RepoFlow \ {"policy"})) \cup TakenForApplied

\* After a run in which nothing fails GitHub behaves as if both levels had been
\* written as configured, with these exceptions.
SettlesAtOnce ==
    pc = "done" /\ ~past.failed /\ IsValid(config) =>
        OrgSettled /\ \A f \in RepoFields \ Excepted : RepoSettled(f)

\* Two such runs of otterdog apply in a row leave no exception, whatever state
\* a failed run before them has left behind.
SettlesInTwo ==
    pc = "done" /\ past.clean >= 2 /\ IsValid(config) =>
        OrgSettled /\ \A f \in RepoFields : RepoSettled(f)

\* A configuration without validation errors makes no request that GitHub
\* refuses, as long as the requests before it went well.  (But one that turns
\* on Actions together with code scanning does: update_repo configures code
\* scanning before the workflow settings follow; and push protection that is
\* turned on while secret scanning is taken for applied.)
ValidIsAccepted ==
    IsValid(config) /\ ~past.disturbed =>
        \A r \in past.refused :
            \/ r.op = "scanning" /\ FlowEffective(past.before, repo, "enabled") = "off"
            \/ "push" \in DOMAIN r.data /\ "scanning" \in TakenForApplied
=============================================================================
