----------------------------- MODULE MCSettings -----------------------------
(* Instances of Settings for TLC: groups of settings that depend on each     *)
(* other, each in all its states, while the other settings do not differ.    *)
EXTENDS Settings, TLC

Org == [plan |-> "enterprise", property |-> "undefined", signoff |-> "off", projects |-> "on",
        fork |-> "on", private_pages |-> "on", configs |-> "off", discussions |-> "off",
        repositories |-> "all", picked |-> "off", allowed |-> "all", patterns |-> "none",
        permissions |-> "write", approve |-> "on", policy |-> "strict"]
Repo == [private |-> "off", signoff |-> "off", projects |-> "on", discussions |-> "off",
         forking |-> "on", description |-> "text", title |-> "PR_TITLE", message |-> "PR_BODY",
         scanning |-> "off", push |-> "off", reporting |-> "off", topics |-> "text",
         properties |-> "none", default |-> "main", build |-> "disabled", branch |-> "none",
         path |-> "none", visibility |-> "public", setup |-> "off", suite |-> "default",
         enabled |-> "on", allowed |-> "all", patterns |-> "none", permissions |-> "write",
         approve |-> "on", policy |-> "strict",
         reviews |-> "off", count |-> "none", dismissal |-> "off", dismissers |-> "none",
         force |-> "off", forcers |-> "none", status |-> "off", checks |-> "none",
         deploy |-> "off", target |-> "none", restricted |-> "off", pushers |-> "none",
         creations |-> "off", lock |-> "off", fetch |-> "off"]

\* All the ways to give the fields of `domains` values of their domains.
Variants(r, domains) ==
    LET values == UNION {domains[f] : f \in DOMAIN domains}
        choices == {c \in [DOMAIN domains -> values] : \A f \in DOMAIN domains : c[f] \in domains[f]}
    IN  {[f \in DOMAIN r |-> IF f \in DOMAIN c THEN c[f] ELSE r[f]] : c \in choices}

Pairs(orgs, repos) == [org : Variants(Org, orgs), repo : Variants(Repo, repos)]

OnOff == {"on", "off"}
Nothing == [x \in {} |-> {}]

Override == Pairs([signoff |-> OnOff, projects |-> OnOff], [signoff |-> OnOff, projects |-> OnOff])
Property == Pairs([property |-> {"undefined", "optional", "required", "malformed"}],
                  [properties |-> {"none", "usual", "special"}])
Publish == Pairs([private_pages |-> OnOff, plan |-> {"enterprise"}],
                 [private |-> OnOff, build |-> {"disabled", "legacy", "workflow"}, visibility |-> {"public", "private"}])
FreePlan == Pairs([plan |-> {"free"}, private_pages |-> {"off", "on"}],
                  [private |-> OnOff, build |-> {"disabled", "workflow"}, forking |-> OnOff])
Upgrade == Pairs([plan |-> {"free", "enterprise"}, private_pages |-> OnOff],
                 [private |-> {"on"}, build |-> {"workflow"}, visibility |-> {"public", "private"}])
Source == Pairs(Nothing, [build |-> {"disabled", "legacy"}, branch |-> {"main", "old"},
                          path |-> {"root", "docs"}, default |-> {"main", "old"}])
Actions == Pairs([repositories |-> {"all", "none", "selected"}, picked |-> OnOff],
                 [enabled |-> OnOff, setup |-> OnOff])
Rights == Pairs([permissions |-> {"read", "write"}], [enabled |-> OnOff, permissions |-> {"read", "write", "malformed"}])
Approval == Pairs([repositories |-> {"all", "none"}, approve |-> OnOff], [approve |-> OnOff])
Allowed == Pairs([allowed |-> Levels], [allowed |-> Levels, patterns |-> {"none", "some"}])
Texts == Pairs(Nothing, [suite |-> {"default", "malformed"}, title |-> {"PR_TITLE", "COMMIT_OR_PR_TITLE"},
                         message |-> {"PR_BODY", "COMMIT_MESSAGES"}, topics |-> {"text", "other"}])
Security == Pairs(Nothing, [private |-> OnOff, scanning |-> OnOff, push |-> OnOff, reporting |-> OnOff])
Discussed == Pairs([discussions |-> {"on", "off", "sourceless"}], [discussions |-> OnOff])
Policies == Pairs(Nothing, [private |-> OnOff, enabled |-> OnOff, policy |-> {"strict", "lax"}])
Forks == Pairs([configs |-> OnOff, fork |-> OnOff], [private |-> {"on"}, forking |-> OnOff])
Some == {"none", "some"}
Reviews == Pairs(Nothing, [reviews |-> OnOff, count |-> {"none", "one", "malformed"}, dismissal |-> OnOff, dismissers |-> Some])
Reviewed == Pairs(Nothing, [reviews |-> OnOff, count |-> {"none", "one"}, dismissal |-> OnOff])
Pushes == Pairs(Nothing, [restricted |-> OnOff, pushers |-> Some, creations |-> OnOff])
Checks == Pairs(Nothing, [force |-> OnOff, forcers |-> Some, status |-> OnOff, checks |-> Some])
Deploys == Pairs(Nothing, [lock |-> OnOff, fetch |-> OnOff, deploy |-> OnOff, target |-> {"none", "some", "malformed"}])
Rules == {Reviews, Pushes, Checks, Deploys}

\* What GitHub itself can hold.
Possible(c) ==
    /\ \A f \in DOMAIN c.repo : c.repo[f] # "malformed"
    /\ MessageFitsTitle(c.repo)
    /\ c.repo.reviews = "on" => c.repo.count # "none"
    /\ c.repo.push = "on" => c.repo.scanning = "on"
    /\ c.repo.setup = "on" => RepoEffective(c.org, c.repo).enabled = "on"
    /\ c.repo.visibility = "private" => c.repo.private = "on"
    /\ c.org.discussions # "sourceless" /\ c.org.property # "malformed"
    /\ c.org.private_pages = "on" => c.org.plan = "enterprise"

Branches == {{}, {"main"}, {"main", "old"}}

FromLive(group, sets) ==
    {[org |-> l.org, repo |-> l.repo, branches |-> b, config |-> c, base |-> c, local |-> FALSE] :
        l \in {x \in group : Possible(x)}, c \in group, b \in sets}

FromBase(group) ==
    LET valid == {c \in group : IsValid(c)}
        applied == {t \in {l \in group : Possible(l)} \X valid : Behaves(t[1], t[2])}
    IN  {[org |-> t[1].org, repo |-> t[1].repo, branches |-> {"main"}, config |-> c, base |-> t[2], local |-> TRUE] :
            t \in applied, c \in valid}

MCCases ==
    UNION {FromLive(g, {{"main"}}) :
               g \in {Override, Property, Publish, FreePlan, Actions, Rights, Approval, Allowed, Texts, Security,
                     Discussed, Forks, Policies, Upgrade} \cup Rules}
    \cup {c \in FromLive(Source, Branches) : c.branches = {} \/ c.repo.default \in c.branches}
    \cup UNION {FromBase(g) : g \in {Override, Property, Allowed, Security, Reviewed, Pushes}}

\* "The merge triggers otterdog to automatically apply the changes to the GitHub
\* organization" (docs/userguide/workflow.md:53): after the apply of a merge in
\* which nothing fails the repository has all that the configuration says.
MergeIsApplied ==
    local /\ pc = "done" /\ ~past.failed /\ IsValid(config) =>
        \A f \in RepoFields \ Decided(past.before) : RepoSettled(f)

=============================================================================
