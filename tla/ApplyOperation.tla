--------------------------- MODULE ApplyOperation ---------------------------
(***************************************************************************)
(* The apply operation on the repositories of an organization: read what   *)
(* is live, compare it with the configuration, turn the differences into   *)
(* patches, put the patches in order and send their requests one by one,   *)
(* while requests fail, answers get lost and others use the web UI.        *)
(*                                                                         *)
(* A repository has one member for each way its settings are treated:      *)
(*   desc    a setting of the repository's own request, disregarded while  *)
(*           the repository is and stays archived;                         *)
(*   topics  a setting that takes a request of its own;                    *)
(*   hook    webhooks, secrets, variables and environments;                *)
(*   rule    branch protection rules and rulesets, which are taken into    *)
(*           account only if the repository is not archived, or becomes it.*)
(***************************************************************************)
EXTENDS Naturals, Sequences, FiniteSets, SequencesExt

CONSTANTS
    Names,         \* of repositories
    Order,         \* the order in which GitHub and the configuration list them
    Texts,         \* values of desc and topics
    Absent,        \* no repository, no webhook, no rule
    InitialLive,   \* the organizations, configurations and
    Configs,       \*   command lines that are explored
    DeleteFlags,
    MaxRuns,       \* bound: applies one after the other
    MaxDrifts,     \* bound: changes in the web UI
    MaxFailures    \* bound: requests that fail for no reason of their own

Children == {"hook", "rule"}
Parts == {"archived", "desc", "topics"} \cup Children
Repo == [archived : BOOLEAN, desc : Texts, topics : Texts,
         hook : Texts \cup {Absent}, rule : Texts \cup {Absent}]
Live == [Names -> Repo \cup {Absent}]
Wanted == [aliases : SUBSET Names, archived : BOOLEAN, desc : Texts, topics : Texts,
           hook : Texts \cup {Absent}, rule : Texts \cup {Absent}]
Config == [Names -> Wanted \cup {Absent}]

ASSUME InputsAssumption == /\ InitialLive \subseteq Live /\ Configs \subseteq Config
                           /\ DeleteFlags \subseteq BOOLEAN
ASSUME OrderAssumption == /\ IsFiniteSet(Names)
                          /\ Order \in [1 .. Cardinality(Names) -> Names]
                          /\ \A n \in Names : \E i \in DOMAIN Order : Order[i] = n
ASSUME AbsentAssumption == Absent \notin Repo \cup Wanted \cup Texts \cup BOOLEAN

VARIABLES
    live,      \* the repositories of the organization
    config,    \* the configuration: what they should be
    deletes,   \* the flag --delete-resources
    pc,        \* "idle", "applying" or "done"
    todo,      \* the patches, and of the first one the requests, still to be sent
    errors,    \* how many patches failed
    count,     \* how often each bounded event happened
    hist       \* history: facts the properties speak of, never read by an action

vars == <<live, config, deletes, pc, todo, errors, count, hist>>

Request == [op : {"create", "delete", "patch", "topics"} \cup Children,
            at : Names, of : Names, fields : SUBSET {"name", "archived", "desc"}]
Patch == [type : {"add", "remove", "change"}, parts : SUBSET Parts, readonly : BOOLEAN, requests : Seq(Request)]

-----------------------------------------------------------------------------
(* The plan.                                                               *)

Existing(l) == {n \in Names : l[n] # Absent}
Expected == {m \in Names : config[m] # Absent}
Keys(m) == {m} \cup config[m].aliases

\* multi_associate_by_key refuses a configuration that uses a key twice.
KeysAreUnique == \A m1, m2 \in Expected : m1 # m2 => Keys(m1) \cap Keys(m2) = {}

\* generate_live_patch_of_list: an expected repository takes the first live one,
\* in the order of the list, that has its name or an alias.
Takes(l, m, n) ==
    \E i \in DOMAIN Order :
        /\ n = Order[i]
        /\ n \in Existing(l) \cap Keys(m)
        /\ \A j \in 1 .. i - 1 : Order[j] \notin Existing(l) \cap Keys(m)

Req(op, at, of, fields) == [op |-> op, at |-> at, of |-> of, fields |-> fields]
NewPatch(type, parts, readonly, requests) ==
    [type |-> type, parts |-> parts, readonly |-> readonly, requests |-> requests]

\* The settings of a repository that differ; is_key_valid_for_diff_computation
\* drops some of them for a repository that is and stays archived.
Differing(old, new) ==
    {f \in {"archived", "desc", "topics"} :
        /\ old[f] # new[f]
        /\ ~(f = "desc" /\ old.archived /\ new.archived)}

\* Mutant: a patch even if nothing differs.
InAnyCase(patch) == <<patch>>

IfAny(patch) == IF patch.requests = <<>> THEN <<>> ELSE <<patch>>

\* update_repo: the settings of the PATCH request, then the topics, by the name
\* that the answer of the first has told.
UpdateRepo(n, m, fields, topics) ==
    (IF fields = {} THEN <<>> ELSE <<Req("patch", n, m, fields)>>)
    \o IF topics THEN <<Req("topics", m, m, {})>> ELSE <<>>

\* add_repo: a new repository takes most settings when it is created; what is
\* left goes to update_repo.
AddRepo(m) == <<Req("create", m, m, {})>> \o UpdateRepo(m, m, {}, TRUE)

RepoPatch(l, n, m) ==
    LET differing == Differing(l[n], config[m])
        fields == (differing \ {"topics"}) \cup IF n = m THEN {} ELSE {"name"}
        archives == ~l[n].archived /\ config[m].archived
    IN  IfAny(NewPatch("change", differing, archives,
                       UpdateRepo(n, m, fields, "topics" \in differing)))

ChildPatch(child, old, m) ==
    LET new == config[m][child]
        type == IF old = Absent THEN "add" ELSE IF new = Absent THEN "remove" ELSE "change"
    IN  IF old = new THEN <<>>
        ELSE <<NewPatch(type, {child}, FALSE, <<Req(child, m, m, {})>>)>>

\* Rules only count if the repository is not archived, or gets archived now.
CountRules(archived, archives) == ~archived \/ archives

Changes(l, n, m) ==
    LET archives == ~l[n].archived /\ config[m].archived
    IN  RepoPatch(l, n, m)
        \o ChildPatch("hook", l[n].hook, m)
        \o IF CountRules(config[m].archived, archives)
           THEN ChildPatch("rule", l[n].rule, m) ELSE <<>>

\* Mutant: the webhooks and rules of a new repository are forgotten.
BareAddition(m) ==
    <<NewPatch("add", {"archived", "desc", "topics"}, FALSE, AddRepo(m))>>

Addition(m) ==
    <<NewPatch("add", {"archived", "desc", "topics"}, FALSE, AddRepo(m))>>
    \o ChildPatch("hook", Absent, m)
    \o IF CountRules(config[m].archived, FALSE) THEN ChildPatch("rule", Absent, m) ELSE <<>>

Removal(n) == <<NewPatch("remove", {}, FALSE, <<Req("delete", n, n, {})>>)>>

ForExisting(l, n) ==
    IF \E m \in Expected : Takes(l, m, n)
    THEN Changes(l, n, CHOOSE m \in Expected : Takes(l, m, n))
    ELSE Removal(n)

Patches(l) ==
    FlattenSeq([i \in DOMAIN Order |->
        IF Order[i] \in Existing(l) THEN ForExisting(l, Order[i]) ELSE <<>>])
    \o
    FlattenSeq([i \in DOMAIN Order |->
        IF Order[i] \in Expected /\ \A n \in Names : ~Takes(l, Order[i], n)
        THEN Addition(Order[i]) ELSE <<>>])

\* Mutant: the patches are applied in the order in which they were found.
AsFound(patches) == patches

\* handle_finish: a patch that makes its repository readonly comes last.
Those(patches, readonly) ==
    FlattenSeq([i \in DOMAIN patches |->
        IF patches[i].readonly = readonly THEN <<patches[i]>> ELSE <<>>])

InOrder(patches) == Those(patches, FALSE) \o Those(patches, TRUE)

-----------------------------------------------------------------------------
Init ==
    /\ live \in InitialLive
    /\ config \in Configs
    /\ deletes \in DeleteFlags
    /\ pc = "idle"
    /\ todo = <<>>
    /\ errors = 0
    /\ count = [runs |-> 0, drifts |-> 0, failures |-> 0]
    /\ hist = [disturbed |-> FALSE, failed |-> {}, creates |-> FALSE, clash |-> FALSE,
               archives |-> {}, spoilt |-> {}]

Plan ==
    /\ pc = "idle"
    /\ count.runs < MaxRuns
    /\ count' = [count EXCEPT !.runs = @ + 1]
    /\ hist' = [disturbed |-> FALSE, failed |-> {},
                creates |-> \E m \in Expected : \A n \in Names : ~Takes(live, m, n),
                clash |-> \E m \in Expected : Cardinality(Keys(m) \cap Existing(live)) > 1,
                archives |-> {p \in Names \X Names :
                                 /\ p[2] \in Expected /\ Takes(live, p[2], p[1])
                                 /\ ~live[p[1]].archived /\ config[p[2]].archived},
                spoilt |-> {}]
    /\ IF KeysAreUnique
       THEN pc' = "applying" /\ todo' = InOrder(Patches(live)) /\ errors' = 0
       ELSE pc' = "done" /\ todo' = <<>> /\ errors' = 1
    /\ UNCHANGED <<live, config, deletes>>

\* Mutant: the flag --delete-resources is not looked at.
IsAlwaysApplied(patch) == TRUE

IsApplied(patch) == patch.type # "remove" \/ deletes

\* A removal is passed over without --delete-resources.
Skip ==
    /\ pc = "applying"
    /\ todo # <<>>
    /\ ~IsApplied(Head(todo))
    /\ todo' = Tail(todo)
    /\ UNCHANGED <<live, config, deletes, pc, errors, count, hist>>

\* The request that is sent now.
Sending ==
    /\ pc = "applying"
    /\ todo # <<>>
    /\ IsApplied(Head(todo))

Now == Head(Head(todo).requests)

\* GitHub (external): what a request needs, and what it does.  An archived
\* repository is readonly but for being unarchived or deleted.
Possible(r, type) ==
    CASE r.op = "create" -> live[r.at] = Absent
      [] r.op = "delete" -> live[r.at] # Absent
      [] r.op = "patch"  ->
           /\ live[r.at] # Absent
           /\ live[r.at].archived => "archived" \in r.fields /\ ~config[r.of].archived
           /\ "name" \in r.fields => live[r.of] = Absent
      [] r.op = "topics" -> live[r.at] # Absent /\ ~live[r.at].archived
      [] OTHER           ->
           /\ live[r.at] # Absent
           /\ ~live[r.at].archived
           /\ (type = "add") <=> live[r.at][r.op] = Absent

Created(m) == [archived |-> FALSE, desc |-> config[m].desc, topics |-> CHOOSE x \in Texts : TRUE,
               hook |-> Absent, rule |-> Absent]

Updated(repo, r) ==
    [f \in DOMAIN repo |-> IF f \in r.fields \cup {r.op} THEN config[r.of][f] ELSE repo[f]]

Effect(r) ==
    CASE r.op = "create" -> [live EXCEPT ![r.at] = Created(r.at)]
      [] r.op = "delete" -> [live EXCEPT ![r.at] = Absent]
      [] "name" \in r.fields -> [live EXCEPT ![r.of] = Updated(live[r.at], r), ![r.at] = Absent]
      [] OTHER -> [live EXCEPT ![r.at] = Updated(@, r)]

\* The patch goes on with its next request, or the next patch begins.
Succeed ==
    /\ Sending
    /\ Possible(Now, Head(todo).type)
    /\ live' = Effect(Now)
    /\ todo' = IF Len(Head(todo).requests) = 1
               THEN Tail(todo)
               ELSE [todo EXCEPT ![1].requests = Tail(@)]
    /\ UNCHANGED <<config, deletes, pc, errors, count, hist>>

\* Mutant: the first patch that fails ends the run.
NoneAfterFailure(patches) == <<>>

AfterFailure(patches) == Tail(patches)

\* A RuntimeError ends the patch; it is counted, and the next patch begins.
Fail ==
    /\ Sending
    /\ IF Possible(Now, Head(todo).type)
       THEN /\ count.failures < MaxFailures
            /\ count' = [count EXCEPT !.failures = @ + 1]
            /\ hist' = [hist EXCEPT !.failed = @ \cup Head(todo).parts, !.disturbed = TRUE,
                                    !.spoilt = @ \cup ({Now.of} \X ({Now.op} \cap Children))]
       ELSE /\ hist' = [hist EXCEPT !.failed = @ \cup Head(todo).parts]
            /\ UNCHANGED count
    /\ errors' = errors + 1
    /\ todo' = AfterFailure(todo)
    /\ UNCHANGED <<live, config, deletes, pc>>

\* The answer gets lost: the client sends the request again.
LoseAnswer ==
    /\ Sending
    /\ Possible(Now, Head(todo).type)
    /\ count.failures < MaxFailures
    /\ count' = [count EXCEPT !.failures = @ + 1]
    /\ live' = Effect(Now)
    /\ hist' = [hist EXCEPT !.disturbed = TRUE]
    /\ UNCHANGED <<config, deletes, pc, todo, errors>>

\* Missing permissions and bad credentials are no RuntimeError: they end the run.
Abort ==
    /\ Sending
    /\ count.failures < MaxFailures
    /\ count' = [count EXCEPT !.failures = @ + 1]
    /\ hist' = [hist EXCEPT !.failed = Parts, !.disturbed = TRUE]
    /\ errors' = errors + 1
    /\ todo' = <<>>
    /\ pc' = "done"
    /\ UNCHANGED <<live, config, deletes>>

Finish ==
    /\ pc = "applying"
    /\ todo = <<>>
    /\ pc' = "done"
    /\ UNCHANGED <<live, config, deletes, todo, errors, count, hist>>

Again ==
    /\ pc = "done"
    /\ count.runs < MaxRuns
    /\ pc' = "idle"
    /\ UNCHANGED <<live, config, deletes, todo, errors, count, hist>>

\* Somebody uses the web UI.
Drift ==
    /\ count.drifts < MaxDrifts
    /\ count' = [count EXCEPT !.drifts = @ + 1]
    /\ \E n \in Existing(live), f \in Parts, r \in Repo :
          /\ r[f] # live[n][f]
          /\ live[n].archived => f = "archived"
          /\ live' = [live EXCEPT ![n] = [@ EXCEPT ![f] = r[f]]]
          /\ hist' = [hist EXCEPT !.disturbed = TRUE, !.failed = Parts,
                                  !.spoilt = @ \cup ({n} \X Children)]
    /\ UNCHANGED <<config, deletes, pc, todo, errors>>

-----------------------------------------------------------------------------
Operation == Plan \/ Skip \/ Succeed \/ Fail \/ LoseAnswer \/ Abort \/ Finish \/ Again
Next == Operation \/ Drift
Spec == Init /\ [][Next]_vars

-----------------------------------------------------------------------------
\* The values of the variables.
TypeOK ==
    /\ live \in Live /\ config \in Config /\ deletes \in BOOLEAN
    /\ pc \in {"idle", "applying", "done"}
    /\ todo \in Seq(Patch) /\ \A i \in DOMAIN todo : todo[i].requests # <<>>
    /\ errors \in Nat
    /\ count \in [runs : Nat, drifts : Nat, failures : Nat]
    /\ hist \in [disturbed : BOOLEAN, failed : SUBSET Parts, creates : BOOLEAN,
                 clash : BOOLEAN, archives : SUBSET (Names \X Names),
                 spoilt : SUBSET (Names \X Children)]

\* The setting is live as configured, or it waits for --delete-resources.
AsConfigured(m, f) ==
    \/ live[m][f] = config[m][f]
    \/ f \in Children /\ config[m][f] = Absent /\ ~deletes

\* A run without errors and without interference leaves nothing to be done: a
\* second plan only lists removals that need --delete-resources.  (A repository
\* that is created archived is archived by the second run.  And not if a
\* repository and an alias of it are both live.)
CleanRunSettles ==
    /\ pc = "done" /\ errors = 0 /\ ~hist.disturbed /\ ~hist.clash
    /\ hist.creates => \A m \in Expected : ~config[m].archived
    => \A i \in DOMAIN Patches(live) : Patches(live)[i].type = "remove" /\ ~deletes

\* A patch that fails takes no other with it: after a run, whatever is not as
\* configured in a repository that is not to be archived belongs to a patch
\* that failed (or somebody changed it meanwhile, or the run was aborted).
FailuresAreIsolated ==
    pc = "done" /\ KeysAreUnique =>
        \A m \in Expected \cap Existing(live) :
            ~config[m].archived /\ config[m].aliases \cap Existing(live) = {} =>
                \A f \in Parts \ hist.failed : AsConfigured(m, f)

\* The hooks and rules of a repository that gets archived and keeps its name are up to
\* date when it becomes readonly, at every moment and whatever else fails, gets lost or
\* ends the run; but for a hook or a rule whose own request failed by accident, which is
\* not waited for, and for what somebody changed in the web UI.  This is not so for a
\* repository that gets another name as well: name and archiving are in one patch, the last
\* one, and the requests for its hooks and rules before that are sent to the new name,
\* where there is nothing yet; they fail, and it is archived without them.
ChildrenBeforeArchiving ==
    KeysAreUnique =>
        \A m \in Names, f \in Children :
            <<m, m>> \in hist.archives /\ live[m] # Absent /\ live[m].archived =>
                AsConfigured(m, f) \/ <<m, f>> \in hist.spoilt

\* Without --delete-resources the operation makes no repository, hook or rule
\* disappear, in whatever order things are renamed and archived.
Count(l, f) == Cardinality({n \in Existing(l) : l[n][f] # Absent})
NothingVanishes ==
    [][ ~deletes /\ count'.drifts = count.drifts =>
            \A f \in Parts : Count(live', f) >= Count(live, f) ]_vars
=============================================================================
