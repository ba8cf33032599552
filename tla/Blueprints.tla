----------------------------- MODULE Blueprints -----------------------------
(***************************************************************************)
(* One blueprint that requires a file, and one repository it applies to.   *)
(*                                                                         *)
(* The blueprint is defined in the configuration repository (defined) and  *)
(* fetched into MongoDB (model).  Rounds of checks and pushes to the       *)
(* repository schedule a CheckFilesTask, which compares the file on the    *)
(* default branch (file) with the blueprint and prepares a pull request    *)
(* from a branch of its own (branch, prs); the outcome is kept in the      *)
(* BlueprintStatusModel (status).  Users merge, close, reopen and edit.    *)
(*                                                                         *)
(* A step is what a task does between two awaits that touch shared state;  *)
(* the tasks share no lock.  The checks of the other types of blueprints   *)
(* go through the same steps.                                              *)
(***************************************************************************)
EXTENDS Naturals, Sequences, FiniteSets

CONSTANTS
    Labels,       \* values of path, name and description, taken together
    Files,        \* contents a blueprint may require
    Modes,        \* whether the file must have that content: subset of BOOLEAN
    MaxPRs,       \* bound: pull requests of the blueprint
    MaxEvents,    \* bound: actions of users, a fault counting as two
    MaxFaults,    \* bound: webhooks that are lost, calls that fail, restarts of the app
    MaxBusy,      \* bound: tasks in flight when a user acts
    None          \* there is no such document or branch

ASSUME BoundsAssumption == /\ MaxPRs \in Nat /\ MaxEvents \in Nat
                           /\ MaxFaults \in Nat /\ MaxBusy \in Nat
ASSUME ChoicesAssumption == /\ Modes \subseteq BOOLEAN
                            /\ {"missing", "edited"} \cap Files = {}

VARIABLES
    defined,  \* the blueprint in the configuration repository
    model,    \* the BlueprintModel document, or None
    file,     \* the file on the default branch
    branch,   \* the branch otterdog/blueprint/<id>, or None
    prs,      \* its pull requests, in the order of their numbers
    status,   \* the BlueprintStatusModel document, or None
    tasks,    \* what the app has not finished
    count,    \* how many actions of users and faults happened
    hist      \* history: never read by an action

vars == <<defined, model, file, branch, prs, status, tasks, count, hist>>

Configs == [file : Files, strict : Modes]
Definitions == [label : Labels, config : Configs]
Models == [label : Labels, config : Configs, recheck : BOOLEAN]
Contents == Files \cup {"missing", "edited"}

\* A branch has commits of its own, or not; "after" is the number of the last
\* pull request that was opened before the branch was created.
Branches == [file : Contents, ahead : BOOLEAN, after : 0 .. MaxPRs]
PRState == {"open", "closed", "merged"}
PullRequests == [state : PRState, head : Contents]

BlueprintStatus == {"not_checked", "success", "failure", "remediation_prepared",
                    "dismissed", "recheck"}
Statuses == [status : BlueprintStatus, pr : 0 .. MaxPRs]   \* 0: no remediation_pr

ASSUME NoneAssumption == None \notin Models \cup Branches \cup Statuses

\* Who acts on the repository or the definition: a user's action has a number,
\* a round of checks is number 0.  A task belongs to the event that caused it.
Events == 0 .. MaxEvents

CheckSteps == {"pre", "look", "ref", "create", "content", "find", "open", "save"}
Checks == [type : {"check"}, event : Events, step : CheckSteps, config : Configs,
           created : BOOLEAN, outcome : BlueprintStatus, pr : 0 .. MaxPRs]
Updates == [type : {"status"}, event : Events, step : {"find", "save"},
            pr : 1 .. MaxPRs, snap : PRState]
Deletes == [type : {"delete"}, event : Events, pr : 1 .. MaxPRs]
Pushes == [type : {"push"}, event : Events]
Fetches == [type : {"fetch"}, event : Events, step : {"read", "find", "save"},
            read : Definitions, found : Models \cup {None}]
Rounds == [type : {"round"}, event : {0}, step : {"evaluate", "save"},
           found : Models]
Tasks == Checks \cup Updates \cup Deletes \cup Pushes \cup Fetches \cup Rounds

-----------------------------------------------------------------------------
Becomes(t, new) == tasks' = (tasks \ {t}) \cup {new}
Ends(t) == tasks' = tasks \ {t}

\* The comparison of CheckFilesTask: a file that need not be strictly the same
\* only has to exist.
Compliant(config, content) ==
    IF config.strict THEN content = config.file ELSE content # "missing"

OpenPRs == {n \in 1 .. Len(prs) : prs[n].state = "open"}

Check(e, config) ==
    [type |-> "check", event |-> e, step |-> "pre", config |-> config,
     created |-> FALSE, outcome |-> "not_checked", pr |-> 0]

Fetch(e) == [type |-> "fetch", event |-> e, step |-> "read", read |-> defined, found |-> None]

\* on_pull_request_received for a branch otterdog/...; on_push_received for the
\* default branch.
OnClosed(e, n, state) == {[type |-> "delete", event |-> e, pr |-> n],
                          [type |-> "status", event |-> e, step |-> "find", pr |-> n,
                           snap |-> state]}
OnReopened(e, n) == {[type |-> "status", event |-> e, step |-> "find", pr |-> n,
                      snap |-> "open"]}
OnPush(e) == {[type |-> "push", event |-> e]}

\* Counts n faults, and `acts` actions of users, within the bounds.
Counts(acts, n) ==
    /\ count.faults + n <= MaxFaults
    /\ count.events + 2 * n + acts <= MaxEvents
    /\ count' = [events |-> count.events + 2 * n + acts, faults |-> count.faults + n]

\* A set of webhooks, each the set of tasks its handler adds.  Some are lost:
\* GitHub does not deliver them again.
Deliver(remaining, webhooks, acts) ==
    \E lost \in SUBSET webhooks :
        /\ Counts(acts, Cardinality(lost))
        /\ tasks' = remaining \cup UNION (webhooks \ lost)

ByUser(webhooks) == Cardinality(tasks) <= MaxBusy /\ Deliver(tasks, webhooks, 1)
NextEvent == count.events + 1

\* Nothing is in flight and the next round has nothing to check.
Settled ==
    /\ tasks = {}
    /\ model # None /\ ~model.recheck
    /\ status # None /\ status.status \notin {"not_checked", "recheck", "failure"}

Dismissed == status # None /\ status.status = "dismissed"

\* History.  calm: each action of a user found everything settled, and merged
\* what the blueprint, as it was fetched, asks for.  dismissed: the number of the
\* last pull request when a dismissal had settled and none was open, 0 once one is
\* reopened or the look-up of the dismissal fails.
Reopening == \E n \in 1 .. Len(prs) : prs[n].state = "closed" /\ prs'[n].state = "open"
Merging == \E n \in 1 .. Len(prs) : prs[n].state = "open" /\ prs'[n].state = "merged"

LookupFails == /\ count'.faults # count.faults
               /\ \E t \in tasks \ tasks' : t.type = "check" /\ t.step = "pre"

Remember ==
    hist' = [calm |-> /\ hist.calm
                      /\ count'.events # count.events => Settled
                      /\ Merging => Compliant(model.config, file'),
             dismissed |-> IF Reopening \/ LookupFails THEN 0
                           ELSE IF Dismissed' /\ tasks' = {} /\ OpenPRs' = {} THEN Len(prs')
                           ELSE hist.dismissed]

-----------------------------------------------------------------------------
\* The blueprint is being fetched for the first time; a repository that has the
\* file already is an edit away.
Init ==
    /\ defined \in Definitions
    /\ model = None
    /\ file = "missing"
    /\ branch = None
    /\ prs = <<>>
    /\ status = None
    /\ tasks = {Fetch(0)}
    /\ count = [events |-> 0, faults |-> 0]
    /\ hist = [calm |-> TRUE, dismissed |-> 0]

-----------------------------------------------------------------------------
(* Users, and the webhooks GitHub sends.                                   *)

\* A push to the default branch that changes the file.
EditFile ==
    /\ file' \in {"missing", "edited"} \ {file}
    /\ ByUser({OnPush(NextEvent)})
    /\ UNCHANGED <<defined, model, branch, prs, status>>
    /\ Remember

\* A committer edits the open pull request.
EditBranch ==
    /\ OpenPRs # {}
    /\ branch.file # "edited"
    /\ branch' = [branch EXCEPT !.file = "edited", !.ahead = TRUE]
    /\ ByUser({})
    /\ UNCHANGED <<defined, model, file, prs, status>>
    /\ Remember

\* A closed pull request remembers what its branch held.
ClosedBy(n) == [prs EXCEPT ![n] = [state |-> "closed", head |-> branch.file]]

Close ==
    /\ \E n \in OpenPRs : /\ prs' = ClosedBy(n)
                          /\ ByUser({OnClosed(NextEvent, n, "closed")})
    /\ UNCHANGED <<defined, model, file, branch, status>>
    /\ Remember

Merge ==
    /\ \E n \in OpenPRs :
          /\ prs' = [prs EXCEPT ![n].state = "merged"]
          /\ ByUser({OnClosed(NextEvent, n, "merged"), OnPush(NextEvent)})
    /\ file' = branch.file
    /\ branch' = [branch EXCEPT !.ahead = FALSE]
    /\ UNCHANGED <<defined, model, status>>
    /\ Remember

\* GitHub restores a deleted branch, and refuses if it was created anew.
Reopen ==
    /\ OpenPRs = {}
    /\ \E n \in 1 .. Len(prs) :
          /\ prs[n].state = "closed"
          /\ branch # None => branch.after < n
          /\ branch' = IF branch = None
                       THEN [file |-> prs[n].head, ahead |-> TRUE, after |-> n - 1]
                       ELSE branch
          /\ prs' = [prs EXCEPT ![n].state = "open"]
          /\ ByUser({OnReopened(NextEvent, n)})
    /\ UNCHANGED <<defined, model, file, status>>
    /\ Remember

\* The yaml file of the blueprint changes in the configuration repository.
Redefine ==
    /\ defined' \in Definitions \ {defined}
    /\ ByUser({{Fetch(NextEvent)}})
    /\ UNCHANGED <<model, file, branch, prs, status>>
    /\ Remember

-----------------------------------------------------------------------------
(* FetchBlueprintsTask.                                                    *)

ReadDefinition(t) ==
    /\ t.type = "fetch" /\ t.step = "read"
    /\ Becomes(t, [t EXCEPT !.step = "find", !.read = defined])
    /\ UNCHANGED <<defined, model, file, branch, prs, status, count>>
    /\ Remember

FindModel(t) ==
    /\ t.type = "fetch" /\ t.step = "find"
    /\ Becomes(t, [t EXCEPT !.step = "save", !.found = model])
    /\ UNCHANGED <<defined, model, file, branch, prs, status, count>>
    /\ Remember

\* Mutant: a changed configuration does not ask for a recheck.
UpdatedQuietly(found, read) ==
    IF found.label # read.label
    THEN [model EXCEPT !.label = read.label, !.recheck = TRUE]
    ELSE [model EXCEPT !.config = read.config, !.recheck = FALSE]

\* update_or_create_blueprint: `recheck or update_if_changed(...)` assigns the
\* first attribute that differs and evaluates none after it.  Only what was
\* assigned is written; recheck_needed always is.
Updated(found, read) ==
    IF found.label # read.label
    THEN [model EXCEPT !.label = read.label, !.recheck = TRUE]
    ELSE IF found.config # read.config
         THEN [model EXCEPT !.config = read.config, !.recheck = TRUE]
         ELSE [model EXCEPT !.recheck = FALSE]

SaveModel(t) ==
    /\ t.type = "fetch" /\ t.step = "save"
    /\ model' = IF t.found = None
                THEN [label |-> t.read.label, config |-> t.read.config, recheck |-> TRUE]
                ELSE Updated(t.found, t.read)
    /\ Ends(t)
    /\ UNCHANGED <<defined, file, branch, prs, status, count>>
    /\ Remember

-----------------------------------------------------------------------------
(* A round of checks: the route /check and Blueprint.evaluate.             *)

\* Rounds are far apart: the next one starts when what the last one scheduled
\* has ended.
StartRound ==
    /\ model # None
    /\ \A t \in tasks : t.event # 0
    /\ tasks' = tasks \cup {[type |-> "round", event |-> 0, step |-> "evaluate", found |-> model]}
    /\ UNCHANGED <<defined, model, file, branch, prs, status, count>>
    /\ Remember

\* Mutant: a blueprint whose pull request was merged is not checked again.
UncheckedOrFailed == {"not_checked", "failure"}

\* Without a forced recheck only these are checked again.
Unchecked == {"not_checked", "recheck", "failure"}

Evaluate(t) ==
    /\ t.type = "round" /\ t.step = "evaluate"
    /\ tasks' = (tasks \ {t}) \cup {[t EXCEPT !.step = "save"]} \cup
                IF t.found.recheck \/ status = None \/ status.status \in Unchecked
                THEN {Check(0, t.found.config)}
                ELSE {}
    /\ UNCHANGED <<defined, model, file, branch, prs, status, count>>
    /\ Remember

\* The copy of the model is saved: recheck_needed only if it was reset.
SaveRound(t) ==
    /\ t.type = "round" /\ t.step = "save"
    /\ model' = IF t.found.recheck THEN [model EXCEPT !.recheck = FALSE] ELSE model
    /\ Ends(t)
    /\ UNCHANGED <<defined, file, branch, prs, status, count>>
    /\ Remember

\* fetch_config_and_check_blueprints_if_needed: a push checks the blueprint if
\* it was checked before.
CheckAfterPush(t) ==
    /\ t.type = "push"
    /\ IF status # None /\ model # None
       THEN Becomes(t, Check(t.event, model.config))
       ELSE Ends(t)
    /\ UNCHANGED <<defined, model, file, branch, prs, status, count>>
    /\ Remember

-----------------------------------------------------------------------------
(* CheckFilesTask.                                                         *)

\* Mutant: dismissed blueprints are checked like the others.
SkipNothing(t) ==
    /\ t.type = "check" /\ t.step = "pre"
    /\ Becomes(t, [t EXCEPT !.step = "look"])
    /\ UNCHANGED <<defined, model, file, branch, prs, status, count>>
    /\ Remember

\* _pre_execute
SkipDismissed(t) ==
    /\ t.type = "check" /\ t.step = "pre"
    /\ IF Dismissed THEN Ends(t) ELSE Becomes(t, [t EXCEPT !.step = "look"])
    /\ UNCHANGED <<defined, model, file, branch, prs, status, count>>
    /\ Remember

Saves(t, outcome, pr) == Becomes(t, [t EXCEPT !.step = "save", !.outcome = outcome, !.pr = pr])

\* A file that cannot be retrieved counts as missing, whatever the reason.
LookAtFile(t) ==
    /\ t.type = "check" /\ t.step = "look"
    /\ \/ /\ Compliant(t.config, file)
          /\ Saves(t, "success", 0)
          /\ UNCHANGED count
       \/ /\ ~Compliant(t.config, file)
          /\ Becomes(t, [t EXCEPT !.step = "ref"])
          /\ UNCHANGED count
       \/ /\ Counts(0, 1)
          /\ Becomes(t, [t EXCEPT !.step = "ref"])
    /\ UNCHANGED <<defined, model, file, branch, prs, status>>
    /\ Remember

\* _create_branch_if_needed
LookForBranch(t) ==
    /\ t.type = "check" /\ t.step = "ref"
    /\ Becomes(t, [t EXCEPT !.step = IF branch = None THEN "create" ELSE "content"])
    /\ UNCHANGED <<defined, model, file, branch, prs, status, count>>
    /\ Remember

\* What GitHub refuses raises an exception, which _post_execute stores as a
\* failure, without a pull request.
Fails(t) == Saves(t, "failure", 0)

CreateBranch(t) ==
    /\ t.type = "check" /\ t.step = "create"
    /\ IF branch = None
       THEN /\ branch' = [file |-> file, ahead |-> FALSE, after |-> Len(prs)]
            /\ Becomes(t, [t EXCEPT !.step = "content", !.created = TRUE])
       ELSE /\ Fails(t)
            /\ UNCHANGED branch
    /\ UNCHANGED <<defined, model, file, prs, status, count>>
    /\ Remember

\* An existing branch is left to the committers unless the file is strict.
UpdateContent(t) ==
    /\ t.type = "check" /\ t.step = "content"
    /\ IF ~t.config.strict /\ ~t.created
       THEN /\ Becomes(t, [t EXCEPT !.step = "find"])
            /\ UNCHANGED branch
       ELSE IF branch = None
       THEN /\ Fails(t)
            /\ UNCHANGED branch
       ELSE /\ branch' = IF branch.file = t.config.file THEN branch
                         ELSE [branch EXCEPT !.file = t.config.file, !.ahead = TRUE]
            /\ Becomes(t, [t EXCEPT !.step = "find"])
    /\ UNCHANGED <<defined, model, file, prs, status, count>>
    /\ Remember

\* Mutant: pull requests that are closed count as well.
FindAnyPullRequest(t) ==
    /\ t.type = "check" /\ t.step = "find"
    /\ \/ \E n \in 1 .. Len(prs) : Saves(t, "remediation_prepared", n)
       \/ prs = <<>> /\ Becomes(t, [t EXCEPT !.step = "open"])
    /\ UNCHANGED <<defined, model, file, branch, prs, status, count>>
    /\ Remember

\* _find_existing_pull_request
FindPullRequest(t) ==
    /\ t.type = "check" /\ t.step = "find"
    /\ \/ \E n \in OpenPRs : Saves(t, "remediation_prepared", n)
       \/ OpenPRs = {} /\ Becomes(t, [t EXCEPT !.step = "open"])
    /\ UNCHANGED <<defined, model, file, branch, prs, status, count>>
    /\ Remember

\* _create_pull_request; GitHub wants a branch with commits of its own, and no
\* second pull request for it.
OpenPullRequest(t) ==
    /\ t.type = "check" /\ t.step = "open"
    /\ Len(prs) < MaxPRs
    /\ IF branch # None /\ OpenPRs = {} /\ branch.ahead
       THEN /\ prs' = Append(prs, [state |-> "open", head |-> "missing"])
            /\ Saves(t, "remediation_prepared", Len(prs) + 1)
       ELSE /\ Fails(t)
            /\ UNCHANGED prs
    /\ UNCHANGED <<defined, model, file, branch, status, count>>
    /\ Remember

\* update_or_create_blueprint_status writes the status and the pull request,
\* whatever is stored by then.
SaveStatus(t) ==
    /\ t.type = "check" /\ t.step = "save"
    /\ status' = [status |-> t.outcome, pr |-> t.pr]
    /\ Ends(t)
    /\ UNCHANGED <<defined, model, file, branch, prs, count>>
    /\ Remember

-----------------------------------------------------------------------------
(* UpdateBlueprintStatusTask and DeleteBranchTask.                         *)

FindStatus(t) ==
    /\ t.type = "status" /\ t.step = "find"
    /\ IF status # None /\ status.pr = t.pr
       THEN Becomes(t, [t EXCEPT !.step = "save"])
       ELSE Ends(t)
    /\ UNCHANGED <<defined, model, file, branch, prs, status, count>>
    /\ Remember

\* Mutant: the state of the pull request is stored as it is.
ReportedAsIs(snap) == [status EXCEPT !.status = snap]

\* Only the fields that were assigned are saved.
Reported(snap) ==
    CASE snap = "open"   -> [status EXCEPT !.status = "remediation_prepared"]
      [] snap = "merged" -> [status EXCEPT !.status = "recheck", !.pr = 0]
      [] snap = "closed" -> [status EXCEPT !.status = "dismissed"]

UpdateStatus(t) ==
    /\ t.type = "status" /\ t.step = "save"
    /\ status' = Reported(t.snap)
    /\ Ends(t)
    /\ UNCHANGED <<defined, model, file, branch, prs, count>>
    /\ Remember

\* GitHub closes the pull request whose branch is deleted, and says so.
DeleteBranch(t) ==
    /\ t.type = "delete"
    /\ branch' = None
    /\ IF branch = None
       THEN Ends(t) /\ UNCHANGED <<prs, count>>
       ELSE \/ /\ OpenPRs = {}
               /\ Ends(t)
               /\ UNCHANGED <<prs, count>>
            \/ \E n \in OpenPRs :
                 /\ prs' = ClosedBy(n)
                 /\ Deliver(tasks \ {t}, {OnClosed(t.event, n, "closed")}, 0)
    /\ UNCHANGED <<defined, model, file, status>>
    /\ Remember

-----------------------------------------------------------------------------
\* A call of a task fails: the others just end, but a check stores a failure,
\* also when the look-up of its status failed, unless it was doing just that.
Raise(t) ==
    /\ Counts(0, 1)
    /\ IF t.type = "check" /\ t.outcome # "failure" THEN Fails(t) ELSE Ends(t)
    /\ UNCHANGED <<defined, model, file, branch, prs, status>>
    /\ Remember

\* Background tasks live in memory only.
Restart ==
    /\ tasks # {}
    /\ tasks' = {}
    /\ Counts(0, 1)
    /\ UNCHANGED <<defined, model, file, branch, prs, status>>
    /\ Remember

User == EditFile \/ EditBranch \/ Close \/ Merge \/ Reopen \/ Redefine

TaskStep(t) ==
    \/ ReadDefinition(t) \/ FindModel(t) \/ SaveModel(t)
    \/ Evaluate(t) \/ SaveRound(t) \/ CheckAfterPush(t)
    \/ SkipDismissed(t) \/ LookAtFile(t) \/ LookForBranch(t) \/ CreateBranch(t)
    \/ UpdateContent(t) \/ FindPullRequest(t) \/ OpenPullRequest(t) \/ SaveStatus(t)
    \/ FindStatus(t) \/ UpdateStatus(t) \/ DeleteBranch(t)

Work(e) == \E t \in tasks : t.event = e /\ TaskStep(t)

Next == \/ User \/ StartRound \/ Restart
        \/ \E e \in Events : Work(e)
        \/ \E t \in tasks : Raise(t)

Spec == Init /\ [][Next]_vars

\* The event loop keeps running the tasks of every event, and rounds are started
\* again and again; users owe nothing.
FairSpec == Spec /\ WF_vars(StartRound) /\ \A e \in Events : WF_vars(Work(e))

-----------------------------------------------------------------------------
\* The values of the variables.
TypeOK ==
    /\ defined \in Definitions
    /\ model \in Models \cup {None}
    /\ file \in Contents
    /\ branch \in Branches \cup {None}
    /\ prs \in Seq(PullRequests) /\ Len(prs) <= MaxPRs
    /\ status \in Statuses \cup {None}
    /\ tasks \subseteq Tasks
    /\ count \in [events : Events, faults : 0 .. MaxFaults]
    /\ hist \in [calm : BOOLEAN, dismissed : 0 .. MaxPRs]

\* Users acted on a settled app only, and nothing went wrong.
Calm == hist.calm /\ count.faults = 0

\* A dismissal that has settled stands until a pull request is reopened: no
\* check, whoever asks for it, overwrites it or prepares another pull request,
\* unless the look-up of the dismissal itself fails.
DismissalStands ==
    hist.dismissed # 0 => Dismissed /\ Len(prs) = hist.dismissed

\* When calm users have let the app finish, the stored status tells the truth
\* about the repository and the pull request.  (A prepared remediation may be
\* needless: reopening reinstates it without looking at the file.)
StatusIsTrue ==
    Calm /\ Settled =>
        /\ status.status = "success" => Compliant(model.config, file)
        /\ status.status = "remediation_prepared" => status.pr \in OpenPRs
        /\ status.status = "dismissed" =>
              status.pr \in 1 .. Len(prs) /\ prs[status.pr].state = "closed"

\* A merged remediation does not wait forever for its recheck.
RecheckHappens ==
    (status # None /\ status.status = "recheck")
        ~> (status # None /\ status.status # "recheck")

\* Calm users get a pull request for a repository that does not comply, unless
\* they make it comply or dismissed the blueprint.
InCompliance == model # None => Compliant(model.config, file)

RemediationIsPrepared ==
    ~InCompliance ~> InCompliance \/ OpenPRs # {} \/ Dismissed \/ ~Calm
=============================================================================
