--------------------------- MODULE ConfigHistory ---------------------------
(***************************************************************************)
(* Several pull requests of one configuration repository, the history of   *)
(* its default branch, and the ApplyChangesTasks that bring what they      *)
(* change to the live organization.                                        *)
(*                                                                         *)
(* An apply task does not compare the configuration with the live          *)
(* organization: it compares the one of the merge commit with the one of a *)
(* base commit and writes the settings in which they differ.  Tasks of     *)
(* different pull requests, or of one whose apply is repeated, overlap:    *)
(* nothing serializes them.                                                *)
(*                                                                         *)
(* PullRequestTasks says which pull requests get here; here each one is    *)
(* valid and needs no step by hand.                                        *)
(***************************************************************************)
EXTENDS Naturals, Sequences, FiniteSets

CONSTANTS
    Prs,          \* the pull requests
    Settings,     \* the settings of the organization
    Values,       \* their values
    Keep,         \* a pull request leaves a setting alone
    Methods,      \* how pull requests are merged: "squash", "rebase", "merge"
    MaxRetries,   \* bound: apply comments of an admin
    MaxFailures   \* bound: patches that fail, and tasks that die

Method == {"squash", "rebase", "merge"}

ASSUME MethodsAssumption == Methods \subseteq Method
ASSUME KeepAssumption == Keep \notin Values
ASSUME BoundsAssumption == MaxRetries \in Nat /\ MaxFailures \in Nat

VARIABLES
    main,    \* the commits of the default branch, along first parents
    prs,     \* the pull requests
    tasks,   \* the apply tasks that have not ended
    live,    \* the settings of the organization
    count,   \* how often each bounded event happened
    hist     \* history: facts the properties speak of, never read by an action

vars == <<main, prs, tasks, live, count, hist>>

Config == [Settings -> Values]
Edit == [Settings -> Values \cup {Keep}]
ApplyStatus == {"not_applied", "partially_applied", "completed"}

Commit == [config : Config, parents : {1, 2}]
Pr == [edit : Edit, base : Nat, merged : Nat, apply : ApplyStatus]
Steps == {"start", "plan", "write", "save"}
Task == [pr : Prs, id : Nat, step : Steps, todo : SUBSET Settings, failed : BOOLEAN]

HeadConfig == main[Len(main)].config
Edited(edit) == {s \in Settings : edit[s] # Keep}

Merged(edit, config) == [s \in Settings |-> IF edit[s] = Keep THEN config[s] ELSE edit[s]]

-----------------------------------------------------------------------------
Init ==
    /\ main \in {<<[config |-> c, parents |-> 1]>> : c \in Config}
    /\ prs = [p \in Prs |-> [edit |-> [s \in Settings |-> Keep], base |-> 0,
                             merged |-> 0, apply |-> "not_applied"]]
    /\ tasks = {}
    /\ live = HeadConfig
    /\ count = [started |-> 0, retries |-> 0, failures |-> 0]
    /\ hist = [written |-> [p \in Prs |-> {}], orderly |-> TRUE]

\* A pull request is opened on the current head and changes some settings.
Open(p) ==
    /\ prs[p].base = 0
    /\ \E e \in Edit :
          /\ Edited(e) # {}
          /\ \A s \in Settings : e[s] # HeadConfig[s]
          /\ prs' = [prs EXCEPT ![p].edit = e, ![p].base = Len(main)]
    /\ UNCHANGED <<main, tasks, live, count, hist>>

\* GitHub merges what does not conflict.  A rebase may add two commits, of
\* which the last one is reported as the commit of the merge.
Mergeable(p) ==
    /\ prs[p].base # 0
    /\ prs[p].merged = 0
    /\ \A s \in Edited(prs[p].edit) : HeadConfig[s] = main[prs[p].base].config[s]

Commits(p, method) ==
    LET last == Merged(prs[p].edit, HeadConfig)
        squash == <<[config |-> last, parents |-> 1]>>
        partial(S) == [s \in Settings |-> IF s \in S THEN last[s] ELSE HeadConfig[s]]
    IN  CASE method = "squash" -> {squash}
          [] method = "merge"  -> {<<[config |-> last, parents |-> 2]>>}
          [] method = "rebase" ->
               {squash} \cup {<<[config |-> partial(S), parents |-> 1]>> \o squash :
                                S \in SUBSET Settings}

NewTask(p) == [pr |-> p, id |-> count.started, step |-> "start", todo |-> {}, failed |-> FALSE]

\* The merge, and the task that its webhook schedules.
Merge(p) ==
    /\ Mergeable(p)
    /\ \E method \in Methods : \E commits \in Commits(p, method) :
          /\ main' = main \o commits
          /\ prs' = [prs EXCEPT ![p].merged = Len(main')]
    /\ tasks' = tasks \cup {NewTask(p)}
    /\ count' = [count EXCEPT !.started = @ + 1]
    /\ UNCHANGED <<live, hist>>

\* "/otterdog apply" of an admin.
Retry(p) ==
    /\ prs[p].merged # 0
    /\ count.retries < MaxRetries
    /\ tasks' = tasks \cup {NewTask(p)}
    /\ count' = [count EXCEPT !.started = @ + 1, !.retries = @ + 1]
    /\ UNCHANGED <<main, prs, live, hist>>

-----------------------------------------------------------------------------
(* ApplyChangesTask.                                                       *)

Becomes(t, new) == tasks' = (tasks \ {t}) \cup {new}

\* Applied in the order of the merges, and nothing else is being applied.
InOrder(p) ==
    /\ \A t \in tasks : t.step \in {"plan", "write", "save"} => t.pr = p
    /\ \A q \in Prs \ {p} : prs[q].merged # 0 =>
          IF prs[q].merged < prs[p].merged
          THEN prs[q].apply = "completed"
          ELSE hist.written[q] = {}

\* _pre_execute: an apply that is on record as completed is not repeated.
CheckApply(t) ==
    /\ t.step = "start"
    /\ IF prs[t.pr].apply = "completed"
       THEN /\ tasks' = tasks \ {t}
            /\ UNCHANGED hist
       ELSE /\ Becomes(t, [t EXCEPT !.step = "plan"])
            /\ hist' = [hist EXCEPT !.orderly = @ /\ InOrder(t.pr)]
    /\ UNCHANGED <<main, prs, live, count>>

\* Mutant: always the commit before the head of the default branch.
BaseBeforeHead(p) == Len(main) - 1

\* Mutant: the head of the default branch, as for a validation.
BaseIsHead(p) == Len(main)

\* The base is the parent of the commit of the merge if that has one parent,
\* and else the commit before the head that the default branch has by now.
BaseOf(p) ==
    IF main[prs[p].merged].parents = 1 THEN prs[p].merged - 1 ELSE Len(main) - 1

\* Mutant: everything is written, changed or not.
Everything(new, old) == Settings

Differences(new, old) == {s \in Settings : new[s] # old[s]}

Plan(t) ==
    /\ t.step = "plan"
    /\ Becomes(t, [t EXCEPT !.step = "write",
                            !.todo = Differences(main[prs[t.pr].merged].config,
                                                 main[BaseOf(t.pr)].config)])
    /\ UNCHANGED <<main, prs, live, count, hist>>

\* handle_finish: the patches one by one; one that fails is counted, and the
\* others are applied all the same.
Write(t) ==
    /\ t.step = "write"
    /\ \E s \in t.todo :
          /\ live' = [live EXCEPT ![s] = main[prs[t.pr].merged].config[s]]
          /\ Becomes(t, [t EXCEPT !.todo = @ \ {s}])
          /\ hist' = [hist EXCEPT !.written[t.pr] = @ \cup {s}]
    /\ UNCHANGED <<main, prs, count>>

FailToWrite(t) ==
    /\ t.step = "write"
    /\ count.failures < MaxFailures
    /\ \E s \in t.todo : Becomes(t, [t EXCEPT !.todo = @ \ {s}, !.failed = TRUE])
    /\ count' = [count EXCEPT !.failures = @ + 1]
    /\ UNCHANGED <<main, prs, live, hist>>

Written(t) ==
    /\ t.step = "write"
    /\ t.todo = {}
    /\ Becomes(t, [t EXCEPT !.step = "save"])
    /\ UNCHANGED <<main, prs, live, count, hist>>

\* Mutant: failed patches do not count.
StatusRegardless(failed) == "completed"

StatusAfter(failed) == IF failed THEN "partially_applied" ELSE "completed"

\* _post_execute.
SaveApplyStatus(t) ==
    /\ t.step = "save"
    /\ prs' = [prs EXCEPT ![t.pr].apply = StatusAfter(t.failed)]
    /\ tasks' = tasks \ {t}
    /\ UNCHANGED <<main, live, count, hist>>

\* A call raises or the app restarts: the status is not saved.
Die(t) ==
    /\ count.failures < MaxFailures
    /\ count' = [count EXCEPT !.failures = @ + 1]
    /\ tasks' = tasks \ {t}
    /\ UNCHANGED <<main, prs, live, hist>>

-----------------------------------------------------------------------------
TaskStep(t) ==
    CheckApply(t) \/ Plan(t) \/ Write(t) \/ FailToWrite(t) \/ Written(t) \/ SaveApplyStatus(t)

Next ==
    \/ \E p \in Prs : Open(p) \/ Merge(p) \/ Retry(p)
    \/ \E t \in tasks : TaskStep(t) \/ Die(t)

Spec == Init /\ [][Next]_vars

-----------------------------------------------------------------------------
\* The values of the variables.
TypeOK ==
    /\ main \in Seq(Commit) /\ main # <<>>
    /\ prs \in [Prs -> Pr]
    /\ tasks \subseteq Task
    /\ live \in Config
    /\ count \in [started : Nat, retries : Nat, failures : Nat]
    /\ hist \in [written : [Prs -> SUBSET Settings], orderly : BOOLEAN]

\* A pull request that counts as completed had each of its changes written to
\* the live organization, although tasks overlap, fail, die and are repeated.
CompletedWasWritten ==
    \A p \in Prs : prs[p].apply = "completed" => Edited(prs[p].edit) \subseteq hist.written[p]

\* A setting changed by one merged pull request alone, which counts as completed,
\* is live as configured, whatever was applied in which order at the same time.
UncontestedIsInSync ==
    \A p \in Prs, s \in Settings :
        /\ prs[p].apply = "completed"
        /\ prs[p].edit[s] # Keep
        /\ \A q \in Prs \ {p} : prs[q].merged # 0 => prs[q].edit[s] = Keep
        => live[s] = HeadConfig[s]

\* If pull requests are applied in the order of their merges, one after the
\* other, and all of them are completed, the organization is as configured.
OrderlyIsInSync ==
    /\ hist.orderly
    /\ \A p \in Prs : prs[p].merged # 0 => prs[p].apply = "completed"
    => live = HeadConfig

\* Live settings only take values from commits that changed them.
Abstract == INSTANCE LiveFollowsHistory WITH
              Configs <- Config,
              history <- [n \in 1 .. Len(main) |-> main[n].config]

ImplementsLiveFollowsHistory == Abstract!Spec
=============================================================================
